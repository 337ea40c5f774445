---------------------------- MODULE Rcfile_proofs ----------------------------
(***************************************************************************)
(* What rcfile_read makes of any file are sites of the right types, and    *)
(* what rcfile_verify accepts is fit for the engine, for every file, every *)
(* way to write its lines and every LINESIZE.                              *)
(***************************************************************************)
EXTENDS Rcfile, Folds_lemmas, SequenceTheorems

\* The symbols that texts are made of, and those that the code adds to them.
Symbol == STRING \cup {" ", "#", "\n", "\"", "\\", "/", "why", "ftp", "ssh", "scp", "from netrc"}

-----------------------------------------------------------------------------
(* One line                                                                *)

LexStates == {"start", "key", "gap", "value", "gap 2", "value 2", "quoted", "quoted 2",
              "ignored", "literal"}

\* The state of the automaton: three words and the one that it is in.
Words == [state : LexStates, into : {"key", "val", "val2"},
          key : Seq(Symbol), val : Seq(Symbol), val2 : Seq(Symbol)]

\* One character leaves words.
LEMMA LexCharTyped ==
  ASSUME NEW l \in Words, NEW ch \in Symbol
  PROVE  lex_char(l, ch) \in Words
<1>1. \A to \in LexStates : [l EXCEPT !.state = to] \in Words
  BY DEF Words
<1>2. \A to \in LexStates : [l EXCEPT !.state = to, ![l.into] = Append(@, ch)] \in Words
  <2>1. TAKE to \in LexStates
  <2>2. l.into \in {"key", "val", "val2"} /\ \A w \in Seq(Symbol) : Append(w, ch) \in Seq(Symbol)
    BY DEF Words
  <2>3. CASE l.into = "key"
    BY <2>2, <2>3 DEF Words
  <2>4. CASE l.into = "val"
    BY <2>2, <2>4 DEF Words
  <2>5. CASE l.into = "val2"
    BY <2>2, <2>5 DEF Words
  <2>6. QED
    BY <2>2, <2>3, <2>4, <2>5
<1>3. \A into \in {"key", "val", "val2"}, to \in LexStates : [l EXCEPT !.state = to, !.into = into] \in Words
  BY DEF Words
<1>4. l.state \in LexStates
  BY DEF Words
<1>5. QED
  BY <1>1, <1>2, <1>3, <1>4 DEF lex_char, LexStates

\* What lexed does with the characters up to each position.
Lexes(text, h) ==
  h = [S \in SUBSET (DOMAIN text) |->
         IF S = {} THEN NoWords ELSE lex_char(h[S \ {Max(S)}], text[Max(S)])]

\* A line, or a part of one, is split into words.
LEMMA LexedTyped ==
  ASSUME NEW text \in Seq(Symbol)
  PROVE  lexed(text) \in Words
<1> DEFINE n == Len(text)
           G == [p \in Words \X (1 .. n) |-> lex_char(p[1], text[p[2]])]
           f == CHOOSE f : Lexes(text, f)
<1>1. n \in Nat /\ DOMAIN text = 1 .. n /\ \A i \in 1 .. n : text[i] \in Symbol
  OBVIOUS
<1>2. NoWords \in Words
  BY DEF NoWords, Words, LexStates
<1>3. G \in [Words \X (1 .. n) -> Words]
  BY <1>1, LexCharTyped
<1>4. \E h : Lexes(text, h)
  <2>1. PICK g : g = G
    OBVIOUS
  <2>2. g \in [Words \X (1 .. n) -> Words]
    BY <1>3, <2>1
  <2>3. PICK h \in [SUBSET (1 .. n) -> Words] : Turns(n, NoWords, g, h)
    <3> HIDE DEF n, G
    <3> QED BY <1>1, <1>2, <2>2, FoldExists
  <2>4. \A S \in SUBSET (1 .. n) :
          h[S] = IF S = {} THEN NoWords ELSE lex_char(h[S \ {Max(S)}], text[Max(S)])
    <3>1. TAKE S \in SUBSET (1 .. n)
    <3>2. h[S] = IF S = {} THEN NoWords ELSE g[<<h[S \ {Max(S)}], Max(S)>>]
      BY <2>3 DEF Turns
    <3>3. CASE S # {}
      <4>1. Max(S) \in S /\ S \ {Max(S)} \in SUBSET (1 .. n)
        BY <1>1, <3>3, MaxInSet
      <4>2. <<h[S \ {Max(S)}], Max(S)>> \in Words \X (1 .. n)
        BY <2>3, <4>1
      <4>3. QED
        BY <2>1, <3>2, <3>3, <4>2
    <3>4. QED
      BY <3>2, <3>3
  <2>5. Lexes(text, h)
    BY <1>1, <2>3, <2>4 DEF Lexes
  <2>6. QED
    BY <2>5
<1>5. Lexes(text, f)
  BY <1>4
<1>6. lexed(text) = f[DOMAIN text]
  BY DEF lexed, FoldLeft, MapThenFoldSet, Lexes
<1>7. PICK h : h = f
  OBVIOUS
<1>8. Lexes(text, h) /\ lexed(text) = h[1 .. n]
  BY <1>1, <1>5, <1>6, <1>7
<1> HIDE DEF f, G
<1>9. h[{}] = NoWords
  BY <1>8 DEF Lexes
<1>10. ASSUME NEW k \in 1 .. n, h[1 .. (k - 1)] \in Words PROVE h[1 .. k] \in Words
  <2>1. /\ 1 .. k \in SUBSET (1 .. n) /\ 1 .. k # {} /\ Max(1 .. k) = k
        /\ (1 .. k) \ {k} = 1 .. (k - 1)
    BY <1>1, Segments
  <2>2. h[1 .. k] = lex_char(h[1 .. (k - 1)], text[k])
    BY <1>1, <1>8, <2>1 DEF Lexes
  <2>3. QED
    BY <1>1, <1>10, <2>2, LexCharTyped
<1> HIDE DEF n
<1>11. h[1 .. n] \in Words
  BY <1>1, <1>2, <1>9, <1>10, FoldIn
<1>12. QED
  BY <1>8, <1>11

-----------------------------------------------------------------------------
(* What a line sets                                                        *)

TextOrRoot == TextKeys \cup RootKeys

Switches == {"dirperms", "ftp_pasv_mode", "ftp_echo_quit", "ftp_use_cwd", "http_use_expect",
             "http_limit", "http_secure", "http_tolerant", "checkmoved", "checkrenames",
             "nodelete", "nooverwrite", "lowercase", "safemode", "tempupload"}

\* The values of the members of struct site.
Text == [TextOrRoot -> Seq(Symbol)]
Rel  == [RootKeys -> BOOLEAN]
Pats == [ListKeys -> Seq(Seq(Symbol))]

Members == Switches \cup {"perms", "symlinks", "protocol", "state_method", "name",
                          "proto_string", "text", "isrel", "list"}
MemberValues ==
  BOOLEAN \cup {"ignore", "exec", "all", "follow", "maintain", "checksum", "timesize", "unknown"}
    \cup Protocols \cup Seq(Symbol) \cup Text \cup Rel \cup Pats

\* A site, whatever the file says of it: moves are only looked for by name when
\* they are looked for at all, and a root ends in a slash.
Site ==
  {s \in [Members -> MemberValues] :
     /\ \A m \in Switches : s[m] \in BOOLEAN
     /\ s.protocol \in Protocols \cup {"unknown"} /\ s.state_method \in {"checksum", "timesize"}
     /\ s.perms \in {"ignore", "exec", "all"} /\ s.symlinks \in {"ignore", "follow", "maintain"}
     /\ s.name \in Seq(Symbol) /\ s.proto_string \in Seq(Symbol)
     /\ s.text \in Text /\ s.isrel \in Rel /\ s.list \in Pats
     /\ s.checkrenames => s.checkmoved
     /\ \A k \in RootKeys : /\ s.text[k] # << >> => Last(s.text[k]) \in {"/", "~/"}
                            /\ s.isrel[k] => s.text[k] # << >>}

\* The site that everything begins with.
LEMMA InitialSiteTyped == InitialSite \in Site
<1>1. <<>> \in Seq(Symbol) /\ <<"ftp">> \in Seq(Symbol) /\ <<>> \in Seq(Seq(Symbol))
  <2>1. "ftp" \in Symbol
    BY DEF Symbol
  <2>2. QED
    BY <2>1
<1>2. /\ [k \in TextKeys \cup RootKeys |-> <<>>] \in Text
      /\ [k \in RootKeys |-> FALSE] \in Rel
      /\ [k \in ListKeys |-> <<>>] \in Pats
  BY <1>1 DEF Text, Rel, Pats, TextOrRoot
<1>3. InitialSite = [m \in Members |-> InitialSite[m]]
  BY DEF InitialSite, Members, Switches
<1>4. \A m \in Switches : InitialSite[m] \in BOOLEAN
  <2>1. /\ InitialSite.dirperms = FALSE /\ InitialSite.ftp_pasv_mode = TRUE
        /\ InitialSite.ftp_echo_quit = FALSE /\ InitialSite.ftp_use_cwd = FALSE
        /\ InitialSite.http_use_expect = FALSE /\ InitialSite.http_limit = FALSE
        /\ InitialSite.http_secure = FALSE /\ InitialSite.http_tolerant = FALSE
        /\ InitialSite.checkmoved = FALSE /\ InitialSite.checkrenames = FALSE
        /\ InitialSite.nodelete = FALSE /\ InitialSite.nooverwrite = FALSE
        /\ InitialSite.lowercase = FALSE /\ InitialSite.safemode = FALSE
        /\ InitialSite.tempupload = FALSE
    BY DEF InitialSite
  <2>2. QED
    BY <2>1 DEF Switches
<1>5. /\ InitialSite.perms = "ignore" /\ InitialSite.symlinks = "follow"
      /\ InitialSite.protocol = "ftp" /\ InitialSite.state_method = "timesize"
      /\ InitialSite.name = <<>> /\ InitialSite.proto_string = <<"ftp">>
      /\ InitialSite.text = [k \in TextKeys \cup RootKeys |-> <<>>]
      /\ InitialSite.isrel = [k \in RootKeys |-> FALSE]
      /\ InitialSite.list = [k \in ListKeys |-> <<>>]
      /\ InitialSite.checkrenames = FALSE
  BY DEF InitialSite
<1> HIDE DEF InitialSite
<1>6. \A m \in Members : InitialSite[m] \in MemberValues
  <2>1. \A m \in {"perms", "symlinks", "protocol", "state_method"} : InitialSite[m] \in MemberValues
    BY <1>5 DEF MemberValues, Protocols
  <2>2. InitialSite.name \in Seq(Symbol) /\ InitialSite.proto_string \in Seq(Symbol)
    BY <1>1, <1>5
  <2>3. InitialSite.text \in Text /\ InitialSite.isrel \in Rel /\ InitialSite.list \in Pats
    BY <1>2, <1>5
  <2>4. QED
    BY <1>4, <2>1, <2>2, <2>3 DEF Members, MemberValues
<1>7. InitialSite \in [Members -> MemberValues]
  BY <1>3, <1>6
<1>8. \A k \in RootKeys : InitialSite.text[k] = <<>> /\ ~InitialSite.isrel[k]
  BY <1>5
<1>9. QED
  BY <1>1, <1>2, <1>4, <1>5, <1>7, <1>8 DEF Site, Protocols

\* What a choice of values may set.
ChoiceOK(c) ==
  /\ DOMAIN c \subseteq Switches \cup {"perms", "symlinks", "state_method"}
  /\ \A m \in DOMAIN c : m \in Switches => c[m] \in BOOLEAN
  /\ "perms" \in DOMAIN c => c.perms \in {"ignore", "exec", "all"}
  /\ "symlinks" \in DOMAIN c => c.symlinks \in {"ignore", "follow", "maintain"}
  /\ "state_method" \in DOMAIN c => c.state_method \in {"checksum", "timesize"}
  /\ "checkmoved" \in DOMAIN c => c.checkmoved
  /\ "checkrenames" \in DOMAIN c => "checkmoved" \in DOMAIN c

\* The tables have only such choices.
LEMMA AlternativesOK ==
  ASSUME NEW key \in DOMAIN Alternatives, NEW v \in DOMAIN Alternatives[key]
  PROVE  ChoiceOK(Alternatives[key][v])
<1>0. PICK c : c = Alternatives[key][v]
  OBVIOUS
<1>1. /\ {"perms", "symlinks", "state_method"} \cap Switches = {}
      /\ {"dirperms", "ftp_pasv_mode", "ftp_echo_quit", "ftp_use_cwd", "http_use_expect",
          "http_limit", "http_secure", "http_tolerant", "checkmoved", "checkrenames"} \subseteq Switches
  BY DEF Switches
<1>2. key \in {"permissions", "symlinks", "ftp", "http", "state", "checkmoved"}
  BY DEF Alternatives
<1>3. CASE key = "permissions"
  <2>1. v \in {"ignore", "exec", "all", "dir"}
    BY <1>3 DEF Alternatives
  <2>2. CASE v = "ignore"
    <3>1. DOMAIN c = {"perms", "dirperms"} /\ c.perms = "ignore" /\ c.dirperms = FALSE
      BY <1>0, <1>3, <2>2 DEF Alternatives
    <3>2. ChoiceOK(c)
      BY <1>1, <3>1 DEF ChoiceOK
    <3>3. QED
      BY <1>0, <3>2
  <2>3. CASE v = "exec"
    <3>1. DOMAIN c = {"perms"} /\ c.perms = "exec"
      BY <1>0, <1>3, <2>3 DEF Alternatives
    <3>2. ChoiceOK(c)
      BY <1>1, <3>1 DEF ChoiceOK
    <3>3. QED
      BY <1>0, <3>2
  <2>4. CASE v = "all"
    <3>1. DOMAIN c = {"perms"} /\ c.perms = "all"
      BY <1>0, <1>3, <2>4 DEF Alternatives
    <3>2. ChoiceOK(c)
      BY <1>1, <3>1 DEF ChoiceOK
    <3>3. QED
      BY <1>0, <3>2
  <2>5. CASE v = "dir"
    <3>1. DOMAIN c = {"dirperms"} /\ c.dirperms = TRUE
      BY <1>0, <1>3, <2>5 DEF Alternatives
    <3>2. ChoiceOK(c)
      BY <1>1, <3>1 DEF ChoiceOK
    <3>3. QED
      BY <1>0, <3>2
  <2>6. QED
    BY <2>1, <2>2, <2>3, <2>4, <2>5
<1>4. CASE key = "symlinks"
  <2>1. v \in {"follow", "maintain", "ignore"}
    BY <1>4 DEF Alternatives
  <2>2. CASE v = "follow"
    <3>1. DOMAIN c = {"symlinks"} /\ c.symlinks = "follow"
      BY <1>0, <1>4, <2>2 DEF Alternatives
    <3>2. ChoiceOK(c)
      BY <1>1, <3>1 DEF ChoiceOK
    <3>3. QED
      BY <1>0, <3>2
  <2>3. CASE v = "maintain"
    <3>1. DOMAIN c = {"symlinks"} /\ c.symlinks = "maintain"
      BY <1>0, <1>4, <2>3 DEF Alternatives
    <3>2. ChoiceOK(c)
      BY <1>1, <3>1 DEF ChoiceOK
    <3>3. QED
      BY <1>0, <3>2
  <2>4. CASE v = "ignore"
    <3>1. DOMAIN c = {"symlinks"} /\ c.symlinks = "ignore"
      BY <1>0, <1>4, <2>4 DEF Alternatives
    <3>2. ChoiceOK(c)
      BY <1>1, <3>1 DEF ChoiceOK
    <3>3. QED
      BY <1>0, <3>2
  <2>5. QED
    BY <2>1, <2>2, <2>3, <2>4
<1>5. CASE key = "ftp"
  <2>1. v \in {"nopasv", "showquit", "usecwd", "nousecwd"}
    BY <1>5 DEF Alternatives
  <2>2. CASE v = "nopasv"
    <3>1. DOMAIN c = {"ftp_pasv_mode"} /\ c.ftp_pasv_mode = FALSE
      BY <1>0, <1>5, <2>2 DEF Alternatives
    <3>2. ChoiceOK(c)
      BY <1>1, <3>1 DEF ChoiceOK
    <3>3. QED
      BY <1>0, <3>2
  <2>3. CASE v = "showquit"
    <3>1. DOMAIN c = {"ftp_echo_quit"} /\ c.ftp_echo_quit = TRUE
      BY <1>0, <1>5, <2>3 DEF Alternatives
    <3>2. ChoiceOK(c)
      BY <1>1, <3>1 DEF ChoiceOK
    <3>3. QED
      BY <1>0, <3>2
  <2>4. CASE v = "usecwd"
    <3>1. DOMAIN c = {"ftp_use_cwd"} /\ c.ftp_use_cwd = TRUE
      BY <1>0, <1>5, <2>4 DEF Alternatives
    <3>2. ChoiceOK(c)
      BY <1>1, <3>1 DEF ChoiceOK
    <3>3. QED
      BY <1>0, <3>2
  <2>5. CASE v = "nousecwd"
    <3>1. DOMAIN c = {"ftp_use_cwd"} /\ c.ftp_use_cwd = FALSE
      BY <1>0, <1>5, <2>5 DEF Alternatives
    <3>2. ChoiceOK(c)
      BY <1>1, <3>1 DEF ChoiceOK
    <3>3. QED
      BY <1>0, <3>2
  <2>6. QED
    BY <2>1, <2>2, <2>3, <2>4, <2>5
<1>6. CASE key = "http"
  <2>1. v \in {"expect", "limit", "secure", "tolerant"}
    BY <1>6 DEF Alternatives
  <2>2. CASE v = "expect"
    <3>1. DOMAIN c = {"http_use_expect"} /\ c.http_use_expect = TRUE
      BY <1>0, <1>6, <2>2 DEF Alternatives
    <3>2. ChoiceOK(c)
      BY <1>1, <3>1 DEF ChoiceOK
    <3>3. QED
      BY <1>0, <3>2
  <2>3. CASE v = "limit"
    <3>1. DOMAIN c = {"http_limit"} /\ c.http_limit = TRUE
      BY <1>0, <1>6, <2>3 DEF Alternatives
    <3>2. ChoiceOK(c)
      BY <1>1, <3>1 DEF ChoiceOK
    <3>3. QED
      BY <1>0, <3>2
  <2>4. CASE v = "secure"
    <3>1. DOMAIN c = {"http_secure"} /\ c.http_secure = TRUE
      BY <1>0, <1>6, <2>4 DEF Alternatives
    <3>2. ChoiceOK(c)
      BY <1>1, <3>1 DEF ChoiceOK
    <3>3. QED
      BY <1>0, <3>2
  <2>5. CASE v = "tolerant"
    <3>1. DOMAIN c = {"http_tolerant"} /\ c.http_tolerant = TRUE
      BY <1>0, <1>6, <2>5 DEF Alternatives
    <3>2. ChoiceOK(c)
      BY <1>1, <3>1 DEF ChoiceOK
    <3>3. QED
      BY <1>0, <3>2
  <2>6. QED
    BY <2>1, <2>2, <2>3, <2>4, <2>5
<1>7. CASE key = "state"
  <2>1. v \in {"checksum", "timesize"}
    BY <1>7 DEF Alternatives
  <2>2. CASE v = "checksum"
    <3>1. DOMAIN c = {"state_method"} /\ c.state_method = "checksum"
      BY <1>0, <1>7, <2>2 DEF Alternatives
    <3>2. ChoiceOK(c)
      BY <1>1, <3>1 DEF ChoiceOK
    <3>3. QED
      BY <1>0, <3>2
  <2>3. CASE v = "timesize"
    <3>1. DOMAIN c = {"state_method"} /\ c.state_method = "timesize"
      BY <1>0, <1>7, <2>3 DEF Alternatives
    <3>2. ChoiceOK(c)
      BY <1>1, <3>1 DEF ChoiceOK
    <3>3. QED
      BY <1>0, <3>2
  <2>4. QED
    BY <2>1, <2>2, <2>3
<1>8. CASE key = "checkmoved"
  <2>1. v \in {"renames"}
    BY <1>8 DEF Alternatives
  <2>2. CASE v = "renames"
    <3>1. DOMAIN c = {"checkrenames", "checkmoved"} /\ c.checkrenames = TRUE /\ c.checkmoved = TRUE
      BY <1>0, <1>8, <2>2 DEF Alternatives
    <3>2. ChoiceOK(c)
      BY <1>1, <3>1 DEF ChoiceOK
    <3>3. QED
      BY <1>0, <3>2
  <2>3. QED
    BY <2>1, <2>2
<1>9. QED
  BY <1>2, <1>3, <1>4, <1>5, <1>6, <1>7, <1>8

\* A choice leaves a site.
LEMMA ChosenTyped ==
  ASSUME NEW s \in Site, NEW c, ChoiceOK(c)
  PROVE  chosen(s, c) \in Site
<1> DEFINE t == chosen(s, c)
<1>1. s \in [Members -> MemberValues] /\ DOMAIN s = Members
  BY DEF Site
<1>2. t = [m \in Members |-> IF m \in DOMAIN c THEN c[m] ELSE s[m]]
  BY <1>1 DEF chosen
<1>3. \A m \in {"protocol", "name", "proto_string", "text", "isrel", "list"} : t[m] = s[m]
  BY <1>2 DEF ChoiceOK, Members, Switches
<1>4. \A m \in Switches : t[m] \in BOOLEAN
  BY <1>2 DEF ChoiceOK, Members, Site
<1>5. /\ t.perms \in {"ignore", "exec", "all"} /\ t.symlinks \in {"ignore", "follow", "maintain"}
      /\ t.state_method \in {"checksum", "timesize"}
  BY <1>2 DEF ChoiceOK, Members, Site
<1>6. t.checkrenames => t.checkmoved
  BY <1>2 DEF ChoiceOK, Members, Switches, Site
<1>7. t \in [Members -> MemberValues]
  <2>1. ASSUME NEW m \in Members PROVE t[m] \in MemberValues
    <3>1. CASE m \in Switches
      BY <1>4, <3>1 DEF MemberValues
    <3>2. CASE m \in {"perms", "symlinks", "state_method"}
      <4>1. t[m] \in {"ignore", "exec", "all", "follow", "maintain", "checksum", "timesize"}
        BY <1>5, <3>2
      <4>2. QED
        BY <4>1 DEF MemberValues
    <3>3. CASE m \in {"protocol", "name", "proto_string", "text", "isrel", "list"}
      <4>1. t[m] = s[m]
        BY <1>3, <3>3
      <4>2. QED
        BY <1>1, <4>1
    <3>4. QED
      BY <3>1, <3>2, <3>3 DEF Members
  <2>2. QED
    BY <1>2, <2>1
<1> HIDE DEF t
<1>8. QED
  <2>1. t \in Site
    BY <1>3, <1>4, <1>5, <1>6, <1>7 DEF Site
  <2>2. QED
    BY <2>1 DEF t

\* A member of a site, with another value of its kind.
LEMMA SwitchSet ==
  ASSUME NEW s \in Site, NEW m \in Switches \ {"checkrenames"}
  PROVE  [s EXCEPT ![m] = TRUE] \in Site
<1> DEFINE t == [s EXCEPT ![m] = TRUE]
<1>1. s \in [Members -> MemberValues] /\ m \in Members
  BY DEF Site, Members
<1>2. t \in [Members -> MemberValues] /\ \A k \in Members \ {m} : t[k] = s[k]
  BY <1>1 DEF MemberValues
<1>3. t[m] = TRUE
  BY <1>1
<1>4. {"protocol", "state_method", "perms", "symlinks", "name", "proto_string", "text", "isrel",
       "list"} \subseteq Members \ {m}
  BY DEF Members, Switches
<1>5. \A k \in Switches : t[k] \in BOOLEAN
  BY <1>2, <1>3 DEF Site, Members
<1>6. t.checkrenames => t.checkmoved
  BY <1>2, <1>3 DEF Site, Members, Switches
<1> HIDE DEF t
<1>7. t \in Site
  BY <1>2, <1>4, <1>5, <1>6 DEF Site
<1>8. QED
  BY <1>7 DEF t

\* What a site may be made of the texts and roots of another one.
RootsOK(text, isrel) ==
  \A k \in RootKeys : /\ text[k] # <<>> => Last(text[k]) \in {"/", "~/"}
                      /\ isrel[k] => text[k] # <<>>

\* A site t that is s but for its texts, roots, lists, names and protocol.
LEMMA TextsSet ==
  ASSUME NEW s \in Site, NEW t, DOMAIN t = Members, t = [m \in Members |-> t[m]],
         \A m \in Switches \cup {"perms", "symlinks", "state_method"} : t[m] = s[m],
         t.protocol \in Protocols \cup {"unknown"}, t.name \in Seq(Symbol),
         t.proto_string \in Seq(Symbol), t.text \in Text, t.isrel \in Rel, t.list \in Pats,
         RootsOK(t.text, t.isrel)
  PROVE  t \in Site
<1>1. \A m \in Members : t[m] \in MemberValues
  <2>1. \A m \in Switches \cup {"perms", "symlinks", "state_method"} : t[m] \in MemberValues
    BY DEF Site, Members
  <2>2. t.protocol \in MemberValues
    BY DEF MemberValues
  <2>3. /\ t.name \in MemberValues /\ t.proto_string \in MemberValues /\ t.text \in MemberValues
        /\ t.isrel \in MemberValues /\ t.list \in MemberValues
    BY DEF MemberValues
  <2>4. QED
    BY <2>1, <2>2, <2>3 DEF Members
<1>2. t \in [Members -> MemberValues]
  BY <1>1
<1>3. \A m \in Switches : t[m] \in BOOLEAN
  BY DEF Site
<1>4. /\ t.state_method \in {"checksum", "timesize"}
      /\ t.perms \in {"ignore", "exec", "all"} /\ t.symlinks \in {"ignore", "follow", "maintain"}
  BY DEF Site
<1>5. t.checkrenames => t.checkmoved
  BY DEF Site, Switches
<1>6. QED
  BY <1>2, <1>3, <1>4, <1>5 DEF Site, RootsOK

\* A text that is no root.
LEMMA TextSet ==
  ASSUME NEW s \in Site, NEW key \in TextKeys, NEW val \in Seq(Symbol)
  PROVE  [s EXCEPT !.text[key] = val] \in Site
<1> DEFINE t == [s EXCEPT !.text[key] = val]
<1>1. s \in [Members -> MemberValues] /\ s.text \in Text /\ s.isrel \in Rel
  BY DEF Site
<1>2. t = [m \in Members |-> IF m = "text" THEN [s.text EXCEPT ![key] = val] ELSE s[m]]
  BY <1>1
<1>3. t.text \in Text /\ \A k \in RootKeys : t.text[k] = s.text[k]
  BY <1>1, <1>2 DEF Text, TextOrRoot, TextKeys, RootKeys, Members
<1>4. \A m \in Members \ {"text"} : t[m] = s[m]
  BY <1>2
<1>5. RootsOK(t.text, t.isrel)
  BY <1>3, <1>4 DEF RootsOK, Site, Members
<1> HIDE DEF t
<1>6. t \in Site
  <2>1. DOMAIN t = Members /\ t = [m \in Members |-> t[m]]
    BY <1>2
  <2>2. /\ \A m \in Switches \cup {"perms", "symlinks", "state_method"} : t[m] = s[m]
        /\ t.protocol = s.protocol /\ t.name = s.name /\ t.proto_string = s.proto_string
        /\ t.isrel = s.isrel /\ t.list = s.list
    BY <1>4 DEF Members, Switches
  <2>3. /\ s.protocol \in Protocols \cup {"unknown"} /\ s.name \in Seq(Symbol)
        /\ s.proto_string \in Seq(Symbol) /\ s.isrel \in Rel /\ s.list \in Pats
    BY DEF Site
  <2>4. QED
    BY <1>3, <1>5, <2>1, <2>2, <2>3, TextsSet
<1>7. QED
  BY <1>6 DEF t

\* A root ends in a slash.
LEMMA SetRootTyped ==
  ASSUME NEW s \in Site, NEW key \in RootKeys, NEW val \in Seq(Symbol), val # <<>>
  PROVE  set_root(s, key, val) \in Site
<1> DEFINE t == set_root(s, key, val)
           root == IF Last(val) \in {"/", "~/"} THEN val ELSE Append(val, "/")
<1>1. s \in [Members -> MemberValues] /\ s.text \in Text /\ s.isrel \in Rel
  BY DEF Site
<1>2. t = [m \in Members |-> IF m = "text" THEN [s.text EXCEPT ![key] = root]
                             ELSE IF m = "isrel" THEN [s.isrel EXCEPT ![key] = (Head(val) = "~/")]
                             ELSE s[m]]
  BY <1>1 DEF set_root
<1>3. root \in Seq(Symbol) /\ root # <<>> /\ Last(root) \in {"/", "~/"}
  <2>1. "/" \in Symbol
    BY DEF Symbol
  <2>2. /\ Append(val, "/") \in Seq(Symbol) /\ Append(val, "/") # <<>>
        /\ Append(val, "/")[Len(Append(val, "/"))] = "/"
    BY <2>1
  <2>3. QED
    BY <2>2 DEF Last
<1>4. t.text \in Text /\ t.isrel \in Rel
  BY <1>1, <1>2, <1>3 DEF Text, Rel, TextOrRoot, Members
<1>5. \A k \in RootKeys : t.text[k] = IF k = key THEN root ELSE s.text[k]
  BY <1>1, <1>2 DEF Text, TextOrRoot, Members
<1>6. \A k \in RootKeys \ {key} : t.isrel[k] = s.isrel[k]
  BY <1>1, <1>2 DEF Rel, Members
<1>7. \A m \in Members \ {"text", "isrel"} : t[m] = s[m]
  BY <1>2
<1> HIDE DEF root
<1>8. RootsOK(t.text, t.isrel)
  BY <1>3, <1>5, <1>6 DEF RootsOK, Site
<1> HIDE DEF t
<1>9. t \in Site
  <2>1. DOMAIN t = Members /\ t = [m \in Members |-> t[m]]
    BY <1>2
  <2>2. /\ \A m \in Switches \cup {"perms", "symlinks", "state_method"} : t[m] = s[m]
        /\ t.protocol = s.protocol /\ t.name = s.name /\ t.proto_string = s.proto_string
        /\ t.list = s.list
    BY <1>7 DEF Members, Switches
  <2>3. /\ s.protocol \in Protocols \cup {"unknown"} /\ s.name \in Seq(Symbol)
        /\ s.proto_string \in Seq(Symbol) /\ s.list \in Pats
    BY DEF Site
  <2>4. QED
    BY <1>4, <1>8, <2>1, <2>2, <2>3, TextsSet
<1>10. QED
  BY <1>9 DEF t

\* `protocol' sets the commands of rsh as well.
LEMMA SetProtocolTyped ==
  ASSUME NEW s \in Site, NEW val \in Seq(Symbol)
  PROVE  set_protocol(s, val) \in Site
<1> DEFINE t == set_protocol(s, val)
<1>1. s \in [Members -> MemberValues] /\ s.text \in Text
  BY DEF Site
<1>2. PICK rsh, rcp : /\ rsh \in Seq(Symbol) /\ rcp \in Seq(Symbol)
                      /\ t.text = [s.text EXCEPT !["rsh"] = rsh, !["rcp"] = rcp]
  <2>1. <<"ssh">> \in Seq(Symbol) /\ <<"scp">> \in Seq(Symbol)
    <3>1. "ssh" \in Symbol /\ "scp" \in Symbol
      BY DEF Symbol
    <3>2. QED
      BY <3>1
  <2>2. s.text["rsh"] \in Seq(Symbol) /\ s.text["rcp"] \in Seq(Symbol)
    BY <1>1 DEF Text, TextOrRoot, TextKeys
  <2>3. QED
    BY <1>1, <2>1, <2>2 DEF set_protocol, Members
<1>3. t.text \in Text /\ \A k \in RootKeys : t.text[k] = s.text[k]
  BY <1>1, <1>2, ZenonT(60) DEF Text, TextOrRoot, TextKeys, RootKeys
<1>4. t.protocol \in Protocols \cup {"unknown"}
  BY <1>1 DEF set_protocol, ProtocolNamed, Protocols, Members
<1>5. t.proto_string = val /\ \A m \in Members \ {"protocol", "proto_string", "text"} : t[m] = s[m]
  BY <1>1 DEF set_protocol, Members
<1>6. DOMAIN t = Members /\ t = [m \in Members |-> t[m]]
  BY <1>1 DEF set_protocol
<1> HIDE DEF t
<1>7. /\ \A m \in Switches \cup {"perms", "symlinks", "state_method"} : t[m] = s[m]
      /\ t.name = s.name /\ t.isrel = s.isrel /\ t.list = s.list
  BY <1>5 DEF Members, Switches
<1>8. /\ s.name \in Seq(Symbol) /\ s.isrel \in Rel /\ s.list \in Pats
  BY DEF Site
<1>9. RootsOK(t.text, t.isrel)
  BY <1>3, <1>7 DEF RootsOK, Site
<1>10. t \in Site
  BY <1>3, <1>4, <1>5, <1>6, <1>7, <1>8, <1>9, TextsSet
<1>11. QED
  BY <1>10 DEF t

\* Another pattern.
LEMMA PatternSet ==
  ASSUME NEW s \in Site, NEW key \in ListKeys, NEW val \in Seq(Symbol)
  PROVE  [s EXCEPT !.list[key] = <<val>> \o @] \in Site
<1> DEFINE t == [s EXCEPT !.list[key] = <<val>> \o @]
<1>1. s \in [Members -> MemberValues] /\ s.list \in Pats
  BY DEF Site
<1>2. PICK L : L = [s.list EXCEPT ![key] = <<val>> \o @]
  OBVIOUS
<1>3. L \in Pats
  <2>1. s.list[key] \in Seq(Seq(Symbol))
    BY <1>1 DEF Pats
  <2>2. <<val>> \o s.list[key] \in Seq(Seq(Symbol))
    BY <2>1
  <2>3. QED
    BY <1>1, <1>2, <2>2 DEF Pats
<1>4. t = [m \in Members |-> IF m = "list" THEN L ELSE s[m]]
  BY <1>1, <1>2
<1> HIDE DEF t
<1>5. t.list \in Pats /\ \A m \in Members \ {"list"} : t[m] = s[m]
  BY <1>3, <1>4 DEF Members
<1>6. DOMAIN t = Members /\ t = [m \in Members |-> t[m]]
  BY <1>4
<1>7. /\ \A m \in Switches \cup {"perms", "symlinks", "state_method"} : t[m] = s[m]
      /\ t.name = s.name /\ t.isrel = s.isrel /\ t.text = s.text /\ t.protocol = s.protocol
      /\ t.proto_string = s.proto_string
  BY <1>5 DEF Members, Switches
<1>8. /\ s.protocol \in Protocols \cup {"unknown"} /\ s.name \in Seq(Symbol)
      /\ s.proto_string \in Seq(Symbol) /\ s.isrel \in Rel /\ s.text \in Text
  BY DEF Site
<1>9. RootsOK(t.text, t.isrel)
  BY <1>7 DEF RootsOK, Site
<1>10. t \in Site
  BY <1>5, <1>6, <1>7, <1>8, <1>9, TextsSet
<1>11. QED
  BY <1>10 DEF t

\* The name of a site.
LEMMA NameSet ==
  ASSUME NEW s \in Site, NEW val \in Seq(Symbol)
  PROVE  [s EXCEPT !.name = val] \in Site
<1> DEFINE t == [s EXCEPT !.name = val]
<1>1. s \in [Members -> MemberValues]
  BY DEF Site
<1>2. t = [m \in Members |-> IF m = "name" THEN val ELSE s[m]]
  BY <1>1
<1> HIDE DEF t
<1>3. t.name = val /\ \A m \in Members \ {"name"} : t[m] = s[m]
  BY <1>2 DEF Members
<1>4. DOMAIN t = Members /\ t = [m \in Members |-> t[m]]
  BY <1>2
<1>5. /\ \A m \in Switches \cup {"perms", "symlinks", "state_method"} : t[m] = s[m]
      /\ t.list = s.list /\ t.isrel = s.isrel /\ t.text = s.text /\ t.protocol = s.protocol
      /\ t.proto_string = s.proto_string
  BY <1>3 DEF Members, Switches
<1>6. /\ s.protocol \in Protocols \cup {"unknown"} /\ s.list \in Pats
      /\ s.proto_string \in Seq(Symbol) /\ s.isrel \in Rel /\ s.text \in Text
  BY DEF Site
<1>7. RootsOK(t.text, t.isrel)
  BY <1>5 DEF RootsOK, Site
<1>8. t \in Site
  BY <1>3, <1>4, <1>5, <1>6, <1>7, TextsSet
<1>9. QED
  BY <1>8 DEF t

\* A line with a key and a value changes a site into one.
LEMMA SetTyped ==
  ASSUME NEW s \in Site, NEW key, NEW val \in Seq(Symbol), val # <<>>, CanSet(key, val)
  PROVE  set(s, key, val) \in Site
<1>1. CASE key \in TextKeys
  BY <1>1, TextSet DEF set, TextKeys, RootKeys, ListKeys, Alternatives
<1>2. CASE key \in RootKeys
  BY <1>2, SetRootTyped DEF set, TextKeys, RootKeys, ListKeys, Alternatives
<1>3. CASE key \in ListKeys
  BY <1>3, PatternSet DEF set, TextKeys, RootKeys, ListKeys, Alternatives
<1>4. CASE key = "protocol"
  BY <1>4, SetProtocolTyped DEF set, TextKeys, RootKeys, ListKeys, Alternatives
<1>5. CASE key = "charset"
  BY <1>5 DEF set, TextKeys, RootKeys, ListKeys, Alternatives
<1>6. CASE key \in DOMAIN Alternatives
  <2>1. key \notin TextKeys \cup RootKeys \cup ListKeys \cup {"protocol", "charset"}
    BY <1>6 DEF TextKeys, RootKeys, ListKeys, Alternatives
  <2>2. AsKey(val) \in DOMAIN Alternatives[key]
    BY <1>6, <2>1 DEF CanSet
  <2>3. set(s, key, val) = chosen(s, Alternatives[key][AsKey(val)])
    BY <1>6, <2>1, <2>2 DEF set
  <2>4. PICK c : c = Alternatives[key][AsKey(val)]
    OBVIOUS
  <2>5. ChoiceOK(c)
    BY <1>6, <2>2, <2>4, AlternativesOK
  <2>6. QED
    BY <2>3, <2>4, <2>5, ChosenTyped
<1>7. QED
  BY <1>1, <1>2, <1>3, <1>4, <1>5, <1>6 DEF CanSet

-----------------------------------------------------------------------------
(* rcfile_read                                                             *)

\* The state of the reader: this_site is none, the default site, or in the list.
Reading ==
  {r \in [sites : Seq(Site), defaults : Site, this : Int, ret : {"ok", "corrupt"}] :
     r.this \in NoSite .. Len(r.sites)}

\* The reader begins in such a state.
LEMMA NothingReadTyped == NothingRead \in Reading
<1>1. <<>> \in Seq(Site) /\ Len(<<>>) = 0
  OBVIOUS
<1>2. QED
  BY <1>1, InitialSiteTyped DEF NothingRead, Reading, NoSite

\* What is corrupt is still a list of sites.
LEMMA CorruptTyped ==
  ASSUME NEW r \in Reading
  PROVE  Corrupt(r) \in Reading
BY DEF Corrupt, Reading

\* this_site points to a site, and an assignment to it leaves sites.
LEMMA AssignTyped ==
  ASSUME NEW r \in Reading, r.this # NoSite, NEW s \in Site
  PROVE  This(r) \in Site /\ Assign(r, s) \in Reading
<1>1. CASE r.this = DefaultSite
  BY <1>1 DEF Reading, This, Assign, DefaultSite, NoSite
<1>2. CASE r.this # DefaultSite
  <2>1. r.sites \in Seq(Site) /\ r.this \in 1 .. Len(r.sites)
    BY <1>2 DEF Reading, DefaultSite, NoSite
  <2>2. PICK q : q = [r.sites EXCEPT ![r.this] = s]
    OBVIOUS
  <2>3. q \in Seq(Site) /\ Len(q) = Len(r.sites)
    BY <2>1, <2>2
  <2>4. Assign(r, s) = [r EXCEPT !.sites = q]
    BY <1>2, <2>1, <2>2 DEF Assign, Reading
  <2>5. [r EXCEPT !.sites = q] \in Reading
    BY <2>3 DEF Reading
  <2>6. This(r) \in Site
    BY <1>2, <2>1 DEF This
  <2>7. QED
    BY <2>4, <2>5, <2>6
<1>3. QED
  BY <1>1, <1>2

\* A line with a key alone.
LEMMA KeyAloneTyped ==
  ASSUME NEW r \in Reading, NEW key
  PROVE  key_alone(r, key) \in Reading
<1>1. CASE r.this = NoSite
  <2>1. [r EXCEPT !.this = DefaultSite] \in Reading
    BY DEF Reading, DefaultSite, NoSite
  <2>2. QED
    BY <1>1, <2>1, CorruptTyped DEF key_alone
<1>2. CASE r.this # NoSite
  <2>1. CASE key \in DOMAIN Flags
    <3>1. Flags[key] \in Switches \ {"checkrenames"}
      BY <2>1 DEF Flags, Switches
    <3>2. This(r) \in Site
      BY <1>2, InitialSiteTyped, AssignTyped
    <3>3. [This(r) EXCEPT ![Flags[key]] = TRUE] \in Site
      BY <3>1, <3>2, SwitchSet
    <3>4. Assign(r, [This(r) EXCEPT ![Flags[key]] = TRUE]) \in Reading
      BY <1>2, <3>3, AssignTyped
    <3>5. QED
      BY <1>2, <2>1, <3>4 DEF key_alone
  <2>2. CASE key \notin DOMAIN Flags
    BY <1>2, <2>2, CorruptTyped DEF key_alone
  <2>3. QED
    BY <2>1, <2>2
<1>3. QED
  BY <1>1, <1>2

\* A line with a key and a value.
LEMMA KeyWithValueTyped ==
  ASSUME NEW r \in Reading, NEW key, NEW val \in Seq(Symbol), val # <<>>
  PROVE  key_with_value(r, key, val) \in Reading
<1>1. CASE key = "site"
  <2>1. new_site(r, val) \in Site
    BY NameSet DEF new_site, Reading
  <2>2. PICK q : q = Append(r.sites, new_site(r, val))
    OBVIOUS
  <2>3. q \in Seq(Site) /\ Len(q) = Len(r.sites) + 1 /\ Len(r.sites) \in Nat
    BY <2>1, <2>2 DEF Reading
  <2>4. [r EXCEPT !.sites = q, !.this = Len(r.sites) + 1] \in Reading
    <3>1. PICK n : n = Len(r.sites) + 1
      OBVIOUS
    <3>2. n \in Int /\ n \in NoSite .. Len(q)
      BY <2>3, <3>1 DEF NoSite
    <3>3. [r EXCEPT !.sites = q, !.this = n] \in Reading
      BY <2>3, <3>2 DEF Reading
    <3>4. QED
      BY <3>1, <3>3
  <2>5. key_with_value(r, key, val) = [r EXCEPT !.sites = q, !.this = Len(r.sites) + 1]
    BY <1>1, <2>2 DEF key_with_value, Reading
  <2>6. QED
    BY <2>4, <2>5
<1>2. CASE key # "site" /\ r.this # NoSite /\ CanSet(key, val)
  <2>1. This(r) \in Site
    BY <1>2, InitialSiteTyped, AssignTyped
  <2>2. set(This(r), key, val) \in Site
    BY <1>2, <2>1, SetTyped
  <2>3. Assign(r, set(This(r), key, val)) \in Reading
    BY <1>2, <2>2, AssignTyped
  <2>4. QED
    BY <1>2, <2>3 DEF key_with_value
<1>3. CASE key # "site" /\ ~(r.this # NoSite /\ CanSet(key, val))
  BY <1>3, CorruptTyped DEF key_with_value
<1>4. QED
  BY <1>1, <1>2, <1>3

\* A buffer, whatever is in it.
LEMMA ReadLineTyped ==
  ASSUME NEW r \in Reading, NEW buf \in Seq(Symbol)
  PROVE  read_line(r, buf) \in Reading
<1>1. PICK l : l = lexed(buf)
  OBVIOUS
<1>2. l.val \in Seq(Symbol)
  BY <1>1, LexedTyped DEF Words
<1>3. CASE l.key = <<>>
  BY <1>1, <1>3 DEF read_line
<1>4. CASE l.key # <<>> /\ l.val = <<>>
  BY <1>1, <1>4, KeyAloneTyped DEF read_line
<1>5. CASE l.key # <<>> /\ l.val # <<>>
  BY <1>1, <1>2, <1>5, KeyWithValueTyped, CorruptTyped DEF read_line
<1>6. QED
  BY <1>3, <1>4, <1>5

\* The author's file, and the ways to write a line of it.
Lines == [key : Symbol, val : Seq(Symbol)]

\* A text with backslashes is a text.
LEMMA EscapedTyped ==
  ASSUME NEW val \in Seq(Symbol)
  PROVE  Escaped(val) \in Seq(Symbol)
<1>1. PICK q : q = [i \in DOMAIN val |-> IF val[i] \in {Quote, "\\"} THEN <<"\\", val[i]>> ELSE <<val[i]>>]
  OBVIOUS
<1>2. "\\" \in Symbol
  BY DEF Symbol
<1>3. \A i \in DOMAIN val : q[i] \in Seq(Symbol)
  BY <1>1, <1>2
<1>4. q \in Seq(Seq(Symbol))
  <2>1. Len(val) \in Nat /\ DOMAIN val = 1 .. Len(val)
    OBVIOUS
  <2>2. q \in [1 .. Len(val) -> Seq(Symbol)]
    BY <1>1, <1>3, <2>1
  <2>3. QED
    BY <2>1, <2>2
<1>5. QED
  BY <1>1, <1>4, FlattenTyped DEF Escaped

\* One, two or three symbols make a text.
LEMMA FewSymbols ==
  ASSUME NEW x \in Symbol, NEW y \in Symbol, NEW z \in Symbol
  PROVE  <<x>> \in Seq(Symbol) /\ <<x, y>> \in Seq(Symbol) /\ <<x, y, z>> \in Seq(Symbol)
OBVIOUS

\* Every way to write a line is a text.
LEMMA RenderingsTyped ==
  ASSUME NEW line \in Lines, NEW text \in Renderings(line)
  PROVE  text \in Seq(Symbol)
<1>1. {" ", "#", "\n", "why"} \subseteq Symbol /\ Quote \in Symbol
  BY DEF Symbol, Quote
<1>2. line.key \in Symbol /\ line.val \in Seq(Symbol) /\ Escaped(line.val) \in Seq(Symbol)
  BY EscapedTyped DEF Lines
<1>3. /\ <<line.key, " ", Quote>> \o Escaped(line.val) \o <<Quote>> \in Seq(Symbol)
      /\ <<line.key, " ">> \o line.val \in Seq(Symbol)
      /\ <<line.key>> \in Seq(Symbol)
  <2>1. /\ <<line.key, " ", Quote>> \in Seq(Symbol) /\ <<Quote>> \in Seq(Symbol)
        /\ <<line.key, " ">> \in Seq(Symbol) /\ <<line.key>> \in Seq(Symbol)
    BY <1>1, <1>2, FewSymbols
  <2>2. \A t, u \in Seq(Symbol) : t \o u \in Seq(Symbol)
    OBVIOUS
  <2>3. <<line.key, " ", Quote>> \o Escaped(line.val) \in Seq(Symbol)
    BY <1>2, <2>1, <2>2
  <2>4. QED
    BY <1>2, <2>1, <2>2, <2>3
<1>4. \A t \in Seq(Symbol) : /\ <<" ">> \o t \in Seq(Symbol)
                             /\ t \o <<" ", "#", "why">> \in Seq(Symbol)
                             /\ Append(t, "\n") \in Seq(Symbol)
  <2>1. <<" ">> \in Seq(Symbol) /\ <<" ", "#", "why">> \in Seq(Symbol) /\ "\n" \in Symbol
    BY <1>1, FewSymbols
  <2>2. \A t, u \in Seq(Symbol) : t \o u \in Seq(Symbol)
    OBVIOUS
  <2>3. \A t \in Seq(Symbol), x \in Symbol : Append(t, x) \in Seq(Symbol)
    OBVIOUS
  <2>4. QED
    BY <2>1, <2>2, <2>3
<1> DEFINE quoted == {<<line.key, " ", Quote>> \o Escaped(line.val) \o <<Quote>>}
           bare   == {<<line.key, " ">> \o line.val}
           plain  == IF line.val = <<>> THEN {<<line.key>>}
                     ELSE IF NeedsQuotes(line.val) THEN quoted ELSE bare \cup quoted
           dressed == plain \cup {<<" ">> \o t : t \in plain} \cup {t \o <<" ", "#", "why">> : t \in plain}
<1>5. plain \subseteq Seq(Symbol)
  BY <1>3
<1> HIDE DEF plain
<1>6. dressed \subseteq Seq(Symbol)
  BY <1>4, <1>5
<1> HIDE DEF dressed
<1>7. PICK t \in (IF line.key \in {"", "#"} THEN {line.val} ELSE dressed) : text = Append(t, "\n")
  BY DEF Renderings, dressed, plain
<1>8. t \in Seq(Symbol)
  BY <1>2, <1>6, <1>7
<1>9. QED
  BY <1>4, <1>7, <1>8

-----------------------------------------------------------------------------
(* rcfile_verify                                                           *)

Codes == {"UNSUPPORTED", "NOREMOTEREL", "NOPERMS", "NOMAINTAIN", "NORENAMES", "NOSERVER",
          "NOREMOTEDIR", "NOLOCALDIR", "NOSAFEOVER", "NOSAFETEMPUP", "killed", "ACCESSLOCALDIR"}

\* What verification promises of a site.
Fits(s) ==
  /\ EngineCanDo(s)
  /\ s.checkrenames => s.checkmoved /\ s.state_method = "checksum"
  /\ s.protocol \in {"ftp", "dav"} => s.symlinks # "maintain"
  /\ s.protocol = "dav" => ~s.isrel["remote"]
  /\ \A k \in {"server", "remote", "local"} : s.text[k] # <<>>
  /\ s.isrel["local"] => home

\* r has the checks p of the protocol, and then those of every site, q.
ChecksOf(r, p, q) ==
  /\ DOMAIN r = 1 .. 12
  /\ \A i \in 1 .. 4 : r[i] = p[i]
  /\ \A i \in 1 .. 8 : r[4 + i] = q[i]

\* The order of the checks.
LEMMA ChecksAt ==
  ASSUME NEW s, NEW p, NEW q, p = protocol_checks(s), q = site_checks(s)
  PROVE  ChecksOf(p \o q, p, q)
<1>1. p \in Seq({p[1], p[2], p[3], p[4]}) /\ Len(p) = 4
  BY DEF protocol_checks
<1>2. q \in Seq({q[1], q[2], q[3], q[4], q[5], q[6], q[7], q[8]}) /\ Len(q) = 8
  BY DEF site_checks
<1>3. PICK S : S = {p[1], p[2], p[3], p[4]} \cup {q[1], q[2], q[3], q[4], q[5], q[6], q[7], q[8]}
  OBVIOUS
<1>4. p \in Seq(S) /\ q \in Seq(S)
  BY <1>1, <1>2, <1>3
<1>5. PICK r : r = p \o q
  OBVIOUS
<1>6. \A i \in 1 .. 8 : 4 + i \in 1 .. 12 /\ ~(4 + i =< 4) /\ (4 + i) - 4 = i
  OBVIOUS
<1>7. /\ r \in Seq(S) /\ Len(r) = Len(p) + Len(q)
      /\ \A i \in 1 .. Len(p) + Len(q) : r[i] = IF i =< Len(p) THEN p[i] ELSE q[i - Len(p)]
  BY <1>4, <1>5, ConcatProperties
<1>8. Len(r) = 12 /\ \A i \in 1 .. 12 : r[i] = IF i =< 4 THEN p[i] ELSE q[i - 4]
  <2>1. Len(p) = 4 /\ Len(q) = 8
    BY <1>1, <1>2
  <2>2. 4 + 8 = 12
    OBVIOUS
  <2>3. QED
    BY <1>7, <2>1, <2>2
<1>9. \A i \in 1 .. 4 : i \in 1 .. 12 /\ i =< 4
  OBVIOUS
<1>10. (\A i \in 1 .. 4 : r[i] = p[i]) /\ (\A i \in 1 .. 8 : r[4 + i] = q[i])
  BY <1>6, <1>8, <1>9
<1>11. DOMAIN r = 1 .. 12
  <2>1. DOMAIN r = 1 .. Len(r)
    BY <1>7
  <2>2. QED
    BY <1>8, <2>1
<1>12. QED
  BY <1>5, <1>10, <1>11 DEF ChecksOf

\* A site is accepted when none of the checks fails, and refused with the code
\* of the first that does.
LEMMA VerifyPasses ==
  ASSUME NEW s, rcfile_verify(s) = "ok",
         NEW p, NEW q, p = protocol_checks(s), q = site_checks(s)
  PROVE  /\ \A i \in 1 .. 4 : ~p[i].fails
         /\ \A i \in 1 .. 8 : ~q[i].fails
<1>1. PICK checks : checks = p \o q
  OBVIOUS
<1>2. /\ DOMAIN checks = 1 .. 12
      /\ \A i \in 1 .. 4 : checks[i] = p[i]
      /\ \A i \in 1 .. 8 : checks[4 + i] = q[i]
  <2>1. ChecksOf(checks, p, q)
    BY <1>1, ChecksAt
  <2>2. QED
    BY <2>1 DEF ChecksOf
<1>3. \A i \in 1 .. 12 : checks[i].code \in Codes
  <2>1. p[1].code \in Codes /\ p[2].code \in Codes /\ p[3].code \in Codes /\ p[4].code \in Codes
    BY DEF protocol_checks, Check, Codes
  <2>2. /\ q[1].code \in Codes /\ q[2].code \in Codes /\ q[3].code \in Codes /\ q[4].code \in Codes
        /\ q[5].code \in Codes /\ q[6].code \in Codes /\ q[7].code \in Codes /\ q[8].code \in Codes
    BY DEF site_checks, Check, Codes
  <2>3. \A i \in 1 .. 4 : p[i].code \in Codes
    BY <2>1
  <2>4. \A i \in 1 .. 8 : q[i].code \in Codes
    BY <2>2
  <2>5. TAKE i \in 1 .. 12
  <2>6. CASE i =< 4
    BY <1>2, <2>3, <2>6
  <2>7. CASE ~(i =< 4)
    <3>1. PICK j \in 1 .. 8 : i = 4 + j
      <4>1. i - 4 \in 1 .. 8 /\ i = 4 + (i - 4)
        BY <2>7
      <4>2. QED
        BY <4>1
    <3>2. QED
      BY <1>2, <2>4, <3>1
  <2>8. QED
    BY <2>6, <2>7
<1>4. PICK failed : failed = {i \in 1 .. 12 : checks[i].fails}
  OBVIOUS
<1>5. rcfile_verify(s) = IF failed = {} THEN "ok" ELSE checks[Min(failed)].code
  BY <1>1, <1>2, <1>4 DEF rcfile_verify
<1>6. failed = {}
  <2>1. SUFFICES ASSUME failed # {} PROVE FALSE
    OBVIOUS
  <2>2. failed \in SUBSET (1 .. 12)
    BY <1>4
  <2>3. Min(failed) \in 1 .. 12
    BY <2>1, <2>2, MinInSet
  <2>4. checks[Min(failed)].code \in Codes
    BY <1>3, <2>3
  <2>5. QED
    BY <1>5, <2>1, <2>4 DEF Codes
<1>7. \A i \in 1 .. 12 : ~checks[i].fails
  BY <1>4, <1>6
<1>8. \A i \in 1 .. 8 : 4 + i \in 1 .. 12
  OBVIOUS
<1>9. QED
  BY <1>2, <1>7, <1>8

\* What the checks come to.
LEMMA VerifyFits ==
  ASSUME NEW s \in Site, home \in BOOLEAN, rcfile_verify(s) = "ok"
  PROVE  Fits(s)
<1>1. PICK p : p = protocol_checks(s)
  OBVIOUS
<1>2. PICK q : q = site_checks(s)
  OBVIOUS
<1>3. (\A i \in 1 .. 4 : ~p[i].fails) /\ (\A i \in 1 .. 8 : ~q[i].fails)
  BY <1>1, <1>2, VerifyPasses
<1>8. ~p[1].fails /\ ~p[2].fails /\ ~p[3].fails /\ ~p[4].fails
  BY <1>3
<1>9. /\ ~q[1].fails /\ ~q[2].fails /\ ~q[3].fails /\ ~q[4].fails
      /\ ~q[5].fails /\ ~q[6].fails /\ ~q[7].fails
  BY <1>3
<1>10. /\ ~(s.protocol = "unknown") /\ ~(s.protocol = "dav" /\ s.isrel["remote"])
       /\ ~(s.protocol = "dav" /\ sets_modes(s))
       /\ ~(s.protocol \in {"ftp", "dav"} /\ s.symlinks = "maintain")
  BY <1>1, <1>8 DEF protocol_checks, Check
<1>11. /\ ~(s.checkrenames /\ s.state_method # "checksum")
       /\ ~(s.text["server"] = <<>>) /\ ~(s.text["remote"] = <<>>) /\ ~(s.text["local"] = <<>>)
       /\ ~(s.safemode /\ s.nooverwrite) /\ ~(s.safemode /\ s.tempupload)
       /\ ~(s.isrel["local"] /\ ~home)
  BY <1>2, <1>9 DEF site_checks, Check
<1>12. /\ s.protocol \in Protocols \cup {"unknown"}
       /\ s.checkrenames => s.checkmoved
  BY DEF Site
<1>13. /\ s.protocol \in Protocols /\ s.state_method \in {"checksum", "timesize"}
  BY <1>10, <1>12 DEF Site
<1>14. EngineCanDo(s)
  BY <1>10, <1>11, <1>13 DEF EngineCanDo, sets_modes
<1>15. QED
  BY <1>10, <1>11, <1>12, <1>14 DEF Fits

-----------------------------------------------------------------------------
(* The invariant                                                           *)

\* Verification begins when the file is read, goes through the list, and has
\* accepted only what fits.
RcInv ==
  /\ rcfile \in Seq(Lines) /\ home \in BOOLEAN
  /\ read \in 0 .. Len(rcfile) /\ linenum \in Nat /\ linenum >= read
  /\ rest \in Seq(Symbol)
  /\ list \in Reading
  /\ verdict \in Seq({verdict[i] : i \in DOMAIN verdict})
  /\ Len(verdict) =< Len(sites)
  /\ verdict # <<>> => ret = "ok" /\ rest = <<>> /\ read = Len(rcfile)
  /\ \A i \in DOMAIN verdict : verdict[i] = "ok" => Fits(sites[i])

\* Sequences over a set are sequences over a greater one.
LEMMA SeqMonotone ==
  ASSUME NEW S, NEW T, S \subseteq T
  PROVE  Seq(S) \subseteq Seq(T)
<1>1. SUFFICES ASSUME NEW q \in Seq(S) PROVE q \in Seq(T)
  OBVIOUS
<1>2. Len(q) \in Nat /\ q \in [1 .. Len(q) -> S]
  OBVIOUS
<1>3. q \in [1 .. Len(q) -> T]
  BY <1>2
<1>4. QED
  BY <1>2, <1>3

\* The symbols of the file are symbols.
LEMMA FilesTyped == Files \subseteq Seq(Lines)
<1>1. [key : STRING, val : Seq(STRING)] \subseteq Lines
  <2>1. STRING \subseteq Symbol
    BY DEF Symbol
  <2>2. Seq(STRING) \subseteq Seq(Symbol)
    BY <2>1, SeqMonotone
  <2>3. QED
    BY <2>1, <2>2 DEF Lines
<1>2. Seq([key : STRING, val : Seq(STRING)]) \subseteq Seq(Lines)
  BY <1>1, SeqMonotone
<1>3. QED
  BY <1>2, RcAssumption

\* Nothing is read and nothing verified.
LEMMA InitRcInv == RcInit => RcInv
<1>1. SUFFICES ASSUME RcInit PROVE RcInv
  OBVIOUS
<1>2. rcfile \in Seq(Lines) /\ home \in BOOLEAN /\ Len(rcfile) \in Nat
  BY <1>1, FilesTyped DEF RcInit
<1>3. list \in Reading
  BY <1>1, NothingReadTyped DEF RcInit
<1>4. /\ verdict = <<>> /\ rest = <<>> /\ read = 0 /\ linenum = 0
  BY <1>1 DEF RcInit
<1>5. /\ <<>> \in Seq({<<>>[i] : i \in DOMAIN <<>>}) /\ Len(<<>>) = 0 /\ DOMAIN <<>> = {}
      /\ <<>> \in Seq(Symbol)
  OBVIOUS
<1>6. Len(sites) \in Nat
  BY <1>3 DEF Reading, sites
<1>7. QED
  BY <1>2, <1>3, <1>4, <1>5, <1>6 DEF RcInv

\* A part of a line is read.
LEMMA ReadPartTyped ==
  ASSUME NEW text \in Seq(Symbol), list \in Reading, ReadPart(text), linenum \in Nat
  PROVE  /\ rest' \in Seq(Symbol) /\ list' \in Reading /\ linenum' = linenum + 1
         /\ UNCHANGED <<rcfile, home, verdict>>
<1> DEFINE m == Min({LineSize - 1, Len(text)})
<1>1. LineSize - 1 \in Nat /\ Len(text) \in Nat /\ LineSize \in Nat \ {0}
  BY RcAssumption
<1>2. m \in 0 .. Len(text)
  <2>1. CASE LineSize - 1 =< Len(text)
    BY <1>1, <2>1 DEF Min
  <2>2. CASE ~(LineSize - 1 =< Len(text))
    BY <1>1, <2>2 DEF Min
  <2>3. QED
    BY <2>1, <2>2
<1> HIDE DEF m
<1>3. SubSeq(text, 1, m) \in Seq(Symbol)
  BY <1>2
<1>4. SubSeq(text, LineSize, Len(text)) \in Seq(Symbol)
  BY <1>1
<1>5. QED
  BY <1>3, <1>4, ReadLineTyped DEF ReadPart, m

\* While the file is read nothing is verified.
LEMMA ReadingKeeps ==
  ASSUME RcInv, ReadLine \/ ReadRest
  PROVE  RcInv'
<1>1. verdict = <<>> /\ ret = "ok"
  BY DEF RcInv, ReadLine, ReadRest
<1>2. PICK text : /\ text \in Seq(Symbol) /\ ReadPart(text)
                  /\ read' \in {read, read + 1} /\ read' \in 0 .. Len(rcfile)
  <2>1. CASE ReadLine
    <3>1. PICK text \in Renderings(rcfile[read + 1]) : ReadPart(text)
      BY <2>1 DEF ReadLine
    <3>2. rcfile[read + 1] \in Lines /\ read + 1 \in 0 .. Len(rcfile)
      BY <2>1 DEF ReadLine, RcInv
    <3>3. text \in Seq(Symbol)
      BY <3>1, <3>2, RenderingsTyped
    <3>4. QED
      BY <2>1, <3>1, <3>2, <3>3 DEF ReadLine
  <2>2. CASE ReadRest
    BY <2>2 DEF ReadRest, RcInv
  <2>3. QED
    BY <2>1, <2>2
<1>3. /\ rest' \in Seq(Symbol) /\ list' \in Reading /\ linenum' = linenum + 1
      /\ UNCHANGED <<rcfile, home, verdict>>
  BY <1>2, ReadPartTyped DEF RcInv
<1>4. Len(sites') \in Nat
  BY <1>3 DEF Reading, sites
<1>5. linenum' \in Nat /\ linenum' >= read'
  BY <1>2, <1>3 DEF RcInv
<1>6. /\ <<>> \in Seq({<<>>[i] : i \in DOMAIN <<>>}) /\ Len(<<>>) = 0 /\ DOMAIN <<>> = {}
  OBVIOUS
<1>7. QED
  BY <1>1, <1>2, <1>3, <1>4, <1>5, <1>6 DEF RcInv

\* A password that is found leaves a site, and one that fits fits.
LEMMA PasswordTyped ==
  ASSUME NEW s \in Site
  PROVE  netrc_password(s) \in Site /\ (Fits(s) => Fits(netrc_password(s)))
<1> DEFINE t == [s EXCEPT !.text["password"] = <<"from netrc">>]
<1>1. <<"from netrc">> \in Seq(Symbol)
  <2>1. "from netrc" \in Symbol
    BY DEF Symbol
  <2>2. QED
    BY <2>1, FewSymbols
<1>2. t \in Site
  BY <1>1, TextSet DEF TextKeys
<1>3. s \in [Members -> MemberValues] /\ s.text \in Text
  BY DEF Site
<1>4. \A k \in {"server", "remote", "local"} : t.text[k] = s.text[k]
  BY <1>3 DEF Text, TextOrRoot, RootKeys, TextKeys, Members
<1>5. /\ t.protocol = s.protocol /\ t.perms = s.perms /\ t.dirperms = s.dirperms
      /\ t.safemode = s.safemode /\ t.tempupload = s.tempupload /\ t.nooverwrite = s.nooverwrite
      /\ t.checkrenames = s.checkrenames /\ t.checkmoved = s.checkmoved
      /\ t.state_method = s.state_method /\ t.symlinks = s.symlinks /\ t.isrel = s.isrel
  BY <1>3 DEF Members, Switches
<1> HIDE DEF t
<1>6. Fits(s) => Fits(t)
  BY <1>4, <1>5 DEF Fits, EngineCanDo
<1>7. netrc_password(s) \in {s, t}
  BY DEF netrc_password, t
<1>8. QED
  BY <1>2, <1>6, <1>7

\* Verification adds one verdict, and may add a password to that site.
LEMMA VerifyKeeps ==
  ASSUME RcInv, VerifySite
  PROVE  RcInv'
<1>1. PICK i, v : /\ i = Len(verdict) + 1 /\ v = rcfile_verify(sites[i])
                  /\ i =< Len(sites)
                  /\ ret = "ok" /\ rest = <<>> /\ read = Len(rcfile)
                  /\ verdict' = Append(verdict, v)
                  /\ UNCHANGED <<rcfile, home, read, rest, linenum>>
  BY DEF VerifySite
<1>2. /\ sites \in Seq(Site) /\ Len(verdict) \in Nat /\ i \in 1 .. Len(sites) /\ Len(sites) \in Nat
      /\ DOMAIN verdict = 1 .. Len(verdict)
  BY <1>1 DEF RcInv, Reading, sites
<1>3. sites[i] \in Site
  BY <1>2
<1>4. PICK s \in Site : /\ list' = [list EXCEPT !.sites[i] = s]
                        /\ Fits(sites[i]) => Fits(s)
  <2>1. list' \in {[list EXCEPT !.sites[i] = sites[i]], [list EXCEPT !.sites[i] = netrc_password(sites[i])]}
    BY <1>1 DEF VerifySite, sites
  <2>2. netrc_password(sites[i]) \in Site /\ (Fits(sites[i]) => Fits(netrc_password(sites[i])))
    BY <1>3, PasswordTyped
  <2>3. QED
    BY <1>3, <2>1, <2>2
<1>5. PICK q : q = [sites EXCEPT ![i] = s]
  OBVIOUS
<1>6. q \in Seq(Site) /\ Len(q) = Len(sites) /\ q[i] = s /\ \A j \in 1 .. Len(sites) : j # i => q[j] = sites[j]
  BY <1>2, <1>5
<1>7. list' = [list EXCEPT !.sites = q]
  BY <1>4, <1>5 DEF sites, RcInv, Reading
<1>8. list' \in Reading /\ list'.sites = q /\ list'.ret = list.ret
  BY <1>6, <1>7 DEF RcInv, Reading, sites
<1>9. PICK w : w = Append(verdict, v)
  OBVIOUS
<1>10. /\ w \in Seq({w[j] : j \in DOMAIN w}) /\ Len(w) = i /\ DOMAIN w = 1 .. i /\ w[i] = v
       /\ \A j \in 1 .. Len(verdict) : w[j] = verdict[j]
  <2>1. PICK V : V = {verdict[j] : j \in DOMAIN verdict} \cup {v}
    OBVIOUS
  <2>2. verdict \in Seq(V) /\ v \in V
    <3>1. verdict \in Seq({verdict[j] : j \in DOMAIN verdict})
      BY DEF RcInv
    <3>2. QED
      BY <2>1, <3>1, SeqMonotone
  <2>3. w \in Seq(V) /\ Len(w) = i /\ w[i] = v /\ \A j \in 1 .. Len(verdict) : w[j] = verdict[j]
    BY <1>1, <1>9, <2>2
  <2>4. DOMAIN w = 1 .. i
    BY <2>3
  <2>5. PICK W : W = {w[j] : j \in DOMAIN w}
    OBVIOUS
  <2>6. w \in Seq({w[j] : j \in DOMAIN w})
    <3>1. w \in [1 .. i -> W] /\ i \in Nat
      BY <1>2, <2>3, <2>4, <2>5
    <3>2. w \in Seq(W)
      BY <3>1
    <3>3. QED
      BY <2>5, <3>2
  <2>7. QED
    BY <2>3, <2>4, <2>6
<1>11. ASSUME NEW j \in DOMAIN w, w[j] = "ok" PROVE Fits(q[j])
  <2>1. CASE j = i
    BY <1>1, <1>3, <1>4, <1>6, <1>10, <1>11, <2>1, VerifyFits DEF RcInv
  <2>2. CASE j # i
    <3>1. j \in 1 .. Len(verdict) /\ j \in 1 .. Len(sites)
      BY <1>1, <1>2, <1>10, <2>2
    <3>2. Fits(sites[j])
      BY <1>2, <1>10, <1>11, <3>1 DEF RcInv
    <3>3. QED
      BY <1>6, <2>2, <3>1, <3>2
  <2>3. QED
    BY <2>1, <2>2
<1>12. QED
  <2>1. verdict' = w /\ sites' = q /\ ret' = ret
    BY <1>1, <1>8, <1>9 DEF sites, ret
  <2>2. \A j \in DOMAIN verdict' : verdict'[j] = "ok" => Fits(sites[j])'
    BY <1>1, <1>11, <2>1 DEF Fits
  <2>3. /\ rcfile' \in Seq(Lines) /\ home' \in BOOLEAN
        /\ read' \in 0 .. Len(rcfile') /\ linenum' \in Nat /\ linenum' >= read'
        /\ rest' \in Seq(Symbol)
    BY <1>1 DEF RcInv
  <2>4. Len(verdict') =< Len(sites')
    BY <1>1, <1>6, <1>10, <2>1
  <2>5. verdict' \in Seq({verdict'[j] : j \in DOMAIN verdict'})
    BY <1>10, <2>1
  <2>6. QED
    BY <1>1, <1>8, <2>1, <2>2, <2>3, <2>4, <2>5 DEF RcInv

\* Every step keeps the invariant.
LEMMA RcInvKept == RcInv /\ [RcNext]_rcVars => RcInv'
<1>1. CASE RcInv /\ (ReadLine \/ ReadRest)
  BY <1>1, ReadingKeeps
<1>2. CASE RcInv /\ VerifySite
  BY <1>2, VerifyKeeps
<1>3. CASE RcInv /\ UNCHANGED rcVars
  BY <1>3 DEF RcInv, rcVars, sites, ret, Fits
<1>4. QED
  BY <1>1, <1>2, <1>3 DEF RcNext

\* It holds of every behaviour.
LEMMA RcInvariant == RcSpec => []RcInv
<1>1. RcInit => RcInv
  BY InitRcInv
<1>2. RcInv /\ [RcNext]_rcVars => RcInv'
  BY RcInvKept
<1>3. QED
  BY <1>1, <1>2, PTL DEF RcSpec

\* Whatever the file says and wherever its lines are cut, the sites have
\* members of the right types, this_site points to one of them, and a root
\* ends in a slash (rcfile_read).
THEOREM SitesTyped == RcSpec => []RcTypeOK
<1>1. RcInv => RcTypeOK
  <2>1. SUFFICES ASSUME RcInv PROVE RcTypeOK
    OBVIOUS
  <2>2. list \in Reading /\ sites = list.sites /\ ret = list.ret
    BY <2>1 DEF RcInv, sites, ret
  <2>3. list.this \in NoSite .. Len(sites) /\ ret \in {"ok", "corrupt"}
    BY <2>2 DEF Reading
  <2>4. \A s \in ToSet(sites) \cup {list.defaults} : s \in Site
    <3>1. sites \in Seq(Site) /\ list.defaults \in Site
      BY <2>2 DEF Reading
    <3>2. QED
      BY <3>1 DEF ToSet
  <2>5. ASSUME NEW s \in Site
        PROVE  /\ s.protocol \in Protocols \cup {"unknown"}
               /\ s.perms \in {"ignore", "exec", "all"} /\ s.symlinks \in {"ignore", "follow", "maintain"}
               /\ \A k \in RootKeys : s.text[k] # <<>> => Last(s.text[k]) \in {"/", "~/"}
               /\ \A k \in RootKeys : s.isrel[k] => s.text[k] # <<>>
    BY DEF Site
  <2>6. QED
    BY <2>1, <2>3, <2>4, <2>5 DEF RcTypeOK, RcInv
<1>2. QED
  BY <1>1, RcInvariant, PTL

\* A site that verification accepts is complete and asks for nothing that the
\* engine, or the driver for FTP or WebDAV, has no code for, whatever options
\* the default site and the site set, and in which order (rcfile_verify).
THEOREM AcceptedFits == RcSpec => []AcceptedFitsEngine
<1>1. RcInv => AcceptedFitsEngine
  BY DEF RcInv, AcceptedFitsEngine, Fits
<1>2. QED
  BY <1>1, RcInvariant, PTL
=============================================================================
