------------------------------- MODULE Rcfile -------------------------------
(***************************************************************************)
(* The configuration file, src/rcfile.c: rcfile_read makes the list of     *)
(* sites of it, line by line, and rcfile_verify then checks one site after *)
(* another (console_fe.c, verify_sites).                                   *)
(*                                                                         *)
(* A text is a sequence of symbols: the white space " " and "\n", the      *)
(* characters that mean something to the reader, and words, which stand    *)
(* for runs of other characters.  The file is what its author means: a     *)
(* sequence of lines [key, val], each of which can be written in several   *)
(* ways.  A line of key "" is garbled and one of key "#" says nothing;     *)
(* their val is the text itself.                                           *)
(***************************************************************************)
EXTENDS Integers, SequencesExt, SiteOptions

CONSTANTS
  Files,      \* the configuration files to read
  LineSize,   \* LINESIZE, in symbols
  LocalDirs,  \* the local directories that can be read
  Netrc       \* the pairs <<host, user>> that ~/.netrc has a password for

VARIABLES
  rcfile,     \* the lines of the file
  home,       \* is $HOME set?
  read,       \* the number of lines that have been read, at least in part
  rest,       \* what fgets has not read of the last of them
  linenum,    \* rcfile_linenum
  list,       \* the state of rcfile_read, a record
  verdict     \* what rcfile_verify returned for the first sites

ASSUME RcAssumption ==
  /\ Files \subseteq Seq([key : STRING, val : Seq(STRING)])
  /\ LineSize \in Nat \ {0, 1}

rcVars == <<rcfile, home, read, rest, linenum, list, verdict>>

sites == list.sites   \* the list of sites
ret   == list.ret     \* what rcfile_read returns: "ok" or "corrupt"

Quote == "\""
White == {" ", "\n"}

-----------------------------------------------------------------------------
(* One line: the automaton that splits it into a key and two values        *)

NoWords == [state |-> "start", into |-> "key", key |-> <<>>, val |-> <<>>, val2 |-> <<>>]

\* States 8 and 9, "ignored" and "literal", are shared by the rest; both
\* quoted states set last_state to 4.
lex_char(l, ch) ==
  LET go(to)          == [l EXCEPT !.state = to]
      put(to)         == [l EXCEPT !.state = to, ![l.into] = Append(@, ch)]
      point(into, to) == [l EXCEPT !.state = to, !.into = into]
      quoted          == l.state \in {"quoted", "quoted 2"}
  IN CASE l.state = "literal"              -> put("quoted")
       [] l.state = "ignored"              -> l
       [] quoted /\ ch = "\\"              -> go("literal")
       [] quoted /\ ch # Quote             -> put(l.state)
       [] l.state = "quoted"   /\ ch = Quote -> point("val2", "gap 2")
       [] l.state = "quoted 2" /\ ch = Quote -> go("ignored")
       [] ~quoted /\ ch = "#"              -> go("ignored")
       [] l.state = "start"   /\ ch # "#"  -> IF ch \in White THEN l ELSE put("key")
       [] l.state = "key"     /\ ch # "#"  -> IF ch \in White THEN point("val", "gap") ELSE put("key")
       [] l.state = "value"   /\ ch # "#"  -> IF ch \in White THEN point("val2", "gap 2") ELSE put("value")
       [] l.state = "value 2" /\ ch # "#"  -> IF ch \in White THEN go("ignored") ELSE put("value 2")
       [] l.state = "gap"     /\ ch # "#"  ->
            IF ch = Quote THEN go("quoted") ELSE IF ch \in White THEN l ELSE put("value")
       [] l.state = "gap 2"   /\ ch # "#"  ->
            IF ch = Quote THEN go("quoted 2") ELSE IF ch \in White THEN l ELSE put("value 2")

lexed(text) == FoldLeft(lex_char, NoWords, text)

\* A word is itself; no key is made of several.
AsKey(text) == IF Len(text) = 1 THEN text[1] ELSE "several words"

-----------------------------------------------------------------------------
(* What a line sets: tables from the key and the value to the new values   *)
(* of the members of struct site                                           *)

\* Keys without a value.
Flags ==
  [nodelete |-> "nodelete", checkmoved |-> "checkmoved", nooverwrite |-> "nooverwrite",
   lowercase |-> "lowercase", safe |-> "safemode", tempupload |-> "tempupload"]

\* Keys with a choice of values.  `dirperms' is cleared by "ignore" only.
Alternatives ==
  [permissions |->
     [ignore |-> [perms |-> "ignore", dirperms |-> FALSE], exec |-> [perms |-> "exec"],
      all |-> [perms |-> "all"], dir |-> [dirperms |-> TRUE]],
   symlinks |->
     [follow |-> [symlinks |-> "follow"], maintain |-> [symlinks |-> "maintain"],
      ignore |-> [symlinks |-> "ignore"]],
   ftp |->
     [nopasv |-> [ftp_pasv_mode |-> FALSE], showquit |-> [ftp_echo_quit |-> TRUE],
      usecwd |-> [ftp_use_cwd |-> TRUE], nousecwd |-> [ftp_use_cwd |-> FALSE]],
   http |->
     [expect |-> [http_use_expect |-> TRUE], limit |-> [http_limit |-> TRUE],
      secure |-> [http_secure |-> TRUE], tolerant |-> [http_tolerant |-> TRUE]],
   state |->
     [checksum |-> [state_method |-> "checksum"], timesize |-> [state_method |-> "timesize"]],
   checkmoved |-> [renames |-> [checkrenames |-> TRUE, checkmoved |-> TRUE]]]

\* Any other name of a protocol is siteproto_unknown, which verification rejects.
\* Case is ignored (strcasecmp); of the mixed spellings only WebDAV has a symbol.
ProtocolNamed ==
  [ftp |-> "ftp", http |-> "dav", dav |-> "dav", webdav |-> "dav", rsh |-> "rsh",
   ssh |-> "rsh", sftp |-> "sftp",
   FTP |-> "ftp", HTTP |-> "dav", DAV |-> "dav", WebDAV |-> "dav", RSH |-> "rsh",
   SSH |-> "rsh", SFTP |-> "sftp"]

\* Keys whose value is kept as it is, and keys whose values are collected.  The
\* two ports are among the former: a port that is written is taken for a number
\* other than 0, which atoi reads and rcfile_write prints again, and the default
\* port that verification puts in the place of 0 is left out.
TextKeys == {"username", "server", "port", "proxy-server", "proxy-port", "proxy-password",
             "proxy-username", "password", "url", "client-cert", "rsh", "rcp"}
RootKeys == {"remote", "local"}
ListKeys == {"exclude", "ignore", "ascii"}

\* Before the first line: the assignments to default_site, all else is 0.
InitialSite ==
  [perms |-> "ignore", dirperms |-> FALSE, symlinks |-> "follow", protocol |-> "ftp",
   ftp_pasv_mode |-> TRUE, ftp_echo_quit |-> FALSE, ftp_use_cwd |-> FALSE,
   http_use_expect |-> FALSE, http_limit |-> FALSE, http_secure |-> FALSE,
   http_tolerant |-> FALSE, state_method |-> "timesize", checkmoved |-> FALSE,
   checkrenames |-> FALSE, nodelete |-> FALSE, nooverwrite |-> FALSE, lowercase |-> FALSE,
   safemode |-> FALSE, tempupload |-> FALSE, name |-> <<>>, proto_string |-> <<"ftp">>,
   text |-> [k \in TextKeys \cup RootKeys |-> <<>>],
   isrel |-> [k \in RootKeys |-> FALSE],
   list |-> [k \in ListKeys |-> <<>>]]

\* `protocol ssh' is the rsh driver with other commands, unless they are set.
set_protocol(s, val) ==
  LET name   == AsKey(val)
      orElse(k, command) == IF name \in {"ssh", "SSH"} /\ s.text[k] = <<>> THEN command ELSE s.text[k]
  IN  [s EXCEPT !.protocol = IF name \in DOMAIN ProtocolNamed THEN ProtocolNamed[name] ELSE "unknown",
                !.proto_string = val,
                !.text["rsh"] = orElse("rsh", <<"ssh">>),
                !.text["rcp"] = orElse("rcp", <<"scp">>)]

\* Mutation: the value is taken as it is.
set_root_verbatim(s, key, val) ==
  [s EXCEPT !.isrel[key] = Head(val) = "~/", !.text[key] = val]

\* A root ends in a slash, and one in the home directory begins with "~/".
set_root(s, key, val) ==
  [s EXCEPT !.isrel[key] = Head(val) = "~/",
            !.text[key]  = IF Last(val) \in {"/", "~/"} THEN val ELSE Append(val, "/")]

\* Mutation: a value that the choice does not have is let pass.
CanSet_unchecked(key, val) ==
  \/ key \in TextKeys \cup ListKeys \cup {"protocol", "charset"} \cup DOMAIN Alternatives
  \/ key \in RootKeys /\ Head(val) # "~"

CanSet(key, val) ==
  \/ key \in TextKeys \cup ListKeys \cup {"protocol", "charset"}
  \/ key \in RootKeys /\ Head(val) # "~"
  \/ key \in DOMAIN Alternatives /\ AsKey(val) \in DOMAIN Alternatives[key]

\* The members that a choice leaves alone keep their values.
chosen(s, choice) == [m \in DOMAIN s |-> IF m \in DOMAIN choice THEN choice[m] ELSE s[m]]

set(s, key, val) ==
  CASE key \in TextKeys    -> [s EXCEPT !.text[key] = val]
    [] key \in RootKeys    -> set_root(s, key, val)
    [] key \in ListKeys    -> [s EXCEPT !.list[key] = <<val>> \o @]
    [] key = "protocol"    -> set_protocol(s, val)
    [] key = "charset"     -> s
    [] key \in DOMAIN Alternatives ->
         IF AsKey(val) \in DOMAIN Alternatives[key] THEN chosen(s, Alternatives[key][AsKey(val)]) ELSE s

-----------------------------------------------------------------------------
(* rcfile_read                                                             *)

\* this_site: none yet, default_site, or a position in the list.
NoSite      == -1
DefaultSite == 0

NothingRead == [sites |-> <<>>, defaults |-> InitialSite, this |-> NoSite, ret |-> "ok"]

Corrupt(r) == [r EXCEPT !.ret = "corrupt"]

\* *this_site, and the assignment to it.
This(r)      == IF r.this = DefaultSite THEN r.defaults ELSE r.sites[r.this]
Assign(r, s) == IF r.this = DefaultSite THEN [r EXCEPT !.defaults = s]
                ELSE [r EXCEPT !.sites[r.this] = s]

key_alone(r, key) ==
  CASE r.this = NoSite -> IF key = "default" THEN [r EXCEPT !.this = DefaultSite] ELSE Corrupt(r)
    [] r.this # NoSite -> IF key \in DOMAIN Flags THEN Assign(r, [This(r) EXCEPT ![Flags[key]] = TRUE])
                          ELSE Corrupt(r)

\* Mutation: a new site begins as a copy of the site before.
new_site_like_last(r, val) ==
  [(IF r.this = NoSite THEN r.defaults ELSE This(r)) EXCEPT !.name = val]

\* A new site begins as a copy of the default site.
new_site(r, val) == [r.defaults EXCEPT !.name = val]

key_with_value(r, key, val) ==
  CASE key = "site" -> [r EXCEPT !.sites = Append(@, new_site(r, val)), !.this = Len(r.sites) + 1]
    [] key # "site" -> IF r.this # NoSite /\ CanSet(key, val) THEN Assign(r, set(This(r), key, val))
                       ELSE Corrupt(r)

\* What the loop does with the buffer that fgets has filled.
read_line(r, buf) ==
  LET l == lexed(buf)
  IN  CASE l.key = <<>>                 -> r
        [] l.key # <<>> /\ l.val = <<>> -> key_alone(r, AsKey(l.key))
        [] l.key # <<>> /\ l.val # <<>> ->
             IF l.val2 = <<>> THEN key_with_value(r, AsKey(l.key), l.val) ELSE Corrupt(r)

RcInit ==
  /\ rcfile \in Files
  /\ home \in BOOLEAN
  /\ read = 0 /\ rest = <<>> /\ linenum = 0
  /\ list = NothingRead /\ verdict = <<>>

\* The ways to write a line: the value as it is, where the reader takes it
\* so, or quoted, with backslashes; indented; before a comment.
NeedsQuotes(val) == ToSet(val) \cap {" ", "#", Quote} # {}
Escaped(val)     == FlattenSeq([i \in DOMAIN val |->
                      IF val[i] \in {Quote, "\\"} THEN <<"\\", val[i]>> ELSE <<val[i]>>])
Renderings(line) ==
  LET quoted == {<<line.key, " ", Quote>> \o Escaped(line.val) \o <<Quote>>}
      bare   == {<<line.key, " ">> \o line.val}
      plain  == IF line.val = <<>> THEN {<<line.key>>}
                ELSE IF NeedsQuotes(line.val) THEN quoted ELSE bare \cup quoted
      dressed == plain \cup {<<" ">> \o t : t \in plain} \cup {t \o <<" ", "#", "why">> : t \in plain}
  IN  {Append(t, "\n") : t \in IF line.key \in {"", "#"} THEN {line.val} ELSE dressed}

\* fgets reads at most LINESIZE - 1 characters, up to the end of the line.
ReadPart(text) ==
  LET buf == SubSeq(text, 1, Min({LineSize - 1, Len(text)}))
  IN  /\ rest' = SubSeq(text, LineSize, Len(text))
      /\ linenum' = linenum + 1
      /\ list' = read_line(list, buf)
      /\ UNCHANGED <<rcfile, home, verdict>>

ReadLine ==
  /\ ret = "ok" /\ rest = <<>> /\ read < Len(rcfile)
  /\ read' = read + 1
  /\ \E text \in Renderings(rcfile[read + 1]) : ReadPart(text)

ReadRest ==
  /\ ret = "ok" /\ rest # <<>>
  /\ ReadPart(rest)
  /\ UNCHANGED read

-----------------------------------------------------------------------------
(* rcfile_verify                                                           *)

\* The test for a missing $HOME looks at local_root, which is set only below
\* it: ne_concat is then called with home NULL.
local_root(s) == IF s.isrel["local"] THEN <<"home">> \o Tail(s.text["local"]) ELSE s.text["local"]

Check(code, fails) == [code |-> code, fails |-> fails]

\* Mutation: `permissions dir' is forgotten, which `permissions all' does not
\* imply.
sets_modes_of_files(s) == s.perms = "all"

sets_modes(s) == s.perms = "all" \/ s.dirperms

\* The checks in their order: those of the protocol, and from NORENAMES on
\* those of every site.
protocol_checks(s) ==
  <<Check("UNSUPPORTED", s.protocol = "unknown"),
    Check("NOREMOTEREL", s.protocol = "dav" /\ s.isrel["remote"]),
    Check("NOPERMS",     s.protocol = "dav" /\ sets_modes(s)),
    Check("NOMAINTAIN",  s.protocol \in {"ftp", "dav"} /\ s.symlinks = "maintain")>>

site_checks(s) ==
  <<Check("NORENAMES",      s.checkrenames /\ s.state_method # "checksum"),
    Check("NOSERVER",       s.text["server"] = <<>>),
    Check("NOREMOTEDIR",    s.text["remote"] = <<>>),
    Check("NOLOCALDIR",     s.text["local"] = <<>>),
    Check("NOSAFEOVER",     s.safemode /\ s.nooverwrite),
    Check("NOSAFETEMPUP",   s.safemode /\ s.tempupload),
    Check("killed",         s.isrel["local"] /\ ~home),
    Check("ACCESSLOCALDIR", local_root(s) \notin LocalDirs)>>

rcfile_verify(s) ==
  LET checks == protocol_checks(s) \o site_checks(s)
      failed == {i \in DOMAIN checks : checks[i].fails}
  IN  IF failed = {} THEN "ok" ELSE checks[Min(failed)].code

netrc_password(s) ==
  IF s.text["username"] # <<>> /\ s.text["password"] = <<>>
     /\ <<s.text["server"], s.text["username"]>> \in Netrc
  THEN [s EXCEPT !.text["password"] = <<"from netrc">>] ELSE s

\* The front end verifies the sites that the command line selects, in the order
\* of the list; one that fails is skipped.  A password is looked for once there
\* is a server.
VerifySite ==
  LET i == Len(verdict) + 1
      v == rcfile_verify(sites[i])
      early == {"UNSUPPORTED", "NOREMOTEREL", "NOPERMS", "NOMAINTAIN", "NORENAMES", "NOSERVER"}
  IN  /\ ret = "ok" /\ rest = <<>> /\ read = Len(rcfile)
      /\ i <= Len(sites) /\ "killed" \notin ToSet(verdict)
      /\ verdict' = Append(verdict, v)
      /\ list' = [list EXCEPT !.sites[i] = IF v \in early THEN @ ELSE netrc_password(@)]
      /\ UNCHANGED <<rcfile, home, read, rest, linenum>>

RcNext == ReadLine \/ ReadRest \/ VerifySite

RcSpec == RcInit /\ [][RcNext]_rcVars

-----------------------------------------------------------------------------
(* rcfile_write, of the GNOME front end                                    *)

Line(words) == <<" ">> \o words \o <<"\n">>
LineIf(b, words) == IF b THEN <<Line(words)>> ELSE <<>>

\* A text that is not set is written as printf does it.
Required(s, key) == Line(<<key, " ">> \o IF s.text[key] = <<>> THEN <<"(null)">> ELSE s.text[key])
Optional(s, key) == LineIf(s.text[key] # <<>>, <<key, " ">> \o s.text[key])
Patterns(s, key) ==
  [n \in DOMAIN s.list[key] |-> Line(<<key, " ", Quote>> \o s.list[key][n] \o <<Quote>>)]

\* Mutation: `permissions dir' is written before the other line.
permissions_dir_first(s) ==
  LineIf(s.dirperms, <<"permissions", " ", "dir">>) \o <<Line(<<"permissions", " ", s.perms>>)>>

permission_lines(s) ==
  <<Line(<<"permissions", " ", s.perms>>)>> \o LineIf(s.dirperms, <<"permissions", " ", "dir">>)

\* The lines of a site, in their order.
written_site(s) ==
  <<Line(<<"site", " ">> \o s.name), Required(s, "server")>>
    \o Optional(s, "username") \o Optional(s, "password")
    \o <<Required(s, "remote"), Required(s, "local"), Line(<<"protocol", " ">> \o s.proto_string)>>
    \o LineIf(s.nodelete, <<"nodelete">>)
    \o LineIf(s.checkmoved, IF s.checkrenames THEN <<"checkmoved", " ", "renames">> ELSE <<"checkmoved">>)
    \o LineIf(s.nooverwrite, <<"nooverwrite">>) \o LineIf(s.safemode, <<"safe">>)
    \o LineIf(s.lowercase, <<"lowercase">>) \o LineIf(s.tempupload, <<"tempupload">>)
    \o LineIf(~s.ftp_pasv_mode, <<"ftp", " ", "nopasv">>)
    \o LineIf(s.ftp_echo_quit, <<"ftp", " ", "showquit">>)
    \o LineIf(s.ftp_use_cwd, <<"ftp", " ", "usecwd">>)
    \o LineIf(s.http_limit, <<"http", " ", "limit">>)
    \o LineIf(s.http_use_expect, <<"http", " ", "expect">>)
    \o Optional(s, "port") \o Optional(s, "url")
    \o <<Line(<<"state", " ", s.state_method>>)>>
    \o permission_lines(s)
    \o <<Line(<<"symlinks", " ", s.symlinks>>)>>
    \o Patterns(s, "exclude") \o Patterns(s, "ascii") \o Patterns(s, "ignore")

rcfile_write == FlattenSeq([i \in DOMAIN sites |-> written_site(sites[i])])

-----------------------------------------------------------------------------
(* Properties                                                              *)

\* Sites have members of the right types, this_site points to one of them, and
\* a root, to which names of files are appended, ends in a slash.
RcTypeOK ==
  /\ list.this \in NoSite..Len(sites)
  /\ ret \in {"ok", "corrupt"}
  /\ read \in 0..Len(rcfile) /\ linenum >= read
  /\ Len(verdict) <= Len(sites)
  /\ \A s \in ToSet(sites) \cup {list.defaults} :
       /\ s.protocol \in Protocols \cup {"unknown"}
       /\ s.perms \in {"ignore", "exec", "all"} /\ s.symlinks \in {"ignore", "follow", "maintain"}
       /\ \A k \in RootKeys : s.text[k] # <<>> => Last(s.text[k]) \in {"/", "~/"}
       /\ \A k \in RootKeys : s.isrel[k] => s.text[k] # <<>>

\* What the author means, when no line was cut: the lines that concern site i
\* are those before the first site and those between its name and the next.
AllRead == ret = "ok" /\ rest = <<>> /\ linenum = read
HeadOf(i) ==
  CHOOSE j \in 1..read :
     rcfile[j].key = "site" /\ Cardinality({k \in 1..j : rcfile[k].key = "site"}) = i
Concerning(i) ==
  LET end == IF i = Len(sites) THEN read ELSE HeadOf(i + 1) - 1
  IN  SubSeq(rcfile, 1, HeadOf(1) - 1) \o SubSeq(rcfile, HeadOf(i) + 1, end)

ValuesOf(lines, key) ==
  LET found == SelectSeq(lines, LAMBDA l : l.key = key)
  IN  [n \in DOMAIN found |-> found[n].val]
LastOf(values, default) == IF values = <<>> THEN default ELSE Last(values)

\* A site has the settings of the default site and its own, of which the last
\* one of a key counts (all of them for the lists of patterns, the latest
\* first), and nothing of the sites before it; and it has the values that the
\* author means, however the lines are written (rcfile_read: memcpy of
\* default_site, and the automaton).  Left out are the commands of rsh and rcp,
\* which `protocol ssh' sets, and the password, which may come from ~/.netrc.
SettingsAreOwn ==
  AllRead =>
    /\ Len(sites) = Cardinality({j \in 1..read : rcfile[j].key = "site"})
    /\ \A i \in DOMAIN sites :
         LET s     == sites[i]
             lines == Concerning(i)
             perms == ValuesOf(lines, "permissions")
             moved == ValuesOf(lines, "checkmoved")
         IN  /\ s.name = rcfile[HeadOf(i)].val
             /\ \A k \in TextKeys \ {"rsh", "rcp", "password"} : s.text[k] = LastOf(ValuesOf(lines, k), <<>>)
             /\ \A k \in RootKeys :
                  LET v == LastOf(ValuesOf(lines, k), <<>>)
                  IN  /\ s.text[k] \in {v, Append(v, "/")}
                      /\ s.isrel[k] <=> v # <<>> /\ Head(v) = "~/"
             /\ \A k \in ListKeys : s.list[k] = Reverse(ValuesOf(lines, k))
             /\ \A k \in DOMAIN Flags : s[Flags[k]] <=> ValuesOf(lines, k) # <<>>
             /\ s.checkrenames <=> <<"renames">> \in ToSet(moved)
             /\ s.symlinks = LastOf(ValuesOf(lines, "symlinks"), <<"follow">>)[1]
             /\ s.perms = LastOf(SelectSeq(perms, LAMBDA v : v # <<"dir">>), <<"ignore">>)[1]
             /\ s.dirperms <=>
                  \E n \in DOMAIN perms :
                     /\ perms[n] = <<"dir">>
                     /\ \A m \in n + 1..Len(perms) : perms[m] # <<"ignore">>
             /\ LET p == LastOf(ValuesOf(lines, "protocol"), <<"ftp">>)[1]
                IN  s.protocol = IF p \in DOMAIN ProtocolNamed THEN ProtocolNamed[p] ELSE "unknown"

\* The file is rejected at its first line that is wrong, and at no other: one
\* that is garbled, a setting before the first site, a second `default', an
\* unknown key, or a value that the key does not have (rcfile_read, every
\* RC_CORRUPT).
RejectsExactlyBad ==
  LET opens(l) == l.key \in {"site", "default"}
      known(l) == IF l.val = <<>> THEN l.key \in DOMAIN Flags
                  ELSE \/ l.key \in TextKeys \cup ListKeys \cup {"protocol", "charset"}
                       \/ l.key \in RootKeys /\ l.val[1] # "~"
                       \/ l.key \in DOMAIN Alternatives /\ Len(l.val) = 1 /\ l.val[1] \in DOMAIN Alternatives[l.key]
      good(n)  ==
        LET l == rcfile[n]
            inSite == \E m \in 1..n - 1 : opens(rcfile[m])
        IN  CASE l.key = "#"       -> TRUE
              [] l.key = ""        -> FALSE
              [] l.key = "site"    -> l.val # <<>>
              [] l.key = "default" -> l.val = <<>> /\ ~inSite
              [] OTHER             -> inSite /\ known(l)
  IN  linenum = read /\ rest = <<>> => (ret = "corrupt" <=> \E n \in 1..read : ~good(n))

\* A site that verification accepts is complete, has a local directory, and
\* asks for nothing that the engine, or the driver for FTP or WebDAV, has no
\* code for: this is what the modules of the engine assume (rcfile_verify).
\* The drivers for rsh and sftp have no operations on links, and the check is
\* not made for them.
AcceptedFitsEngine ==
  \A i \in DOMAIN verdict :
     verdict[i] = "ok" =>
       LET s == sites[i]
       IN  /\ EngineCanDo(s)
           /\ s.checkrenames => s.checkmoved /\ s.state_method = "checksum"
           /\ s.protocol \in {"ftp", "dav"} => s.symlinks # "maintain"
           /\ s.protocol = "dav" => ~s.isrel["remote"]
           /\ \A k \in {"server", "remote", "local"} : s.text[k] # <<>>
           /\ s.isrel["local"] => home

\* What rcfile_write writes, rcfile_read reads back as the same sites, the
\* patterns in the reverse order; not so the settings that it does not write,
\* or for values that need quotes or backslashes, which it does not write, and
\* for lines that are too long.
Forgotten(s) ==
  [s EXCEPT !.http_secure = FALSE, !.http_tolerant = FALSE,
            !.text = [k \in DOMAIN s.text |->
              IF k \in {"proxy-server", "proxy-port", "proxy-password", "proxy-username",
                        "client-cert", "rsh", "rcp"} THEN <<>> ELSE s.text[k]],
            !.list = [k \in ListKeys |-> ToSet(s.list[k])]]
Writable(s) ==
  /\ \A k \in {"server", "remote", "local"} : s.text[k] # <<>>
  /\ \A k \in DOMAIN s.text : ~NeedsQuotes(s.text[k])
  /\ \A k \in ListKeys : \A v \in ToSet(s.list[k]) : ToSet(v) \cap {Quote, "\\"} = {}
  /\ \A t \in ToSet(written_site(s)) : Len(t) < LineSize
WrittenReadsBack ==
  AllRead /\ read = Len(rcfile) /\ (\A s \in ToSet(sites) : Writable(s)) =>
    LET back == FoldLeft(read_line, NothingRead, rcfile_write)
    IN  /\ back.ret = "ok"
        /\ [i \in DOMAIN back.sites |-> Forgotten(back.sites[i])]
             = [i \in DOMAIN sites |-> Forgotten(sites[i])]
=============================================================================
