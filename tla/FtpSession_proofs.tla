-------------------------- MODULE FtpSession_proofs --------------------------
(***************************************************************************)
(* The FTP driver keeps its types, recurses no deeper than one level, and  *)
(* never takes the directory and the transfer type of an earlier           *)
(* connection for those of the new one: for every set of directories,      *)
(* files, options, calls and networks.  And it implements what the engine  *)
(* relies on: every step of a session is a step of DriverCall or changes   *)
(* nothing that the engine can see, for every network in which no reply is *)
(* left unread and no EPSV loses its connection.                           *)
(***************************************************************************)
EXTENDS FtpSession, FiniteSetTheorems, SequenceTheorems, TLAPS

-----------------------------------------------------------------------------
(* The types of the variables                                              *)

Types == {"ascii", "binary"}
Times == {"then", "another_time", "now", "none"}

Session ==
  [connected : BOOLEAN, cwd : Dirs \cup {"x"}, mode : {"unknown", "ascii", "binary"},
   rfc2428 : {"unknown", "ok"}, family : {"ipv4", "ipv6"},
   use_passive : BOOLEAN, use_cwd : BOOLEAN, net : Networks]

Message == [code : Nat, time : Times]

ServerEnd ==
  [cwd : Dirs, type : Types, data : BOOLEAN, rnfr : Paths \cup {NoPath},
   xfer : Paths \cup {NoPath}, unread : Seq(Message)]

FileTree == [Paths -> D!Contents \cup {"none", "dir", "garbled"}]

TypeVerbs == {"TYPE_ascii", "TYPE_binary"}

\* The commands, and OPEN for a call of ftp_open that sends none.
Verbs ==
  TypeVerbs \cup {"CWD", "EPSV", "PASV", "PORT", "STOR", "RETR", "LIST", "DELE", "RMD", "MKD",
                  "SITE_CHMOD", "RNFR", "RNTO", "MDTM"}

Activation ==
  [verb : Verbs \cup {"OPEN"}, tries : 0 .. 2, phase : {"open", "run"}, time : Times]

\* What a command returns, and what ftp_open returns when there is no connection.
ReplyCodes == {"OK", "SENT", "READY", "FILEBAD", "FILEMORE", "MODTIME", "PASSIVE", "ERROR"}
OpenCodes  == {"CONNECT", "HELLO", "LOGIN"}

-----------------------------------------------------------------------------
(* The invariant                                                           *)

\* The operations that come to a position of the code.
OpsAt(p) ==
  CASE p = "init"    -> {"init"}
    [] p = "command" -> {"delete", "mkdir", "rmdir", "chmod"}
    [] p \in {"rnfr", "rnto"} -> {"move"}
    [] p = "mdtm"    -> {"modtime", "put_cond"}
    [] p = "mode"    -> {"put", "put_cond", "get", "read"}
    [] p = "fopen"   -> {"put", "put_cond", "get"}
    [] p = "chdir"   -> {"put", "put_cond"}
    [] p = "times"   -> {"fetch"}
    [] OTHER -> {"put", "put_cond", "get", "read", "fetch"}

ServerOK == sess \in Session /\ srv \in ServerEnd /\ tree \in FileTree

\* An operation is in execution at a position of its own code.
PositionOK ==
  /\ \/ call = NoCall /\ pc \in {"new", "ready"}
     \/ call \in Calls /\ pc \in Positions \ {"new", "ready"} /\ call.op \in OpsAt(pc)
  /\ tries \in 0 .. 2 /\ rel \in BOOLEAN /\ sent \in BOOLEAN
  /\ todo \in 0 .. Cardinality(Paths)
  /\ todo # 0 => pc = "times"
  /\ pc = "close" => srv.unread # <<>>
  /\ pc = "close" => todo = 0

\* The outermost call of execute is that of the position.
Outermost(f) ==
  /\ f \in Activation
  /\ pc \in Sending
  /\ f.verb = Verb
  /\ f.phase = "run" => f.verb # "OPEN"
  /\ pc = "times" => todo # 0

\* No command, one, or one that waits for the TYPE that ftp_open sends: while
\* that lasts the mode of the session is unknown, which is what ends the
\* recursion.
StackOK ==
  /\ ret \in ReplyCodes \cup OpenCodes \cup {"none"}
  /\ \/ stack = <<>> /\ ret = "none"
     \/ \E f \in Activation : stack = <<f>> /\ Outermost(f)
     \/ \E f, g \in Activation :
           /\ stack = <<f, g>> /\ Outermost(f)
           /\ f.phase = "open" /\ g.verb \in TypeVerbs
           /\ sess.mode = "unknown"

TypeInv == ServerOK /\ PositionOK /\ StackOK

-----------------------------------------------------------------------------
(* The stack                                                               *)

\* One call of execute: what the code reads of it, and what it becomes.
LEMMA OneCall ==
  ASSUME NEW f \in Activation
  PROVE  /\ <<f>> # <<>> /\ Len(<<f>>) = 1 /\ <<f>>[1] = f
         /\ \A p \in {"open", "run"} : [<<f>> EXCEPT ![1].phase = p] = <<[f EXCEPT !.phase = p]>>
         /\ \A t \in Times : [<<f>> EXCEPT ![1].time = t] = <<[f EXCEPT !.time = t]>>
         /\ [<<f>> EXCEPT ![1].tries = @ + 1, ![1].phase = "open"]
              = <<[f EXCEPT !.tries = @ + 1, !.phase = "open"]>>
         /\ \A g \in Activation : Append(<<f>>, g) = <<f, g>>
<1>1. <<f>> # <<>> /\ Len(<<f>>) = 1 /\ <<f>>[1] = f
  OBVIOUS
<1>2. \A p \in {"open", "run"} : [<<f>> EXCEPT ![1].phase = p] = <<[f EXCEPT !.phase = p]>>
  OBVIOUS
<1>3. \A t \in Times : [<<f>> EXCEPT ![1].time = t] = <<[f EXCEPT !.time = t]>>
  OBVIOUS
<1>4. [<<f>> EXCEPT ![1].tries = @ + 1, ![1].phase = "open"]
        = <<[f EXCEPT !.tries = @ + 1, !.phase = "open"]>>
  BY SMT DEF Activation
<1>5. ASSUME NEW g \in Activation PROVE Append(<<f>>, g) = <<f, g>>
  <2>1. <<f>> \in Seq(Activation) /\ <<f, g>> \in Seq(Activation)
    OBVIOUS
  <2>2. Append(<<f>>, g) \in Seq(Activation) /\ Len(Append(<<f>>, g)) = 2
    BY <2>1, <1>1
  <2>3. Append(<<f>>, g)[1] = f /\ Append(<<f>>, g)[2] = g
    BY <2>1, <1>1
  <2>4. Len(<<f, g>>) = 2 /\ <<f, g>>[1] = f /\ <<f, g>>[2] = g
    OBVIOUS
  <2>5. \A i \in 1 .. 2 : i = 1 \/ i = 2
    OBVIOUS
  <2>6. QED
    BY <2>1, <2>2, <2>3, <2>4, <2>5, SeqEqual
<1>6. QED
  BY <1>1, <1>2, <1>3, <1>4, <1>5

\* Two calls of execute.
LEMMA TwoCalls ==
  ASSUME NEW f \in Activation, NEW g \in Activation
  PROVE  /\ <<f, g>> # <<>> /\ Len(<<f, g>>) = 2 /\ <<f, g>>[2] = g
         /\ \A p \in {"open", "run"} : [<<f, g>> EXCEPT ![2].phase = p] = <<f, [g EXCEPT !.phase = p]>>
         /\ \A t \in Times : [<<f, g>> EXCEPT ![2].time = t] = <<f, [g EXCEPT !.time = t]>>
         /\ [<<f, g>> EXCEPT ![2].tries = @ + 1, ![2].phase = "open"]
              = <<f, [g EXCEPT !.tries = @ + 1, !.phase = "open"]>>
         /\ SubSeq(<<f, g>>, 1, 1) = <<f>>
<1>1. <<f, g>> # <<>> /\ Len(<<f, g>>) = 2 /\ <<f, g>>[1] = f /\ <<f, g>>[2] = g
  OBVIOUS
<1>2. \A p \in {"open", "run"} : [<<f, g>> EXCEPT ![2].phase = p] = <<f, [g EXCEPT !.phase = p]>>
  OBVIOUS
<1>3. \A t \in Times : [<<f, g>> EXCEPT ![2].time = t] = <<f, [g EXCEPT !.time = t]>>
  OBVIOUS
<1>4. [<<f, g>> EXCEPT ![2].tries = @ + 1, ![2].phase = "open"]
        = <<f, [g EXCEPT !.tries = @ + 1, !.phase = "open"]>>
  BY SMT DEF Activation
<1>5. SubSeq(<<f, g>>, 1, 1) = <<f>>
  <2>1. \A i \in 1 .. 1 : <<f, g>>[i] \in Activation
    BY <1>1
  <2>2. /\ SubSeq(<<f, g>>, 1, 1) \in Seq(Activation)
        /\ Len(SubSeq(<<f, g>>, 1, 1)) = 1
        /\ SubSeq(<<f, g>>, 1, 1)[1] = f
    BY <1>1, <2>1, SubSeqProperties
  <2>3. <<f>> \in Seq(Activation) /\ Len(<<f>>) = 1 /\ <<f>>[1] = f
    OBVIOUS
  <2>4. \A i \in 1 .. 1 : i = 1
    OBVIOUS
  <2>5. QED
    BY <2>2, <2>3, <2>4, SeqEqual
<1>6. QED
  BY <1>1, <1>2, <1>3, <1>4, <1>5

-----------------------------------------------------------------------------
(* The server                                                              *)

Replies == {150, 200, 213, 227, 229, 250, 350, 425, 503, 550}

\* The arguments of an operation.
LEMMA CallTyped ==
  ASSUME NEW c \in Calls
  PROVE  /\ c.op \in Operations /\ c.path \in Paths /\ c.to \in Paths /\ c.to # c.path
         /\ c.mode \in Types /\ c.time = "then" /\ c.times \in BOOLEAN
         /\ c.path[1] \in Dirs /\ c.path[2] \in Bases
         /\ c # NoCall
<1>1. c \in [op : Operations, path : Paths, to : Paths, mode : {"ascii", "binary"},
             time : {"then"}, times : BOOLEAN] /\ c.to # c.path
  BY FtpAssumption
<1>2. c.op \in Operations /\ c.path \in Paths /\ c.to \in Paths /\ c.mode \in Types /\ c.time = "then"
  BY <1>1 DEF Types
<1>3. c.times \in BOOLEAN
  BY <1>1, Zenon
<1>4. c.path[1] \in Dirs /\ c.path[2] \in Bases
  BY <1>2 DEF Paths
<1>5. c # NoCall
  BY <1>2 DEF NoCall, Operations
<1>6. QED
  BY <1>1, <1>2, <1>3, <1>4, <1>5

\* The file that the server stores into is one of its files.
LEMMA TargetTyped ==
  ASSUME ServerOK, call \in Calls
  PROVE  Target \in Paths
BY CallTyped DEF ServerOK, ServerEnd, Target, Paths

\* What the server makes of each command.
LEMMA ServeCases ==
  /\ Serve("TYPE_ascii") = Set(200, [srv EXCEPT !.type = "ascii"])
  /\ Serve("TYPE_binary") = Set(200, [srv EXCEPT !.type = "binary"])
  /\ Serve("CWD") = Set(250, [srv EXCEPT !.cwd = call.path[1]])
  /\ Serve("EPSV") = Set(229, [srv EXCEPT !.data = TRUE])
  /\ Serve("PASV") = Set(227, [srv EXCEPT !.data = TRUE])
  /\ Serve("PORT") = Set(200, [srv EXCEPT !.data = TRUE])
  /\ ~srv.data => Serve("STOR") = Says(425)
  /\ ~srv.data => Serve("RETR") = Says(425)
  /\ ~srv.data => Serve("LIST") = Says(425)
  /\ srv.data => Serve("STOR") = IF tree[Target] = "dir" THEN Set(550, [srv EXCEPT !.data = FALSE])
                                ELSE Served(150, [srv EXCEPT !.data = FALSE, !.xfer = Target],
                                            [tree EXCEPT ![Target] = "part"])
  /\ srv.data => Serve("RETR") = Set(IF Holds(call.path) THEN 150 ELSE 550, [srv EXCEPT !.data = FALSE])
  /\ srv.data => Serve("LIST") = Set(150, [srv EXCEPT !.data = FALSE])
  /\ Serve("DELE") = IF Holds(call.path) THEN Write(call.path, "none") ELSE Says(550)
  /\ Serve("RMD") = IF tree[call.path] = "dir" THEN Write(call.path, "none") ELSE Says(550)
  /\ Serve("MKD") = IF tree[call.path] = "none" THEN Write(call.path, "dir") ELSE Says(550)
  /\ Serve("SITE_CHMOD") = Says(IF tree[call.path] = "none" THEN 550 ELSE 200)
  /\ Serve("RNFR") = IF Holds(call.path) THEN Set(350, [srv EXCEPT !.rnfr = call.path]) ELSE Says(550)
  /\ Serve("RNTO") = IF srv.rnfr = NoPath \/ tree[call.to] = "dir" THEN Says(503)
                    ELSE Served(250, [srv EXCEPT !.rnfr = NoPath],
                                [tree EXCEPT ![call.to] = tree[srv.rnfr], ![srv.rnfr] = "none"])
  /\ Serve("MDTM") = Says(IF todo # 0 \/ Holds(call.path) THEN 213 ELSE 550)
<1>1. Serve("TYPE_ascii") = Set(200, [srv EXCEPT !.type = "ascii"])
  BY DEF Serve
<1>2. Serve("TYPE_binary") = Set(200, [srv EXCEPT !.type = "binary"])
  BY DEF Serve
<1>3. Serve("CWD") = Set(250, [srv EXCEPT !.cwd = call.path[1]])
  BY DEF Serve
<1>4. Serve("EPSV") = Set(229, [srv EXCEPT !.data = TRUE])
  BY DEF Serve
<1>5. Serve("PASV") = Set(227, [srv EXCEPT !.data = TRUE])
  BY DEF Serve
<1>6. Serve("PORT") = Set(200, [srv EXCEPT !.data = TRUE])
  BY DEF Serve
<1>7. ~srv.data => Serve("STOR") = Says(425)
  BY DEF Serve
<1>8. ~srv.data => Serve("RETR") = Says(425)
  BY DEF Serve
<1>9. ~srv.data => Serve("LIST") = Says(425)
  BY DEF Serve
<1>10. srv.data => Serve("STOR") = IF tree[Target] = "dir" THEN Set(550, [srv EXCEPT !.data = FALSE])
                                 ELSE Served(150, [srv EXCEPT !.data = FALSE, !.xfer = Target],
                                             [tree EXCEPT ![Target] = "part"])
  BY DEF Serve
<1>11. srv.data => Serve("RETR") = Set(IF Holds(call.path) THEN 150 ELSE 550, [srv EXCEPT !.data = FALSE])
  BY DEF Serve
<1>12. srv.data => Serve("LIST") = Set(150, [srv EXCEPT !.data = FALSE])
  BY DEF Serve
<1>13. Serve("DELE") = IF Holds(call.path) THEN Write(call.path, "none") ELSE Says(550)
  BY DEF Serve
<1>14. Serve("RMD") = IF tree[call.path] = "dir" THEN Write(call.path, "none") ELSE Says(550)
  BY DEF Serve
<1>15. Serve("MKD") = IF tree[call.path] = "none" THEN Write(call.path, "dir") ELSE Says(550)
  BY DEF Serve
<1>16. Serve("SITE_CHMOD") = Says(IF tree[call.path] = "none" THEN 550 ELSE 200)
  BY DEF Serve
<1>17. Serve("RNFR") = IF Holds(call.path) THEN Set(350, [srv EXCEPT !.rnfr = call.path]) ELSE Says(550)
  BY DEF Serve
<1>18. Serve("RNTO") = IF srv.rnfr = NoPath \/ tree[call.to] = "dir" THEN Says(503)
                     ELSE Served(250, [srv EXCEPT !.rnfr = NoPath],
                                 [tree EXCEPT ![call.to] = tree[srv.rnfr], ![srv.rnfr] = "none"])
  BY DEF Serve
<1>19. Serve("MDTM") = Says(IF todo # 0 \/ Holds(call.path) THEN 213 ELSE 550)
  BY DEF Serve
<1>20. QED
  BY <1>1, <1>2, <1>3, <1>4, <1>5, <1>6, <1>7, <1>8, <1>9, <1>10, <1>11, <1>12, <1>13, <1>14, <1>15, <1>16, <1>17, <1>18, <1>19

\* What the server makes of a command is well typed.
ServedOK(r) ==
  /\ r.code \in Replies /\ r.srv \in ServerEnd
  /\ r.srv.unread = srv.unread /\ r.tree \in FileTree

\* Whatever the command, the server stays well typed and leaves its queue of
\* replies alone.
LEMMA ServeTyped ==
  ASSUME ServerOK, call \in Calls, NEW verb \in Verbs
  PROVE  ServedOK(Serve(verb))
<1>1. /\ srv \in ServerEnd /\ tree \in FileTree
      /\ call.path \in Paths /\ call.to \in Paths /\ call.path[1] \in Dirs
  BY CallTyped DEF ServerOK
<1>2. \A code \in Replies, s \in ServerEnd, t \in FileTree :
        s.unread = srv.unread => ServedOK(Served(code, s, t))
  BY DEF Served, ServedOK
<1>3. \A code \in Replies : ServedOK(Says(code))
  BY <1>1, <1>2 DEF Says
<1>4. \A code \in Replies, s \in ServerEnd : s.unread = srv.unread => ServedOK(Set(code, s))
  BY <1>1, <1>2 DEF Set
<1>5. \A x \in {"none", "dir"} : ServedOK(Write(call.path, x))
  <2>1. \A x \in {"none", "dir"} : [tree EXCEPT ![call.path] = x] \in FileTree
    BY <1>1 DEF FileTree
  <2>2. 250 \in Replies
    BY DEF Replies
  <2>3. QED
    BY <1>1, <1>2, <2>1, <2>2 DEF Write
<1>6. \A code \in Replies, b \in BOOLEAN : ServedOK(Set(code, [srv EXCEPT !.data = b]))
  <2> SUFFICES ASSUME NEW code \in Replies, NEW b \in BOOLEAN
               PROVE  ServedOK(Set(code, [srv EXCEPT !.data = b]))
    OBVIOUS
  <2> DEFINE s == [srv EXCEPT !.data = b]
  <2>1. s \in ServerEnd /\ s.unread = srv.unread
    BY <1>1 DEF ServerEnd
  <2> HIDE DEF s
  <2>2. ServedOK(Set(code, s))
    BY <1>4, <2>1
  <2>3. QED
    BY <2>2 DEF s
<1>7. /\ 200 \in Replies /\ 250 \in Replies /\ 229 \in Replies /\ 227 \in Replies
      /\ 425 \in Replies /\ 550 \in Replies /\ 150 \in Replies /\ 350 \in Replies
      /\ 503 \in Replies /\ 213 \in Replies
  BY DEF Replies
<1>8. ServedOK(Serve("TYPE_ascii")) /\ ServedOK(Serve("TYPE_binary"))
  <2>1. \A x \in Types : ServedOK(Set(200, [srv EXCEPT !.type = x]))
    <3> SUFFICES ASSUME NEW x \in Types PROVE ServedOK(Set(200, [srv EXCEPT !.type = x]))
      OBVIOUS
    <3> DEFINE s == [srv EXCEPT !.type = x]
    <3>1. s \in ServerEnd /\ s.unread = srv.unread
      BY <1>1 DEF ServerEnd
    <3> HIDE DEF s
    <3>2. ServedOK(Set(200, s))
      BY <1>4, <1>7, <3>1
    <3>3. QED
      BY <3>2 DEF s
  <2>2. "ascii" \in Types /\ "binary" \in Types
    BY DEF Types
  <2>3. Serve("TYPE_ascii") = Set(200, [srv EXCEPT !.type = "ascii"])
    BY ServeCases
  <2>4. Serve("TYPE_binary") = Set(200, [srv EXCEPT !.type = "binary"])
    BY ServeCases
  <2>5. QED
    BY <2>1, <2>2, <2>3, <2>4, Zenon
<1>9. ServedOK(Serve("CWD"))
  <2> DEFINE s == [srv EXCEPT !.cwd = call.path[1]]
  <2>1. s \in ServerEnd /\ s.unread = srv.unread
    BY <1>1 DEF ServerEnd
  <2>2. Serve("CWD") = Set(250, s)
    BY ServeCases
  <2> HIDE DEF s
  <2>3. QED
    BY <1>4, <1>7, <2>1, <2>2
<1>10. TRUE \in BOOLEAN /\ FALSE \in BOOLEAN
  OBVIOUS
<1>11. ServedOK(Serve("EPSV")) /\ ServedOK(Serve("PASV")) /\ ServedOK(Serve("PORT"))
  <2>1. Serve("EPSV") = Set(229, [srv EXCEPT !.data = TRUE])
    BY ServeCases
  <2>2. Serve("PASV") = Set(227, [srv EXCEPT !.data = TRUE])
    BY ServeCases
  <2>3. Serve("PORT") = Set(200, [srv EXCEPT !.data = TRUE])
    BY ServeCases
  <2>4. ServedOK(Set(229, [srv EXCEPT !.data = TRUE]))
    BY <1>6, <1>7, <1>10, Zenon
  <2>5. ServedOK(Set(227, [srv EXCEPT !.data = TRUE]))
    BY <1>6, <1>7, <1>10, Zenon
  <2>6. ServedOK(Set(200, [srv EXCEPT !.data = TRUE]))
    BY <1>6, <1>7, <1>10, Zenon
  <2>7. ServedOK(Serve("EPSV"))
    BY <2>1, <2>4
  <2>8. ServedOK(Serve("PASV"))
    BY <2>2, <2>5
  <2>9. ServedOK(Serve("PORT"))
    BY <2>3, <2>6
  <2>10. QED
    BY <2>7, <2>8, <2>9
<1>12. ServedOK(Serve("RETR")) /\ ServedOK(Serve("LIST"))
  <2>1. CASE ~srv.data
    <3>1. Serve("RETR") = Says(425) /\ Serve("LIST") = Says(425)
      BY <2>1, ServeCases
    <3>2. QED
      BY <1>3, <1>7, <3>1
  <2>2. CASE srv.data
    <3>1. Serve("RETR") = Set(IF Holds(call.path) THEN 150 ELSE 550, [srv EXCEPT !.data = FALSE])
      BY <2>2, ServeCases
    <3>2. Serve("LIST") = Set(150, [srv EXCEPT !.data = FALSE])
      BY <2>2, ServeCases
    <3>3. \/ Serve("RETR") = Set(150, [srv EXCEPT !.data = FALSE])
          \/ Serve("RETR") = Set(550, [srv EXCEPT !.data = FALSE])
      BY <3>1, Zenon
    <3>4. ServedOK(Set(150, [srv EXCEPT !.data = FALSE]))
      BY <1>6, <1>7, <1>10, Zenon
    <3>5. ServedOK(Set(550, [srv EXCEPT !.data = FALSE]))
      BY <1>6, <1>7, <1>10, Zenon
    <3>6. ServedOK(Serve("RETR"))
      BY <3>3, <3>4, <3>5
    <3>7. ServedOK(Serve("LIST"))
      BY <3>2, <3>4
    <3>8. QED
      BY <3>6, <3>7
  <2>3. QED
    BY <2>1, <2>2
<1>13. ServedOK(Serve("STOR"))
  <2> DEFINE s == [srv EXCEPT !.data = FALSE, !.xfer = Target]
             t == [tree EXCEPT ![Target] = "part"]
  <2>1. s \in ServerEnd /\ s.unread = srv.unread
    BY <1>1, TargetTyped DEF ServerEnd
  <2>2. t \in FileTree
    BY <1>1, TargetTyped DEF FileTree, D!Contents
  <2>3. CASE ~srv.data
    <3>1. Serve("STOR") = Says(425)
      BY <2>3, ServeCases
    <3>2. QED
      BY <1>3, <1>7, <3>1
  <2>4. CASE srv.data
    <3>1. Serve("STOR") = Set(550, [srv EXCEPT !.data = FALSE]) \/ Serve("STOR") = Served(150, s, t)
      BY <2>4, ServeCases
    <3>2. ServedOK(Set(550, [srv EXCEPT !.data = FALSE]))
      BY <1>6, <1>7, <1>10, Zenon
    <3> HIDE DEF s, t
    <3>3. ServedOK(Served(150, s, t))
      BY <1>2, <1>7, <2>1, <2>2
    <3>4. QED
      BY <3>1, <3>2, <3>3
  <2>5. QED
    BY <2>3, <2>4
<1>14. ServedOK(Serve("DELE")) /\ ServedOK(Serve("RMD")) /\ ServedOK(Serve("MKD"))
  <2>1. ServedOK(Says(550)) /\ ServedOK(Write(call.path, "none")) /\ ServedOK(Write(call.path, "dir"))
    BY <1>3, <1>5, <1>7
  <2>2. Serve("DELE") = Says(550) \/ Serve("DELE") = Write(call.path, "none")
    BY ServeCases
  <2>3. Serve("RMD") = Says(550) \/ Serve("RMD") = Write(call.path, "none")
    BY ServeCases
  <2>4. Serve("MKD") = Says(550) \/ Serve("MKD") = Write(call.path, "dir")
    BY ServeCases
  <2>5. QED
    BY <2>1, <2>2, <2>3, <2>4
<1>15. ServedOK(Serve("SITE_CHMOD")) /\ ServedOK(Serve("MDTM"))
  <2>1. ServedOK(Says(550)) /\ ServedOK(Says(200)) /\ ServedOK(Says(213))
    BY <1>3, <1>7
  <2>2. Serve("SITE_CHMOD") = Says(550) \/ Serve("SITE_CHMOD") = Says(200)
    BY ServeCases
  <2>3. Serve("MDTM") = Says(550) \/ Serve("MDTM") = Says(213)
    BY ServeCases
  <2>4. ServedOK(Serve("SITE_CHMOD"))
    BY <2>1, <2>2
  <2>5. ServedOK(Serve("MDTM"))
    BY <2>1, <2>3
  <2>6. QED
    BY <2>4, <2>5
<1>16. ServedOK(Serve("RNFR"))
  <2> DEFINE s == [srv EXCEPT !.rnfr = call.path]
  <2>1. s \in ServerEnd /\ s.unread = srv.unread
    BY <1>1 DEF ServerEnd
  <2>2. Serve("RNFR") = Set(350, s) \/ Serve("RNFR") = Says(550)
    BY ServeCases
  <2> HIDE DEF s
  <2>3. QED
    BY <1>3, <1>4, <1>7, <2>1, <2>2
<1>17. ServedOK(Serve("RNTO"))
  <2> DEFINE s == [srv EXCEPT !.rnfr = NoPath]
             t == [tree EXCEPT ![call.to] = tree[srv.rnfr], ![srv.rnfr] = "none"]
  <2>1. s \in ServerEnd /\ s.unread = srv.unread
    BY <1>1 DEF ServerEnd
  <2>2. srv.rnfr # NoPath => t \in FileTree
    <3>1. srv.rnfr # NoPath => srv.rnfr \in Paths
      BY <1>1 DEF ServerEnd
    <3>2. QED
      BY <1>1, <3>1 DEF FileTree
  <2>3. Serve("RNTO") = Says(503) \/ (srv.rnfr # NoPath /\ Serve("RNTO") = Served(250, s, t))
    BY ServeCases
  <2> HIDE DEF s, t
  <2>4. QED
    BY <1>2, <1>3, <1>7, <2>1, <2>2, <2>3
<1>18. QED
  BY <1>8, <1>9, <1>11, <1>12, <1>13, <1>14, <1>15, <1>16, <1>17 DEF Verbs, TypeVerbs

-----------------------------------------------------------------------------
(* Every step preserves the invariant                                      *)

\* A reply of the server, and what it makes execute return.
LEMMA ReplyTyped ==
  ASSUME ServerOK, call \in Calls, NEW code \in Nat
  PROVE  Reply(code) \in Message /\ Reply(code).code = code
<1>1. Holds(call.path) => D!TimeOf(tree[call.path]) \in Times
  BY DEF D!TimeOf, Times
<1>2. QED
  BY <1>1 DEF Reply, Message, Times

\* Every reply code has a meaning, and "none" is none of them.
LEMMA ParseTyped ==
  ASSUME NEW code
  PROVE  parse_reply(code) \in ReplyCodes
BY DEF parse_reply, ReplyCodes

\* The command of a position is known.
LEMMA VerbTyped ==
  ASSUME call \in Calls, pc \in Sending, call.op \in OpsAt(pc)
  PROVE  /\ Verb \in Verbs \cup {"OPEN"}
         /\ Verb = "OPEN" <=> pc \in {"init", "listen"}
<1>1. call.op \in Operations /\ call.mode \in Types
  BY CallTyped
<1>2. CASE pc \in {"command", "transfer"}
  BY <1>1, <1>2 DEF Verb, OpVerb, Verbs, OpsAt
<1>3. CASE pc \in {"init", "listen"}
  BY <1>3 DEF Verb
<1>4. CASE pc = "mode"
  BY <1>1, <1>4 DEF Verb, Verbs, TypeVerbs, set_type, Types
<1>5. CASE pc \in {"rnfr", "rnto", "mdtm", "times", "chdir", "epsv", "pasv", "port"}
  BY <1>5 DEF Verb, Verbs
<1>6. QED
  BY <1>2, <1>3, <1>4, <1>5 DEF Sending

\* While a command is being carried out, the operation stays where it is.
LEMMA InCommand ==
  ASSUME TypeInv, stack # <<>>, UNCHANGED <<call, pc, tries, rel, sent, todo>>
  PROVE  /\ call \in Calls /\ pc \in Sending /\ call.op \in OpsAt(pc)
         /\ PositionOK'
         /\ \A f : Outermost(f)' <=> Outermost(f)
<1>1. pc \in Sending
  BY DEF TypeInv, StackOK, Outermost
<1>2. call \in Calls /\ call.op \in OpsAt(pc)
  BY <1>1 DEF TypeInv, PositionOK, Sending
<1>3. PositionOK'
  BY <1>1 DEF TypeInv, PositionOK, Sending
<1>4. \A f : Outermost(f)' <=> Outermost(f)
  BY DEF Outermost, Verb, OpVerb
<1>5. QED
  BY <1>1, <1>2, <1>3, <1>4

\* What the next step finds on the stack.
LEMMA StackCases ==
  ASSUME TypeInv, stack # <<>>
  PROVE  \/ \E f \in Activation : /\ stack = <<f>> /\ Outermost(f)
                                  /\ Len(stack) = 1 /\ Top = f
         \/ \E f, g \in Activation :
              /\ stack = <<f, g>> /\ Outermost(f) /\ Len(stack) = 2 /\ Top = g
              /\ f.phase = "open" /\ g.verb \in TypeVerbs /\ sess.mode = "unknown"
BY DEF TypeInv, StackOK, Top

\* ftp_open returns to the one command that there is: the command is sent, or,
\* if ftp_open is all that was wanted, it is done.
LEMMA OpenedOne ==
  ASSUME TypeInv, NEW f \in Activation, Outermost(f), stack = <<f>>, ret = "none",
         f.phase = "open", Opened(stack), UNCHANGED <<call, pc, tries, rel, sent, todo>>
  PROVE  StackOK'
<1>1. PositionOK' /\ \A g : Outermost(g)' <=> Outermost(g)
  BY InCommand
<1>2. Len(stack) = 1 /\ stack[1] = f
  BY OneCall
<1>3. CASE f.verb = "OPEN"
  <2>1. stack' = <<f>> /\ ret' = "OK"
    BY <1>2, <1>3 DEF Opened
  <2>2. QED
    BY <1>1, <2>1 DEF StackOK, ReplyCodes
<1>4. CASE f.verb # "OPEN"
  <2> DEFINE g == [f EXCEPT !.phase = "run"]
  <2>1. stack' = [<<f>> EXCEPT ![1].phase = "run"] /\ ret' = ret
    BY <1>2, <1>4 DEF Opened
  <2>2. stack' = <<g>>
    BY <2>1, OneCall
  <2>3. g \in Activation /\ g.verb = f.verb
    BY DEF Activation
  <2>4. Outermost(g)
    BY <1>4, <2>3 DEF Outermost
  <2> HIDE DEF g
  <2>5. QED
    BY <1>1, <2>1, <2>2, <2>3, <2>4 DEF StackOK
<1>5. QED
  BY <1>3, <1>4

\* A new call of execute is one of the model.
LEMMA FrameTyped ==
  ASSUME NEW verb \in Verbs \cup {"OPEN"}
  PROVE  /\ Frame(verb) \in Activation
         /\ Frame(verb).verb = verb /\ Frame(verb).phase = "open"
BY DEF Frame, Activation, Times

\* ftp_open: only the one command that there is can find the mode known, and
\* then set_mode is called with the mode unknown.
LEMMA OpenStep ==
  ASSUME TypeInv, ftp_open
  PROVE  TypeInv'
<1>1. /\ stack # <<>> /\ ret = "none" /\ Top.phase = "open"
      /\ UNCHANGED <<tree, local, call, pc, tries, rel, sent, todo, result>>
  BY DEF ftp_open
<1>2. /\ call \in Calls /\ PositionOK' /\ \A f : Outermost(f)' <=> Outermost(f)
  BY <1>1, InCommand
<1>3. CASE sess.connected /\ Opened(stack) /\ UNCHANGED <<sess, srv>>
  <2>1. ServerOK'
    BY <1>1, <1>3 DEF TypeInv, ServerOK
  <2>2. StackOK'
    <3>1. CASE \E f \in Activation : /\ stack = <<f>> /\ Outermost(f) /\ Len(stack) = 1 /\ Top = f
      BY <1>1, <1>3, <3>1, OpenedOne
    <3>2. ASSUME NEW f \in Activation, NEW g \in Activation,
                 stack = <<f, g>>, Outermost(f), Len(stack) = 2, Top = g,
                 f.phase = "open", g.verb \in TypeVerbs, sess.mode = "unknown"
          PROVE  StackOK'
      <4> DEFINE h == [g EXCEPT !.phase = "run"]
      <4>1. g.verb # "OPEN" /\ stack[2] = g
        BY <3>2, TwoCalls DEF TypeVerbs
      <4>2. stack' = [<<f, g>> EXCEPT ![2].phase = "run"] /\ ret' = ret
        BY <1>3, <3>2, <4>1 DEF Opened
      <4>3. stack' = <<f, h>>
        <5>1. [<<f, g>> EXCEPT ![2].phase = "run"] = <<f, h>>
          OBVIOUS
        <5>2. QED
          BY <4>2, <5>1
      <4>4. h \in Activation /\ h.verb = g.verb
        BY DEF Activation
      <4> HIDE DEF h
      <4>5. QED
        BY <1>1, <1>2, <1>3, <3>2, <4>2, <4>3, <4>4 DEF StackOK
    <3>3. QED
      BY <1>1, <3>1, <3>2, StackCases
  <2>3. QED
    BY <1>2, <2>1, <2>2 DEF TypeInv
<1>4. ASSUME NEW code \in OpenCodes, ret' = code, sess' = [sess EXCEPT !.cwd = "x"], UNCHANGED <<srv, stack>>
      PROVE  TypeInv'
  <2>1. sess' \in Session /\ sess'.mode = sess.mode
    BY <1>4 DEF TypeInv, ServerOK, Session
  <2>2. ServerOK'
    BY <1>1, <1>4, <2>1 DEF TypeInv, ServerOK
  <2>3. StackOK'
    BY <1>1, <1>2, <1>4, <2>1, StackCases DEF StackOK
  <2>4. QED
    BY <1>2, <2>2, <2>3 DEF TypeInv
<1>5. ASSUME NEW family \in sess.net.families, sess' = Connected(sess, family), srv' = Login,
             IF sess.mode = "unknown" THEN Opened(stack)
             ELSE stack' = Append(stack, Frame(set_type(sess.mode))) /\ UNCHANGED ret
      PROVE  TypeInv'
  <2>1. family \in {"ipv4", "ipv6"}
    BY <1>5, FtpAssumption DEF TypeInv, ServerOK, Session
  <2>2. sess' \in Session /\ sess'.mode = "unknown"
    BY <1>5, <2>1 DEF TypeInv, ServerOK, Session, Connected
  <2>3. srv' \in ServerEnd
    BY <1>5, FtpAssumption DEF Login, ServerEnd, Types
  <2>4. ServerOK'
    BY <1>1, <2>2, <2>3 DEF TypeInv, ServerOK
  <2>5. ASSUME NEW f \in Activation, stack = <<f>>, Outermost(f), Top = f
        PROVE  StackOK'
    <3>1. CASE sess.mode = "unknown"
      BY <1>1, <1>5, <2>5, <3>1, OpenedOne
    <3>2. CASE sess.mode # "unknown"
      <4> DEFINE g == Frame(set_type(sess.mode))
      <4>1. set_type(sess.mode) \in TypeVerbs
        BY DEF set_type, TypeVerbs
      <4>2. g \in Activation /\ g.verb \in TypeVerbs
        BY <4>1, FrameTyped DEF Verbs
      <4>3. stack' = Append(<<f>>, g) /\ ret' = "none"
        BY <1>1, <1>5, <2>5, <3>2
      <4> HIDE DEF g
      <4>4. \A h \in Activation : Append(<<f>>, h) = <<f, h>>
        BY OneCall
      <4>5. stack' = <<f, g>>
        BY <4>2, <4>3, <4>4
      <4>6. QED
        BY <1>1, <1>2, <2>2, <2>5, <4>2, <4>3, <4>5 DEF StackOK
    <3>3. QED
      BY <3>1, <3>2
  <2>6. ASSUME NEW f \in Activation, NEW g \in Activation,
               stack = <<f, g>>, Outermost(f), Len(stack) = 2, Top = g,
               f.phase = "open", g.verb \in TypeVerbs, sess.mode = "unknown"
        PROVE  StackOK'
    <3> DEFINE h == [g EXCEPT !.phase = "run"]
    <3>1. g.verb # "OPEN" /\ stack[2] = g
      BY <2>6, TwoCalls DEF TypeVerbs
    <3>2. stack' = [<<f, g>> EXCEPT ![2].phase = "run"] /\ ret' = ret
      BY <1>5, <2>6, <3>1 DEF Opened
    <3>3. stack' = <<f, h>>
      <4>1. [<<f, g>> EXCEPT ![2].phase = "run"] = <<f, h>>
        OBVIOUS
      <4>2. QED
        BY <3>2, <4>1
    <3>4. h \in Activation /\ h.verb = g.verb
      BY DEF Activation
    <3> HIDE DEF h
    <3>5. QED
      BY <1>1, <1>2, <2>2, <2>6, <3>2, <3>3, <3>4 DEF StackOK
  <2>7. StackOK'
    BY <1>1, <2>5, <2>6, StackCases
  <2>8. QED
    BY <1>2, <2>4, <2>7 DEF TypeInv
<1>6. QED
  BY <1>3, <1>4, <1>5 DEF ftp_open, If, OpenCodes

\* set_mode, called by ftp_open, returns to the command that has waited for it.
LEMMA RestoreStep ==
  ASSUME TypeInv, RestoreMode
  PROVE  TypeInv'
<1>1. /\ Len(stack) > 1 /\ ret # "none" /\ stack # <<>>
      /\ UNCHANGED <<srv, tree, local, call, pc, tries, rel, sent, todo, result>>
  BY DEF RestoreMode
<1>2. /\ call \in Calls /\ PositionOK' /\ \A f : Outermost(f)' <=> Outermost(f)
  BY <1>1, InCommand
<1>3. PICK f \in Activation, g \in Activation :
        /\ stack = <<f, g>> /\ Outermost(f) /\ Len(stack) = 2 /\ Top = g
        /\ f.phase = "open" /\ g.verb \in TypeVerbs /\ sess.mode = "unknown"
  BY <1>1, StackCases
<1>4. SubSeq(stack, 1, Len(stack) - 1) = <<f>>
  <2>1. Len(stack) - 1 = 1
    BY <1>3
  <2>2. SubSeq(<<f, g>>, 1, 1) = <<f>>
    BY TwoCalls
  <2>3. QED
    BY <1>3, <2>1, <2>2
<1>5. sess' \in Session
  <2>1. \E m \in {"unknown", "ascii", "binary"} : sess' = [sess EXCEPT !.mode = m]
    BY DEF RestoreMode
  <2>2. QED
    BY <2>1 DEF TypeInv, ServerOK, Session
<1>6. ServerOK'
  BY <1>1, <1>5 DEF TypeInv, ServerOK
<1>7. ret \in ReplyCodes \cup OpenCodes
  BY <1>1 DEF TypeInv, StackOK
<1>8. StackOK'
  <2>1. CASE stack' = <<f>> /\ ret' = ret
    BY <1>2, <1>3, <1>7, <2>1 DEF StackOK
  <2>2. CASE stack' = [<<f>> EXCEPT ![1].phase = "run"] /\ ret' = "none" /\ f.verb # "OPEN"
    <3> DEFINE h == [f EXCEPT !.phase = "run"]
    <3>1. stack' = <<h>>
      BY <2>2, OneCall
    <3>2. h \in Activation /\ h.verb = f.verb
      BY DEF Activation
    <3>3. Outermost(h)
      BY <1>3, <2>2, <3>2 DEF Outermost
    <3> HIDE DEF h
    <3>4. QED
      BY <1>2, <2>2, <3>1, <3>2, <3>3 DEF StackOK
  <2>3. \/ stack' = <<f>> /\ ret' = ret
        \/ stack' = [<<f>> EXCEPT ![1].phase = "run"] /\ ret' = "none" /\ f.verb # "OPEN"
    <3>1. Len(<<f>>) = 1 /\ <<f>>[1] = f
      OBVIOUS
    <3>2. QED
      BY <1>4, <3>1 DEF RestoreMode
  <2>4. QED
    BY <2>1, <2>2, <2>3
<1>9. QED
  BY <1>2, <1>6, <1>8 DEF TypeInv

\* A lost connection.
LEMMA DisconnectTyped ==
  ASSUME ServerOK, Disconnect
  PROVE  sess' \in Session /\ sess'.mode = sess.mode /\ srv' \in ServerEnd
<1>1. sess' \in Session /\ sess'.mode = sess.mode
  BY DEF ServerOK, Session, Disconnect
<1>2. srv' \in ServerEnd
  BY FtpAssumption DEF Login, ServerEnd, Types, Disconnect
<1>3. QED
  BY <1>1, <1>2

\* The call of execute in progress, changed and no more than that.
SameCall(f, g) == g \in Activation /\ g.verb = f.verb /\ (g.phase = "run" => f.phase = "run")

\* A command that is tried again.
LEMMA TriedAgain ==
  ASSUME NEW f \in Activation, f.tries + 1 < 3
  PROVE  LET h == [f EXCEPT !.tries = @ + 1, !.phase = "open"]
         IN  h \in Activation /\ h.verb = f.verb /\ h.phase = "open"
<1>1. \A n \in 0 .. 2 : LET h == [f EXCEPT !.tries = n, !.phase = "open"]
                        IN  h \in Activation /\ h.verb = f.verb /\ h.phase = "open"
  BY DEF Activation
<1>2. f.tries + 1 \in 0 .. 2
  BY DEF Activation
<1>3. QED
  BY <1>1, <1>2, Zenon

\* A command that is sent, or sent again, changes no more than its own call.
LEMMA TopChanged ==
  ASSUME TypeInv, stack # <<>>, Top.phase = "run",
         \/ \E t \in Times : stack' = [stack EXCEPT ![Len(stack)].time = t]
         \/ Retry \/ stack' = stack,
         ret' \in ReplyCodes \cup OpenCodes \cup {"none"},
         UNCHANGED <<call, pc, tries, rel, sent, todo>>, sess'.mode = sess.mode
  PROVE  StackOK'
<1>1. /\ call \in Calls /\ PositionOK' /\ \A f : Outermost(f)' <=> Outermost(f)
  BY InCommand
<1>2. ASSUME NEW f \in Activation, stack = <<f>>, Outermost(f), Len(stack) = 1, Top = f
      PROVE  StackOK'
  <2>1. \E h : SameCall(f, h) /\ stack' = <<h>>
    <3>1. ASSUME NEW t \in Times, stack' = [stack EXCEPT ![Len(stack)].time = t]
          PROVE  \E h : SameCall(f, h) /\ stack' = <<h>>
      <4> DEFINE h == [f EXCEPT !.time = t]
      <4>1. stack' = <<h>>
        BY <1>2, <3>1, OneCall
      <4>2. SameCall(f, h)
        BY DEF SameCall, Activation
      <4> HIDE DEF h
      <4>3. QED
        BY <4>1, <4>2
    <3>2. ASSUME Retry PROVE \E h : SameCall(f, h) /\ stack' = <<h>>
      <4> DEFINE h == [f EXCEPT !.tries = @ + 1, !.phase = "open"]
      <4>1. CASE f.tries + 1 < 3
        <5>1. stack' = [<<f>> EXCEPT ![1].tries = @ + 1, ![1].phase = "open"]
          BY <1>2, <3>2, <4>1 DEF Retry
        <5>2. stack' = <<h>>
          BY <5>1, OneCall
        <5>3. h \in Activation /\ h.verb = f.verb /\ h.phase = "open"
          BY <4>1, TriedAgain
        <5> HIDE DEF h
        <5>4. QED
          BY <5>2, <5>3 DEF SameCall
      <4>2. CASE ~(f.tries + 1 < 3)
        BY <1>2, <3>2, <4>2 DEF Retry, SameCall
      <4>3. QED
        BY <4>1, <4>2
    <3>3. ASSUME stack' = stack PROVE \E h : SameCall(f, h) /\ stack' = <<h>>
      BY <1>2, <3>3 DEF SameCall
    <3>4. QED
      BY <3>1, <3>2, <3>3
  <2>2. PICK h : SameCall(f, h) /\ stack' = <<h>>
    BY <2>1
  <2>3. h \in Activation /\ Outermost(h)
    BY <1>2, <2>2 DEF SameCall, Outermost
  <2>4. QED
    BY <1>1, <2>2, <2>3 DEF StackOK
<1>3. ASSUME NEW f \in Activation, NEW g \in Activation,
             stack = <<f, g>>, Outermost(f), Len(stack) = 2, Top = g,
             f.phase = "open", g.verb \in TypeVerbs, sess.mode = "unknown"
      PROVE  StackOK'
  <2>1. \E h : SameCall(g, h) /\ stack' = <<f, h>>
    <3>1. ASSUME NEW t \in Times, stack' = [stack EXCEPT ![Len(stack)].time = t]
          PROVE  \E h : SameCall(g, h) /\ stack' = <<f, h>>
      <4> DEFINE h == [g EXCEPT !.time = t]
      <4>1. stack' = <<f, h>>
        <5>1. stack' = [<<f, g>> EXCEPT ![2].time = t]
          BY <1>3, <3>1
        <5>2. [<<f, g>> EXCEPT ![2].time = t] = <<f, [g EXCEPT !.time = t]>>
          OBVIOUS
        <5>3. QED
          BY <5>1, <5>2
      <4>2. SameCall(g, h)
        BY DEF SameCall, Activation
      <4> HIDE DEF h
      <4>3. QED
        BY <4>1, <4>2
    <3>2. ASSUME Retry PROVE \E h : SameCall(g, h) /\ stack' = <<f, h>>
      <4> DEFINE h == [g EXCEPT !.tries = @ + 1, !.phase = "open"]
      <4>1. CASE g.tries + 1 < 3
        <5>1. stack' = [<<f, g>> EXCEPT ![2].tries = @ + 1, ![2].phase = "open"]
          BY <1>3, <3>2, <4>1 DEF Retry
        <5>2. stack' = <<f, h>>
          BY <5>1, TwoCalls
        <5>3. h \in Activation /\ h.verb = g.verb /\ h.phase = "open"
          BY <4>1, TriedAgain
        <5> HIDE DEF h
        <5>4. QED
          BY <5>2, <5>3 DEF SameCall
      <4>2. CASE ~(g.tries + 1 < 3)
        BY <1>3, <3>2, <4>2 DEF Retry, SameCall
      <4>3. QED
        BY <4>1, <4>2
    <3>3. ASSUME stack' = stack PROVE \E h : SameCall(g, h) /\ stack' = <<f, h>>
      BY <1>3, <3>3 DEF SameCall
    <3>4. QED
      BY <3>1, <3>2, <3>3
  <2>2. PICK h : SameCall(g, h) /\ stack' = <<f, h>>
    BY <2>1
  <2>3. h \in Activation /\ h.verb \in TypeVerbs
    BY <1>3, <2>2 DEF SameCall
  <2>4. QED
    BY <1>1, <1>3, <2>2, <2>3 DEF StackOK
<1>4. QED
  BY <1>2, <1>3, StackCases

\* The queue of replies after a command, and the oldest one, which is taken for
\* the answer.
LEMMA RepliesTyped ==
  ASSUME NEW q \in Seq(Message), NEW r \in Message
  PROVE  /\ Append(q, r) \in Seq(Message) /\ Append(q, r) # <<>>
         /\ Head(Append(q, r)) \in Message /\ Tail(Append(q, r)) \in Seq(Message)
BY AppendProperties, HeadTailProperties

\* run_command, whatever becomes of the command.
LEMMA RunStep ==
  ASSUME TypeInv, run_command
  PROVE  TypeInv'
<1>1. /\ stack # <<>> /\ ret = "none" /\ Top.phase = "run"
      /\ UNCHANGED <<local, call, pc, tries, rel, sent, todo, result>>
  BY DEF run_command
<1>2. /\ call \in Calls /\ PositionOK'
  BY <1>1, InCommand
<1>3. Top.verb \in Verbs
  BY <1>1, StackCases DEF Activation, Outermost, Verbs
<1>4. PICK fate \in Fates, carried_out \in BOOLEAN :
        LET served  == IF carried_out THEN Serve(Top.verb) ELSE Says(550)
            replies == Append(served.srv.unread, Reply(served.code))
            code    == parse_reply(Head(replies).code)
        IN  /\ fate = "answer" => carried_out
            /\ fate = "refuse" => ~carried_out
            /\ tree' = served.tree
            /\ \/ /\ fate \in {"answer", "refuse"}
                  /\ srv' = [served.srv EXCEPT !.unread = Tail(replies)]
                  /\ ret' = code
                  /\ stack' = [stack EXCEPT ![Len(stack)].time = Head(replies).time]
                  /\ UNCHANGED sess
               \/ fate = "break" /\ Disconnect /\ Retry
               \/ fate = "error" /\ Disconnect /\ ret' = "ERROR" /\ UNCHANGED stack
  BY DEF run_command
<1> DEFINE served  == IF carried_out THEN Serve(Top.verb) ELSE Says(550)
           replies == Append(served.srv.unread, Reply(served.code))
<1>5. ServedOK(served)
  <2>1. ServedOK(Serve(Top.verb))
    BY <1>2, <1>3, ServeTyped DEF TypeInv
  <2>2. ServedOK(Says(550))
    BY DEF ServedOK, Says, Served, Replies, TypeInv, ServerOK
  <2>3. QED
    BY <2>1, <2>2
<1>6. /\ tree' = served.tree
      /\ \/ /\ srv' = [served.srv EXCEPT !.unread = Tail(replies)]
            /\ ret' = parse_reply(Head(replies).code)
            /\ stack' = [stack EXCEPT ![Len(stack)].time = Head(replies).time]
            /\ UNCHANGED sess
         \/ Disconnect /\ Retry
         \/ Disconnect /\ ret' = "ERROR" /\ UNCHANGED stack
  BY <1>4
<1> HIDE DEF served
<1>7. Head(replies) \in Message /\ Tail(replies) \in Seq(Message)
  <2>1. served.code \in Nat /\ served.srv.unread \in Seq(Message)
    BY <1>5 DEF ServedOK, Replies, ServerEnd
  <2>2. Reply(served.code) \in Message
    BY <1>2, <2>1, ReplyTyped DEF TypeInv
  <2>3. QED
    BY <2>1, <2>2, RepliesTyped
<1> HIDE DEF replies
<1>8. ServerOK'
  <2>1. tree' \in FileTree
    BY <1>5, <1>6 DEF ServedOK
  <2>2. CASE srv' = [served.srv EXCEPT !.unread = Tail(replies)] /\ UNCHANGED sess
    <3>1. srv' \in ServerEnd
      BY <1>5, <1>7, <2>2 DEF ServedOK, ServerEnd
    <3>2. QED
      BY <2>1, <2>2, <3>1 DEF TypeInv, ServerOK
  <2>3. CASE Disconnect
    BY <2>1, <2>3, DisconnectTyped DEF TypeInv, ServerOK
  <2>4. QED
    BY <1>6, <2>2, <2>3
<1>9. StackOK'
  <2>1. sess'.mode = sess.mode
    BY <1>6, DisconnectTyped DEF TypeInv
  <2>2. ret' \in ReplyCodes \cup OpenCodes \cup {"none"}
    BY <1>1, <1>6, ParseTyped DEF Retry, ReplyCodes
  <2>3. \/ \E t \in Times : stack' = [stack EXCEPT ![Len(stack)].time = t]
        \/ Retry \/ stack' = stack
    <3>1. Head(replies).time \in Times
      BY <1>7 DEF Message
    <3>2. QED
      BY <1>6, <3>1
  <2>4. QED
    BY <1>1, <2>1, <2>2, <2>3, TopChanged
<1>10. QED
  BY <1>2, <1>8, <1>9 DEF TypeInv

\* The call of execute, made at a position of the operation.
LEMMA ExecuteStep ==
  ASSUME TypeInv, execute
  PROVE  TypeInv'
<1>1. /\ pc \in Sending /\ stack = <<>> /\ ~Unneeded /\ stack' = <<Frame(Verb)>>
      /\ rel' = (rel \/ pc = "chdir")
      /\ UNCHANGED <<sess, srv, tree, local, call, pc, tries, sent, todo, ret, result>>
  BY DEF execute
<1>2. call \in Calls /\ call.op \in OpsAt(pc)
  BY <1>1 DEF TypeInv, PositionOK, Sending
<1>3. ServerOK'
  BY <1>1 DEF TypeInv, ServerOK
<1>4. PositionOK'
  BY <1>1 DEF TypeInv, PositionOK
<1>5. StackOK'
  <2>1. PICK f \in Activation : f.verb = Verb /\ f.phase = "open" /\ stack' = <<f>>
    BY <1>1, <1>2, VerbTyped, FrameTyped
  <2>2. Verb' = Verb
    BY <1>1 DEF Verb, OpVerb
  <2>3. pc = "times" => todo # 0
    BY <1>1 DEF Unneeded
  <2>4. Outermost(f)'
    BY <1>1, <2>1, <2>2, <2>3 DEF Outermost
  <2>5. QED
    BY <1>1, <2>1, <2>4 DEF StackOK, TypeInv
<1>6. QED
  BY <1>3, <1>4, <1>5 DEF TypeInv

\* Between two commands there is nothing on the stack.
LEMMA NothingRuns ==
  ASSUME TypeInv,
         \/ stack' = <<>> /\ ret' = "none"
         \/ stack = <<>> /\ UNCHANGED <<stack, ret>>
  PROVE  StackOK'
BY DEF TypeInv, StackOK

\* The files of the server can be counted.
LEMMA PathsCounted ==
  IsFiniteSet(Paths) /\ Cardinality(Paths) \in Nat
BY FtpAssumption, FS_Product, FS_CardinalityType DEF Paths

\* An operation ends.
LEMMA FinishOK ==
  ASSUME NEW code, Finish(code), PositionOK
  PROVE  PositionOK'
<1>1. Cardinality(Paths) \in Nat
  BY PathsCounted
<1>2. QED
  <2>1. call' = NoCall /\ pc' \in {"new", "ready"}
    BY DEF Finish
  <2>2. tries' = 0 /\ rel' = FALSE /\ sent' = FALSE /\ todo' = 0
    BY DEF Finish
  <2>3. 0 \in 0 .. Cardinality(Paths) /\ 0 \in 0 .. 2
    BY <1>1
  <2>4. pc' # "close" /\ pc' # "times"
    BY <2>1
  <2>5. QED
    BY <2>1, <2>2, <2>3, <2>4 DEF PositionOK

\* An operation goes on, at a position of its own.
LEMMA GotoOK ==
  ASSUME PositionOK, pc \notin {"new", "ready"}, rel' \in BOOLEAN,
         NEW p \in Positions \ {"new", "ready", "close"}, Goto(p),
         call.op \in OpsAt(p), todo # 0 => p = "times"
  PROVE  PositionOK'
BY DEF Goto, PositionOK

\* The transfers come to every position of the data connection.
LEMMA DataPositions ==
  /\ \A p \in {"epsv", "pasv", "listen", "port", "connect", "transfer", "body", "close"} :
        OpsAt(p) = {"put", "put_cond", "get", "read", "fetch"}
  /\ OpsAt("mode") = {"put", "put_cond", "get", "read"}
  /\ OpsAt("chdir") = {"put", "put_cond"}
  /\ OpsAt("fopen") = {"put", "put_cond", "get"}
  /\ OpsAt("mdtm") = {"modtime", "put_cond"}
  /\ OpsAt("rnto") = {"move"} /\ OpsAt("rnfr") = {"move"}
  /\ OpsAt("times") = {"fetch"}
BY DEF OpsAt

\* The end of a command.
LEMMA CommandStep ==
  ASSUME TypeInv, CommandDone \/ ftp_move \/ get_modtime
  PROVE  TypeInv'
<1>1. UNCHANGED <<sess, srv, tree, local>>
  BY DEF CommandDone, ftp_move, get_modtime
<1>2. stack' = <<>> /\ ret' = "none"
  BY DEF CommandDone, ftp_move, get_modtime, Returned
<1>3. PositionOK'
  <2>1. PositionOK
    BY DEF TypeInv
  <2>2. CASE CommandDone
    BY <2>1, <2>2, FinishOK DEF CommandDone
  <2>3. CASE ftp_move
    <3>1. pc = "rnfr" /\ call.op \in OpsAt("rnto") /\ todo = 0 /\ rel \in BOOLEAN
      BY <2>1, <2>3, DataPositions DEF PositionOK, ftp_move, Returned
    <3>2. "rnto" \in Positions \ {"new", "ready", "close"}
      BY DEF Positions, Sending
    <3>3. QED
      BY <2>1, <2>3, <3>1, <3>2, FinishOK, GotoOK DEF ftp_move
  <2>4. CASE get_modtime
    <3>1. pc = "mdtm" /\ todo = 0 /\ rel \in BOOLEAN
      BY <2>1, <2>4 DEF PositionOK, get_modtime, Returned
    <3>2. "mode" \in Positions \ {"new", "ready", "close"}
      BY DEF Positions, Sending
    <3>3. call.op = "put_cond" => call.op \in OpsAt("mode")
      BY DataPositions
    <3>4. QED
      BY <2>1, <2>4, <3>1, <3>2, <3>3, FinishOK, GotoOK DEF get_modtime
  <2>5. QED
    BY <2>2, <2>3, <2>4
<1>4. QED
  BY <1>1, <1>2, <1>3, NothingRuns DEF TypeInv, ServerOK

\* The positions before the data connection.
LEMMA BeforeDataStep ==
  ASSUME TypeInv, set_mode \/ fopen \/ maybe_chdir
  PROVE  TypeInv'
<1>1. UNCHANGED <<srv, tree>>
  BY DEF set_mode, fopen, maybe_chdir
<1>2. \/ stack' = <<>> /\ ret' = "none"
      \/ stack = <<>> /\ UNCHANGED <<stack, ret>>
  BY DEF set_mode, fopen, maybe_chdir, Skipped, At, Returned
<1>3. call \in Calls /\ pc \in {"mode", "fopen", "chdir"} /\ call.op \in OpsAt(pc) /\ todo = 0
      /\ rel \in BOOLEAN /\ sess.use_cwd \in BOOLEAN
  <2>1. pc \in {"mode", "fopen", "chdir"}
    BY DEF set_mode, fopen, maybe_chdir, Skipped, At, Returned
  <2>2. sess.use_cwd \in BOOLEAN
    BY Zenon DEF TypeInv, ServerOK, Session
  <2>3. QED
    BY <2>1, <2>2 DEF TypeInv, PositionOK
<1>4. sess' \in Session
  <2>1. call.mode \in Types /\ call.path[1] \in Dirs
    BY <1>3, CallTyped
  <2>2. CASE \E m \in {"unknown", "ascii", "binary"} : sess' = [sess EXCEPT !.mode = m]
    BY <2>2 DEF TypeInv, ServerOK, Session
  <2>3. CASE sess' = [sess EXCEPT !.cwd = call.path[1]]
    BY <2>1, <2>3 DEF TypeInv, ServerOK, Session
  <2>4. CASE UNCHANGED sess
    BY <2>4 DEF TypeInv, ServerOK
  <2>5. QED
    BY <2>1, <2>2, <2>3, <2>4 DEF set_mode, fopen, maybe_chdir, Types
<1>5. PositionOK'
  <2>1. PositionOK
    BY DEF TypeInv
  <2>2. CASE \E code : Finish(code)
    BY <2>1, <2>2, FinishOK
  <2>3. CASE \E p \in {"fopen", "mode", "chdir", "epsv", "listen"} : Goto(p) /\ call.op \in OpsAt(p)
                                                                   /\ rel' \in BOOLEAN
    BY <1>3, <2>1, <2>3, GotoOK DEF Positions, Sending
  <2>4. DataOpen \in {"epsv", "listen"}
    BY DEF DataOpen
  <2>5. CASE set_mode
    <3>1. pc = "mode"
      BY <2>5 DEF set_mode, Skipped, At, Returned
    <3>2. call.op \in {"put", "put_cond", "get", "read"}
      BY <1>3, <3>1, DataPositions
    <3>3. AfterMode \in {"fopen", "epsv", "listen"} /\ call.op \in OpsAt(AfterMode)
      BY <2>4, <3>2, DataPositions DEF AfterMode
    <3>4. QED
      BY <1>3, <2>2, <2>3, <2>5, <3>3 DEF set_mode
  <2>6. CASE fopen
    <3>1. pc = "fopen"
      BY <2>6 DEF fopen, At
    <3>2. call.op \in {"put", "put_cond", "get"}
      BY <1>3, <3>1, DataPositions
    <3>3. /\ call.op = "get" => call.op \in OpsAt("mode")
          /\ call.op # "get" => call.op \in OpsAt("chdir")
      BY <3>2, DataPositions
    <3>4. QED
      BY <1>3, <2>2, <2>3, <2>6, <3>3 DEF fopen
  <2>7. CASE maybe_chdir
    <3>1. pc = "chdir"
      BY <2>7 DEF maybe_chdir, Skipped, At, Returned
    <3>2. call.op \in {"put", "put_cond"}
      BY <1>3, <3>1, DataPositions
    <3>3. call.op \in OpsAt(DataOpen)
      BY <2>4, <3>2, DataPositions
    <3>4. QED
      BY <1>3, <2>2, <2>3, <2>4, <2>7, <3>3 DEF maybe_chdir
  <2>8. QED
    BY <2>5, <2>6, <2>7
<1>6. QED
  BY <1>1, <1>2, <1>4, <1>5, NothingRuns DEF TypeInv, ServerOK

\* The data connection is opened.
LEMMA DataStep ==
  ASSUME TypeInv, ftp_data_open \/ dtp_open_passive \/ dtp_open_active
  PROVE  TypeInv'
<1>1. UNCHANGED <<srv, tree>>
  BY DEF ftp_data_open, dtp_open_passive, dtp_open_active
<1>2. \/ stack' = <<>> /\ ret' = "none"
      \/ stack = <<>> /\ UNCHANGED <<stack, ret>>
  BY DEF ftp_data_open, dtp_open_passive, dtp_open_active, Skipped, At, Returned
<1>3. sess' \in Session
  BY DEF ftp_data_open, dtp_open_passive, dtp_open_active, TypeInv, ServerOK, Session
<1>4. PositionOK'
  <2>1. PositionOK
    BY DEF TypeInv
  <2>2. pc \in {"epsv", "pasv", "connect", "listen", "port"}
    BY DEF ftp_data_open, dtp_open_passive, dtp_open_active, Skipped, At, Returned
  <2>3. /\ todo = 0 /\ rel \in BOOLEAN
        /\ call.op \in {"put", "put_cond", "get", "read", "fetch"}
    BY <2>1, <2>2, DataPositions DEF PositionOK
  <2>4. \/ \E code : Finish(code)
        \/ (\E p \in {"pasv", "connect", "transfer", "port"} : Goto(p)) /\ UNCHANGED rel
    BY DEF ftp_data_open, dtp_open_passive, dtp_open_active
  <2>5. \A p \in {"pasv", "connect", "transfer", "port"} :
           p \in Positions \ {"new", "ready", "close"} /\ call.op \in OpsAt(p)
    BY <2>3, DataPositions DEF Positions, Sending
  <2>6. QED
    BY <2>1, <2>2, <2>3, <2>4, <2>5, FinishOK, GotoOK
<1>5. QED
  BY <1>1, <1>2, <1>3, <1>4, NothingRuns DEF TypeInv, ServerOK

\* A reply that is not read at once.
LEMMA QueueTyped ==
  ASSUME ServerOK, call \in Calls, NEW code \in Nat
  PROVE  /\ [srv EXCEPT !.unread = Append(@, Reply(code)), !.xfer = NoPath] \in ServerEnd
         /\ [srv EXCEPT !.unread = Append(@, Reply(code))] \in ServerEnd
         /\ Append(srv.unread, Reply(code)) # <<>>
<1>1. srv.unread \in Seq(Message) /\ Reply(code) \in Message
  BY ReplyTyped DEF ServerOK, ServerEnd
<1>2. Append(srv.unread, Reply(code)) \in Seq(Message) /\ Append(srv.unread, Reply(code)) # <<>>
  BY <1>1, RepliesTyped
<1>3. QED
  BY <1>2 DEF ServerOK, ServerEnd

\* The answer to STOR, RETR or LIST.
LEMMA BegunStep ==
  ASSUME TypeInv, TransferBegun
  PROVE  TypeInv'
<1>1. /\ pc = "transfer" /\ UNCHANGED <<sess, tree, local>>
      /\ stack' = <<>> /\ ret' = "none"
  BY DEF TransferBegun, Returned
<1>2. /\ PositionOK /\ ServerOK /\ call \in Calls /\ todo = 0 /\ rel \in BOOLEAN
      /\ call.op \in {"put", "put_cond", "get", "read", "fetch"}
  BY <1>1, DataPositions DEF TypeInv, PositionOK
<1>3. srv' \in ServerEnd
  <2>1. UNCHANGED srv \/ LeaveUnread(425)
    BY DEF TransferBegun
  <2>2. \A code \in Nat : [srv EXCEPT !.unread = Append(@, Reply(code)), !.xfer = NoPath] \in ServerEnd
    BY <1>2, QueueTyped
  <2>3. [srv EXCEPT !.unread = Append(@, Reply(425)), !.xfer = NoPath] \in ServerEnd
    <3>1. 425 \in Nat
      OBVIOUS
    <3>2. QED
      BY <2>2, <3>1, Zenon
  <2>4. LeaveUnread(425) => srv' \in ServerEnd
    BY <2>3, Zenon DEF LeaveUnread
  <2>5. QED
    BY <1>2, <2>1, <2>4 DEF ServerOK
<1>4. PositionOK'
  <2>1. (\E code : Finish(code)) \/ (Goto("body") /\ UNCHANGED rel)
    BY DEF TransferBegun
  <2>2. "body" \in Positions \ {"new", "ready", "close"} /\ call.op \in OpsAt("body")
    BY <1>2, DataPositions DEF Positions
  <2>3. QED
    BY <1>1, <1>2, <2>1, <2>2, FinishOK, GotoOK
<1>5. QED
  BY <1>1, <1>2, <1>3, <1>4, NothingRuns DEF TypeInv, ServerOK

\* The data of a transfer.
LEMMA BodyStep ==
  ASSUME TypeInv, send_file \/ receive_file
  PROVE  TypeInv'
<1>1. /\ pc = "body" /\ stack = <<>> /\ pc' = "close"
      /\ UNCHANGED <<sess, call, tries, rel, todo, stack, ret>> /\ sent' \in BOOLEAN
  BY ZenonT(60) DEF send_file, receive_file, At
<1>2. /\ PositionOK /\ ServerOK /\ call \in Calls /\ todo = 0
      /\ call.op \in OpsAt("close")
  BY <1>1, DataPositions DEF TypeInv, PositionOK
<1>3. PICK code \in {226, 426, 552} :
        \/ srv' = [srv EXCEPT !.unread = Append(@, Reply(code)), !.xfer = NoPath]
        \/ srv' = [srv EXCEPT !.unread = Append(@, Reply(code))]
  BY DEF send_file, receive_file
<1>4. srv' \in ServerEnd /\ srv'.unread # <<>>
  <2>1. code \in Nat
    OBVIOUS
  <2> DEFINE s1 == [srv EXCEPT !.unread = Append(@, Reply(code)), !.xfer = NoPath]
             s2 == [srv EXCEPT !.unread = Append(@, Reply(code))]
  <2>2. s1 \in ServerEnd /\ s2 \in ServerEnd /\ Append(srv.unread, Reply(code)) # <<>>
    BY <1>2, <2>1, QueueTyped
  <2>3. s1.unread = Append(srv.unread, Reply(code)) /\ s2.unread = Append(srv.unread, Reply(code))
    BY <1>2 DEF ServerOK, ServerEnd
  <2>4. srv' = s1 \/ srv' = s2
    BY <1>3
  <2> HIDE DEF s1, s2
  <2>5. QED
    BY <2>2, <2>3, <2>4
<1>5. tree' \in FileTree
  <2>1. Arrived \in D!Contents \cup {"none", "dir", "garbled"}
    BY <1>2, CallTyped DEF Arrived, D!Contents, Types
  <2>2. CASE srv.xfer # NoPath /\ tree' = [tree EXCEPT ![srv.xfer] = Arrived]
    BY <1>2, <2>1, <2>2 DEF ServerOK, ServerEnd, FileTree
  <2>3. CASE UNCHANGED tree
    BY <1>2, <2>3 DEF ServerOK
  <2>4. QED
    BY <2>2, <2>3 DEF send_file, receive_file
<1>6. PositionOK'
  BY <1>1, <1>2, <1>4 DEF PositionOK, Positions
<1>7. QED
  BY <1>1, <1>2, <1>4, <1>5, <1>6, NothingRuns DEF TypeInv, ServerOK

\* The end of a transfer, and what ftp_put and ftp_fetch_modtimes do after it.
LEMMA CloseStep ==
  ASSUME TypeInv, dtp_close
  PROVE  TypeInv'
<1>1. pc = "close" /\ stack = <<>> /\ UNCHANGED <<tree, local, stack, ret>>
  BY DEF dtp_close, At
<1>2. /\ PositionOK /\ ServerOK /\ call \in Calls /\ todo = 0 /\ srv.unread # <<>>
      /\ rel \in BOOLEAN /\ tries \in 0 .. 2 /\ sent \in BOOLEAN
  BY <1>1 DEF TypeInv, PositionOK
<1>3. sess' \in Session /\ srv' \in ServerEnd
  <2>1. [srv EXCEPT !.unread = Tail(@)] \in ServerEnd
    <3>1. Tail(srv.unread) \in Seq(Message)
      BY <1>2, HeadTailProperties DEF ServerOK, ServerEnd
    <3>2. QED
      BY <1>2, <3>1 DEF ServerOK, ServerEnd
  <2>2. QED
    BY <1>2, <2>1, DisconnectTyped DEF dtp_close, ServerOK
<1>4. PositionOK'
  <2>1. TransferDone \/ PutAgain \/ \E code : Finish(code)
    BY DEF dtp_close
  <2>2. CASE \E code : Finish(code)
    BY <1>2, <2>2, FinishOK
  <2>3. CASE PutAgain /\ pc' = "chdir"
    <3>1. /\ call.op \in OpsAt("chdir") /\ tries' \in 0 .. 2
          /\ UNCHANGED <<call, rel, sent, todo>>
      BY <1>2, <2>3, DataPositions DEF PutAgain, Finish
    <3>2. QED
      BY <1>2, <2>3, <3>1 DEF PositionOK, Positions, Sending
  <2>4. CASE TransferDone /\ call.op = "fetch"
    <3>1. /\ pc' = "times" /\ UNCHANGED <<call, tries, rel, sent>>
          /\ todo' = IF call.times THEN Cardinality({p \in Paths : Holds(p)}) ELSE 0
      BY <2>4 DEF TransferDone
    <3>2. Cardinality({p \in Paths : Holds(p)}) \in 0 .. Cardinality(Paths)
      <4>1. {p \in Paths : Holds(p)} \subseteq Paths
        OBVIOUS
      <4>2. QED
        BY <4>1, PathsCounted, FS_Subset, FS_CardinalityType
    <3>3. todo' \in 0 .. Cardinality(Paths)
      BY <3>1, <3>2, PathsCounted
    <3>4. call.op \in OpsAt("times")
      BY <2>4, DataPositions
    <3>5. QED
      BY <1>2, <3>1, <3>3, <3>4 DEF PositionOK, Positions, Sending
  <2>5. QED
    BY <1>2, <2>1, <2>2, <2>3, <2>4, FinishOK DEF TransferDone, PutAgain
<1>5. tree' \in FileTree
  BY <1>1, <1>2 DEF ServerOK
<1>6. QED
  BY <1>1, <1>3, <1>4, <1>5, NothingRuns DEF TypeInv, ServerOK

\* The times of the files, one after the other.
LEMMA TimesStep ==
  ASSUME TypeInv, ftp_fetch_modtimes
  PROVE  TypeInv'
<1>1. UNCHANGED <<sess, srv, tree>>
  BY DEF ftp_fetch_modtimes
<1>2. \/ stack' = <<>> /\ ret' = "none"
      \/ stack = <<>> /\ UNCHANGED <<stack, ret>>
  BY DEF ftp_fetch_modtimes, Skipped, At, Returned
<1>3. PositionOK'
  <2>1. PositionOK
    BY DEF TypeInv
  <2>2. CASE \E code : Finish(code)
    BY <2>1, <2>2, FinishOK
  <2>3. CASE Returned("times") /\ todo' = todo - 1 /\ UNCHANGED <<call, pc, tries, rel, sent, result>>
    <3>1. pc = "times" /\ todo # 0
      <4>1. pc = "times" /\ stack # <<>>
        BY <2>3 DEF Returned
      <4>2. QED
        BY <4>1 DEF TypeInv, StackOK, Outermost
    <3>2. todo' \in 0 .. Cardinality(Paths)
      BY <2>1, <2>3, <3>1, PathsCounted DEF PositionOK
    <3>3. QED
      BY <2>1, <2>3, <3>1, <3>2 DEF PositionOK
  <2>4. QED
    BY <2>2, <2>3 DEF ftp_fetch_modtimes
<1>4. QED
  BY <1>1, <1>2, <1>3, NothingRuns DEF TypeInv, ServerOK

-----------------------------------------------------------------------------
(* The theorems                                                            *)

\* The engine calls the driver.
LEMMA BeginStep ==
  ASSUME TypeInv, NEW c \in Calls, Begin(c)
  PROVE  TypeInv'
<1>1. /\ call = NoCall /\ call' = c /\ pc' = Start(c.op)
      /\ UNCHANGED <<srv, tree, tries, rel, sent, todo, stack, ret>>
  BY DEF Begin
<1>2. PositionOK /\ ServerOK /\ c # NoCall /\ c.op \in Operations
  BY CallTyped DEF TypeInv
<1>3. pc \in {"new", "ready"} /\ stack = <<>> /\ todo = 0
  <2>1. pc \in {"new", "ready"}
    BY <1>1, <1>2, CallTyped DEF PositionOK
  <2>2. QED
    BY <1>2, <2>1 DEF TypeInv, StackOK, Outermost, Sending, PositionOK
<1>4. sess' \in Session
  <2>1. /\ sess.use_passive \in BOOLEAN /\ sess.use_cwd \in BOOLEAN /\ sess.net \in Networks
    BY <1>2, Zenon DEF ServerOK, Session
  <2>2. ftp_init(sess, sess.net) \in Session
    BY <2>1 DEF ftp_init, Session
  <2>3. QED
    BY <1>2, <2>2 DEF Begin, ServerOK
<1>5. pc' \in Positions \ {"new", "ready", "close"} /\ c.op \in OpsAt(pc')
  BY <1>1, <1>2 DEF Start, DataOpen, OpsAt, Operations, Positions, Sending
<1>6. PositionOK'
  BY <1>1, <1>2, <1>3, <1>5 DEF PositionOK
<1>7. QED
  BY <1>1, <1>2, <1>3, <1>4, <1>6, NothingRuns DEF TypeInv, ServerOK

\* The engine closes the session.
LEMMA FinishStep ==
  ASSUME TypeInv, ftp_finish
  PROVE  TypeInv'
<1>1. /\ pc = "ready" /\ call = NoCall /\ pc' = "new" /\ Disconnect
      /\ UNCHANGED <<tree, local, call, tries, rel, sent, todo, stack, ret, result>>
  BY DEF ftp_finish
<1>2. stack = <<>> 
  BY <1>1 DEF TypeInv, StackOK, Outermost, Sending
<1>3. ServerOK'
  BY <1>1, DisconnectTyped DEF TypeInv, ServerOK
<1>4. PositionOK'
  BY <1>1 DEF TypeInv, PositionOK
<1>5. QED
  BY <1>1, <1>2, <1>3, <1>4, NothingRuns DEF TypeInv

\* Every step preserves the invariant, whatever the network does.
LEMMA TypeStep ==
  ASSUME TypeInv, [Next]_vars
  PROVE  TypeInv'
<1>1. CASE UNCHANGED vars
  <2>1. UNCHANGED <<sess, srv, tree, local, call, pc, tries, rel, sent, todo, stack, ret, result>>
    BY <1>1 DEF vars, clientVars
  <2>2. \A f : Outermost(f)' <=> Outermost(f)
    BY <2>1 DEF Outermost, Verb, OpVerb
  <2>3. StackOK'
    BY <2>1, <2>2 DEF TypeInv, StackOK
  <2>4. ServerOK' /\ PositionOK'
    BY <2>1 DEF TypeInv, ServerOK, PositionOK
  <2>5. QED
    BY <2>3, <2>4 DEF TypeInv
<1>2. CASE \E c \in Calls : Begin(c)
  BY <1>2, BeginStep
<1>3. CASE ftp_finish
  BY <1>3, FinishStep
<1>4. CASE Step
  BY <1>4, OpenStep, RestoreStep, RunStep, ExecuteStep, CommandStep, BeforeDataStep, DataStep,
     BegunStep, BodyStep, CloseStep, TimesStep DEF Step
<1>5. QED
  BY <1>1, <1>2, <1>3, <1>4 DEF Next

\* A new session, and a server that waits for it.
LEMMA TypeInit ==
  ASSUME Init
  PROVE  TypeInv
<1>1. PICK o \in Options, n \in Networks : sess = ftp_init(o, n)
  BY DEF Init
<1>2. sess \in Session
  <2>1. o.use_passive \in BOOLEAN /\ o.use_cwd \in BOOLEAN
    BY FtpAssumption, Zenon
  <2>2. QED
    BY <1>1, <2>1 DEF ftp_init, Session
<1>3. srv \in ServerEnd
  BY FtpAssumption DEF Init, Login, ServerEnd, Types
<1>4. tree \in FileTree
  BY FtpAssumption DEF Init, FileTree, D!Contents
<1>5. PositionOK
  <2>1. 0 \in 0 .. Cardinality(Paths) /\ 0 \in 0 .. 2
    BY PathsCounted
  <2>2. QED
    BY <2>1 DEF Init, PositionOK
<1>6. StackOK
  BY DEF Init, StackOK
<1>7. QED
  BY <1>2, <1>3, <1>4, <1>5, <1>6 DEF TypeInv, ServerOK

\* In every run of the driver the invariant holds.
LEMMA TypeInvariant ==
  Spec => []TypeInv
<1>1. Init => TypeInv
  BY TypeInit
<1>2. TypeInv /\ [Next]_vars => TypeInv'
  BY TypeStep
<1>3. QED
  BY <1>1, <1>2, PTL DEF Spec

\* ftp.c keeps every variable in its type; execute and ftp_put try at most
\* three times, and ftp_fetch_modtimes asks for no more times than there are files.
THEOREM FtpTyped ==
  Spec => []FtpTypeOK
<1>1. TypeInv => FtpTypeOK
  <2> SUFFICES ASSUME TypeInv PROVE FtpTypeOK
    OBVIOUS
  <2>1. \A i \in DOMAIN stack : stack[i] \in Activation
    BY DEF TypeInv, StackOK
  <2>2. \A f \in Activation : f.tries \in 0 .. 2 /\ f.phase \in {"open", "run"}
    BY DEF Activation
  <2>3. /\ sess \in Session /\ tree \in FileTree /\ PositionOK
    BY DEF TypeInv, ServerOK
  <2>4. call \in Calls \cup {NoCall} /\ pc \in Positions
    BY <2>3 DEF PositionOK, Positions
  <2>5. QED
    BY <2>1, <2>2, <2>3, <2>4 DEF FtpTypeOK, Session, FileTree, PositionOK
<1>2. QED
  BY <1>1, TypeInvariant, PTL

\* ftp_open, set_mode and execute call each other no deeper than one level: the
\* mode is unknown from the moment a new connection is made.
THEOREM RecursesOnce ==
  Spec => []OpenRecursesOnce
<1>1. TypeInv => OpenRecursesOnce
  <2>1. Len(<<>>) = 0
    OBVIOUS
  <2> SUFFICES ASSUME TypeInv PROVE Len(stack) =< 2
    BY DEF OpenRecursesOnce
  <2>2. \E n \in 0 .. 2 : Len(stack) = n
    BY <2>1, StackCases
  <2>3. QED
    BY <2>2
<1>2. QED
  BY <1>1, TypeInvariant, PTL

-----------------------------------------------------------------------------
(* The session and the server agree                                        *)

\* The data connection never fails in a way that leaves a reply behind.
UnreadNever == \A n \in Networks : "unread" \notin n.faults

\* No reply is left over from an earlier command.
NoStaleReply ==
  IF pc = "close" THEN Tail(srv.unread) = <<>> ELSE srv.unread = <<>>

\* A command is sent over a connection.
Alive == stack # <<>> /\ ret = "none" /\ Top.phase = "run" => sess.connected

\* The type that set_mode has restored for ftp_open is that of the connection.
Restored == Len(stack) = 2 /\ ret = "OK" => sess.connected /\ set_type(srv.type) = Top.verb

\* The directory and the type, also while the session lags behind.
CwdAgrees ==
  sess.connected =>
    IF pc = "chdir" /\ Len(stack) = 1 /\ ret = "OK" THEN srv.cwd = call.path[1]
    ELSE sess.cwd # "x" => srv.cwd = sess.cwd

ModeAgrees ==
  sess.connected =>
    IF pc = "mode" /\ Len(stack) = 1 /\ ret = "OK" THEN srv.type = call.mode
    ELSE sess.mode # "unknown" => srv.type = sess.mode

AgreeInv == NoStaleReply /\ Alive /\ Restored /\ CwdAgrees /\ ModeAgrees

\* The server has neither changed its directory nor its type.
Kept(r) == r.srv.cwd = srv.cwd /\ r.srv.type = srv.type

\* What the commands do to the directory and to the type of the connection.
LEMMA ServeKeeps ==
  ASSUME ServerOK, call \in Calls, NEW verb \in Verbs
  PROVE  /\ verb # "CWD" /\ verb \notin TypeVerbs => Kept(Serve(verb))
         /\ verb = "CWD" => Serve(verb).srv.cwd = call.path[1] /\ Serve(verb).srv.type = srv.type
         /\ verb \in TypeVerbs => /\ Serve(verb).srv.cwd = srv.cwd
                                  /\ set_type(Serve(verb).srv.type) = verb
<1>1. srv \in ServerEnd
  BY DEF ServerOK
<1>2. \A code, s, t : Served(code, s, t).srv = s
  BY DEF Served
<1>3. \A code : Kept(Says(code))
  BY <1>2 DEF Kept, Says
<1>4. \A x : Kept(Write(call.path, x))
  BY <1>2 DEF Kept, Write
<1>5. \A code, b : Kept(Set(code, [srv EXCEPT !.data = b]))
  <2> SUFFICES ASSUME NEW code, NEW b PROVE Kept(Set(code, [srv EXCEPT !.data = b]))
    OBVIOUS
  <2> DEFINE s == [srv EXCEPT !.data = b]
  <2>1. s.cwd = srv.cwd /\ s.type = srv.type
    BY <1>1 DEF ServerEnd
  <2> HIDE DEF s
  <2>2. Kept(Set(code, s))
    BY <1>2, <2>1 DEF Kept, Set
  <2>3. QED
    BY <2>2 DEF s
<1>6. /\ Kept(Serve("EPSV")) /\ Kept(Serve("PASV")) /\ Kept(Serve("PORT"))
  <2>1. Serve("EPSV") = Set(229, [srv EXCEPT !.data = TRUE])
    BY ServeCases
  <2>2. Serve("PASV") = Set(227, [srv EXCEPT !.data = TRUE])
    BY ServeCases
  <2>3. Serve("PORT") = Set(200, [srv EXCEPT !.data = TRUE])
    BY ServeCases
  <2>4. Kept(Serve("EPSV"))
    BY <1>5, <2>1
  <2>5. Kept(Serve("PASV"))
    BY <1>5, <2>2
  <2>6. Kept(Serve("PORT"))
    BY <1>5, <2>3
  <2>7. QED
    BY <2>4, <2>5, <2>6
<1>7. Kept(Serve("RETR")) /\ Kept(Serve("LIST"))
  <2> DEFINE s == [srv EXCEPT !.data = FALSE]
  <2>1. CASE ~srv.data
    <3>1. Serve("RETR") = Says(425) /\ Serve("LIST") = Says(425)
      BY <2>1, ServeCases
    <3>2. QED
      BY <1>3, <3>1
  <2>2. CASE srv.data
    <3>1. Serve("RETR") = Set(IF Holds(call.path) THEN 150 ELSE 550, s)
      BY <2>2, ServeCases
    <3>2. Serve("LIST") = Set(150, s)
      BY <2>2, ServeCases
    <3>3. \A code : Kept(Set(code, s))
      BY <1>5
    <3> HIDE DEF s
    <3>4. Kept(Serve("RETR"))
      BY <3>1, <3>3
    <3>5. Kept(Serve("LIST"))
      BY <3>2, <3>3
    <3>6. QED
      BY <3>4, <3>5
  <2>3. QED
    BY <2>1, <2>2
<1>8. Kept(Serve("STOR"))
  <2> DEFINE s == [srv EXCEPT !.data = FALSE, !.xfer = Target]
  <2>1. s.cwd = srv.cwd /\ s.type = srv.type
    BY <1>1 DEF ServerEnd
  <2>2. \/ Serve("STOR") = Says(425) \/ Serve("STOR") = Set(550, [srv EXCEPT !.data = FALSE])
        \/ Serve("STOR") = Served(150, s, [tree EXCEPT ![Target] = "part"])
    BY ServeCases
  <2> HIDE DEF s
  <2>3. \A t : Kept(Served(150, s, t))
    BY <1>2, <2>1 DEF Kept
  <2>4. CASE Serve("STOR") = Says(425)
    BY <1>3, <2>4, Zenon
  <2>5. CASE Serve("STOR") = Set(550, [srv EXCEPT !.data = FALSE])
    BY <1>5, <2>5, ZenonT(60)
  <2>6. CASE Serve("STOR") = Served(150, s, [tree EXCEPT ![Target] = "part"])
    BY <2>3, <2>6, Zenon
  <2>7. QED
    BY <2>2, <2>4, <2>5, <2>6
<1>9. Kept(Serve("DELE")) /\ Kept(Serve("RMD")) /\ Kept(Serve("MKD"))
  <2>1. Serve("DELE") = Says(550) \/ Serve("DELE") = Write(call.path, "none")
    BY ServeCases
  <2>2. Serve("RMD") = Says(550) \/ Serve("RMD") = Write(call.path, "none")
    BY ServeCases
  <2>3. Serve("MKD") = Says(550) \/ Serve("MKD") = Write(call.path, "dir")
    BY ServeCases
  <2>4. QED
    BY <1>3, <1>4, <2>1, <2>2, <2>3
<1>10. Kept(Serve("SITE_CHMOD")) /\ Kept(Serve("MDTM"))
  <2>1. \E code : Serve("SITE_CHMOD") = Says(code)
    BY ServeCases
  <2>2. \E code : Serve("MDTM") = Says(code)
    BY ServeCases
  <2>3. QED
    BY <1>3, <2>1, <2>2
<1>11. Kept(Serve("RNFR"))
  <2> DEFINE s == [srv EXCEPT !.rnfr = call.path]
  <2>1. s.cwd = srv.cwd /\ s.type = srv.type
    BY <1>1 DEF ServerEnd
  <2>2. Serve("RNFR") = Set(350, s) \/ Serve("RNFR") = Says(550)
    BY ServeCases
  <2> HIDE DEF s
  <2>3. Kept(Set(350, s))
    BY <1>2, <2>1 DEF Kept, Set
  <2>4. QED
    BY <1>3, <2>2, <2>3
<1>12. Kept(Serve("RNTO"))
  <2> DEFINE s == [srv EXCEPT !.rnfr = NoPath]
             t == [tree EXCEPT ![call.to] = tree[srv.rnfr], ![srv.rnfr] = "none"]
  <2>1. s.cwd = srv.cwd /\ s.type = srv.type
    BY <1>1 DEF ServerEnd
  <2>2. Serve("RNTO") = Says(503) \/ Serve("RNTO") = Served(250, s, t)
    BY ServeCases
  <2> HIDE DEF s, t
  <2>3. Kept(Served(250, s, t))
    BY <1>2, <2>1 DEF Kept
  <2>4. QED
    BY <1>3, <2>2, <2>3
<1>13. Serve("CWD").srv.cwd = call.path[1] /\ Serve("CWD").srv.type = srv.type
  <2> DEFINE s == [srv EXCEPT !.cwd = call.path[1]]
  <2>1. s.cwd = call.path[1] /\ s.type = srv.type
    BY <1>1 DEF ServerEnd
  <2>2. Serve("CWD") = Set(250, s)
    BY ServeCases
  <2> HIDE DEF s
  <2>3. QED
    BY <1>2, <2>1, <2>2 DEF Set
<1>14. /\ Serve("TYPE_ascii").srv.cwd = srv.cwd /\ Serve("TYPE_ascii").srv.type = "ascii"
       /\ Serve("TYPE_binary").srv.cwd = srv.cwd /\ Serve("TYPE_binary").srv.type = "binary"
  <2> DEFINE s == [srv EXCEPT !.type = "ascii"]
             u == [srv EXCEPT !.type = "binary"]
  <2>1. s.cwd = srv.cwd /\ s.type = "ascii" /\ u.cwd = srv.cwd /\ u.type = "binary"
    BY <1>1 DEF ServerEnd
  <2>2. Serve("TYPE_ascii") = Set(200, s)
    BY ServeCases
  <2>3. Serve("TYPE_binary") = Set(200, u)
    BY ServeCases
  <2> HIDE DEF s, u
  <2>4. QED
    BY <1>2, <2>1, <2>2, <2>3 DEF Set
<1>15. set_type("ascii") = "TYPE_ascii" /\ set_type("binary") = "TYPE_binary"
  BY DEF set_type
<1>16. QED
  BY <1>6, <1>7, <1>8, <1>9, <1>10, <1>11, <1>12, <1>13, <1>14, <1>15 DEF Verbs, TypeVerbs

\* Between two commands, when neither the directory nor the type has changed.
LEMMA AgreeBetween ==
  ASSUME AgreeInv, stack' = <<>>, NoStaleReply',
         srv'.cwd = srv.cwd, srv'.type = srv.type,
         sess'.connected = sess.connected, sess'.cwd = sess.cwd, sess'.mode = sess.mode,
         stack = <<>> \/ pc \notin {"chdir", "mode"}
  PROVE  AgreeInv'
<1>1. Len(<<>>) = 0 /\ Len(<<>>) # 1
  OBVIOUS
<1>2. Alive' /\ Restored'
  BY <1>1 DEF Alive, Restored
<1>3. CwdAgrees'
  BY <1>1 DEF AgreeInv, CwdAgrees
<1>4. ModeAgrees'
  <2>1. ~(pc = "mode" /\ Len(stack) = 1 /\ ret = "OK")
    BY <1>1
  <2>2. ~(pc' = "mode" /\ Len(stack') = 1 /\ ret' = "OK")
    BY <1>1
  <2>3. QED
    BY <2>1, <2>2 DEF AgreeInv, ModeAgrees
<1>5. QED
  BY <1>2, <1>3, <1>4 DEF AgreeInv

\* A connection that is lost is no longer anything to agree about.
LEMMA AgreeDisconnected ==
  ASSUME ServerOK, Disconnect, pc' # "close",
         stack' # <<>> => ret' # "OK" /\ (ret' # "none" \/ Top'.phase = "open")
  PROVE  AgreeInv'
<1>1. sess'.connected = FALSE /\ srv'.unread = <<>>
  BY DEF Disconnect, Login, ServerOK, Session
<1>2. Len(<<>>) = 0
  OBVIOUS
<1>3. QED
  BY <1>1, <1>2 DEF AgreeInv, NoStaleReply, Alive, Restored, CwdAgrees, ModeAgrees

\* CWD and TYPE are the commands of maybe_chdir and set_mode.
LEMMA VerbAt ==
  ASSUME call \in Calls, pc \in Sending, call.op \in OpsAt(pc)
  PROVE  /\ Verb = "CWD" <=> pc = "chdir"
         /\ Verb \in TypeVerbs <=> pc = "mode"
         /\ pc = "mode" => Verb = set_type(call.mode)
<1>1. call.op \in Operations /\ call.mode \in Types
  BY CallTyped
<1>2. CASE pc \in {"command", "transfer"}
  BY <1>1, <1>2 DEF Verb, OpVerb, TypeVerbs, OpsAt
<1>3. CASE pc \in {"init", "listen"}
  BY <1>3 DEF Verb, TypeVerbs
<1>4. CASE pc = "mode"
  BY <1>1, <1>4 DEF Verb, TypeVerbs, set_type, Types
<1>5. CASE pc \in {"rnfr", "rnto", "mdtm", "times", "chdir", "epsv", "pasv", "port"}
  BY <1>5 DEF Verb, TypeVerbs
<1>6. QED
  BY <1>2, <1>3, <1>4, <1>5 DEF Sending

\* ftp_open is only called for its own sake at the beginning of a session and
\* of an active data connection.
LEMMA OpenAt ==
  ASSUME TypeInv, stack # <<>>
  PROVE  /\ pc \in Sending /\ call \in Calls /\ call.op \in OpsAt(pc)
         /\ Top \in Activation
         /\ Top.verb = "OPEN" => Len(stack) = 1 /\ pc \notin {"chdir", "mode", "close"}
         /\ pc # "close"
<1>1. /\ pc \in Sending /\ call \in Calls /\ call.op \in OpsAt(pc)
  BY DEF TypeInv, StackOK, Outermost, PositionOK, Sending
<1>2. Top \in Activation
  BY StackCases
<1>3. ASSUME Top.verb = "OPEN" PROVE Len(stack) = 1 /\ pc \notin {"chdir", "mode", "close"}
  <2>1. ~(Top.verb \in TypeVerbs)
    BY <1>3 DEF TypeVerbs
  <2>2. Len(stack) = 1 /\ Verb = "OPEN"
    BY <1>3, <2>1, StackCases DEF Outermost
  <2>3. QED
    BY <1>1, <2>2, VerbTyped
<1>4. QED
  BY <1>1, <1>2, <1>3 DEF Sending

\* A new connection is one that the session knows nothing of, and nothing is
\* sent before there is one.
LEMMA AgreeOpen ==
  ASSUME TypeInv, AgreeInv, ftp_open
  PROVE  AgreeInv'
<1>1. /\ stack # <<>> /\ ret = "none" /\ pc' = pc /\ call' = call
  BY DEF ftp_open
<1>2. pc # "close" /\ srv.unread = <<>>
  BY <1>1, OpenAt DEF AgreeInv, NoStaleReply
<1>3. CASE ret' \in OpenCodes /\ ~sess.connected /\ sess' = [sess EXCEPT !.cwd = "x"] /\ srv' = srv
  <2>1. sess'.connected = FALSE /\ ret' # "OK" /\ ret' # "none"
    BY <1>3, Zenon DEF TypeInv, ServerOK, Session, OpenCodes
  <2>2. QED
    BY <1>1, <1>2, <1>3, <2>1 DEF AgreeInv, NoStaleReply, Alive, Restored, CwdAgrees, ModeAgrees
<1>4. ASSUME ret' = "OK" => Len(stack') = 1 /\ pc \notin {"chdir", "mode", "close"},
             sess'.connected, srv'.unread = <<>>,
             (sess' = sess /\ srv' = srv) \/ (sess'.cwd = "x" /\ sess'.mode = "unknown")
      PROVE  AgreeInv'
  <2>1. NoStaleReply' /\ Alive'
    BY <1>1, <1>2, <1>4 DEF NoStaleReply, Alive
  <2>2. Restored'
    BY <1>4 DEF Restored
  <2>3. CwdAgrees' /\ ModeAgrees'
    BY <1>1, <1>4 DEF AgreeInv, CwdAgrees, ModeAgrees
  <2>4. QED
    BY <2>1, <2>2, <2>3 DEF AgreeInv
<1>5. Opened(stack) => (ret' = "OK" => Len(stack') = 1 /\ pc \notin {"chdir", "mode", "close"})
  BY <1>1, OpenAt DEF Opened, Top
<1>6. CASE sess.connected /\ Opened(stack) /\ UNCHANGED <<sess, srv>>
  BY <1>2, <1>4, <1>5, <1>6
<1>7. ASSUME NEW family \in sess.net.families, sess' = Connected(sess, family), srv' = Login,
             IF sess.mode = "unknown" THEN Opened(stack)
             ELSE stack' = Append(stack, Frame(set_type(sess.mode))) /\ UNCHANGED ret
      PROVE  AgreeInv'
  <2>1. sess'.cwd = "x" /\ sess'.mode = "unknown"
    BY <1>7 DEF Connected, TypeInv, ServerOK, Session
  <2>2. sess'.connected
    BY <1>7, Zenon DEF Connected, TypeInv, ServerOK, Session
  <2>3. srv'.unread = <<>>
    BY <1>7 DEF Login
  <2>4. ret' = "OK" => Len(stack') = 1 /\ pc \notin {"chdir", "mode", "close"}
    BY <1>1, <1>5, <1>7
  <2>5. QED
    BY <1>4, <2>1, <2>2, <2>3, <2>4
<1>8. QED
  BY <1>3, <1>6, <1>7 DEF ftp_open, If, OpenCodes

\* set_mode has restored the mode, on the connection that there is now.
LEMMA AgreeRestore ==
  ASSUME TypeInv, AgreeInv, RestoreMode
  PROVE  AgreeInv'
<1>1. /\ Len(stack) > 1 /\ ret # "none" /\ stack # <<>> /\ pc' = pc /\ call' = call /\ srv' = srv
  BY DEF RestoreMode
<1>2. PICK f \in Activation, g \in Activation :
        /\ stack = <<f, g>> /\ Outermost(f) /\ Len(stack) = 2 /\ Top = g
        /\ f.phase = "open" /\ g.verb \in TypeVerbs /\ sess.mode = "unknown"
  BY <1>1, StackCases
<1>3. SubSeq(stack, 1, Len(stack) - 1) = <<f>> /\ Len(<<f>>) = 1 /\ <<f>>[1] = f
  <2>1. Len(stack) - 1 = 1
    BY <1>2
  <2>2. SubSeq(<<f, g>>, 1, 1) = <<f>>
    BY TwoCalls
  <2>3. QED
    BY <1>2, <2>1, <2>2, OneCall
<1>4. pc # "close" /\ srv.unread = <<>>
  BY <1>1, OpenAt DEF AgreeInv, NoStaleReply
<1>5. Len(stack') = 1
  <2>1. stack' = <<f>> \/ stack' = [<<f>> EXCEPT ![1].phase = "run"]
    BY <1>3 DEF RestoreMode
  <2>2. Len([<<f>> EXCEPT ![1].phase = "run"]) = 1
    OBVIOUS
  <2>3. QED
    BY <1>3, <2>1, <2>2
<1>6. sess'.connected = sess.connected /\ sess'.cwd = sess.cwd
  <2>1. \E m : sess' = [sess EXCEPT !.mode = m]
    BY DEF RestoreMode
  <2>2. QED
    BY <2>1, Zenon DEF TypeInv, ServerOK, Session
<1>7. ret' = "OK" => pc \notin {"chdir", "mode"}
  <2>1. ret' = "OK" => f.verb = "OPEN"
    BY <1>3 DEF RestoreMode
  <2>2. f.verb = Verb
    BY <1>2 DEF Outermost
  <2>3. QED
    BY <1>1, <2>1, <2>2, OpenAt, VerbTyped
<1>8. CASE ret = "OK"
  <2>1. sess.connected /\ set_type(srv.type) = g.verb
    BY <1>2, <1>8 DEF AgreeInv, Restored
  <2>2. sess'.mode = srv.type
    <3>1. srv.type \in Types
      BY DEF TypeInv, ServerOK, ServerEnd
    <3>2. sess'.mode = IF g.verb = "TYPE_ascii" THEN "ascii" ELSE "binary"
      BY <1>2, <1>8 DEF RestoreMode, TypeInv, ServerOK, Session
    <3>3. QED
      BY <2>1, <3>1, <3>2 DEF set_type, Types
  <2>3. NoStaleReply' /\ Alive' /\ Restored'
    BY <1>1, <1>4, <1>5, <1>6, <2>1 DEF NoStaleReply, Alive, Restored
  <2>4. CwdAgrees' /\ ModeAgrees'
    BY <1>1, <1>2, <1>6, <1>7, <2>2 DEF AgreeInv, CwdAgrees, ModeAgrees
  <2>5. QED
    BY <2>3, <2>4 DEF AgreeInv
<1>9. CASE ret # "OK"
  <2>1. sess'.mode = "unknown" /\ ret' = ret
    BY <1>9 DEF RestoreMode, TypeInv, ServerOK, Session
  <2>2. NoStaleReply' /\ Alive' /\ Restored'
    BY <1>1, <1>4, <1>5, <1>9, <2>1 DEF NoStaleReply, Alive, Restored
  <2>3. CwdAgrees' /\ ModeAgrees'
    BY <1>1, <1>2, <1>6, <1>9, <2>1 DEF AgreeInv, CwdAgrees, ModeAgrees
  <2>4. QED
    BY <2>2, <2>3 DEF AgreeInv
<1>10. QED
  BY <1>8, <1>9

\* What a command leaves of the stack.
LEMMA TopSame ==
  ASSUME TypeInv, stack # <<>>
  PROVE  /\ \A t \in Times : stack' = [stack EXCEPT ![Len(stack)].time = t]
                               => Len(stack') = Len(stack) /\ Top'.verb = Top.verb
         /\ Retry => (ret' # "ERROR" => ret' = ret /\ Top'.phase = "open")
<1>1. CASE \E f \in Activation : /\ stack = <<f>> /\ Outermost(f) /\ Len(stack) = 1 /\ Top = f
  <2>1. PICK f \in Activation : stack = <<f>> /\ Len(stack) = 1 /\ Top = f
    BY <1>1
  <2>2. ASSUME NEW t \in Times, stack' = [stack EXCEPT ![Len(stack)].time = t]
        PROVE  Len(stack') = Len(stack) /\ Top'.verb = Top.verb
    <3>1. stack' = [<<f>> EXCEPT ![1].time = t]
      BY <2>1, <2>2
    <3>2. Len(stack') = 1 /\ stack'[1] = [f EXCEPT !.time = t] /\ [f EXCEPT !.time = t].verb = f.verb
      BY <3>1 DEF Activation
    <3>3. QED
      BY <2>1, <3>2 DEF Top
  <2>3. ASSUME Retry, ret' # "ERROR" PROVE ret' = ret /\ Top'.phase = "open"
    <3>1. ret' = ret /\ stack' = [<<f>> EXCEPT ![1].tries = @ + 1, ![1].phase = "open"]
      BY <2>1, <2>3 DEF Retry
    <3>2. stack' = <<[f EXCEPT !.tries = @ + 1, !.phase = "open"]>>
      BY <3>1, OneCall
    <3>3. [f EXCEPT !.tries = @ + 1, !.phase = "open"].phase = "open"
      BY DEF Activation
    <3>4. Len(stack') = 1 /\ stack'[1].phase = "open"
      BY <3>2, <3>3
    <3>5. QED
      BY <3>1, <3>4 DEF Top
  <2>4. \A t \in Times : stack' = [stack EXCEPT ![Len(stack)].time = t]
                          => Len(stack') = Len(stack) /\ Top'.verb = Top.verb
    BY <2>2, Zenon
  <2>5. Retry => (ret' # "ERROR" => ret' = ret /\ Top'.phase = "open")
    BY <2>3, Zenon
  <2>6. QED
    BY <2>4, <2>5
<1>2. CASE \E f, g \in Activation :
              /\ stack = <<f, g>> /\ Outermost(f) /\ Len(stack) = 2 /\ Top = g
              /\ f.phase = "open" /\ g.verb \in TypeVerbs /\ sess.mode = "unknown"
  <2>1. PICK f \in Activation, g \in Activation : stack = <<f, g>> /\ Len(stack) = 2 /\ Top = g
    BY <1>2
  <2>2. ASSUME NEW t \in Times, stack' = [stack EXCEPT ![Len(stack)].time = t]
        PROVE  Len(stack') = Len(stack) /\ Top'.verb = Top.verb
    <3>1. stack' = [<<f, g>> EXCEPT ![2].time = t]
      BY <2>1, <2>2
    <3>2. Len(stack') = 2 /\ stack'[2] = [g EXCEPT !.time = t] /\ [g EXCEPT !.time = t].verb = g.verb
      BY <3>1 DEF Activation
    <3>3. QED
      BY <2>1, <3>2 DEF Top
  <2>3. ASSUME Retry, ret' # "ERROR" PROVE ret' = ret /\ Top'.phase = "open"
    <3>1. ret' = ret /\ stack' = [<<f, g>> EXCEPT ![2].tries = @ + 1, ![2].phase = "open"]
      BY <2>1, <2>3 DEF Retry
    <3>2. stack' = <<f, [g EXCEPT !.tries = @ + 1, !.phase = "open"]>>
      <4>1. [<<f, g>> EXCEPT ![2].tries = @ + 1, ![2].phase = "open"]
              = <<f, [g EXCEPT !.tries = @ + 1, !.phase = "open"]>>
        BY SMT DEF Activation
      <4>2. QED
        BY <3>1, <4>1
    <3>3. [g EXCEPT !.tries = @ + 1, !.phase = "open"].phase = "open"
      BY DEF Activation
    <3>4. Len(stack') = 2 /\ stack'[2].phase = "open"
      BY <3>2, <3>3
    <3>5. QED
      BY <3>1, <3>4 DEF Top
  <2>4. \A t \in Times : stack' = [stack EXCEPT ![Len(stack)].time = t]
                          => Len(stack') = Len(stack) /\ Top'.verb = Top.verb
    BY <2>2, Zenon
  <2>5. Retry => (ret' # "ERROR" => ret' = ret /\ Top'.phase = "open")
    BY <2>3, Zenon
  <2>6. QED
    BY <2>4, <2>5
<1>3. QED
  BY <1>1, <1>2, StackCases

\* The answer to a command is that to this command, and it tells the session
\* what the server has done.
LEMMA AgreeRun ==
  ASSUME TypeInv, AgreeInv, run_command
  PROVE  AgreeInv'
<1>1. /\ stack # <<>> /\ ret = "none" /\ Top.phase = "run" /\ pc' = pc /\ call' = call
  BY DEF run_command
<1>2. /\ pc # "close" /\ pc \in Sending /\ call \in Calls /\ call.op \in OpsAt(pc)
      /\ Top.verb \in Verbs
  BY <1>1, OpenAt, StackCases DEF Activation, Outermost, Verbs
<1>3. sess.connected /\ srv.unread = <<>>
  BY <1>1, <1>2 DEF AgreeInv, Alive, NoStaleReply
<1>4. PICK fate \in Fates, carried_out \in BOOLEAN :
        LET served  == IF carried_out THEN Serve(Top.verb) ELSE Says(550)
            replies == Append(served.srv.unread, Reply(served.code))
            code    == parse_reply(Head(replies).code)
        IN  /\ fate = "answer" => carried_out
            /\ fate = "refuse" => ~carried_out
            /\ tree' = served.tree
            /\ \/ /\ fate \in {"answer", "refuse"}
                  /\ srv' = [served.srv EXCEPT !.unread = Tail(replies)]
                  /\ ret' = code
                  /\ stack' = [stack EXCEPT ![Len(stack)].time = Head(replies).time]
                  /\ UNCHANGED sess
               \/ fate = "break" /\ Disconnect /\ Retry
               \/ fate = "error" /\ Disconnect /\ ret' = "ERROR" /\ UNCHANGED stack
  BY DEF run_command
<1>5. CASE Disconnect /\ (Retry \/ ret' = "ERROR")
  BY <1>1, <1>2, <1>5, TopSame, AgreeDisconnected DEF TypeInv
<1> DEFINE served  == IF carried_out THEN Serve(Top.verb) ELSE Says(550)
           replies == Append(served.srv.unread, Reply(served.code))
<1>6. CASE /\ srv' = [served.srv EXCEPT !.unread = Tail(replies)]
           /\ ret' = parse_reply(Head(replies).code)
           /\ stack' = [stack EXCEPT ![Len(stack)].time = Head(replies).time]
           /\ UNCHANGED sess
  <2>1. ServedOK(served)
    <3>1. ServedOK(Serve(Top.verb))
      BY <1>2, ServeTyped DEF TypeInv
    <3>2. ServedOK(Says(550))
      BY DEF ServedOK, Says, Served, Replies, TypeInv, ServerOK
    <3>3. QED
      BY <3>1, <3>2
  <2>2. ~carried_out => Kept(served) /\ served.code = 550
    BY DEF Kept, Says, Served
  <2>3. carried_out => served = Serve(Top.verb)
    OBVIOUS
  <2> HIDE DEF served
  <2>4. replies = <<Reply(served.code)>> /\ Reply(served.code) \in Message /\ Reply(served.code).code = served.code
    <3>1. served.srv.unread = <<>> /\ served.code \in Nat
      BY <1>3, <2>1 DEF ServedOK, Replies
    <3>2. QED
      BY <1>2, <3>1, ReplyTyped DEF TypeInv
  <2>5. Head(replies) = Reply(served.code) /\ Tail(replies) = <<>>
    BY <2>4
  <2> HIDE DEF replies
  <2>6. ret' = parse_reply(served.code) /\ srv'.unread = <<>>
    BY <1>6, <2>1, <2>4, <2>5 DEF ServedOK, ServerEnd
  <2>7. srv'.cwd = served.srv.cwd /\ srv'.type = served.srv.type
    BY <1>6, <2>1 DEF ServedOK, ServerEnd
  <2>8. Len(stack') = Len(stack) /\ Top'.verb = Top.verb
    BY <1>1, <1>6, <2>4, <2>5, TopSame DEF Message
  <2>9. ret' # "none" /\ (~carried_out => ret' # "OK")
    BY <2>2, <2>6, ParseTyped DEF ReplyCodes, parse_reply
  <2>10. /\ carried_out /\ Top.verb = "CWD" => srv'.cwd = call.path[1] /\ ret' = "OK"
         /\ carried_out /\ Top.verb \in TypeVerbs => set_type(srv'.type) = Top.verb /\ ret' = "OK"
         /\ Top.verb # "CWD" => srv'.cwd = srv.cwd
         /\ Top.verb \notin TypeVerbs => srv'.type = srv.type
         /\ ~carried_out => srv'.cwd = srv.cwd /\ srv'.type = srv.type
    <3>1. /\ Serve("CWD").code = 250 /\ Serve("TYPE_ascii").code = 200 /\ Serve("TYPE_binary").code = 200
      BY ServeCases DEF Set, Served
    <3>2. /\ carried_out /\ Top.verb = "CWD" => ret' = "OK"
          /\ carried_out /\ Top.verb \in TypeVerbs => ret' = "OK"
      BY <2>3, <2>6, <3>1 DEF parse_reply, TypeVerbs
    <3>3. "CWD" \notin TypeVerbs
      BY DEF TypeVerbs
    <3>4. QED
      BY <1>2, <2>2, <2>3, <2>7, <3>2, <3>3, ServeKeeps DEF Kept, TypeInv
  <2>11. NoStaleReply' /\ Alive' /\ Restored'
    <3>1. Restored'
      <4>1. Len(stack) = 2 => Top.verb \in TypeVerbs
        BY <1>1, StackCases
      <4>2. QED
        BY <1>3, <1>6, <2>8, <2>9, <2>10, <4>1 DEF Restored
    <3>2. QED
      BY <1>1, <1>2, <2>6, <2>9, <3>1 DEF NoStaleReply, Alive
  <2>12. CASE Len(stack) = 1
    <3>1. Top.verb = Verb
      BY <1>1, <2>12, StackCases DEF Outermost
    <3>2. CwdAgrees'
      BY <1>1, <1>2, <1>3, <1>6, <2>8, <2>9, <2>10, <2>12, <3>1, VerbAt DEF AgreeInv, CwdAgrees
    <3>3. ModeAgrees'
      <4>1. set_type("ascii") # set_type("binary") /\ srv' \in ServerEnd /\ call.mode \in Types
        BY <1>2, CallTyped, RunStep DEF set_type, TypeInv, ServerOK
      <4>2. set_type(srv'.type) = set_type(call.mode) => srv'.type = call.mode
        BY <4>1 DEF ServerEnd, Types
      <4>3. QED
        BY <1>1, <1>2, <1>3, <1>6, <2>8, <2>9, <2>10, <2>12, <3>1, <4>2, VerbAt DEF AgreeInv, ModeAgrees
    <3>4. QED
      BY <2>11, <3>2, <3>3 DEF AgreeInv
  <2>13. CASE Len(stack) = 2
    <3>1. Top.verb \in TypeVerbs /\ Top.verb # "CWD" /\ sess.mode = "unknown"
      BY <1>1, <2>13, StackCases DEF TypeVerbs
    <3>2. Len(stack) # 1 /\ Len(stack') # 1
      BY <2>8, <2>13
    <3>3. CwdAgrees'
      BY <1>1, <1>3, <1>6, <2>10, <3>1, <3>2 DEF AgreeInv, CwdAgrees
    <3>4. ModeAgrees'
      BY <1>1, <1>6, <3>1, <3>2 DEF ModeAgrees
    <3>5. QED
      BY <2>11, <3>3, <3>4 DEF AgreeInv
  <2>14. QED
    BY <1>1, <2>12, <2>13, StackCases
<1>7. QED
  BY <1>4, <1>5, <1>6

\* Nothing has been sent yet.
LEMMA AgreeExecute ==
  ASSUME TypeInv, AgreeInv, execute
  PROVE  AgreeInv'
<1>1. /\ pc \in Sending /\ stack = <<>> /\ stack' = <<Frame(Verb)>> /\ pc' = pc
      /\ UNCHANGED <<sess, srv, call, ret>>
  BY DEF execute
<1>2. ret = "none" /\ ret' = "none"
  BY <1>1 DEF TypeInv, StackOK
<1>3. Top'.phase = "open"
  <2>1. Len(stack') = 1 /\ stack'[1] = Frame(Verb)
    BY <1>1
  <2>2. QED
    BY <2>1 DEF Top, Frame
<1>4. QED
  BY <1>1, <1>2, <1>3 DEF AgreeInv, NoStaleReply, Alive, Restored, CwdAgrees, ModeAgrees

\* The positions at which nothing is learnt about the directory and the type.
LEMMA AgreeOthers ==
  ASSUME TypeInv, AgreeInv,
         \/ CommandDone \/ ftp_move \/ get_modtime \/ fopen
         \/ ftp_data_open \/ dtp_open_passive \/ dtp_open_active \/ ftp_fetch_modtimes
  PROVE  AgreeInv'
<1>1. stack' = <<>> /\ pc \notin {"chdir", "mode", "close"}
  BY DEF CommandDone, ftp_move, get_modtime, fopen, ftp_data_open, dtp_open_passive, dtp_open_active,
         ftp_fetch_modtimes, Skipped, At, Returned
<1>2. pc' # "close"
  BY <1>1 DEF CommandDone, ftp_move, get_modtime, fopen, ftp_data_open, dtp_open_passive, dtp_open_active,
         ftp_fetch_modtimes, Goto, Finish
<1>3. UNCHANGED srv
  BY DEF CommandDone, ftp_move, get_modtime, fopen, ftp_data_open, dtp_open_passive, dtp_open_active,
         ftp_fetch_modtimes
<1>4. sess'.connected = sess.connected /\ sess'.cwd = sess.cwd /\ sess'.mode = sess.mode
  <2>1. UNCHANGED sess \/ sess' = [sess EXCEPT !.rfc2428 = "ok"]
    BY DEF CommandDone, ftp_move, get_modtime, fopen, ftp_data_open, dtp_open_passive, dtp_open_active,
           ftp_fetch_modtimes
  <2>2. QED
    BY <2>1, Zenon DEF TypeInv, ServerOK, Session
<1>5. NoStaleReply'
  BY <1>1, <1>2, <1>3 DEF AgreeInv, NoStaleReply
<1>6. QED
  BY <1>1, <1>3, <1>4, <1>5, AgreeBetween

\* set_mode and maybe_chdir note what they have learnt from the answer.
LEMMA AgreeNoted ==
  ASSUME TypeInv, AgreeInv, set_mode \/ maybe_chdir
  PROVE  AgreeInv'
<1>1. stack' = <<>> /\ pc \in {"chdir", "mode"} /\ UNCHANGED srv
  BY DEF set_mode, maybe_chdir, Skipped, At, Returned
<1>2. pc' # "close"
  BY DEF set_mode, maybe_chdir, Goto, Finish, AfterMode, DataOpen
<1>3. NoStaleReply'
  BY <1>1, <1>2 DEF AgreeInv, NoStaleReply
<1>4. Len(<<>>) = 0 /\ Len(<<>>) # 1 /\ Len(<<>>) # 2
  OBVIOUS
<1>5. Alive' /\ Restored'
  BY <1>1, <1>4 DEF Alive, Restored
<1>6. CASE Skipped("mode") \/ Skipped("chdir")
  <2>1. stack = <<>> /\ UNCHANGED sess
    BY <1>6 DEF set_mode, maybe_chdir, Skipped, At, Returned
  <2>2. QED
    BY <1>1, <1>3, <2>1, AgreeBetween
<1>7. CASE Returned("mode") /\ set_mode
  <2>1. /\ pc = "mode" /\ Len(stack) = 1
        /\ sess' = [sess EXCEPT !.mode = IF ret = "OK" THEN call.mode ELSE "unknown"]
    BY <1>7 DEF set_mode, Skipped, At, Returned
  <2>2. /\ sess'.connected = sess.connected /\ sess'.cwd = sess.cwd
        /\ sess'.mode = IF ret = "OK" THEN call.mode ELSE "unknown"
    BY <2>1, Zenon DEF TypeInv, ServerOK, Session
  <2>3. CwdAgrees'
    BY <1>1, <1>4, <2>1, <2>2 DEF AgreeInv, CwdAgrees
  <2>4. ModeAgrees'
    BY <1>1, <1>4, <2>1, <2>2 DEF AgreeInv, ModeAgrees
  <2>5. QED
    BY <1>3, <1>5, <2>3, <2>4 DEF AgreeInv
<1>8. CASE Returned("chdir") /\ maybe_chdir
  <2>1. /\ pc = "chdir" /\ Len(stack) = 1
        /\ IF ret = "OK" THEN sess' = [sess EXCEPT !.cwd = call.path[1]] ELSE UNCHANGED sess
    BY <1>8 DEF maybe_chdir, Skipped, At, Returned
  <2>2. /\ sess'.connected = sess.connected /\ sess'.mode = sess.mode
        /\ sess'.cwd = IF ret = "OK" THEN call.path[1] ELSE sess.cwd
    BY <2>1, Zenon DEF TypeInv, ServerOK, Session
  <2>3. CwdAgrees'
    BY <1>1, <1>4, <2>1, <2>2 DEF AgreeInv, CwdAgrees
  <2>4. ModeAgrees'
    BY <1>1, <1>4, <2>1, <2>2 DEF AgreeInv, ModeAgrees
  <2>5. QED
    BY <1>3, <1>5, <2>3, <2>4 DEF AgreeInv
<1>9. QED
  BY <1>6, <1>7, <1>8 DEF set_mode, maybe_chdir

\* A transfer has its one last reply, which dtp_close reads unless the
\* connection is lost.
LEMMA AgreeTransfer ==
  ASSUME UnreadNever, TypeInv, AgreeInv, TransferBegun \/ send_file \/ receive_file \/ dtp_close
  PROVE  AgreeInv'
<1>1. /\ stack' = <<>> /\ pc \in {"transfer", "body", "close"} /\ srv \in ServerEnd
      /\ "unread" \notin sess.net.faults
  BY DEF UnreadNever, TypeInv, ServerOK, Session, TransferBegun, send_file, receive_file, dtp_close,
         At, Returned
<1>2. CASE TransferBegun
  <2>1. pc = "transfer" /\ UNCHANGED <<sess, srv>> /\ pc' # "close"
    BY <1>1, <1>2 DEF TransferBegun, If, Goto, Finish, Returned
  <2>2. NoStaleReply'
    BY <2>1 DEF AgreeInv, NoStaleReply
  <2>3. QED
    BY <1>1, <2>1, <2>2, AgreeBetween
<1>3. CASE send_file \/ receive_file
  <2>1. pc = "body" /\ pc' = "close" /\ UNCHANGED sess /\ call \in Calls
    BY <1>3 DEF send_file, receive_file, At, TypeInv, PositionOK
  <2>2. srv.unread = <<>>
    BY <2>1 DEF AgreeInv, NoStaleReply
  <2>3. PICK code \in {226, 426, 552} :
          \/ srv' = [srv EXCEPT !.unread = Append(@, Reply(code)), !.xfer = NoPath]
          \/ srv' = [srv EXCEPT !.unread = Append(@, Reply(code))]
    BY <1>3 DEF send_file, receive_file
  <2>4. srv'.cwd = srv.cwd /\ srv'.type = srv.type /\ srv'.unread = Append(srv.unread, Reply(code))
    <3> DEFINE q == Append(srv.unread, Reply(code))
    <3>1. \/ srv' = [srv EXCEPT !.unread = q, !.xfer = NoPath]
          \/ srv' = [srv EXCEPT !.unread = q]
      BY <2>3
    <3> HIDE DEF q
    <3> DEFINE s1 == [srv EXCEPT !.unread = q, !.xfer = NoPath]
               s2 == [srv EXCEPT !.unread = q]
    <3>2. s1.cwd = srv.cwd /\ s1.type = srv.type /\ s1.unread = q
      BY <1>1 DEF ServerEnd
    <3>3. s2.cwd = srv.cwd /\ s2.type = srv.type /\ s2.unread = q
      BY <1>1 DEF ServerEnd
    <3>4. srv' = s1 \/ srv' = s2
      BY <3>1
    <3> HIDE DEF s1, s2
    <3>5. srv'.cwd = srv.cwd /\ srv'.type = srv.type /\ srv'.unread = q
      BY <3>2, <3>3, <3>4
    <3>6. QED
      BY <3>5 DEF q
  <2>5. NoStaleReply'
    <3>1. Reply(code) \in Message
      BY <2>1, ReplyTyped DEF TypeInv
    <3>2. Tail(Append(<<>>, Reply(code))) = <<>>
      BY <3>1
    <3>3. QED
      BY <2>1, <2>2, <2>4, <3>2 DEF NoStaleReply
  <2>6. QED
    BY <1>1, <2>1, <2>4, <2>5, AgreeBetween
<1>4. CASE dtp_close
  <2>1. pc = "close" /\ pc' # "close"
    BY <1>4 DEF dtp_close, At, TransferDone, PutAgain, Finish
  <2>2. CASE Disconnect
    BY <1>1, <2>1, <2>2, AgreeDisconnected DEF TypeInv
  <2>3. CASE srv' = [srv EXCEPT !.unread = Tail(@)] /\ UNCHANGED sess
    <3>1. srv'.cwd = srv.cwd /\ srv'.type = srv.type /\ srv'.unread = Tail(srv.unread)
      BY <1>1, <2>3 DEF ServerEnd
    <3>2. NoStaleReply'
      BY <2>1, <3>1 DEF AgreeInv, NoStaleReply
    <3>3. QED
      BY <1>1, <2>1, <2>3, <3>1, <3>2, AgreeBetween
  <2>4. QED
    BY <1>1, <1>4, <2>2, <2>3 DEF dtp_close
<1>5. QED
  BY <1>2, <1>3, <1>4

\* The engine opens and closes a session, and calls its operations.
LEMMA AgreeEngine ==
  ASSUME TypeInv, AgreeInv, ftp_finish \/ \E c \in Calls : Begin(c)
  PROVE  AgreeInv'
<1>1. stack = <<>> /\ stack' = <<>> /\ pc \in {"new", "ready"}
  <2>1. call = NoCall /\ UNCHANGED stack
    BY DEF ftp_finish, Begin
  <2>2. pc \in {"new", "ready"}
    BY <2>1, CallTyped DEF TypeInv, PositionOK
  <2>3. QED
    BY <2>1, <2>2 DEF TypeInv, StackOK, Outermost, Sending
<1>2. CASE ftp_finish
  BY <1>1, <1>2, AgreeDisconnected DEF ftp_finish, TypeInv
<1>3. ASSUME NEW c \in Calls, Begin(c) PROVE AgreeInv'
  <2>1. pc' # "close" /\ UNCHANGED srv
    BY <1>3, CallTyped DEF Begin, Start, DataOpen, Operations
  <2>2. NoStaleReply'
    BY <1>1, <2>1 DEF AgreeInv, NoStaleReply
  <2>3. CASE UNCHANGED sess
    BY <1>1, <2>1, <2>2, <2>3, AgreeBetween
  <2>4. CASE sess' = ftp_init(sess, sess.net)
    <3>1. sess'.connected = FALSE
      BY <2>4 DEF ftp_init
    <3>2. Len(<<>>) = 0
      OBVIOUS
    <3>3. QED
      BY <1>1, <2>2, <3>1, <3>2 DEF AgreeInv, Alive, Restored, CwdAgrees, ModeAgrees
  <2>5. QED
    BY <1>3, <2>3, <2>4 DEF Begin
<1>4. QED
  BY <1>2, <1>3

\* Every step keeps the session and the server in agreement.
LEMMA AgreeStep ==
  ASSUME UnreadNever, TypeInv, AgreeInv, [Next]_vars
  PROVE  AgreeInv'
<1>1. CASE UNCHANGED vars
  BY <1>1 DEF vars, clientVars, AgreeInv, NoStaleReply, Alive, Restored, CwdAgrees, ModeAgrees, Top
<1>2. CASE ftp_finish \/ \E c \in Calls : Begin(c)
  BY <1>2, AgreeEngine
<1>3. CASE Step
  BY <1>3, AgreeOpen, AgreeRestore, AgreeRun, AgreeExecute, AgreeOthers, AgreeNoted, AgreeTransfer
     DEF Step
<1>4. QED
  BY <1>1, <1>2, <1>3 DEF Next

\* At first there is no connection and nothing to agree on.
LEMMA AgreeInit ==
  ASSUME Init
  PROVE  AgreeInv
<1>1. sess.connected = FALSE /\ srv.unread = <<>> /\ stack = <<>> /\ pc = "new"
  BY DEF Init, ftp_init, Login
<1>2. Len(<<>>) = 0
  OBVIOUS
<1>3. QED
  BY <1>1, <1>2 DEF AgreeInv, NoStaleReply, Alive, Restored, CwdAgrees, ModeAgrees

\* What the session remembers of the server is what this connection has, on
\* every network whose data connections do not fail in accept or close: such
\* a failure leaves a reply behind, and the next command is taken for answered.
THEOREM SessionKnowsServer ==
  ASSUME UnreadNever
  PROVE  Spec => []SessionAgrees
<1>1. Init => AgreeInv
  BY AgreeInit
<1>2. TypeInv /\ AgreeInv /\ [Next]_vars => AgreeInv'
  BY AgreeStep
<1>3. AgreeInv => SessionAgrees
  BY DEF AgreeInv, CwdAgrees, ModeAgrees, SessionAgrees
<1>4. QED
  BY <1>1, <1>2, <1>3, TypeInvariant, PTL DEF Spec


-----------------------------------------------------------------------------
(* The refinement: what the driver may rely on at each position            *)

\* Over a network with IPv6 and broken connections there is no passive mode:
\* when EPSV finds the connection lost, and ftp_open cannot restore the type,
\* ftp_data_open goes on to PASV as if the server did not know EPSV.
EpsvUnbroken ==
  \A n \in Networks, o \in Options :
     "ipv6" \in n.families /\ o.use_passive => "break" \notin n.faults /\ "error" \notin n.faults

Uploads   == {"put", "put_cond"}
Downloads == {"get", "read", "fetch"}

\* The options of the session, and the address family of its connection.
OptionsKept ==
  /\ \E o \in Options : sess.use_cwd = o.use_cwd /\ sess.use_passive = o.use_passive
  /\ sess.family = "ipv6" => "ipv6" \in sess.net.families
  /\ pc = "epsv" => sess.use_passive
  /\ pc = "epsv" /\ stack # <<>> => sess.family = "ipv6"

\* The connections that EPSV is sent over are never lost, so that ftp_open has
\* no type to restore.
Steady ==
  /\ pc = "init" => sess.mode = "unknown" /\ Len(stack) # 2
  /\ sess.use_passive /\ "ipv6" \in sess.net.families /\ pc \notin {"new", "init"} =>
       sess.connected /\ Len(stack) # 2

\* A relative name is one of the directory asked for, or of the one in which a
\* new connection starts; but while CWD is sent, the directory may be any other.
NameOK ==
  /\ rel => sess.use_cwd /\ call.op \in Uploads
  /\ rel /\ (pc # "chdir" \/ stack = <<>>) => srv.cwd \in {Home, call.path[1]}
  /\ ~sess.connected \/ pc \in {"new", "init"} => srv.cwd = Home

\* The positions that come after set_mode.
TypeIsSet ==
  \/ pc \in {"chdir", "epsv", "pasv", "listen", "port", "connect", "transfer", "body", "close"}
  \/ pc = "fopen" /\ call.op \in Uploads

\* The answers of which ftp_open has passed on no failure.
Good == {"none", "OK", "PASSIVE", "READY"}

\* From set_mode to the transfer the session is in the type of the call, or
\* ftp_open is about to restore it, or has failed and the operation ends.
ModeKnown ==
  call.op \in {"put", "put_cond", "get", "read"} /\ TypeIsSet =>
    IF Len(stack) = 2 THEN Top.verb = set_type(call.mode)
    ELSE ret \in Good \/ pc = "epsv" => sess.mode = call.mode

\* What TYPE returns to ftp_open is never taken for the answer to the command
\* that waits.
NoMixup == Len(stack) = 2 => ret \in {"none", "OK", "FILEBAD", "ERROR"} \cup OpenCodes

\* The condition of a conditional upload, once checked, holds until the upload.
ConditionHolds == call.op = "put_cond" /\ pc # "mdtm" => tree[call.path] # "other"

\* What SITE_OK says, of the call in execution.
Achieved ==
  CASE call.op \in Uploads           -> \E p \in Strays(call, sess) : tree[p] = call.mode
    [] call.op \in {"delete", "rmdir"} -> tree[call.path] = "none"
    [] call.op = "mkdir"             -> tree[call.path] = "dir"
    [] call.op = "move"              -> tree[call.path] = "none" /\ tree[call.to] \in D!Contents
    [] call.op \in Downloads         -> local = call.mode
    [] OTHER -> TRUE

\* What the answer to a command says of the server.
AnswerTrue ==
  Len(stack) = 1 =>
    /\ pc = "mdtm" /\ ret = "MODTIME" =>
         Holds(call.path) /\ Top.time = D!TimeOf(tree[call.path])
    /\ pc = "rnfr" /\ ret = "FILEMORE" => srv.rnfr = call.path /\ Holds(call.path)
    /\ pc \in {"command", "rnto"} /\ ret = "OK" => Achieved
    /\ pc = "transfer" /\ ret = "READY" =>
         sess.connected /\ (call.op \in Uploads => srv.xfer \in Strays(call, sess))
    /\ pc = "init" /\ ret = "OK" => sess.connected

\* RNTO finds the file of this RNFR or none.
Renaming == pc = "rnto" => srv.rnfr = NoPath \/ (srv.rnfr = call.path /\ Holds(call.path))

\* A transfer, from the answer that the server is ready for it to its end.
Transferring ==
  /\ pc \in {"body", "close"} => sess.connected
  /\ pc = "body" /\ call.op \in Uploads => srv.xfer \in Strays(call, sess)
  /\ pc = "close" /\ Transferred(parse_reply(Head(srv.unread).code)) => Achieved
  /\ pc = "times" => Achieved

ImplInv ==
  /\ OptionsKept /\ Steady /\ NameOK /\ ModeKnown /\ NoMixup /\ ConditionHolds
  /\ AnswerTrue /\ Renaming /\ Transferring

-----------------------------------------------------------------------------
(* What the engine sees                                                    *)

\* The call as the engine has made it.
LEMMA RequestOf ==
  ASSUME call \in Calls
  PROVE  /\ call # [op |-> "none"]
         /\ Places(call).op = call.op /\ Places(call).path = call.path /\ Places(call).to = call.to
         /\ Places(call).mode = call.mode /\ Places(call).time = call.time
         /\ Places(call).places = Strays(call, sess)
         /\ Places(call) # D!NoCall
<1>1. call # [op |-> "none"] /\ call.op \in Operations
  BY CallTyped DEF NoCall
<1>2. Places(call).op = call.op
  BY DEF Places
<1>3. "none" \notin Operations
  BY DEF Operations
<1>4. Places(call) # D!NoCall
  BY <1>1, <1>2, <1>3 DEF D!NoCall
<1>5. QED
  BY <1>1, <1>4 DEF Places

\* What SITE_OK says is said of the call in execution.
LEMMA DoneIs ==
  ASSUME call \in Calls
  PROVE  D!Done <=> Achieved
<1>1. call # [op |-> "none"] /\ Places(call).op = call.op
      /\ Places(call).path = call.path /\ Places(call).to = call.to
      /\ Places(call).mode = call.mode /\ Places(call).places = Strays(call, sess)
  BY RequestOf
<1>2. CASE call.op \in Uploads
  <2>1. Achieved <=> \E p \in Strays(call, sess) : tree[p] = call.mode
    BY <1>2 DEF Achieved, Uploads, Downloads
  <2>2. D!Done <=> \E p \in Places(call).places : tree[p] = Places(call).mode
    BY <1>1, <1>2 DEF D!Done, Uploads
  <2>3. QED
    BY <1>1, <2>1, <2>2
<1>3. CASE call.op \in Downloads
  BY <1>1, <1>3 DEF D!Done, Achieved, Uploads, Downloads
<1>4. CASE call.op \notin Uploads \cup Downloads
  BY <1>1, <1>4 DEF D!Done, Achieved, Uploads, Downloads
<1>5. QED
  BY <1>2, <1>3, <1>4

\* A step that changes nothing that the engine can see.
LEMMA SimStutter ==
  ASSUME UNCHANGED <<tree, local, call, result>>, sess'.use_cwd = sess.use_cwd
  PROVE  UNCHANGED D!vars
<1>1. Strays(call, sess)' = Strays(call, sess)
  BY DEF Strays
<1>2. QED
  BY <1>1 DEF D!vars, Places

\* The operation returns.
LEMMA SimReturn ==
  ASSUME call \in Calls, call' = NoCall, UNCHANGED <<tree, local>>,
         NEW code \in D!Codes, result' = code,
         code = "ok" => Achieved,
         code = "failed" /\ call.op = "put_cond" /\ Holds(call.path) =>
           D!TimeOf(tree[call.path]) # call.time
  PROVE  D!Next
<1>1. call # [op |-> "none"] /\ Places(call).op = call.op /\ Places(call) # D!NoCall
      /\ Places(call).path = call.path /\ Places(call).time = call.time
  BY RequestOf
<1>2. D!Done <=> Achieved
  BY DoneIs
<1>3. (IF call = [op |-> "none"] THEN call ELSE Places(call))' = D!NoCall
  BY DEF NoCall, D!NoCall
<1>4. D!Return(code)
  BY <1>1, <1>2, <1>3 DEF D!Return, Holds
<1>5. QED
  BY <1>4 DEF D!Next

\* The engine calls.
LEMMA SimBegin ==
  ASSUME OptionsKept, NEW c \in Calls, call = NoCall, call' = c, sess'.use_cwd = sess.use_cwd,
         local' = "none", result' = "none", UNCHANGED tree
  PROVE  D!Next
<1>1. PICK o \in Options : sess.use_cwd = o.use_cwd
  BY DEF OptionsKept
<1> DEFINE r == [op |-> c.op, path |-> c.path, to |-> c.to, mode |-> c.mode,
                 time |-> c.time, places |-> Strays(c, o)]
<1>2. r \in {[op |-> d.op, path |-> d.path, to |-> d.to, mode |-> d.mode,
              time |-> d.time, places |-> Strays(d, p)] : d \in Calls, p \in Options}
  OBVIOUS
<1>3. Strays(c, sess)' = Strays(c, o)
  BY <1>1 DEF Strays
<1>4. call' # [op |-> "none"]
  BY CallTyped DEF NoCall
<1>5. (IF call = [op |-> "none"] THEN call ELSE Places(call))' = r
  BY <1>3, <1>4 DEF Places
<1>6. (IF call = [op |-> "none"] THEN call ELSE Places(call)) = D!NoCall
  BY DEF NoCall, D!NoCall
<1> HIDE DEF r
<1>7. D!Begin(r)
  BY <1>5, <1>6 DEF D!Begin
<1>8. QED
  BY <1>2, <1>7 DEF D!Next

\* An upload writes to the server.
LEMMA SimPut ==
  ASSUME call \in Calls, UNCHANGED <<local, call, result>>, sess'.use_cwd = sess.use_cwd,
         call.op \in Uploads, NEW p \in Strays(call, sess), NEW x \in {"part", call.mode},
         tree' = [tree EXCEPT ![p] = x], ConditionHolds, pc # "mdtm"
  PROVE  D!Next
<1>1. call # [op |-> "none"] /\ Places(call).op = call.op /\ Places(call).path = call.path
      /\ Places(call).mode = call.mode /\ Places(call).places = Strays(call, sess)
  BY RequestOf
<1>2. (IF call = [op |-> "none"] THEN call ELSE Places(call))'
        = (IF call = [op |-> "none"] THEN call ELSE Places(call))
  BY DEF Places, Strays
<1>3. D!Put
  BY <1>1 DEF D!Put, Uploads, ConditionHolds
<1>4. QED
  BY <1>2, <1>3 DEF D!Next, D!Work

\* A command changes the server.
LEMMA SimChange ==
  ASSUME call \in Calls, UNCHANGED <<local, call, result>>, sess'.use_cwd = sess.use_cwd,
         \/ /\ call.op = "delete" /\ Holds(call.path) /\ tree' = [tree EXCEPT ![call.path] = "none"]
         \/ /\ call.op = "rmdir" /\ tree[call.path] = "dir" /\ tree' = [tree EXCEPT ![call.path] = "none"]
         \/ /\ call.op = "mkdir" /\ tree[call.path] = "none" /\ tree' = [tree EXCEPT ![call.path] = "dir"]
         \/ /\ call.op = "move" /\ Holds(call.path)
            /\ tree' = [tree EXCEPT ![call.to] = tree[call.path], ![call.path] = "none"]
  PROVE  D!Next
<1>1. call # [op |-> "none"] /\ Places(call).op = call.op /\ Places(call).path = call.path
      /\ Places(call).to = call.to
  BY RequestOf
<1>2. (IF call = [op |-> "none"] THEN call ELSE Places(call))'
        = (IF call = [op |-> "none"] THEN call ELSE Places(call))
  BY DEF Places, Strays
<1>3. D!Change
  BY <1>1 DEF D!Change, Holds
<1>4. QED
  BY <1>2, <1>3 DEF D!Next, D!Work

\* A download writes the local file.
LEMMA SimGet ==
  ASSUME call \in Calls, UNCHANGED <<tree, call, result>>, sess'.use_cwd = sess.use_cwd,
         call.op \in Downloads, local' \in {"part", call.mode}
  PROVE  D!Next
<1>1. call # [op |-> "none"] /\ Places(call).op = call.op /\ Places(call).mode = call.mode
  BY RequestOf
<1>2. (IF call = [op |-> "none"] THEN call ELSE Places(call))'
        = (IF call = [op |-> "none"] THEN call ELSE Places(call))
  BY DEF Places, Strays
<1>3. D!Get
  BY <1>1 DEF D!Get, Downloads
<1>4. QED
  BY <1>2, <1>3 DEF D!Next, D!Work

-----------------------------------------------------------------------------
(* The end of an operation, and its next position                          *)

\* What stays as it is while a session lasts.
SameSession ==
  /\ sess'.use_cwd = sess.use_cwd /\ sess'.use_passive = sess.use_passive
  /\ sess'.net = sess.net

\* No step changes the options or the network.
LEMMA SessionFixed ==
  ASSUME TypeInv,
         \/ UNCHANGED sess
         \/ \E x : sess' = [sess EXCEPT !.cwd = x]
         \/ \E x : sess' = [sess EXCEPT !.mode = x]
         \/ sess' = [sess EXCEPT !.rfc2428 = "ok"]
  PROVE  SameSession /\ sess'.connected = sess.connected /\ sess'.family = sess.family
<1>1. sess \in Session
  BY DEF TypeInv, ServerOK
<1>2. CASE UNCHANGED sess
  BY <1>2 DEF SameSession
<1>3. CASE \E x : sess' = [sess EXCEPT !.cwd = x]
  BY <1>1, <1>3, Zenon DEF SameSession, Session
<1>4. CASE \E x : sess' = [sess EXCEPT !.mode = x]
  BY <1>1, <1>4, Zenon DEF SameSession, Session
<1>5. CASE sess' = [sess EXCEPT !.rfc2428 = "ok"]
  BY <1>1, <1>5, Zenon DEF SameSession, Session
<1>6. QED
  BY <1>2, <1>3, <1>4, <1>5

\* Nor does the loss of a connection.
LEMMA DisconnectFixed ==
  ASSUME TypeInv, Disconnect
  PROVE  /\ SameSession /\ sess'.connected = FALSE /\ sess'.family = sess.family
         /\ sess'.mode = sess.mode /\ srv' = Login
<1>1. sess \in Session /\ sess' = [sess EXCEPT !.connected = FALSE]
  BY DEF TypeInv, ServerOK, Disconnect
<1>2. QED
  BY <1>1, Zenon DEF SameSession, Session, Disconnect

\* Nor does a new connection, or a new session.
LEMMA ConnectedFixed ==
  ASSUME TypeInv, NEW family,
         sess' = Connected(sess, family)
  PROVE  /\ SameSession /\ sess'.connected = TRUE /\ sess'.family = family
         /\ sess'.mode = "unknown" /\ sess'.cwd = "x"
<1>1. sess \in Session /\ sess' = [sess EXCEPT !.connected = TRUE, !.cwd = "x", !.mode = "unknown", !.family = family]
  BY DEF TypeInv, ServerOK, Connected
<1>2. QED
  BY <1>1, Zenon DEF SameSession, Session

\* Between two commands it is only the session, the server and the position
\* that count.
LEMMA Between ==
  ASSUME stack' = <<>>, ret' = "none",
         OptionsKept', Steady', NameOK', ConditionHolds', Renaming', Transferring',
         call'.op \in {"put", "put_cond", "get", "read"} /\ TypeIsSet' => sess'.mode = call'.mode
  PROVE  ImplInv'
<1>1. Len(stack') = 0 /\ Len(stack') # 1 /\ Len(stack') # 2
  OBVIOUS
<1>2. AnswerTrue' /\ NoMixup'
  BY <1>1 DEF AnswerTrue, NoMixup
<1>3. ModeKnown'
  BY <1>1 DEF ModeKnown
<1>4. QED
  BY <1>2, <1>3 DEF ImplInv

\* The operations that are in execution between two commands.
LEMMA InOperation ==
  ASSUME TypeInv, pc \notin {"new", "ready"}
  PROVE  /\ call \in Calls /\ call # NoCall /\ call.op \in OpsAt(pc) /\ pc \in Positions
         /\ pc # "init" => call.op # "init"
<1>1. call \in Calls /\ call.op \in OpsAt(pc) /\ pc \in Positions
  BY DEF TypeInv, PositionOK
<1>2. pc # "init" => call.op # "init"
  BY <1>1 DEF OpsAt
<1>3. QED
  BY <1>1, <1>2, CallTyped

\* An operation ends.
LEMMA ImplEnd ==
  ASSUME NEW code, Finish(code), stack' = <<>>, ret' = "none", OptionsKept', Steady',
         ~sess'.connected \/ pc' = "new" => srv'.cwd = Home
  PROVE  ImplInv'
<1>1. call'.op = "none" /\ pc' \in {"new", "ready"} /\ rel' = FALSE
  BY DEF Finish, NoCall
<1>2. NameOK'
  BY <1>1 DEF NameOK
<1>3. ConditionHolds' /\ Renaming' /\ Transferring'
  BY <1>1 DEF ConditionHolds, Renaming, Transferring
<1>4. QED
  BY <1>1, <1>2, <1>3, Between

\* An operation other than init ends, with the connection that there is.
LEMMA ImplEnds ==
  ASSUME TypeInv, ImplInv, NEW code, Finish(code), stack' = <<>>, ret' = "none",
         pc \notin {"new", "ready", "init"}, srv'.cwd = srv.cwd,
         SameSession, sess'.connected = sess.connected, sess'.family = sess.family
  PROVE  ImplInv'
<1>1. pc' = "ready"
  BY InOperation DEF Finish
<1>2. OptionsKept'
  BY <1>1 DEF ImplInv, OptionsKept, SameSession
<1>3. Len(<<>>) # 2
  OBVIOUS
<1>4. Steady'
  BY <1>1, <1>3 DEF ImplInv, Steady, SameSession
<1>5. ~sess'.connected => srv'.cwd = Home
  BY DEF ImplInv, NameOK
<1>6. QED
  BY <1>1, <1>2, <1>4, <1>5, ImplEnd

\* An operation goes on at p.
LEMMA ImplGoto ==
  ASSUME TypeInv, ImplInv, NEW p, Goto(p), stack' = <<>>, ret' = "none",
         pc \notin {"new", "ready", "init"},
         p \notin {"new", "ready", "init", "body", "close", "times", "mdtm"},
         UNCHANGED <<srv, tree, local>>,
         SameSession, sess'.connected = sess.connected, sess'.family = sess.family,
         p = "epsv" => sess.use_passive,
         rel' => sess.use_cwd /\ call.op \in Uploads /\ srv.cwd \in {Home, call.path[1]},
         call.op = "put_cond" => tree[call.path] # "other",
         p = "rnto" => srv.rnfr = NoPath \/ (srv.rnfr = call.path /\ Holds(call.path)),
         call.op \in {"put", "put_cond", "get", "read"} /\ TypeIsSet' => sess'.mode = call.mode
  PROVE  ImplInv'
<1>1. pc' = p /\ call' = call
  BY DEF Goto
<1>2. OptionsKept'
  BY <1>1 DEF ImplInv, OptionsKept, SameSession
<1>3. Len(<<>>) # 2
  OBVIOUS
<1>4. Steady'
  BY <1>1, <1>3 DEF ImplInv, Steady, SameSession
<1>5. NameOK'
  BY <1>1 DEF ImplInv, NameOK, SameSession
<1>6. ConditionHolds' /\ Renaming' /\ Transferring'
  BY <1>1 DEF ConditionHolds, Renaming, Transferring, Holds
<1>7. QED
  BY <1>1, <1>2, <1>4, <1>5, <1>6, Between

\* The end of a command.
LEMMA ImplCommand ==
  ASSUME TypeInv, ImplInv, CommandDone \/ ftp_move \/ get_modtime
  PROVE  ImplInv'
<1>1. /\ UNCHANGED <<sess, srv, tree, local>> /\ stack' = <<>> /\ ret' = "none"
      /\ Len(stack) = 1 /\ pc \notin {"new", "ready"}
  BY DEF CommandDone, ftp_move, get_modtime, Returned
<1>2. SameSession /\ sess'.connected = sess.connected /\ sess'.family = sess.family
  BY <1>1 DEF SameSession
<1>3. ASSUME NEW code, Finish(code), pc # "init" PROVE ImplInv'
  BY <1>1, <1>2, <1>3, ImplEnds
<1>4. rel => sess.use_cwd /\ call.op \in Uploads /\ (pc # "chdir" => srv.cwd \in {Home, call.path[1]})
  BY DEF ImplInv, NameOK
<1>5. CASE CommandDone
  <2>1. CASE pc = "init"
    <3>1. Finish(IF f2s(ret) = "errors" THEN "failed" ELSE f2s(ret))
      BY <1>5, <2>1 DEF CommandDone, Returned
    <3>2. pc' \in {"new", "ready"} /\ (pc' = "ready" => ret = "OK")
      <4>1. call.op = "init"
        BY <2>1, InOperation DEF OpsAt
      <4>2. f2s(ret) = "ok" => ret = "OK"
        BY DEF f2s
      <4>3. QED
        BY <3>1, <4>1, <4>2 DEF Finish
    <3>3. srv.cwd = Home
      BY <2>1 DEF ImplInv, NameOK
    <3>4. ret = "OK" => sess.connected
      BY <1>1, <2>1 DEF ImplInv, AnswerTrue
    <3>5. Len(<<>>) # 2
      OBVIOUS
    <3>6. Steady'
      BY <1>1, <3>2, <3>4, <3>5 DEF Steady
    <3>7. OptionsKept'
      BY <1>1, <3>2 DEF ImplInv, OptionsKept
    <3>8. QED
      BY <1>1, <3>1, <3>3, <3>6, <3>7, ImplEnd
  <2>2. CASE pc # "init"
    BY <1>3, <1>5, <2>2 DEF CommandDone, Returned
  <2>3. QED
    BY <2>1, <2>2
<1>6. CASE ftp_move
  <2>1. pc = "rnfr"
    BY <1>6 DEF ftp_move, Returned
  <2>2. CASE ret = "FILEMORE"
    <3>1. Goto("rnto") /\ rel' = rel
      BY <1>6, <2>2 DEF ftp_move
    <3>2. srv.rnfr = call.path /\ Holds(call.path)
      BY <1>1, <2>1, <2>2 DEF ImplInv, AnswerTrue
    <3>3. call.op = "move"
      BY <2>1, InOperation DEF OpsAt
    <3>4. QED
      BY <1>1, <1>2, <1>4, <2>1, <3>1, <3>2, <3>3, ImplGoto
  <2>3. CASE ret # "FILEMORE"
    BY <1>3, <1>6, <2>1, <2>3 DEF ftp_move
  <2>4. QED
    BY <2>2, <2>3
<1>7. CASE get_modtime
  <2>1. pc = "mdtm"
    BY <1>7 DEF get_modtime, Returned
  <2>2. CASE Goto("mode") /\ rel' = rel /\ ret = "MODTIME" /\ Top.time = call.time
    <3>1. Holds(call.path) /\ Top.time = D!TimeOf(tree[call.path])
      BY <1>1, <2>1, <2>2 DEF ImplInv, AnswerTrue
    <3>2. call.time = "then"
      BY <2>1, InOperation, CallTyped
    <3>3. tree[call.path] # "other"
      BY <2>2, <3>1, <3>2 DEF D!TimeOf
    <3>4. ~TypeIsSet'
      BY <2>2 DEF Goto, TypeIsSet
    <3>5. QED
      BY <1>1, <1>2, <1>4, <2>1, <2>2, <3>3, <3>4, ImplGoto
  <2>3. QED
    BY <1>3, <1>7, <2>1, <2>2 DEF get_modtime
<1>8. QED
  BY <1>5, <1>6, <1>7

\* What holds of an operation between set_mode and the transfer.
LEMMA OnTheWay ==
  ASSUME TypeInv, ImplInv, pc \notin {"new", "ready", "init"}
  PROVE  /\ rel => sess.use_cwd /\ call.op \in Uploads
         /\ rel /\ (pc # "chdir" \/ stack = <<>>) => srv.cwd \in {Home, call.path[1]}
         /\ pc # "mdtm" => (call.op = "put_cond" => tree[call.path] # "other")
         /\ call.op \in {"put", "put_cond", "get", "read"} /\ TypeIsSet /\ ret \in Good /\ Len(stack) # 2 =>
              sess.mode = call.mode
BY DEF ImplInv, NameOK, ConditionHolds, ModeKnown

\* The positions before the data connection.
LEMMA ImplBeforeData ==
  ASSUME TypeInv, AgreeInv, ImplInv, set_mode \/ fopen \/ maybe_chdir
  PROVE  ImplInv'
<1>1. UNCHANGED <<srv, tree>> /\ pc \in {"mode", "fopen", "chdir"} /\ (pc # "fopen" => UNCHANGED local)
  BY DEF set_mode, fopen, maybe_chdir, Skipped, At, Returned
<1>2. stack' = <<>> /\ ret' = "none"
  <2>1. stack = <<>> => ret = "none"
    BY DEF TypeInv, StackOK
  <2>2. QED
    BY <2>1 DEF set_mode, fopen, maybe_chdir, Skipped, At, Returned
<1>3. SameSession /\ sess'.connected = sess.connected /\ sess'.family = sess.family
  <2>1. \/ UNCHANGED sess \/ (\E x : sess' = [sess EXCEPT !.cwd = x])
        \/ \E x : sess' = [sess EXCEPT !.mode = x]
    BY DEF set_mode, fopen, maybe_chdir
  <2>2. QED
    BY <2>1, SessionFixed
<1>4. ASSUME NEW code, Finish(code) PROVE ImplInv'
  BY <1>1, <1>2, <1>3, <1>4, ImplEnds
<1>5. Len(<<>>) # 2 /\ "none" \in Good /\ "OK" \in Good
  BY DEF Good
<1>6. call \in Calls /\ call.op \in OpsAt(pc) /\ sess \in Session
  BY <1>1, InOperation DEF TypeInv, ServerOK
<1>7. DataOpen \in {"epsv", "listen"} /\ (DataOpen = "epsv" => sess.use_passive)
  BY DEF DataOpen
<1>8. CASE set_mode
  <2>1. pc = "mode"
    BY <1>8 DEF set_mode, Skipped, At, Returned
  <2>2. CASE Goto(AfterMode) /\ rel' = rel /\ sess'.mode = call.mode
    <3>1. AfterMode \in {"fopen", "epsv", "listen"} /\ (AfterMode = "epsv" => sess.use_passive)
      BY <1>7 DEF AfterMode
    <3>2. UNCHANGED local
      BY <1>8 DEF set_mode
    <3>3. QED
      BY <1>1, <1>2, <1>3, <2>1, <2>2, <3>1, <3>2, OnTheWay, ImplGoto
  <2>3. Skipped("mode") => sess.mode = call.mode
    BY DEF Skipped, Unneeded, At
  <2>4. sess' = [sess EXCEPT !.mode = call.mode] => sess'.mode = call.mode
    BY <1>6 DEF Session
  <2>5. QED
    BY <1>4, <1>8, <2>2, <2>3, <2>4 DEF set_mode
<1>9. CASE fopen
  <2>1. pc = "fopen" /\ stack = <<>> /\ UNCHANGED sess /\ ret = "none"
    BY <1>9 DEF fopen, At, TypeInv, StackOK
  <2>2. CASE call.op = "get" /\ Goto("mode") /\ rel' = rel
    <3>1. ~rel
      BY <2>2, <2>1, OnTheWay DEF Uploads
    <3>2. pc' = "mode" /\ call' = call
      BY <2>2 DEF Goto
    <3>3. OptionsKept' /\ Steady'
      BY <1>2, <1>3, <1>5, <2>1, <3>2 DEF ImplInv, OptionsKept, Steady, SameSession
    <3>4. NameOK'
      BY <1>1, <1>3, <2>1, <2>2, <3>1, <3>2 DEF ImplInv, NameOK
    <3>5. ConditionHolds' /\ Renaming' /\ Transferring' /\ ~TypeIsSet'
      BY <2>2, <3>2 DEF ConditionHolds, Renaming, Transferring, TypeIsSet
    <3>6. QED
      BY <1>2, <3>3, <3>4, <3>5, Between
  <2>3. CASE call.op # "get" /\ Goto("chdir") /\ rel' = rel /\ UNCHANGED local
    <3>1. call.op \in Uploads /\ TypeIsSet
      BY <1>6, <2>1, <2>3 DEF OpsAt, Uploads, TypeIsSet
    <3>2. sess'.mode = call.mode
      BY <1>5, <2>1, <3>1, OnTheWay DEF Uploads
    <3>3. QED
      BY <1>1, <1>2, <1>3, <2>1, <2>3, <3>2, OnTheWay, ImplGoto
  <2>4. QED
    BY <1>4, <1>9, <2>2, <2>3 DEF fopen
<1>10. CASE maybe_chdir
  <2>1. pc = "chdir" /\ UNCHANGED local
    BY <1>10 DEF maybe_chdir, Skipped, At, Returned
  <2>2. call.op \in Uploads /\ TypeIsSet
    BY <1>6, <2>1 DEF OpsAt, Uploads, TypeIsSet
  <2>3. CASE Skipped("chdir") /\ rel' = sess.use_cwd /\ Goto(DataOpen) /\ UNCHANGED sess
    <3>1. stack = <<>> /\ ret = "none" /\ (~sess.use_cwd \/ rel \/ sess.cwd = call.path[1])
      BY <2>1, <2>3 DEF Skipped, At, Unneeded, TypeInv, StackOK
    <3>2. sess'.mode = call.mode
      BY <1>5, <2>1, <2>2, <2>3, <3>1, OnTheWay DEF Uploads
    <3>3. sess.cwd = call.path[1] => srv.cwd \in {Home, call.path[1]}
      <4>1. call.path[1] # "x"
        BY <1>6, CallTyped, FtpAssumption
      <4>2. QED
        BY <1>5, <2>1, <3>1, <4>1 DEF AgreeInv, CwdAgrees, ImplInv, NameOK
    <3>4. rel' => sess.use_cwd /\ call.op \in Uploads /\ srv.cwd \in {Home, call.path[1]}
      BY <2>1, <2>2, <2>3, <3>1, <3>3, OnTheWay
    <3>5. QED
      BY <1>1, <1>2, <1>3, <1>7, <2>1, <2>3, <3>2, <3>4, OnTheWay, ImplGoto
  <2>4. CASE Returned("chdir") /\ ret = "OK" /\ sess' = [sess EXCEPT !.cwd = call.path[1]]
               /\ Goto(DataOpen) /\ rel' = rel
    <3>1. Len(stack) = 1
      BY <2>4 DEF Returned
    <3>2. sess'.mode = call.mode
      <4>1. sess'.mode = sess.mode
        BY <1>6, <2>4 DEF Session
      <4>2. QED
        BY <1>5, <2>1, <2>2, <2>4, <3>1, <4>1, OnTheWay DEF Uploads
    <3>3. srv.cwd \in {Home, call.path[1]}
      BY <2>1, <2>4, <3>1 DEF AgreeInv, CwdAgrees, ImplInv, NameOK
    <3>4. QED
      BY <1>1, <1>2, <1>3, <1>7, <2>1, <2>2, <2>4, <3>2, <3>3, OnTheWay, ImplGoto
  <2>5. QED
    BY <1>4, <1>10, <2>3, <2>4 DEF maybe_chdir
<1>11. QED
  BY <1>8, <1>9, <1>10

\* The data connection is opened.
LEMMA ImplData ==
  ASSUME TypeInv, ImplInv, ftp_data_open \/ dtp_open_passive \/ dtp_open_active
  PROVE  ImplInv'
<1>1. UNCHANGED <<srv, tree, local>> /\ pc \in {"epsv", "pasv", "connect", "listen", "port"}
  BY DEF ftp_data_open, dtp_open_passive, dtp_open_active, Skipped, At, Returned
<1>2. stack' = <<>> /\ ret' = "none" /\ Len(stack) # 2
  <2>1. stack = <<>> => ret = "none" /\ Len(stack) # 2
    BY DEF TypeInv, StackOK
  <2>2. QED
    BY <2>1 DEF ftp_data_open, dtp_open_passive, dtp_open_active, Skipped, At, Returned
<1>3. SameSession /\ sess'.connected = sess.connected /\ sess'.family = sess.family /\ sess'.mode = sess.mode
  <2>1. UNCHANGED sess \/ sess' = [sess EXCEPT !.rfc2428 = "ok"]
    BY DEF ftp_data_open, dtp_open_passive, dtp_open_active
  <2>2. sess'.mode = sess.mode
    BY <2>1 DEF TypeInv, ServerOK, Session
  <2>3. QED
    BY <2>1, <2>2, SessionFixed
<1>4. ASSUME NEW code, Finish(code) PROVE ImplInv'
  BY <1>1, <1>2, <1>3, <1>4, ImplEnds
<1>5. ASSUME NEW p \in {"pasv", "connect", "transfer", "port"}, Goto(p), rel' = rel,
             ret \in Good \/ pc = "epsv"
      PROVE  ImplInv'
  <2>1. call.op \in {"put", "put_cond", "get", "read"} => sess'.mode = call.mode
    BY <1>1, <1>2, <1>3, <1>5 DEF ImplInv, ModeKnown, TypeIsSet
  <2>2. QED
    BY <1>1, <1>2, <1>3, <1>5, <2>1, OnTheWay, ImplGoto
<1>6. stack = <<>> => ret \in Good
  BY DEF TypeInv, StackOK, Good
<1>7. "PASSIVE" \in Good /\ "OK" \in Good
  BY DEF Good
<1>8. CASE ftp_data_open
  <2>1. CASE Skipped("epsv") /\ Goto("pasv") /\ rel' = rel
    BY <1>5, <1>6, <2>1 DEF Skipped, At
  <2>2. CASE Returned("epsv") /\ (Goto("connect") \/ Goto("pasv")) /\ rel' = rel
    BY <1>5, <2>2 DEF Returned
  <2>3. CASE Returned("pasv") /\ ret = "PASSIVE" /\ Goto("connect") /\ rel' = rel
    BY <1>5, <1>7, <2>3
  <2>4. QED
    BY <1>4, <1>8, <2>1, <2>2, <2>3 DEF ftp_data_open
<1>9. CASE dtp_open_passive
  BY <1>4, <1>5, <1>6, <1>9 DEF dtp_open_passive, At
<1>10. CASE dtp_open_active
  BY <1>4, <1>5, <1>7, <1>10 DEF dtp_open_active
<1>11. QED
  BY <1>8, <1>9, <1>10

\* The transfer begins.
LEMMA ImplBegun ==
  ASSUME UnreadNever, TypeInv, ImplInv, TransferBegun
  PROVE  ImplInv'
<1>1. /\ pc = "transfer" /\ Len(stack) = 1 /\ stack' = <<>> /\ ret' = "none"
      /\ UNCHANGED <<sess, tree, local>>
  BY DEF TransferBegun, Returned
<1>2. "unread" \notin sess.net.faults
  BY DEF UnreadNever, TypeInv, ServerOK, Session
<1>3. /\ UNCHANGED srv
      /\ \/ ret = "READY" /\ Goto("body") /\ rel' = rel
         \/ Finish("errors")
  BY <1>2 DEF TransferBegun, If
<1>4. SameSession /\ sess'.connected = sess.connected /\ sess'.family = sess.family
  BY <1>1 DEF SameSession
<1>5. CASE Finish("errors")
  BY <1>1, <1>3, <1>4, <1>5, ImplEnds
<1>6. CASE ret = "READY" /\ Goto("body") /\ rel' = rel
  <2>1. pc' = "body" /\ call' = call
    BY <1>6 DEF Goto
  <2>2. Len(<<>>) # 2 /\ "READY" \in Good
    BY DEF Good
  <2>3. OptionsKept' /\ Steady'
    BY <1>1, <2>1, <2>2 DEF ImplInv, OptionsKept, Steady
  <2>4. NameOK'
    BY <1>1, <1>3, <1>6, <2>1 DEF ImplInv, NameOK
  <2>5. ConditionHolds' /\ Renaming'
    BY <1>1, <2>1 DEF ImplInv, ConditionHolds, Renaming
  <2>6. sess.connected /\ (call.op \in Uploads => srv.xfer \in Strays(call, sess))
    BY <1>1, <1>6 DEF ImplInv, AnswerTrue
  <2>7. Strays(call, sess)' = Strays(call, sess)
    BY <1>1, <2>1
  <2>8. Transferring'
    BY <1>1, <1>3, <2>1, <2>6, <2>7 DEF Transferring
  <2>9. call'.op \in {"put", "put_cond", "get", "read"} => sess'.mode = call'.mode
    BY <1>1, <1>6, <2>1, <2>2, OnTheWay DEF TypeIsSet
  <2>10. QED
    BY <1>1, <2>3, <2>4, <2>5, <2>8, <2>9, Between
<1>7. QED
  BY <1>3, <1>5, <1>6

\* What arrives is what was sent.
LEMMA ArrivedRight ==
  ASSUME TypeInv, AgreeInv, ImplInv, pc = "body"
  PROVE  /\ call \in Calls /\ call.mode \in Types /\ call.op \in Uploads \cup Downloads
         /\ stack = <<>> /\ ret = "none"
         /\ Arrived = call.mode
<1>1. /\ call \in Calls /\ call.op \in Uploads \cup Downloads
  BY InOperation DEF OpsAt, Uploads, Downloads
<1>2. call.mode \in Types
  BY <1>1, CallTyped
<1>3. stack = <<>> /\ ret = "none"
  BY DEF TypeInv, StackOK, Outermost, Sending
<1>4. Len(<<>>) # 2 /\ "none" \in Good /\ TypeIsSet
  BY DEF Good, TypeIsSet
<1>5. call.op # "fetch" => sess.mode = call.mode
  BY <1>1, <1>3, <1>4, OnTheWay DEF Uploads, Downloads
<1>6. sess.connected
  BY DEF ImplInv, Transferring
<1>7. sess.mode # "unknown" => srv.type = sess.mode
  BY <1>6 DEF AgreeInv, ModeAgrees
<1>8. Arrived = call.mode
  BY <1>2, <1>5, <1>7 DEF Arrived, Types
<1>9. QED
  BY <1>1, <1>2, <1>3, <1>8

\* The reply to a transfer joins the queue.
Queues(code) ==
  \/ srv' = [srv EXCEPT !.unread = Append(@, Reply(code)), !.xfer = NoPath]
  \/ srv' = [srv EXCEPT !.unread = Append(@, Reply(code))]

\* The data of an upload: all of them arrive, or the reply is a refusal, or
\* the sending has failed.
Sends(code) ==
  /\ call.op \in Uploads /\ Queues(code)
  /\ \/ code = 226 /\ srv.xfer # NoPath /\ tree' = [tree EXCEPT ![srv.xfer] = Arrived]
     \/ code = 226 /\ srv.xfer = NoPath
     \/ code \in {426, 552} /\ tree' = tree
     \/ sent' = FALSE /\ tree' = tree

\* ... and of a download.
Receives(code) ==
  /\ call.op \in Downloads /\ Queues(code) /\ tree' = tree
  /\ \/ code = 226 /\ local' = Arrived
     \/ code = 226 /\ sent' = FALSE /\ local' = "part"
     \/ code = 426 /\ local' = "part"

\* send_file_ascii and send_file_binary do one of these things.
LEMMA SendCases ==
  ASSUME send_file
  PROVE  \E code \in {226, 426, 552} : Sends(code)
<1>1. PICK code \in {226, 426, 552} :
       /\ code = 426 => "data" \in sess.net.faults
       /\ code = 552 => "refuse" \in sess.net.faults
       /\ srv' = [srv EXCEPT !.unread = Append(@, Reply(code)), !.xfer = NoPath]
       /\ \/ /\ code # 426 /\ sent' = TRUE
             /\ tree' = IF code = 226 /\ srv.xfer # NoPath THEN [tree EXCEPT ![srv.xfer] = Arrived]
                        ELSE tree
          \/ /\ code # 552 /\ "data" \in sess.net.faults /\ sent' = FALSE
             /\ UNCHANGED tree
  BY Zenon DEF send_file
<1>2. Queues(code)
  BY <1>1, Zenon DEF Queues
<1>3. call.op \in Uploads
  BY DEF send_file, Uploads
<1>4. \/ code = 226 /\ srv.xfer # NoPath /\ tree' = [tree EXCEPT ![srv.xfer] = Arrived]
      \/ code = 226 /\ srv.xfer = NoPath
      \/ code \in {426, 552} /\ tree' = tree
      \/ sent' = FALSE /\ tree' = tree
  <2>1. CASE sent' = FALSE /\ UNCHANGED tree
    BY <2>1
  <2>2. CASE tree' = IF code = 226 /\ srv.xfer # NoPath THEN [tree EXCEPT ![srv.xfer] = Arrived] ELSE tree
    <3>1. CASE code = 226 /\ srv.xfer # NoPath
      <4>1. tree' = [tree EXCEPT ![srv.xfer] = Arrived]
        BY <2>2, <3>1, Zenon
      <4>2. QED
        BY <3>1, <4>1
    <3>2. CASE ~(code = 226 /\ srv.xfer # NoPath)
      <4>1. tree' = tree
        BY <2>2, <3>2, Zenon
      <4>2. QED
        BY <3>2, <4>1
    <3>3. QED
      BY <3>1, <3>2
  <2>3. QED
    BY <1>1, <2>1, <2>2, Zenon
<1>5. QED
  BY <1>2, <1>3, <1>4 DEF Sends

\* receive_file and the loops of ftp_read_file and ftp_fetch do one of these.
LEMMA ReceiveCases ==
  ASSUME receive_file
  PROVE  \E code \in {226, 426, 552} : Receives(code)
<1>1. PICK code \in {226, 426} :
       /\ code = 426 => "data" \in sess.net.faults
       /\ srv' = [srv EXCEPT !.unread = Append(@, Reply(code))]
       /\ \/ code = 226 /\ sent' = TRUE /\ local' = Arrived
          \/ /\ {"data", "local"} \cap sess.net.faults # {} /\ sent' = (code = 426)
             /\ local' = "part"
  BY Zenon DEF receive_file
<1>2. Queues(code)
  BY <1>1, Zenon DEF Queues
<1>3. call.op \in Downloads /\ tree' = tree
  BY DEF receive_file, Downloads
<1>4. \/ code = 226 /\ local' = Arrived
      \/ code = 226 /\ sent' = FALSE /\ local' = "part"
      \/ code = 426 /\ local' = "part"
  BY <1>1
<1>5. QED
  BY <1>2, <1>3, <1>4 DEF Receives

\* What the last reply to a transfer says of the data is true.
LEMMA ImplBody ==
  ASSUME TypeInv, AgreeInv, ImplInv, send_file \/ receive_file
  PROVE  ImplInv'
<1>1. /\ pc = "body" /\ stack = <<>> /\ pc' = "close"
      /\ UNCHANGED <<sess, call, tries, rel, todo, stack, ret>>
  BY DEF send_file, receive_file, At
<1>2. /\ call \in Calls /\ call.mode \in Types /\ call.op \in Uploads \cup Downloads
      /\ ret = "none" /\ Arrived = call.mode
  BY <1>1, ArrivedRight
<1>3. srv \in ServerEnd /\ srv.unread = <<>>
  BY <1>1 DEF TypeInv, ServerOK, AgreeInv, NoStaleReply
<1>4. Len(<<>>) # 2 /\ "none" \in Good /\ TypeIsSet
  BY <1>1 DEF Good, TypeIsSet
<1>5. ASSUME NEW code \in {226, 426, 552}, Queues(code)
      PROVE  srv'.cwd = srv.cwd /\ Head(srv'.unread).code = code
  <2>1. Reply(code) \in Message /\ Reply(code).code = code
    BY <1>2, ReplyTyped DEF TypeInv
  <2> DEFINE q == Append(<<>>, Reply(code))
  <2>2. Head(q) = Reply(code)
    BY <2>1
  <2>3. srv' = [srv EXCEPT !.unread = q, !.xfer = NoPath] \/ srv' = [srv EXCEPT !.unread = q]
    BY <1>3, <1>5 DEF Queues
  <2> HIDE DEF q
  <2> DEFINE s1 == [srv EXCEPT !.unread = q, !.xfer = NoPath]
             s2 == [srv EXCEPT !.unread = q]
  <2>6. s1.cwd = srv.cwd /\ s1.unread = q /\ s2.cwd = srv.cwd /\ s2.unread = q
    BY <1>3 DEF ServerEnd
  <2>7. srv' = s1 \/ srv' = s2
    BY <2>3
  <2> HIDE DEF s1, s2
  <2>4. srv'.cwd = srv.cwd /\ srv'.unread = q
    BY <2>6, <2>7
  <2>5. QED
    BY <2>1, <2>2, <2>4
<1>6. /\ srv'.cwd = srv.cwd
      /\ Transferred(parse_reply(Head(srv.unread).code))' => Achieved'
      /\ call.op \in Uploads => tree'[call.path] = tree[call.path] \/ tree'[call.path] = call.mode
  <2>1. parse_reply(426) = "ERROR" /\ parse_reply(552) = "ERROR"
    BY DEF parse_reply
  <2>2. CASE send_file
    <3>1. PICK code \in {226, 426, 552} : Sends(code)
      BY <2>2, SendCases
    <3>2. srv'.cwd = srv.cwd /\ Head(srv'.unread).code = code
      BY <1>5, <3>1 DEF Sends
    <3>3. call.op \in Uploads /\ call.path \in Paths /\ tree \in FileTree
      BY <1>2, <3>1, CallTyped DEF Sends, TypeInv, ServerOK
    <3>4. srv.xfer \in Strays(call, sess) /\ srv.xfer # NoPath /\ srv.xfer \in Paths
      <4>1. srv.xfer \in Strays(call, sess)
        BY <1>1, <3>3 DEF ImplInv, Transferring
      <4>2. <<Home, call.path[2]>> \in Paths
        BY <1>2, CallTyped, FtpAssumption DEF Paths
      <4>3. srv.xfer \in Paths
        BY <3>3, <4>1, <4>2 DEF Strays
      <4>4. NoPath \notin Paths
        BY DEF NoPath, Paths
      <4>5. QED
        BY <4>1, <4>3, <4>4
    <3>5. Strays(call, sess)' = Strays(call, sess)
      BY <1>1
    <3>6. CASE code = 226 /\ tree' = [tree EXCEPT ![srv.xfer] = call.mode]
      <4>1. tree'[srv.xfer] = call.mode
        BY <3>3, <3>4, <3>6 DEF FileTree
      <4>2. Achieved'
        <5>1. \E p \in Strays(call, sess)' : tree'[p] = call'.mode
          BY <1>1, <3>4, <3>5, <4>1
        <5>2. call'.op \in Uploads
          BY <1>1, <3>3
        <5>3. QED
          BY <5>1, <5>2 DEF Achieved, Uploads, Downloads
      <4>3. tree'[call.path] = tree[call.path] \/ tree'[call.path] = call.mode
        BY <3>3, <3>6 DEF FileTree
      <4>4. QED
        BY <3>2, <4>2, <4>3
    <3>7. CASE code \in {426, 552} /\ UNCHANGED tree
      BY <2>1, <3>2, <3>7 DEF Transferred
    <3>8. CASE sent' = FALSE /\ UNCHANGED tree
      BY <3>2, <3>8 DEF Transferred
    <3>9. QED
      BY <1>2, <3>1, <3>4, <3>6, <3>7, <3>8, ZenonT(60) DEF Sends
  <2>3. CASE receive_file
    <3>1. PICK code \in {226, 426, 552} : Receives(code)
      BY <2>3, ReceiveCases
    <3>2. srv'.cwd = srv.cwd /\ Head(srv'.unread).code = code
      BY <1>5, <3>1 DEF Receives
    <3>3. call.op \in Downloads /\ call.op \notin Uploads /\ UNCHANGED tree
      BY <3>1 DEF Receives, Downloads, Uploads
    <3>4. CASE local' = Arrived
      <4>1. Achieved'
        BY <1>1, <1>2, <3>3, <3>4 DEF Achieved, Downloads
      <4>2. QED
        BY <3>2, <3>3, <4>1
    <3>5. CASE sent' = FALSE \/ code = 426
      <4>1. ~(Transferred(parse_reply(Head(srv.unread).code)))'
        BY <2>1, <3>2, <3>5 DEF Transferred
      <4>2. QED
        BY <3>2, <3>3, <4>1
    <3>6. QED
      BY <3>1, <3>4, <3>5 DEF Receives
  <2>4. QED
    BY <2>2, <2>3
<1>7. OptionsKept' /\ Steady'
  BY <1>1, <1>4 DEF ImplInv, OptionsKept, Steady
<1>8. NameOK'
  BY <1>1, <1>6 DEF ImplInv, NameOK
<1>9. ConditionHolds' /\ Renaming'
  BY <1>1, <1>2, <1>6 DEF ImplInv, ConditionHolds, Renaming, Uploads, Types
<1>10. Transferring'
  BY <1>1, <1>6 DEF ImplInv, Transferring
<1>11. call'.op \in {"put", "put_cond", "get", "read"} => sess'.mode = call'.mode
  BY <1>1, <1>2, <1>4, OnTheWay
<1>12. QED
  BY <1>1, <1>2, <1>7, <1>8, <1>9, <1>10, <1>11, Between

\* Where a connection may be lost, there is no EPSV.
LEMMA NotSteady ==
  ASSUME EpsvUnbroken, TypeInv, OptionsKept, "break" \in sess.net.faults \/ "error" \in sess.net.faults
  PROVE  ~(sess.use_passive /\ "ipv6" \in sess.net.families)
<1>1. PICK o \in Options : sess.use_passive = o.use_passive
  BY DEF OptionsKept
<1>2. sess.net \in Networks
  BY DEF TypeInv, ServerOK, Session
<1>3. QED
  BY <1>1, <1>2 DEF EpsvUnbroken

\* The end of a transfer.
LEMMA ImplClose ==
  ASSUME EpsvUnbroken, UnreadNever, TypeInv, AgreeInv, ImplInv, dtp_close
  PROVE  ImplInv'
<1>1. pc = "close" /\ stack = <<>> /\ UNCHANGED <<tree, local, stack, ret>>
  BY DEF dtp_close, At
<1>2. call \in Calls /\ call.op \in Uploads \cup Downloads /\ ret = "none" /\ srv \in ServerEnd
  BY <1>1, InOperation DEF OpsAt, Uploads, Downloads, TypeInv, StackOK, ServerOK
<1>3. "unread" \notin sess.net.faults
  BY DEF UnreadNever, TypeInv, ServerOK, Session
<1>4. Len(<<>>) # 2 /\ "none" \in Good /\ TypeIsSet
  BY <1>1 DEF Good, TypeIsSet
<1>5. sess.connected /\ (Transferred(parse_reply(Head(srv.unread).code)) => Achieved)
  BY <1>1 DEF ImplInv, Transferring
<1>6. \/ /\ srv' = [srv EXCEPT !.unread = Tail(@)] /\ UNCHANGED sess
         /\ IF Transferred(parse_reply(Head(srv.unread).code)) THEN TransferDone ELSE Finish("errors")
      \/ "break" \in sess.net.faults /\ Disconnect /\ PutAgain
      \/ "error" \in sess.net.faults /\ Disconnect /\ Finish("errors")
  BY <1>3 DEF dtp_close
<1>7. CASE /\ srv' = [srv EXCEPT !.unread = Tail(@)] /\ UNCHANGED sess
           /\ IF Transferred(parse_reply(Head(srv.unread).code)) THEN TransferDone ELSE Finish("errors")
  <2>1. srv'.cwd = srv.cwd
    BY <1>2, <1>7 DEF ServerEnd
  <2>2. SameSession /\ sess'.connected = sess.connected /\ sess'.family = sess.family
    BY <1>7 DEF SameSession
  <2>3. ASSUME NEW code, Finish(code) PROVE ImplInv'
    BY <1>1, <1>2, <2>1, <2>2, <2>3, ImplEnds
  <2>4. CASE call.op = "fetch" /\ TransferDone /\ Achieved
    <3>1. pc' = "times" /\ call' = call /\ rel' = rel
      BY <2>4 DEF TransferDone
    <3>2. OptionsKept' /\ Steady'
      BY <1>1, <1>4, <1>7, <3>1 DEF ImplInv, OptionsKept, Steady
    <3>3. NameOK'
      BY <1>1, <1>7, <2>1, <3>1 DEF ImplInv, NameOK
    <3>4. ConditionHolds' /\ Renaming'
      BY <2>4, <3>1 DEF ConditionHolds, Renaming
    <3>5. Achieved'
      BY <1>1, <1>7, <2>4, <3>1 DEF Achieved
    <3>6. Transferring'
      BY <3>1, <3>5 DEF Transferring
    <3>7. ~TypeIsSet'
      BY <3>1 DEF TypeIsSet
    <3>8. QED
      BY <1>1, <1>2, <3>2, <3>3, <3>4, <3>6, <3>7, Between
  <2>5. QED
    BY <1>5, <1>7, <2>3, <2>4 DEF TransferDone
<1>8. ASSUME Disconnect, "break" \in sess.net.faults \/ "error" \in sess.net.faults
      PROVE  /\ SameSession /\ sess'.connected = FALSE /\ srv'.cwd = Home /\ sess'.mode = sess.mode
             /\ sess'.family = sess.family
             /\ ~(sess'.use_passive /\ "ipv6" \in sess'.net.families)
  <2>1. /\ SameSession /\ sess'.connected = FALSE /\ srv' = Login /\ sess'.mode = sess.mode
        /\ sess'.family = sess.family
    BY <1>8, DisconnectFixed
  <2>2. ~(sess.use_passive /\ "ipv6" \in sess.net.families)
    BY <1>8, NotSteady DEF ImplInv
  <2>3. QED
    BY <2>1, <2>2 DEF SameSession, Login
<1>9. ASSUME Disconnect, "break" \in sess.net.faults \/ "error" \in sess.net.faults,
             NEW code, Finish(code)
      PROVE  ImplInv'
  <2>1. pc' = "ready"
    BY <1>1, <1>9, InOperation DEF Finish
  <2>2. OptionsKept' /\ Steady'
    BY <1>8, <1>9, <2>1 DEF ImplInv, OptionsKept, Steady, SameSession
  <2>3. QED
    BY <1>1, <1>2, <1>8, <1>9, <2>2, ImplEnd
<1>10. ASSUME Disconnect, "break" \in sess.net.faults, call.op \in {"put", "put_cond"},
              pc' = "chdir", UNCHANGED <<call, rel, sent, todo, result>>
       PROVE  ImplInv'
  <2>1. OptionsKept' /\ Steady'
    BY <1>8, <1>10 DEF ImplInv, OptionsKept, Steady, SameSession
  <2>2. NameOK'
    BY <1>1, <1>8, <1>10 DEF ImplInv, NameOK, SameSession
  <2>3. ConditionHolds' /\ Renaming' /\ Transferring'
    BY <1>1, <1>10 DEF ImplInv, ConditionHolds, Renaming, Transferring
  <2>4. sess'.mode = call'.mode
    BY <1>1, <1>2, <1>4, <1>8, <1>10, OnTheWay
  <2>5. QED
    BY <1>1, <1>2, <2>1, <2>2, <2>3, <2>4, Between
<1>11. CASE "break" \in sess.net.faults /\ Disconnect /\ PutAgain
  BY <1>9, <1>10, <1>11 DEF PutAgain
<1>12. QED
  BY <1>6, <1>7, <1>9, <1>11

\* The times of the files do not matter to what was read.
LEMMA ImplTimes ==
  ASSUME TypeInv, ImplInv, ftp_fetch_modtimes
  PROVE  ImplInv'
<1>1. UNCHANGED <<sess, srv, tree, local>> /\ pc = "times"
  BY DEF ftp_fetch_modtimes, Skipped, At, Returned
<1>2. stack' = <<>> /\ ret' = "none"
  <2>1. stack = <<>> => ret = "none"
    BY DEF TypeInv, StackOK
  <2>2. QED
    BY <2>1 DEF ftp_fetch_modtimes, Skipped, At, Returned
<1>3. SameSession /\ sess'.connected = sess.connected /\ sess'.family = sess.family
  BY <1>1 DEF SameSession
<1>4. ASSUME NEW code, Finish(code) PROVE ImplInv'
  BY <1>1, <1>2, <1>3, <1>4, ImplEnds
<1>5. CASE UNCHANGED <<call, pc, tries, rel, sent, result>>
  <2>1. Len(<<>>) # 2
    OBVIOUS
  <2>2. OptionsKept' /\ Steady' /\ NameOK'
    BY <1>1, <1>2, <1>5, <2>1 DEF ImplInv, OptionsKept, Steady, NameOK
  <2>3. ConditionHolds' /\ Renaming' /\ ~TypeIsSet'
    BY <1>1, <1>5 DEF ImplInv, ConditionHolds, Renaming, TypeIsSet
  <2>4. Achieved'
    BY <1>1, <1>5 DEF ImplInv, Transferring, Achieved, Strays
  <2>5. Transferring'
    BY <1>1, <1>5, <2>4 DEF Transferring
  <2>6. QED
    BY <1>2, <2>2, <2>3, <2>5, Between
<1>6. QED
  BY <1>4, <1>5 DEF ftp_fetch_modtimes

\* Between two operations nothing is left of the last one.
LEMMA Idle ==
  ASSUME TypeInv, ImplInv, call = NoCall
  PROVE  pc \in {"new", "ready"} /\ stack = <<>> /\ ret = "none" /\ ~rel
<1>1. pc \in {"new", "ready"}
  BY CallTyped DEF TypeInv, PositionOK
<1>2. stack = <<>> /\ ret = "none"
  BY <1>1 DEF TypeInv, StackOK, Outermost, Sending
<1>3. ~rel
  BY DEF ImplInv, NameOK, NoCall, Uploads
<1>4. QED
  BY <1>1, <1>2, <1>3

\* The engine calls an operation, or closes the session.
LEMMA ImplEngine ==
  ASSUME TypeInv, ImplInv, ftp_finish \/ \E c \in Calls : Begin(c)
  PROVE  ImplInv'
<1>1. /\ call = NoCall /\ UNCHANGED <<tree, rel, stack, ret>>
  BY DEF ftp_finish, Begin
<1>2. pc \in {"new", "ready"} /\ stack = <<>> /\ ret = "none" /\ ~rel
  BY <1>1, Idle
<1>3. Len(<<>>) # 2
  OBVIOUS
<1>4. CASE ftp_finish
  <2>1. pc' = "new" /\ call' = call /\ Disconnect
    BY <1>4 DEF ftp_finish
  <2>2. SameSession /\ srv' = Login /\ sess'.family = sess.family
    BY <2>1, DisconnectFixed
  <2>3. OptionsKept' /\ Steady'
    BY <2>1, <2>2 DEF ImplInv, OptionsKept, Steady, SameSession
  <2>4. NameOK'
    BY <1>1, <1>2, <2>1, <2>2 DEF NameOK, Login
  <2>5. ConditionHolds' /\ Renaming' /\ Transferring' /\ ~TypeIsSet'
    BY <1>1, <2>1 DEF NoCall, ConditionHolds, Renaming, Transferring, TypeIsSet
  <2>6. QED
    BY <1>1, <1>2, <2>3, <2>4, <2>5, Between
<1>5. ASSUME NEW c \in Calls, Begin(c)
      PROVE  ImplInv'
  <2>1. /\ call' = c /\ pc' = Start(c.op) /\ UNCHANGED srv /\ c.op \in Operations
        /\ (pc = "new" <=> c.op = "init")
        /\ sess' = IF c.op = "init" THEN ftp_init(sess, sess.net) ELSE sess
    BY <1>5, CallTyped DEF Begin
  <2>2. /\ pc' \notin {"new", "ready", "chdir", "close", "body", "times", "rnto"}
        /\ (pc' = "init" <=> c.op = "init")
        /\ c.op = "put_cond" => pc' = "mdtm"
        /\ c.op # "fetch" => ~TypeIsSet'
        /\ pc' = "epsv" => sess.use_passive
    BY <2>1 DEF Start, DataOpen, Operations, TypeIsSet, Uploads
  <2>3. ConditionHolds' /\ Renaming' /\ Transferring'
    BY <2>1, <2>2 DEF ConditionHolds, Renaming, Transferring
  <2>4. srv.cwd = Home \/ (c.op # "init" /\ sess.connected)
    BY <1>2, <2>1 DEF ImplInv, NameOK
  <2>5. CASE c.op = "init"
    <3>1. /\ sess'.use_cwd = sess.use_cwd /\ sess'.use_passive = sess.use_passive
          /\ sess'.net = sess.net /\ sess'.family = "ipv4" /\ sess'.mode = "unknown"
      BY <2>1, <2>5 DEF ftp_init
    <3>2. OptionsKept' /\ Steady'
      BY <1>1, <1>2, <1>3, <2>1, <2>2, <2>5, <3>1 DEF ImplInv, OptionsKept, Steady
    <3>3. NameOK'
      BY <1>1, <1>2, <2>1, <2>4, <2>5 DEF NameOK
    <3>4. QED
      BY <1>1, <1>2, <2>1, <2>2, <2>3, <2>5, <3>2, <3>3, Between
  <2>6. CASE c.op # "init"
    <3>1. UNCHANGED sess /\ pc = "ready"
      BY <1>2, <2>1, <2>6
    <3>2. OptionsKept' /\ Steady'
      BY <1>1, <1>2, <1>3, <2>2, <2>6, <3>1 DEF ImplInv, OptionsKept, Steady
    <3>3. NameOK'
      BY <1>1, <1>2, <2>1, <2>2, <2>4, <2>6, <3>1 DEF ImplInv, NameOK
    <3>4. QED
      BY <1>1, <1>2, <2>1, <2>2, <2>3, <3>2, <3>3, Between
  <2>7. QED
    BY <2>5, <2>6
<1>6. QED
  BY <1>4, <1>5

-----------------------------------------------------------------------------
(* The commands                                                            *)

\* execute calls ftp_open, and has not sent anything.
LEMMA ImplExecute ==
  ASSUME TypeInv, ImplInv, execute
  PROVE  ImplInv'
<1>1. /\ pc \in Sending /\ stack = <<>> /\ ~Unneeded /\ stack' = <<Frame(Verb)>>
      /\ rel' = (rel \/ pc = "chdir")
      /\ UNCHANGED <<sess, srv, tree, local, call, pc, tries, sent, todo, ret, result>>
  BY DEF execute
<1>2. ret = "none" /\ pc \notin {"new", "ready"} /\ sess \in Session
  BY <1>1 DEF TypeInv, StackOK, Sending, ServerOK
<1>3. Len(stack') = 1 /\ Len(<<>>) # 2 /\ stack' # <<>>
  BY <1>1
<1>4. OptionsKept'
  <2>1. pc = "epsv" => sess.family = "ipv6"
    BY <1>1, <1>2 DEF Unneeded, Session
  <2>2. QED
    BY <1>1, <2>1 DEF ImplInv, OptionsKept
<1>5. Steady'
  BY <1>1, <1>3 DEF ImplInv, Steady
<1>6. NameOK'
  <2>1. pc = "chdir" => sess.use_cwd /\ call.op \in Uploads
    BY <1>1, <1>2, InOperation DEF Unneeded, OpsAt, Uploads
  <2>2. QED
    BY <1>1, <1>3, <2>1 DEF ImplInv, NameOK
<1>7. ModeKnown' /\ NoMixup'
  BY <1>1, <1>2, <1>3 DEF ImplInv, ModeKnown, NoMixup, TypeIsSet, Good
<1>8. ConditionHolds' /\ Renaming' /\ AnswerTrue'
  BY <1>1, <1>2 DEF ImplInv, ConditionHolds, Renaming, AnswerTrue, Holds
<1>9. Transferring'
  <2>1. Achieved' = Achieved
    BY <1>1 DEF Achieved, Strays
  <2>2. pc \notin {"body", "close"}
    BY <1>1 DEF Sending
  <2>3. QED
    BY <1>1, <2>1, <2>2 DEF ImplInv, Transferring
<1>10. QED
  BY <1>4, <1>5, <1>6, <1>7, <1>8, <1>9 DEF ImplInv

\* ftp_open and set_mode change neither the files nor the position.
LEMMA Within ==
  ASSUME TypeInv, ImplInv, stack # <<>>, stack' # <<>>,
         UNCHANGED <<tree, local, call, pc, rel>>, SameSession,
         srv' = srv \/ (srv' = Login /\ sess'.connected),
         sess'.connected = sess.connected \/ sess'.connected,
         OptionsKept', Steady', ModeKnown', NoMixup', AnswerTrue'
  PROVE  ImplInv'
<1>1. pc \in Sending
  BY OpenAt
<1>2. NameOK'
  BY <1>1 DEF ImplInv, NameOK, Login, SameSession
<1>3. ConditionHolds'
  BY DEF ImplInv, ConditionHolds
<1>4. Renaming'
  BY DEF ImplInv, Renaming, Holds, Login
<1>5. Achieved' = Achieved
  BY DEF Achieved, Strays, SameSession
<1>6. Transferring'
  BY <1>1, <1>5 DEF ImplInv, Transferring, Sending
<1>7. QED
  BY <1>2, <1>3, <1>4, <1>6 DEF ImplInv

\* What ftp_open leaves on the stack when it has a connection.
LEMMA OpenedShape ==
  ASSUME TypeInv, stack # <<>>, ret = "none", Opened(stack)
  PROVE  /\ stack' # <<>> /\ Len(stack') = Len(stack) /\ Top'.verb = Top.verb
         /\ ret' \in {"none", "OK"}
         /\ ret' = "OK" => pc \in {"init", "listen"}
<1>1. CASE Top.verb = "OPEN"
  <2>1. stack' = stack /\ ret' = "OK"
    BY <1>1 DEF Opened, Top
  <2>2. Len(stack) = 1
    BY <1>1, OpenAt
  <2>3. Verb = "OPEN" /\ pc \in Sending /\ call \in Calls /\ call.op \in OpsAt(pc)
    BY <1>1, <2>2, StackCases, OpenAt DEF Outermost
  <2>4. QED
    BY <2>1, <2>3, VerbTyped DEF Top
<1>2. CASE Top.verb # "OPEN"
  <2>1. stack' = [stack EXCEPT ![Len(stack)].phase = "run"] /\ ret' = ret
    BY <1>2 DEF Opened, Top
  <2>2. ASSUME NEW f \in Activation, stack = <<f>>, Len(stack) = 1, Top = f
        PROVE  stack' # <<>> /\ Len(stack') = Len(stack) /\ Top'.verb = Top.verb
    <3> DEFINE h == [f EXCEPT !.phase = "run"]
    <3>1. stack' = <<h>>
      BY <2>1, <2>2, OneCall
    <3>2. h.verb = f.verb
      BY DEF Activation
    <3> HIDE DEF h
    <3>3. Len(<<h>>) = 1 /\ <<h>>[1] = h /\ <<h>> # <<>>
      OBVIOUS
    <3>4. QED
      BY <2>2, <3>1, <3>2, <3>3 DEF Top
  <2>3. ASSUME NEW f \in Activation, NEW g \in Activation, stack = <<f, g>>, Len(stack) = 2, Top = g
        PROVE  stack' # <<>> /\ Len(stack') = Len(stack) /\ Top'.verb = Top.verb
    <3> DEFINE h == [g EXCEPT !.phase = "run"]
    <3>1. stack' = <<f, h>>
      <4>1. [<<f, g>> EXCEPT ![2].phase = "run"] = <<f, h>>
        OBVIOUS
      <4>2. QED
        BY <2>1, <2>3, <4>1
    <3>2. h.verb = g.verb
      BY DEF Activation
    <3> HIDE DEF h
    <3>3. Len(<<f, h>>) = 2 /\ <<f, h>>[2] = h /\ <<f, h>> # <<>>
      OBVIOUS
    <3>4. QED
      BY <2>3, <3>1, <3>2, <3>3 DEF Top
  <2>4. QED
    BY <2>1, <2>2, <2>3, StackCases
<1>3. QED
  BY <1>1, <1>2

\* There are one or two calls of execute, and two only while a mode is restored.
LEMMA Depth ==
  ASSUME TypeInv, stack # <<>>
  PROVE  /\ Len(stack) = 1 \/ (Len(stack) = 2 /\ sess.mode = "unknown" /\ Top.verb \in TypeVerbs)
         /\ Len(stack) = 1 => Top.verb = Verb
BY StackCases DEF Outermost

\* ftp_open, with the connection that there is, without one, or with a new one.
LEMMA ImplOpen ==
  ASSUME TypeInv, ImplInv, ftp_open
  PROVE  ImplInv'
<1>1. /\ stack # <<>> /\ ret = "none" /\ UNCHANGED <<tree, local, call, pc, rel, result>>
  BY DEF ftp_open
<1>2. /\ pc \in Sending /\ call \in Calls /\ call.op \in OpsAt(pc) /\ sess \in Session
      /\ call.mode \in Types /\ pc # "new"
  BY <1>1, OpenAt, CallTyped DEF TypeInv, ServerOK, Sending
<1>3. TypeIsSet' = TypeIsSet
  BY <1>1 DEF TypeIsSet
<1>4. "none" \in Good /\ "OK" \in Good
  BY DEF Good
<1>5. CASE sess.connected /\ Opened(stack) /\ UNCHANGED <<sess, srv>>
  <2>1. /\ stack' # <<>> /\ Len(stack') = Len(stack) /\ Top'.verb = Top.verb
        /\ ret' \in {"none", "OK"} /\ (ret' = "OK" => pc \in {"init", "listen"})
    BY <1>1, <1>5, OpenedShape
  <2>2. OptionsKept' /\ Steady'
    BY <1>1, <1>5, <2>1 DEF ImplInv, OptionsKept, Steady
  <2>3. ModeKnown'
    BY <1>1, <1>3, <1>4, <1>5, <2>1 DEF ImplInv, ModeKnown
  <2>4. NoMixup' /\ AnswerTrue'
    BY <1>1, <1>5, <2>1 DEF NoMixup, AnswerTrue
  <2>5. QED
    BY <1>1, <1>5, <2>1, <2>2, <2>3, <2>4, Within DEF SameSession
<1>6. ASSUME NEW code \in OpenCodes, ret' = code, ~sess.connected,
             sess' = [sess EXCEPT !.cwd = "x"], UNCHANGED <<srv, stack>>
      PROVE  ImplInv'
  <2>1. SameSession /\ sess'.connected = sess.connected /\ sess'.family = sess.family
    BY <1>6, SessionFixed
  <2>2. sess'.mode = sess.mode
    BY <1>2, <1>6 DEF Session
  <2>3. OptionsKept' /\ Steady'
    BY <1>1, <1>6, <2>1, <2>2 DEF ImplInv, OptionsKept, Steady, SameSession
  <2>4. ModeKnown'
    BY <1>1, <1>3, <1>4, <1>6, <2>2 DEF ImplInv, ModeKnown, Top
  <2>5. NoMixup' /\ AnswerTrue'
    BY <1>6 DEF NoMixup, AnswerTrue, OpenCodes
  <2>6. QED
    BY <1>1, <1>6, <2>1, <2>3, <2>4, <2>5, Within
<1>7. ASSUME ~sess.connected, NEW family \in sess.net.families, sess' = Connected(sess, family), srv' = Login,
             IF sess.mode = "unknown" THEN Opened(stack)
             ELSE stack' = Append(stack, Frame(set_type(sess.mode))) /\ UNCHANGED ret
      PROVE  ImplInv'
  <2>1. SameSession /\ sess'.connected = TRUE /\ sess'.family = family /\ sess'.mode = "unknown"
    BY <1>7, ConnectedFixed
  <2>2. sess.use_passive /\ "ipv6" \in sess.net.families => pc = "init"
    BY <1>2, <1>7 DEF ImplInv, Steady
  <2>3. pc # "epsv"
    BY <1>1, <2>2 DEF ImplInv, OptionsKept
  <2>4. OptionsKept'
    BY <1>1, <1>7, <2>1, <2>3 DEF ImplInv, OptionsKept, SameSession
  <2>5. pc = "init" => sess.mode = "unknown" /\ Len(stack) # 2
    BY DEF ImplInv, Steady
  <2>6. CASE sess.mode = "unknown"
    <3>1. /\ stack' # <<>> /\ Len(stack') = Len(stack) /\ Top'.verb = Top.verb
          /\ ret' \in {"none", "OK"} /\ (ret' = "OK" => pc \in {"init", "listen"})
      BY <1>1, <1>7, <2>6, OpenedShape
    <3>2. Steady'
      BY <1>1, <1>2, <2>1, <2>2, <2>5, <3>1 DEF Steady, SameSession
    <3>3. ModeKnown'
      BY <1>1, <1>2, <1>3, <1>4, <2>6, <3>1 DEF ImplInv, ModeKnown, Types
    <3>4. NoMixup' /\ AnswerTrue'
      BY <1>1, <2>1, <3>1 DEF NoMixup, AnswerTrue
    <3>5. QED
      BY <1>1, <1>7, <2>1, <2>4, <3>1, <3>2, <3>3, <3>4, Within
  <2>7. CASE sess.mode # "unknown"
    <3>1. PICK f \in Activation : stack = <<f>> /\ Len(stack) = 1
      BY <1>1, <2>7, StackCases
    <3>2. sess.mode \in Types /\ set_type(sess.mode) \in TypeVerbs
      BY <1>2, <2>7 DEF Session, Types, set_type, TypeVerbs
    <3> DEFINE g == Frame(set_type(sess.mode))
    <3>3. g \in Activation /\ g.verb = set_type(sess.mode)
      BY <3>2, FrameTyped DEF Verbs
    <3>4. stack' = Append(<<f>>, g) /\ ret' = "none"
      BY <1>1, <1>7, <2>7, <3>1
    <3> HIDE DEF g
    <3>5. stack' = <<f, g>>
      <4>1. \A h \in Activation : Append(<<f>>, h) = <<f, h>>
        BY OneCall, ZenonT(60)
      <4>2. QED
        BY <3>3, <3>4, <4>1
    <3>6. stack' # <<>> /\ Len(stack') = 2 /\ Top'.verb = set_type(sess.mode)
      <4>1. Len(<<f, g>>) = 2 /\ <<f, g>>[2] = g
        OBVIOUS
      <4>2. QED
        BY <3>3, <3>5, <4>1 DEF Top
    <3>7. Steady'
      BY <1>1, <1>2, <2>1, <2>2, <2>5, <2>7 DEF Steady, SameSession
    <3>8. ModeKnown'
      BY <1>1, <1>3, <1>4, <3>1, <3>6 DEF ImplInv, ModeKnown
    <3>9. NoMixup' /\ AnswerTrue'
      BY <3>4, <3>6 DEF NoMixup, AnswerTrue
    <3>10. QED
      BY <1>1, <1>7, <2>1, <2>4, <3>6, <3>7, <3>8, <3>9, Within
  <2>8. QED
    BY <2>6, <2>7
<1>8. QED
  BY <1>5, <1>6, <1>7 DEF ftp_open, If, OpenCodes

\* set_mode, called by ftp_open, has restored the type of the call or failed.
LEMMA ImplRestore ==
  ASSUME TypeInv, ImplInv, RestoreMode
  PROVE  ImplInv'
<1>1. /\ Len(stack) > 1 /\ ret # "none" /\ stack # <<>>
      /\ UNCHANGED <<srv, tree, local, call, pc, rel, result>>
  BY DEF RestoreMode
<1>2. PICK f \in Activation, g \in Activation :
        /\ stack = <<f, g>> /\ Outermost(f) /\ Len(stack) = 2 /\ Top = g
        /\ f.phase = "open" /\ g.verb \in TypeVerbs /\ sess.mode = "unknown"
  BY <1>1, StackCases
<1>3. /\ pc \in Sending /\ call \in Calls /\ call.op \in OpsAt(pc) /\ sess \in Session
      /\ call.mode \in Types /\ pc \notin {"new", "init"}
  BY <1>1, <1>2, OpenAt, CallTyped DEF TypeInv, ServerOK, Sending, ImplInv, Steady
<1>4. SubSeq(stack, 1, Len(stack) - 1) = <<f>> /\ Len(<<f>>) = 1 /\ <<f>>[1] = f
  <2>1. Len(stack) - 1 = 1
    BY <1>2
  <2>2. SubSeq(<<f, g>>, 1, 1) = <<f>>
    BY TwoCalls, ZenonT(60)
  <2>3. SubSeq(stack, 1, Len(stack) - 1) = <<f>>
    BY <1>2, <2>1, <2>2
  <2>4. Len(<<f>>) = 1 /\ <<f>>[1] = f
    OBVIOUS
  <2>5. QED
    BY <2>3, <2>4
<1>5. Len(stack') = 1 /\ stack' # <<>>
  <2>1. stack' = <<f>> \/ stack' = [<<f>> EXCEPT ![1].phase = "run"]
    BY <1>4 DEF RestoreMode
  <2>2. [<<f>> EXCEPT ![1].phase = "run"] = <<[f EXCEPT !.phase = "run"]>>
    OBVIOUS
  <2>3. \E h : stack' = <<h>>
    BY <2>1, <2>2
  <2>4. \A h : Len(<<h>>) = 1 /\ <<h>> # <<>>
    OBVIOUS
  <2>5. QED
    BY <2>3, <2>4
<1>6. SameSession /\ sess'.connected = sess.connected /\ sess'.family = sess.family
  <2>1. \E m : sess' = [sess EXCEPT !.mode = m]
    BY DEF RestoreMode
  <2>2. QED
    BY <2>1, SessionFixed
<1>7. ~(sess.use_passive /\ "ipv6" \in sess.net.families)
  BY <1>2, <1>3 DEF ImplInv, Steady
<1>8. pc # "epsv"
  BY <1>1, <1>7 DEF ImplInv, OptionsKept
<1>9. OptionsKept' /\ Steady'
  BY <1>1, <1>3, <1>6, <1>7, <1>8 DEF ImplInv, OptionsKept, Steady, SameSession
<1>10. TypeIsSet' = TypeIsSet
  BY <1>1 DEF TypeIsSet
<1>11. call.op \in {"put", "put_cond", "get", "read"} /\ TypeIsSet => g.verb = set_type(call.mode)
  BY <1>2 DEF ImplInv, ModeKnown
<1>12. CASE ret = "OK"
  <2>1. sess'.mode = IF g.verb = "TYPE_ascii" THEN "ascii" ELSE "binary"
    BY <1>2, <1>3, <1>12 DEF RestoreMode, Session
  <2>2. g.verb = set_type(call.mode) => sess'.mode = call.mode
    BY <1>3, <2>1 DEF set_type, Types
  <2>3. ModeKnown'
    BY <1>1, <1>5, <1>10, <1>11, <2>2 DEF ModeKnown
  <2>4. ret' = "none" \/ (ret' = "OK" /\ f.verb = "OPEN")
    BY <1>4, <1>12 DEF RestoreMode
  <2>5. f.verb = "OPEN" => pc = "listen"
    BY <1>2, <1>3, VerbTyped DEF Outermost
  <2>6. NoMixup' /\ AnswerTrue'
    BY <1>1, <1>5, <2>4, <2>5 DEF NoMixup, AnswerTrue
  <2>7. QED
    BY <1>1, <1>5, <1>6, <1>9, <2>3, <2>6, Within
<1>13. CASE ret # "OK"
  <2>1. ret' = ret /\ ret \in {"FILEBAD", "ERROR"} \cup OpenCodes
    BY <1>1, <1>2, <1>13 DEF RestoreMode, ImplInv, NoMixup
  <2>2. ModeKnown' /\ NoMixup' /\ AnswerTrue'
    BY <1>1, <1>5, <1>8, <2>1 DEF ModeKnown, NoMixup, AnswerTrue, Good, OpenCodes
  <2>3. QED
    BY <1>1, <1>5, <1>6, <1>9, <2>2, Within
<1>14. QED
  BY <1>12, <1>13

-----------------------------------------------------------------------------
(* The outcome of a command                                                *)

\* A command leaves its call of execute on the stack, with the time that a
\* reply brings.
LEMMA TopKept ==
  ASSUME TypeInv, stack # <<>>,
         \/ \E t \in Times : stack' = [stack EXCEPT ![Len(stack)].time = t]
         \/ Retry \/ stack' = stack
  PROVE  /\ stack' # <<>> /\ Len(stack') = Len(stack) /\ Top'.verb = Top.verb
         /\ \A t \in Times : stack' = [stack EXCEPT ![Len(stack)].time = t] => Top'.time = t
<1>1. ASSUME NEW f \in Activation, stack = <<f>>, Len(stack) = 1, Top = f
      PROVE  /\ stack' # <<>> /\ Len(stack') = Len(stack) /\ Top'.verb = Top.verb
             /\ \A t \in Times : stack' = [stack EXCEPT ![Len(stack)].time = t] => Top'.time = t
  <2>1. ASSUME NEW h, stack' = <<h>>, h.verb = f.verb
        PROVE  stack' # <<>> /\ Len(stack') = Len(stack) /\ Top'.verb = Top.verb /\ Top' = h
    <3>1. Len(<<h>>) = 1 /\ <<h>>[1] = h /\ <<h>> # <<>>
      OBVIOUS
    <3>2. QED
      BY <1>1, <2>1, <3>1 DEF Top
  <2>2. ASSUME NEW t \in Times, stack' = [stack EXCEPT ![Len(stack)].time = t]
        PROVE  stack' # <<>> /\ Len(stack') = Len(stack) /\ Top'.verb = Top.verb /\ Top'.time = t
    <3> DEFINE h == [f EXCEPT !.time = t]
    <3>1. stack' = <<h>>
      BY <1>1, <2>2, OneCall
    <3>2. h.verb = f.verb /\ h.time = t
      BY DEF Activation
    <3> HIDE DEF h
    <3>3. QED
      BY <2>1, <3>1, <3>2
  <2>3. ASSUME Retry PROVE stack' # <<>> /\ Len(stack') = Len(stack) /\ Top'.verb = Top.verb
    <3> DEFINE h == [f EXCEPT !.tries = @ + 1, !.phase = "open"]
    <3>1. CASE f.tries + 1 < 3
      <4>1. stack' = [<<f>> EXCEPT ![1].tries = @ + 1, ![1].phase = "open"]
        BY <1>1, <2>3, <3>1 DEF Retry
      <4>2. stack' = <<h>>
        BY <4>1, OneCall
      <4>3. h.verb = f.verb
        BY DEF Activation
      <4> HIDE DEF h
      <4>4. QED
        BY <2>1, <4>2, <4>3
    <3>2. CASE ~(f.tries + 1 < 3)
      <4>1. stack' = stack
        BY <1>1, <2>3, <3>2 DEF Retry
      <4>2. QED
        BY <1>1, <2>1, <4>1
    <3>3. QED
      BY <3>1, <3>2
  <2>4. stack' = stack => stack' # <<>> /\ Len(stack') = Len(stack) /\ Top'.verb = Top.verb
    BY <1>1, <2>1
  <2>5. \A t \in Times : stack' = [stack EXCEPT ![Len(stack)].time = t]
          => stack' # <<>> /\ Len(stack') = Len(stack) /\ Top'.verb = Top.verb /\ Top'.time = t
    BY <2>2, Zenon
  <2>6. Retry => stack' # <<>> /\ Len(stack') = Len(stack) /\ Top'.verb = Top.verb
    BY <2>3, Zenon
  <2>7. QED
    BY <2>4, <2>5, <2>6, Zenon
<1>2. ASSUME NEW f \in Activation, NEW g \in Activation, stack = <<f, g>>, Len(stack) = 2, Top = g
      PROVE  /\ stack' # <<>> /\ Len(stack') = Len(stack) /\ Top'.verb = Top.verb
             /\ \A t \in Times : stack' = [stack EXCEPT ![Len(stack)].time = t] => Top'.time = t
  <2>1. ASSUME NEW h, stack' = <<f, h>>, h.verb = g.verb
        PROVE  stack' # <<>> /\ Len(stack') = Len(stack) /\ Top'.verb = Top.verb /\ Top' = h
    <3>1. Len(<<f, h>>) = 2 /\ <<f, h>>[2] = h /\ <<f, h>> # <<>>
      OBVIOUS
    <3>2. QED
      BY <1>2, <2>1, <3>1 DEF Top
  <2>2. ASSUME NEW t \in Times, stack' = [stack EXCEPT ![Len(stack)].time = t]
        PROVE  stack' # <<>> /\ Len(stack') = Len(stack) /\ Top'.verb = Top.verb /\ Top'.time = t
    <3> DEFINE h == [g EXCEPT !.time = t]
    <3>1. stack' = <<f, h>>
      <4>1. stack' = [<<f, g>> EXCEPT ![2].time = t]
        BY <1>2, <2>2
      <4>2. [<<f, g>> EXCEPT ![2].time = t] = <<f, [g EXCEPT !.time = t]>>
        OBVIOUS
      <4>3. QED
        BY <4>1, <4>2
    <3>2. h.verb = g.verb /\ h.time = t
      BY DEF Activation
    <3> HIDE DEF h
    <3>3. QED
      BY <2>1, <3>1, <3>2
  <2>3. ASSUME Retry PROVE stack' # <<>> /\ Len(stack') = Len(stack) /\ Top'.verb = Top.verb
    <3> DEFINE h == [g EXCEPT !.tries = @ + 1, !.phase = "open"]
    <3>1. CASE g.tries + 1 < 3
      <4>1. stack' = [<<f, g>> EXCEPT ![2].tries = @ + 1, ![2].phase = "open"]
        BY <1>2, <2>3, <3>1 DEF Retry
      <4>2. stack' = <<f, h>>
        <5>1. [<<f, g>> EXCEPT ![2].tries = @ + 1, ![2].phase = "open"] = <<f, h>>
          BY SMT DEF Activation
        <5>2. QED
          BY <4>1, <5>1
      <4>3. h.verb = g.verb
        BY DEF Activation
      <4> HIDE DEF h
      <4>4. QED
        BY <2>1, <4>2, <4>3
    <3>2. CASE ~(g.tries + 1 < 3)
      <4>1. stack' = stack
        BY <1>2, <2>3, <3>2 DEF Retry
      <4>2. QED
        BY <1>2, <2>1, <4>1
    <3>3. QED
      BY <3>1, <3>2
  <2>4. stack' = stack => stack' # <<>> /\ Len(stack') = Len(stack) /\ Top'.verb = Top.verb
    BY <1>2, <2>1
  <2>5. \A t \in Times : stack' = [stack EXCEPT ![Len(stack)].time = t]
          => stack' # <<>> /\ Len(stack') = Len(stack) /\ Top'.verb = Top.verb /\ Top'.time = t
    BY <2>2, Zenon
  <2>6. Retry => stack' # <<>> /\ Len(stack') = Len(stack) /\ Top'.verb = Top.verb
    BY <2>3, Zenon
  <2>7. QED
    BY <2>4, <2>5, <2>6, Zenon
<1>3. QED
  BY <1>1, <1>2, StackCases

\* The server has answered, having done r ...
Answered(r) ==
  /\ ret' = parse_reply(r.code) /\ tree' = r.tree /\ sess' = sess
  /\ srv'.cwd = r.srv.cwd /\ srv'.rnfr = r.srv.rnfr /\ srv'.xfer = r.srv.xfer
  /\ Top'.time = Reply(r.code).time

\* ... or the connection is lost after it has.
Lost(r) ==
  /\ tree' = r.tree /\ Disconnect /\ ret' \in {"none", "ERROR"}
  /\ "break" \in sess.net.faults \/ "error" \in sess.net.faults

\* What becomes of a command, when no reply to an earlier one is left.
LEMMA RunOutcome ==
  ASSUME TypeInv, AgreeInv, run_command
  PROVE  /\ stack # <<>> /\ ret = "none" /\ sess.connected /\ Top.verb \in Verbs
         /\ UNCHANGED <<local, call, pc, tries, rel, sent, todo, result>>
         /\ stack' # <<>> /\ Len(stack') = Len(stack) /\ Top'.verb = Top.verb
         /\ \E r \in {Serve(Top.verb), Says(550)} : Answered(r) \/ Lost(r)
<1>1. /\ stack # <<>> /\ ret = "none" /\ Top.phase = "run"
      /\ UNCHANGED <<local, call, pc, tries, rel, sent, todo, result>>
  BY DEF run_command
<1>2. pc # "close" /\ pc \in Sending /\ call \in Calls /\ Top.verb \in Verbs
  BY <1>1, OpenAt, StackCases DEF Activation, Outermost, Verbs
<1>3. sess.connected /\ srv.unread = <<>>
  BY <1>1, <1>2 DEF AgreeInv, Alive, NoStaleReply
<1>4. PICK fate \in Fates, carried_out \in BOOLEAN :
        LET served  == IF carried_out THEN Serve(Top.verb) ELSE Says(550)
            replies == Append(served.srv.unread, Reply(served.code))
            code    == parse_reply(Head(replies).code)
        IN  /\ fate = "answer" => carried_out
            /\ fate = "refuse" => ~carried_out
            /\ tree' = served.tree
            /\ \/ /\ fate \in {"answer", "refuse"}
                  /\ srv' = [served.srv EXCEPT !.unread = Tail(replies)]
                  /\ ret' = code
                  /\ stack' = [stack EXCEPT ![Len(stack)].time = Head(replies).time]
                  /\ UNCHANGED sess
               \/ fate = "break" /\ Disconnect /\ Retry
               \/ fate = "error" /\ Disconnect /\ ret' = "ERROR" /\ UNCHANGED stack
  BY DEF run_command
<1> DEFINE served  == IF carried_out THEN Serve(Top.verb) ELSE Says(550)
           replies == Append(served.srv.unread, Reply(served.code))
<1>5. served \in {Serve(Top.verb), Says(550)} /\ tree' = served.tree
  BY <1>4
<1>6. CASE fate = "break" /\ Disconnect /\ Retry
  <2>1. ret' \in {"none", "ERROR"}
    BY <1>1, <1>6 DEF Retry
  <2>2. "break" \in sess.net.faults
    BY <1>6 DEF Fates, If
  <2>3. stack' # <<>> /\ Len(stack') = Len(stack) /\ Top'.verb = Top.verb
    BY <1>1, <1>6, TopKept
  <2> HIDE DEF served
  <2>4. Lost(served)
    BY <1>5, <1>6, <2>1, <2>2 DEF Lost
  <2>5. QED
    BY <1>1, <1>2, <1>3, <1>5, <2>3, <2>4
<1>7. CASE fate = "error" /\ Disconnect /\ ret' = "ERROR" /\ UNCHANGED stack
  <2>1. "error" \in sess.net.faults
    BY <1>7 DEF Fates, If
  <2>2. stack' # <<>> /\ Len(stack') = Len(stack) /\ Top'.verb = Top.verb
    BY <1>1, <1>7, TopKept
  <2> HIDE DEF served
  <2>3. Lost(served)
    BY <1>5, <1>7, <2>1 DEF Lost
  <2>4. QED
    BY <1>1, <1>2, <1>3, <1>5, <2>2, <2>3
<1>8. CASE /\ srv' = [served.srv EXCEPT !.unread = Tail(replies)]
           /\ ret' = parse_reply(Head(replies).code)
           /\ stack' = [stack EXCEPT ![Len(stack)].time = Head(replies).time]
           /\ UNCHANGED sess
  <2>1. ServedOK(served)
    <3>1. ServedOK(Serve(Top.verb))
      BY <1>2, ServeTyped DEF TypeInv
    <3>2. ServedOK(Says(550))
      BY DEF ServedOK, Says, Served, Replies, TypeInv, ServerOK
    <3>3. QED
      BY <3>1, <3>2
  <2> HIDE DEF served
  <2>2. replies = <<Reply(served.code)>> /\ Reply(served.code) \in Message /\ Reply(served.code).code = served.code
    <3>1. served.srv.unread = <<>> /\ served.code \in Nat
      BY <1>3, <2>1 DEF ServedOK, Replies
    <3>2. QED
      BY <1>2, <3>1, ReplyTyped DEF TypeInv
  <2>3. Head(replies) = Reply(served.code)
    BY <2>2
  <2> HIDE DEF replies
  <2>4. ret' = parse_reply(served.code)
    BY <1>8, <2>2, <2>3
  <2>5. srv'.cwd = served.srv.cwd /\ srv'.rnfr = served.srv.rnfr /\ srv'.xfer = served.srv.xfer
    BY <1>8, <2>1 DEF ServedOK, ServerEnd
  <2>6. Head(replies).time \in Times
    BY <2>2, <2>3 DEF Message
  <2>7. /\ stack' # <<>> /\ Len(stack') = Len(stack) /\ Top'.verb = Top.verb
        /\ Top'.time = Head(replies).time
    BY <1>1, <1>8, <2>6, TopKept
  <2>8. Answered(served)
    BY <1>5, <1>8, <2>3, <2>4, <2>5, <2>7 DEF Answered
  <2>9. QED
    BY <1>1, <1>2, <1>3, <1>5, <2>7, <2>8
<1>9. QED
  BY <1>4, <1>6, <1>7, <1>8

\* Where each command is sent, and by which operations.
LEMMA VerbOf ==
  ASSUME call \in Calls, pc \in Sending, call.op \in OpsAt(pc)
  PROVE  /\ Verb = "STOR" => pc = "transfer" /\ call.op \in Uploads
         /\ pc = "transfer" /\ call.op \in Uploads => Verb = "STOR"
         /\ Verb = "DELE" <=> call.op = "delete"
         /\ Verb = "RMD" <=> call.op = "rmdir"
         /\ Verb = "MKD" <=> call.op = "mkdir"
         /\ Verb = "RNTO" <=> pc = "rnto"
         /\ Verb = "RNFR" <=> pc = "rnfr"
         /\ Verb = "MDTM" <=> pc \in {"mdtm", "times"}
         /\ Verb \in {"DELE", "RMD", "MKD"} => pc = "command"
         /\ pc = "command" => call.op \in {"delete", "rmdir", "mkdir", "chmod"}
<1>1. call.op \in Operations /\ call.mode \in Types
  BY CallTyped
<1>2. CASE pc = "transfer"
  BY <1>1, <1>2 DEF Verb, OpVerb, OpsAt, Uploads
<1>3. CASE pc = "command"
  BY <1>1, <1>3 DEF Verb, OpVerb, OpsAt, Uploads
<1>4. CASE pc = "mode"
  BY <1>1, <1>4 DEF Verb, OpsAt, Uploads, set_type
<1>5. CASE pc \in {"init", "listen"}
  BY <1>1, <1>5 DEF Verb, OpsAt, Uploads
<1>6. CASE pc \in {"rnfr", "rnto", "mdtm", "times"}
  BY <1>1, <1>6 DEF Verb, OpsAt, Uploads
<1>7. CASE pc \in {"chdir", "epsv", "pasv", "port"}
  BY <1>1, <1>7 DEF Verb, OpsAt, Uploads
<1>8. QED
  BY <1>2, <1>3, <1>4, <1>5, <1>6, <1>7 DEF Sending

\* An upload is stored under the name that was asked for, or under the same
\* name in the directory in which a new connection starts.
LEMMA TargetKnown ==
  ASSUME TypeInv, ImplInv, pc = "transfer"
  PROVE  call.op \in Uploads => Target \in Strays(call, sess)
<1>1. call \in Calls
  BY InOperation
<1>2. call.path \in Paths /\ call.path[1] \in Dirs /\ call.path[2] \in Bases
  BY <1>1, CallTyped
<1>3. call.path = <<call.path[1], call.path[2]>>
  BY <1>2 DEF Paths
<1>4. CASE ~rel
  BY <1>4 DEF Target, Strays
<1>5. CASE rel
  <2>1. sess.use_cwd /\ srv.cwd \in {Home, call.path[1]}
    BY <1>5 DEF ImplInv, NameOK
  <2>2. Target = <<srv.cwd, call.path[2]>> /\ Strays(call, sess) = {call.path, <<Home, call.path[2]>>}
    BY <1>5, <2>1 DEF Target, Strays
  <2>3. QED
    BY <1>3, <2>1, <2>2
<1>6. QED
  BY <1>4, <1>5

\* What a command makes of the files: t.
Effect(t) ==
  \/ t = tree
  \/ /\ pc = "transfer" /\ call.op \in Uploads /\ Target \in Strays(call, sess)
     /\ t = [tree EXCEPT ![Target] = "part"]
  \/ call.op = "delete" /\ Holds(call.path) /\ t = [tree EXCEPT ![call.path] = "none"]
  \/ call.op = "rmdir" /\ tree[call.path] = "dir" /\ t = [tree EXCEPT ![call.path] = "none"]
  \/ call.op = "mkdir" /\ tree[call.path] = "none" /\ t = [tree EXCEPT ![call.path] = "dir"]
  \/ /\ call.op = "move" /\ Holds(call.path)
     /\ t = [tree EXCEPT ![call.to] = tree[call.path], ![call.path] = "none"]

\* A refusal has no effect, and a command has that of its operation.
LEMMA ServeEffect ==
  ASSUME TypeInv, ImplInv, stack # <<>>, Top.verb \in Verbs,
         NEW r \in {Serve(Top.verb), Says(550)}
  PROVE  Effect(r.tree)
<1>1. /\ pc \in Sending /\ call \in Calls /\ call.op \in OpsAt(pc)
      /\ Top.verb \in TypeVerbs \/ Top.verb = Verb
  BY OpenAt, Depth
<1>2. \A code : Says(code).tree = tree
  BY DEF Says, Served
<1>3. \A code, s : Set(code, s).tree = tree
  BY DEF Set, Served
<1>4. ASSUME Top.verb \in TypeVerbs \cup {"CWD", "EPSV", "PASV", "PORT", "RETR", "LIST", "SITE_CHMOD", "RNFR", "MDTM"}
      PROVE  Serve(Top.verb).tree = tree
  <2>1. CASE Top.verb \in TypeVerbs
    BY <1>3, <2>1, ServeCases DEF TypeVerbs
  <2>2. CASE Top.verb \in {"CWD", "EPSV", "PASV", "PORT"}
    BY <1>3, <2>2, ServeCases
  <2>3. CASE Top.verb \in {"RETR", "LIST"}
    BY <1>2, <1>3, <2>3, ServeCases
  <2>4. CASE Top.verb \in {"SITE_CHMOD", "MDTM"}
    BY <1>2, <2>4, ServeCases
  <2>5. CASE Top.verb = "RNFR"
    BY <1>2, <1>3, <2>5, ServeCases
  <2>6. QED
    BY <1>4, <2>1, <2>2, <2>3, <2>4, <2>5
<1> DEFINE done == Serve(Top.verb).tree
<1>5. ASSUME Top.verb = "STOR" PROVE Effect(done)
  <2>1. Verb = "STOR"
    BY <1>1, <1>5 DEF TypeVerbs
  <2>2. pc = "transfer" /\ call.op \in Uploads /\ Target \in Strays(call, sess)
    BY <1>1, <2>1, VerbOf, TargetKnown
  <2>3. Serve("STOR").tree \in {tree, [tree EXCEPT ![Target] = "part"]}
    <3>1. Served(150, [srv EXCEPT !.data = FALSE, !.xfer = Target], [tree EXCEPT ![Target] = "part"]).tree
            = [tree EXCEPT ![Target] = "part"]
      BY DEF Served
    <3>2. QED
      BY <1>2, <1>3, <3>1, ServeCases
  <2>4. done = tree \/ done = [tree EXCEPT ![Target] = "part"]
    BY <1>5, <2>3
  <2> HIDE DEF done
  <2>5. QED
    BY <2>2, <2>4 DEF Effect
<1>6. ASSUME Top.verb = "DELE" PROVE Effect(done)
  <2>1. call.op = "delete"
    BY <1>1, <1>6, VerbOf DEF TypeVerbs
  <2>2. Serve("DELE") = IF Holds(call.path) THEN Write(call.path, "none") ELSE Says(550)
    BY ServeCases
  <2>3. (Holds(call.path) /\ done = [tree EXCEPT ![call.path] = "none"]) \/ done = tree
    <3>1. CASE Holds(call.path)
      <4>1. Serve(Top.verb) = Write(call.path, "none")
        BY <1>6, <2>2, <3>1
      <4>2. Write(call.path, "none").tree = [tree EXCEPT ![call.path] = "none"]
        BY DEF Write, Served
      <4>3. QED
        BY <3>1, <4>1, <4>2, ZenonT(60)
    <3>2. CASE ~(Holds(call.path))
      BY <1>2, <1>6, <2>2, <3>2, Zenon
    <3>3. QED
      BY <3>1, <3>2
  <2> HIDE DEF done
  <2>4. QED
    BY <2>1, <2>3 DEF Effect
<1>7. ASSUME Top.verb = "RMD" PROVE Effect(done)
  <2>1. call.op = "rmdir"
    BY <1>1, <1>7, VerbOf DEF TypeVerbs
  <2>2. Serve("RMD") = IF tree[call.path] = "dir" THEN Write(call.path, "none") ELSE Says(550)
    BY ServeCases
  <2>3. (tree[call.path] = "dir" /\ done = [tree EXCEPT ![call.path] = "none"]) \/ done = tree
    <3>1. CASE tree[call.path] = "dir"
      <4>1. Serve(Top.verb) = Write(call.path, "none")
        BY <1>7, <2>2, <3>1
      <4>2. Write(call.path, "none").tree = [tree EXCEPT ![call.path] = "none"]
        BY DEF Write, Served
      <4>3. QED
        BY <3>1, <4>1, <4>2, ZenonT(60)
    <3>2. CASE ~(tree[call.path] = "dir")
      BY <1>2, <1>7, <2>2, <3>2, Zenon
    <3>3. QED
      BY <3>1, <3>2
  <2> HIDE DEF done
  <2>4. QED
    BY <2>1, <2>3 DEF Effect
<1>8. ASSUME Top.verb = "MKD" PROVE Effect(done)
  <2>1. call.op = "mkdir"
    BY <1>1, <1>8, VerbOf DEF TypeVerbs
  <2>2. Serve("MKD") = IF tree[call.path] = "none" THEN Write(call.path, "dir") ELSE Says(550)
    BY ServeCases
  <2>3. (tree[call.path] = "none" /\ done = [tree EXCEPT ![call.path] = "dir"]) \/ done = tree
    <3>1. CASE tree[call.path] = "none"
      <4>1. Serve(Top.verb) = Write(call.path, "dir")
        BY <1>8, <2>2, <3>1
      <4>2. Write(call.path, "dir").tree = [tree EXCEPT ![call.path] = "dir"]
        BY DEF Write, Served
      <4>3. QED
        BY <3>1, <4>1, <4>2, ZenonT(60)
    <3>2. CASE ~(tree[call.path] = "none")
      BY <1>2, <1>8, <2>2, <3>2, Zenon
    <3>3. QED
      BY <3>1, <3>2
  <2> HIDE DEF done
  <2>4. QED
    BY <2>1, <2>3 DEF Effect
<1>9. ASSUME Top.verb = "RNTO" PROVE Effect(done)
  <2>1. pc = "rnto" /\ call.op = "move"
    BY <1>1, <1>9, VerbOf DEF TypeVerbs, OpsAt
  <2>2. srv.rnfr = NoPath \/ (srv.rnfr = call.path /\ Holds(call.path))
    BY <2>1 DEF ImplInv, Renaming
  <2> DEFINE moved == [tree EXCEPT ![call.to] = tree[srv.rnfr], ![srv.rnfr] = "none"]
             after == Served(250, [srv EXCEPT !.rnfr = NoPath], moved)
  <2>3. Serve("RNTO") = IF srv.rnfr = NoPath \/ tree[call.to] = "dir" THEN Says(503) ELSE after
    BY ServeCases
  <2>4. after.tree = moved
    BY DEF Served
  <2>5. ~(srv.rnfr = NoPath) => moved = [tree EXCEPT ![call.to] = tree[call.path], ![call.path] = "none"]
    BY <2>2
  <2> HIDE DEF moved, after
  <2>6. done = tree \/ (srv.rnfr # NoPath /\ done = moved)
    BY <1>2, <1>9, <2>3, <2>4
  <2> HIDE DEF done
  <2>7. QED
    BY <2>1, <2>2, <2>5, <2>6 DEF Effect
<1>10. Effect(tree)
  BY DEF Effect
<1>11. Effect(done)
  BY <1>1, <1>4, <1>5, <1>6, <1>7, <1>8, <1>9, <1>10 DEF Verbs
<1>12. r = Says(550) => r.tree = tree
  BY <1>2
<1> HIDE DEF done
<1>13. r.tree = done \/ r.tree = tree
  BY <1>12 DEF done
<1>14. QED
  BY <1>10, <1>11, <1>13

\* What the reply to a command tells the client.
LEMMA ReplyTells ==
  ASSUME Answered(Serve(Verb))
  PROVE  /\ Serve(Verb) = Says(550) => ret' = "FILEBAD"
         /\ Serve(Verb) = Says(503) => ret' = "ERROR"
         /\ Serve(Verb) = Says(425) => ret' = "ERROR"
         /\ Serve(Verb) = Says(213) => tree' = tree /\ Top'.time = Reply(213).time
         /\ \A s : Serve(Verb) = Set(550, s) => ret' = "FILEBAD"
         /\ \A s : Serve(Verb) = Set(350, s) => tree' = tree /\ srv'.rnfr = s.rnfr
         /\ \A p, x : Serve(Verb) = Write(p, x) => tree' = [tree EXCEPT ![p] = x]
         /\ \A code, s, t : Serve(Verb) = Served(code, s, t) =>
              tree' = t /\ srv'.xfer = s.xfer
<1>1. /\ ret' = parse_reply(Serve(Verb).code) /\ tree' = Serve(Verb).tree /\ sess' = sess
      /\ srv'.rnfr = Serve(Verb).srv.rnfr /\ srv'.xfer = Serve(Verb).srv.xfer
      /\ Top'.time = Reply(Serve(Verb).code).time
  BY DEF Answered
<1>2. ASSUME NEW code, NEW s, NEW t, Serve(Verb) = Served(code, s, t)
      PROVE  Serve(Verb).code = code /\ Serve(Verb).srv = s /\ Serve(Verb).tree = t
  BY <1>2 DEF Served
<1>3. ASSUME NEW code, NEW s, NEW t, Serve(Verb) = Served(code, s, t)
      PROVE  /\ ret' = parse_reply(code) /\ tree' = t /\ srv'.rnfr = s.rnfr /\ srv'.xfer = s.xfer
             /\ Top'.time = Reply(code).time
  BY <1>1, <1>2, <1>3, Zenon
<1>4. ASSUME NEW code, Serve(Verb) = Says(code)
      PROVE  ret' = parse_reply(code) /\ tree' = tree /\ Top'.time = Reply(code).time
  BY <1>3, <1>4, Zenon DEF Says
<1>5. ASSUME NEW code, NEW s, Serve(Verb) = Set(code, s)
      PROVE  ret' = parse_reply(code) /\ tree' = tree /\ srv'.rnfr = s.rnfr
  BY <1>3, <1>5, Zenon DEF Set
<1>6. ASSUME NEW p, NEW x, Serve(Verb) = Write(p, x) PROVE tree' = [tree EXCEPT ![p] = x]
  <2> DEFINE after == [tree EXCEPT ![p] = x]
  <2>1. Serve(Verb) = Served(250, srv, after)
    BY <1>6 DEF Write
  <2> HIDE DEF after
  <2>2. tree' = after
    BY <1>3, <2>1
  <2>3. QED
    BY <2>2 DEF after
<1>7. Serve(Verb) = Says(550) => ret' = "FILEBAD"
  BY <1>4 DEF parse_reply
<1>8. Serve(Verb) = Says(503) => ret' = "ERROR"
  BY <1>4 DEF parse_reply
<1>9. Serve(Verb) = Says(425) => ret' = "ERROR"
  BY <1>4 DEF parse_reply
<1>10. Serve(Verb) = Says(213) => tree' = tree /\ Top'.time = Reply(213).time
  BY <1>4, Zenon
<1>11. \A s : Serve(Verb) = Set(550, s) => ret' = "FILEBAD"
  BY <1>5 DEF parse_reply
<1>12. \A s : Serve(Verb) = Set(350, s) => tree' = tree /\ srv'.rnfr = s.rnfr
  BY <1>5, Zenon
<1>13. \A p, x : Serve(Verb) = Write(p, x) => tree' = [tree EXCEPT ![p] = x]
  BY <1>6, Zenon
<1>14. \A code, s, t : Serve(Verb) = Served(code, s, t) => tree' = t /\ srv'.xfer = s.xfer
  BY <1>3, Zenon
<1>15. QED
  BY <1>7, <1>8, <1>9, <1>10, <1>11, <1>12, <1>13, <1>14, Zenon

\* A command that the server carries out and answers does what its answer says.
LEMMA AnswerHolds ==
  ASSUME TypeInv, ImplInv, stack # <<>>, Len(stack) = 1, Top.verb \in Verbs, sess.connected,
         UNCHANGED <<local, call, pc, rel, todo>>, Answered(Serve(Top.verb))
  PROVE  AnswerTrue'
<1>1. /\ pc \in Sending /\ call \in Calls /\ call.op \in OpsAt(pc) /\ Top.verb = Verb
      /\ tree \in FileTree /\ call.path \in Paths /\ call.to \in Paths /\ call.to # call.path
  BY OpenAt, Depth, CallTyped DEF TypeInv, ServerOK
<1>2. Answered(Serve(Verb)) /\ sess' = sess
  BY <1>1 DEF Answered
<1>3. ASSUME pc = "mdtm", ret' = "MODTIME"
      PROVE  Holds(call.path) /\ tree' = tree /\ Top'.time = D!TimeOf(tree[call.path])
  <2>1. todo = 0 /\ Verb = "MDTM"
    BY <1>1, <1>3, VerbOf DEF TypeInv, PositionOK
  <2>2. Serve(Verb) = Says(IF todo # 0 \/ Holds(call.path) THEN 213 ELSE 550)
    BY <2>1, ServeCases
  <2>3. ~Holds(call.path) => Serve(Verb) = Says(550)
    BY <2>1, <2>2, Zenon
  <2>4. Holds(call.path)
    BY <1>2, <1>3, <2>3, ReplyTells
  <2>5. Serve(Verb) = Says(213)
    BY <2>2, <2>4, Zenon
  <2>6. tree' = tree /\ Top'.time = Reply(213).time
    BY <1>2, <2>5, ReplyTells
  <2>7. Reply(213).time = D!TimeOf(tree[call.path])
    BY <2>4 DEF Reply
  <2>8. QED
    BY <2>4, <2>6, <2>7
<1>4. ASSUME pc = "rnfr", ret' = "FILEMORE"
      PROVE  Holds(call.path) /\ tree' = tree /\ srv'.rnfr = call.path
  <2>1. Verb = "RNFR"
    BY <1>1, <1>4, VerbOf
  <2>2. Serve(Verb) = IF Holds(call.path) THEN Set(350, [srv EXCEPT !.rnfr = call.path]) ELSE Says(550)
    BY <2>1, ServeCases
  <2>3. Holds(call.path)
    BY <1>2, <1>4, <2>2, ReplyTells
  <2>4. Serve(Verb) = Set(350, [srv EXCEPT !.rnfr = call.path])
    BY <2>2, <2>3, Zenon
  <2>5. tree' = tree /\ srv'.rnfr = [srv EXCEPT !.rnfr = call.path].rnfr
    BY <1>2, <2>4, ReplyTells
  <2>6. QED
    BY <2>3, <2>5 DEF TypeInv, ServerOK, ServerEnd
<1>5. ASSUME pc \in {"command", "rnto"}, ret' = "OK" PROVE Achieved'
  <2>1. CASE call.op \in {"delete", "rmdir"}
    <3>1. Serve(Verb) \in {Write(call.path, "none"), Says(550)}
      BY <1>1, <2>1, VerbOf, ServeCases
    <3>2. Serve(Verb) = Write(call.path, "none")
      BY <1>2, <1>5, <3>1, ReplyTells
    <3>3. tree' = [tree EXCEPT ![call.path] = "none"]
      BY <1>2, <3>2, ReplyTells
    <3>4. tree'[call.path] = "none"
      BY <1>1, <3>3 DEF FileTree
    <3>5. QED
      BY <2>1, <3>4 DEF Achieved, Uploads, Downloads
  <2>2. CASE call.op = "mkdir"
    <3>1. Serve(Verb) \in {Write(call.path, "dir"), Says(550)}
      BY <1>1, <2>2, VerbOf, ServeCases
    <3>2. Serve(Verb) = Write(call.path, "dir")
      BY <1>2, <1>5, <3>1, ReplyTells
    <3>3. tree' = [tree EXCEPT ![call.path] = "dir"]
      BY <1>2, <3>2, ReplyTells
    <3>4. tree'[call.path] = "dir"
      BY <1>1, <3>3 DEF FileTree
    <3>5. QED
      BY <2>2, <3>4 DEF Achieved, Uploads, Downloads
  <2>3. CASE call.op = "chmod"
    BY <2>3 DEF Achieved, Uploads, Downloads
  <2>4. CASE pc = "rnto"
    <3>1. Verb = "RNTO" /\ call.op = "move"
      BY <1>1, <2>4, VerbOf DEF OpsAt
    <3> DEFINE moved == [tree EXCEPT ![call.to] = tree[srv.rnfr], ![srv.rnfr] = "none"]
               after == [srv EXCEPT !.rnfr = NoPath]
    <3>2. Serve(Verb) = IF srv.rnfr = NoPath \/ tree[call.to] = "dir" THEN Says(503)
                        ELSE Served(250, after, moved)
      BY <3>1, ServeCases
    <3> HIDE DEF moved, after
    <3>3. ~(srv.rnfr = NoPath \/ tree[call.to] = "dir")
      BY <1>2, <1>5, <3>2, ReplyTells
    <3>4. Serve(Verb) = Served(250, after, moved)
      BY <3>2, <3>3, Zenon
    <3>5. tree' = moved
      BY <1>2, <3>4, ReplyTells
    <3>6. srv.rnfr = call.path /\ Holds(call.path)
      BY <2>4, <3>3 DEF ImplInv, Renaming
    <3>7. tree' = [tree EXCEPT ![call.to] = tree[call.path], ![call.path] = "none"]
      BY <3>5, <3>6 DEF moved
    <3>8. tree'[call.path] = "none" /\ tree'[call.to] = tree[call.path]
      BY <1>1, <3>7 DEF FileTree
    <3>9. QED
      BY <3>1, <3>6, <3>8 DEF Achieved, Uploads, Downloads, Holds
  <2>5. QED
    BY <1>1, <1>5, <2>1, <2>2, <2>3, <2>4, VerbOf
<1>6. ASSUME pc = "transfer", ret' = "READY", call.op \in Uploads
      PROVE  srv'.xfer \in Strays(call, sess)
  <2>1. Verb = "STOR"
    BY <1>1, <1>6, VerbOf
  <2>2. Target \in Strays(call, sess)
    BY <1>6, TargetKnown
  <2> DEFINE part  == [tree EXCEPT ![Target] = "part"]
             after == [srv EXCEPT !.data = FALSE, !.xfer = Target]
             none  == [srv EXCEPT !.data = FALSE]
  <2>3. /\ ~srv.data => Serve(Verb) = Says(425)
        /\ srv.data => Serve(Verb) = IF tree[Target] = "dir" THEN Set(550, none)
                                     ELSE Served(150, after, part)
    BY <2>1, ServeCases
  <2>4. after.xfer = Target
    BY DEF TypeInv, ServerOK, ServerEnd
  <2> HIDE DEF part, after, none
  <2>5. Serve(Verb) = Served(150, after, part)
    BY <1>2, <1>6, <2>3, ReplyTells
  <2>6. srv'.xfer = after.xfer
    BY <1>2, <2>5, ReplyTells
  <2>7. QED
    BY <2>2, <2>4, <2>6
<1>7. pc # "init"
  <2>1. "OPEN" \notin Verbs
    BY DEF Verbs, TypeVerbs
  <2>2. QED
    BY <1>1, <2>1, VerbTyped
<1>8. Strays(call, sess)' = Strays(call, sess) /\ (tree' = tree => Holds(call.path)' = Holds(call.path))
  BY <1>2 DEF Holds, Strays
<1>9. QED
  BY <1>2, <1>3, <1>4, <1>5, <1>6, <1>7, <1>8 DEF AnswerTrue

\* What a command does to the server outside its files.
LEMMA ServeRest ==
  ASSUME TypeInv, ImplInv, stack # <<>>, Top.verb \in Verbs,
         NEW r \in {Serve(Top.verb), Says(550)}
  PROVE  /\ pc # "init"
         /\ pc # "chdir" => r.srv.cwd = srv.cwd
         /\ pc = "rnto" => r.srv.rnfr = NoPath \/ (r.srv.rnfr = srv.rnfr /\ r.tree = tree)
         /\ pc = "times" => r.tree = tree
         /\ Len(stack) = 2 => r.code \in {200, 550}
         /\ r = Says(550) => r.code = 550 /\ r.srv = srv /\ r.tree = tree
<1>1. /\ pc \in Sending /\ call \in Calls /\ call.op \in OpsAt(pc) /\ srv \in ServerEnd
      /\ Len(stack) = 1 \/ (Len(stack) = 2 /\ Top.verb \in TypeVerbs)
      /\ Len(stack) = 1 => Top.verb = Verb
  BY OpenAt, Depth DEF TypeInv, ServerOK
<1>2. \A code : Says(code).tree = tree /\ Says(code).code = code /\ Says(code).srv = srv
  BY DEF Says, Served
<1>3. \A code, s : Set(code, s).tree = tree /\ Set(code, s).code = code /\ Set(code, s).srv = s
  BY DEF Set, Served
<1>4. pc # "init"
  <2>1. "OPEN" \notin Verbs
    BY DEF Verbs, TypeVerbs
  <2>2. Len(stack) = 2 => pc # "init"
    BY DEF ImplInv, Steady
  <2>3. QED
    BY <1>1, <2>1, <2>2, VerbTyped
<1>5. CASE r = Says(550)
  BY <1>2, <1>4, <1>5
<1>6. CASE r = Serve(Top.verb) /\ Top.verb \in TypeVerbs
  <2>1. \E x : r = Set(200, [srv EXCEPT !.type = x])
    <3>1. CASE Top.verb = "TYPE_ascii"
      <4>1. r = Set(200, [srv EXCEPT !.type = "ascii"])
        BY <1>6, <3>1, ServeCases, ZenonT(60)
      <4>2. QED
        BY <4>1, Zenon
    <3>2. CASE Top.verb = "TYPE_binary"
      <4>1. r = Set(200, [srv EXCEPT !.type = "binary"])
        BY <1>6, <3>2, ServeCases, ZenonT(60)
      <4>2. QED
        BY <4>1, Zenon
    <3>3. QED
      BY <1>6, <3>1, <3>2 DEF TypeVerbs
  <2>2. PICK x : r = Set(200, [srv EXCEPT !.type = x])
    BY <2>1
  <2>3. r.tree = tree /\ r.code = 200 /\ r.srv = [srv EXCEPT !.type = x]
    BY <1>3, <2>2
  <2>4. r.srv.cwd = srv.cwd /\ r.srv.rnfr = srv.rnfr
    BY <1>1, <2>3 DEF ServerEnd
  <2>5. r # Says(550)
    BY <1>2, <2>3
  <2>6. QED
    BY <1>4, <2>3, <2>4, <2>5
<1>7. CASE r = Serve(Top.verb) /\ Top.verb \notin TypeVerbs
  <2>1. Len(stack) = 1 /\ Top.verb = Verb /\ Len(stack) # 2
    <3>1. Len(stack) = 1 /\ Top.verb = Verb
      BY <1>1, <1>7, Zenon
    <3>2. QED
      BY <3>1
  <2>2. pc # "chdir" => r.srv.cwd = srv.cwd
    <3>1. pc # "chdir" => Verb # "CWD"
      BY <1>1, VerbAt
    <3>2. QED
      BY <1>1, <1>7, <2>1, <3>1, ServeKeeps DEF Kept, TypeInv
  <2>3. pc = "rnto" => r.srv.rnfr = NoPath \/ (r.srv.rnfr = srv.rnfr /\ r.tree = tree)
    <3>1. Served(250, [srv EXCEPT !.rnfr = NoPath],
                 [tree EXCEPT ![call.to] = tree[srv.rnfr], ![srv.rnfr] = "none"]).srv.rnfr = NoPath
      BY <1>1 DEF Served, ServerEnd
    <3>2. pc = "rnto" => Verb = "RNTO"
      BY <1>1, VerbOf
    <3>3. QED
      BY <1>2, <1>7, <2>1, <3>1, <3>2, ServeCases
  <2>4. pc = "times" => r.tree = tree
    <3>1. pc = "times" => Verb = "MDTM"
      BY <1>1, VerbOf
    <3>2. QED
      BY <1>2, <1>7, <2>1, <3>1, ServeCases
  <2>5. QED
    BY <1>2, <1>4, <2>1, <2>2, <2>3, <2>4
<1>8. QED
  BY <1>5, <1>6, <1>7

\* A command may be answered, refused or lost with its connection.
LEMMA ImplRun ==
  ASSUME EpsvUnbroken, TypeInv, AgreeInv, ImplInv, run_command
  PROVE  ImplInv'
<1>1. /\ stack # <<>> /\ ret = "none" /\ sess.connected /\ Top.verb \in Verbs
      /\ UNCHANGED <<local, call, pc, tries, rel, sent, todo, result>>
      /\ stack' # <<>> /\ Len(stack') = Len(stack) /\ Top'.verb = Top.verb
  BY RunOutcome
<1>2. PICK r \in {Serve(Top.verb), Says(550)} : Answered(r) \/ Lost(r)
  BY RunOutcome
<1>3. /\ pc \in Sending /\ call \in Calls /\ call.op \in OpsAt(pc)
      /\ Len(stack) = 1 \/ Len(stack) = 2
      /\ tree \in FileTree /\ call.path \in Paths
  BY <1>1, OpenAt, Depth, CallTyped DEF TypeInv, ServerOK
<1>4. pc \notin {"new", "ready", "body", "close"}
  BY <1>3 DEF Sending
<1>5. /\ pc # "init"
      /\ pc # "chdir" => r.srv.cwd = srv.cwd
      /\ pc = "rnto" => r.srv.rnfr = NoPath \/ (r.srv.rnfr = srv.rnfr /\ r.tree = tree)
      /\ pc = "times" => r.tree = tree
      /\ Len(stack) = 2 => r.code \in {200, 550}
      /\ r = Says(550) => r.code = 550 /\ r.srv = srv /\ r.tree = tree
  BY <1>1, ServeRest
<1>6. tree' = r.tree /\ Effect(r.tree)
  BY <1>1, <1>2, ServeEffect DEF Answered, Lost
<1>7. Answered(r) => sess' = sess
  BY DEF Answered
<1>8. Lost(r) => /\ SameSession /\ sess'.connected = FALSE /\ sess'.family = sess.family
                 /\ sess'.mode = sess.mode /\ srv' = Login
                 /\ ~(sess.use_passive /\ "ipv6" \in sess.net.families)
                 /\ ret' \in {"none", "ERROR"}
  <2> SUFFICES ASSUME Lost(r)
               PROVE  /\ SameSession /\ sess'.connected = FALSE /\ sess'.family = sess.family
                      /\ sess'.mode = sess.mode /\ srv' = Login
                      /\ ~(sess.use_passive /\ "ipv6" \in sess.net.families)
                      /\ ret' \in {"none", "ERROR"}
    OBVIOUS
  <2>1. Disconnect /\ ret' \in {"none", "ERROR"} /\ ("break" \in sess.net.faults \/ "error" \in sess.net.faults)
    BY DEF Lost
  <2>2. ~(sess.use_passive /\ "ipv6" \in sess.net.families)
    BY <2>1, NotSteady DEF ImplInv
  <2>3. QED
    BY <2>1, <2>2, DisconnectFixed
<1>9. SameSession /\ sess'.mode = sess.mode /\ sess'.family = sess.family
  BY <1>2, <1>7, <1>8 DEF SameSession
<1>10. OptionsKept'
  BY <1>1, <1>9 DEF ImplInv, OptionsKept, SameSession
<1>11. Steady'
  <2>1. sess.use_passive /\ "ipv6" \in sess.net.families => Answered(r)
    BY <1>2, <1>8
  <2>2. QED
    BY <1>1, <1>5, <1>7, <1>9, <2>1 DEF ImplInv, Steady, SameSession
<1>12. NameOK'
  <2>1. CASE Answered(r)
    <3>1. srv'.cwd = r.srv.cwd
      BY <2>1 DEF Answered
    <3>2. QED
      BY <1>1, <1>4, <1>5, <1>7, <2>1, <3>1 DEF ImplInv, NameOK
  <2>2. CASE Lost(r)
    <3>1. srv'.cwd = Home
      BY <1>8, <2>2 DEF Login
    <3>2. QED
      BY <1>1, <1>9, <3>1 DEF ImplInv, NameOK, SameSession
  <2>3. QED
    BY <1>2, <2>1, <2>2
<1>13. ModeKnown'
  <2>1. TypeIsSet' = TypeIsSet /\ "none" \in Good
    BY <1>1 DEF TypeIsSet, Good
  <2>2. QED
    BY <1>1, <1>9, <2>1 DEF ImplInv, ModeKnown
<1>14. NoMixup'
  <2>1. Answered(r) /\ Len(stack) = 2 => ret' \in {"OK", "FILEBAD"}
    BY <1>5 DEF Answered, parse_reply
  <2>2. QED
    BY <1>1, <1>2, <1>8, <2>1 DEF NoMixup
<1>15. ConditionHolds'
  <2> SUFFICES ASSUME call.op = "put_cond", pc # "mdtm" PROVE tree'[call.path] # "other"
    BY <1>1 DEF ConditionHolds
  <2>1. tree[call.path] # "other"
    BY DEF ImplInv, ConditionHolds
  <2>2. r.tree = tree \/ r.tree = [tree EXCEPT ![Target] = "part"]
    BY <1>6 DEF Effect
  <2>3. QED
    BY <1>3, <1>6, <2>1, <2>2 DEF FileTree
<1>16. AnswerTrue'
  <2>1. CASE Answered(r) /\ r = Serve(Top.verb) /\ Len(stack) = 1
    BY <1>1, <2>1, AnswerHolds
  <2>2. CASE Answered(r) /\ r = Says(550)
    <3>1. ret' = "FILEBAD"
      BY <1>5, <2>2 DEF Answered, parse_reply
    <3>2. QED
      BY <3>1 DEF AnswerTrue
  <2>3. CASE Lost(r)
    BY <1>8, <2>3 DEF AnswerTrue
  <2>4. CASE Len(stack) # 1
    BY <1>1, <2>4 DEF AnswerTrue
  <2>5. QED
    BY <1>2, <2>1, <2>2, <2>3, <2>4
<1>17. Renaming'
  <2> SUFFICES ASSUME pc = "rnto"
               PROVE  srv'.rnfr = NoPath \/ (srv'.rnfr = call.path /\ Holds(call.path)')
    BY <1>1 DEF Renaming, Holds
  <2>1. srv.rnfr = NoPath \/ (srv.rnfr = call.path /\ Holds(call.path))
    BY DEF ImplInv, Renaming
  <2>2. CASE Lost(r)
    BY <1>8, <2>2 DEF Login
  <2>3. CASE Answered(r)
    <3>1. srv'.rnfr = r.srv.rnfr
      BY <2>3 DEF Answered
    <3>2. QED
      BY <1>1, <1>5, <1>6, <2>1, <3>1 DEF Holds
  <2>4. QED
    BY <1>2, <2>2, <2>3
<1>18. Transferring'
  <2>1. pc = "times" => Achieved'
    <3> SUFFICES ASSUME pc = "times" PROVE Achieved'
      OBVIOUS
    <3>1. Achieved /\ tree' = tree
      BY <1>5, <1>6 DEF ImplInv, Transferring
    <3>2. Strays(call, sess)' = Strays(call, sess)
      BY <1>1, <1>9 DEF Strays, SameSession
    <3>3. Achieved' = Achieved
      BY <1>1, <3>1, <3>2 DEF Achieved
    <3>4. QED
      BY <3>1, <3>3
  <2>2. QED
    BY <1>1, <1>4, <2>1 DEF Transferring
<1>19. QED
  BY <1>10, <1>11, <1>12, <1>13, <1>14, <1>15, <1>16, <1>17, <1>18 DEF ImplInv

\* Every step of a session keeps the invariant.
LEMMA ImplStep ==
  ASSUME EpsvUnbroken, UnreadNever, TypeInv, AgreeInv, ImplInv, [Next]_vars
  PROVE  ImplInv'
<1>1. CASE UNCHANGED vars
  <2>1. /\ OptionsKept' = OptionsKept /\ Steady' = Steady /\ NameOK' = NameOK
        /\ NoMixup' = NoMixup /\ ConditionHolds' = ConditionHolds /\ Renaming' = Renaming
    BY <1>1 DEF vars, clientVars, OptionsKept, Steady, NameOK, NoMixup, ConditionHolds, Renaming, Holds
  <2>2. TypeIsSet' = TypeIsSet /\ Top' = Top /\ Achieved' = Achieved /\ Strays(call, sess)' = Strays(call, sess)
    BY <1>1 DEF vars, clientVars, TypeIsSet, Top, Achieved, Strays
  <2>3. ModeKnown' = ModeKnown
    BY <1>1, <2>2 DEF vars, clientVars, ModeKnown
  <2>4. AnswerTrue' = AnswerTrue
    BY <1>1, <2>2 DEF vars, clientVars, AnswerTrue, Holds
  <2>5. Transferring' = Transferring
    BY <1>1, <2>2 DEF vars, clientVars, Transferring, Transferred
  <2>6. QED
    BY <2>1, <2>3, <2>4, <2>5 DEF ImplInv
<1>2. CASE ftp_finish \/ \E c \in Calls : Begin(c)
  BY <1>2, ImplEngine
<1>3. CASE Step
  <2>1. CASE ftp_open
    BY <2>1, ImplOpen
  <2>2. CASE RestoreMode
    BY <2>2, ImplRestore
  <2>3. CASE run_command
    BY <2>3, ImplRun
  <2>4. CASE execute
    BY <2>4, ImplExecute
  <2>5. CASE CommandDone \/ ftp_move \/ get_modtime
    BY <2>5, ImplCommand
  <2>6. CASE set_mode \/ fopen \/ maybe_chdir
    BY <2>6, ImplBeforeData
  <2>7. CASE ftp_data_open \/ dtp_open_passive \/ dtp_open_active
    BY <2>7, ImplData
  <2>8. CASE TransferBegun
    BY <2>8, ImplBegun
  <2>9. CASE send_file \/ receive_file
    BY <2>9, ImplBody
  <2>10. CASE dtp_close
    BY <2>10, ImplClose
  <2>11. CASE ftp_fetch_modtimes
    BY <2>11, ImplTimes
  <2>12. QED
    BY <1>3, <2>1, <2>2, <2>3, <2>4, <2>5, <2>6, <2>7, <2>8, <2>9, <2>10, <2>11 DEF Step
<1>4. QED
  BY <1>1, <1>2, <1>3 DEF Next

\* A new session knows nothing.
LEMMA ImplInit ==
  ASSUME Init
  PROVE  ImplInv
<1>1. PICK o \in Options, n \in Networks : sess = ftp_init(o, n)
  BY DEF Init
<1>2. /\ sess.use_cwd = o.use_cwd /\ sess.use_passive = o.use_passive /\ sess.family = "ipv4"
      /\ sess.connected = FALSE
  BY <1>1 DEF ftp_init
<1>3. srv.cwd = Home /\ call.op = "none" /\ pc = "new" /\ ~rel /\ stack = <<>> /\ Len(<<>>) = 0
  BY DEF Init, Login, NoCall
<1>4. OptionsKept
  BY <1>2, <1>3 DEF OptionsKept
<1>5. Steady /\ NameOK
  BY <1>2, <1>3 DEF Steady, NameOK
<1>6. ModeKnown /\ NoMixup /\ AnswerTrue
  BY <1>3 DEF ModeKnown, NoMixup, AnswerTrue
<1>7. ConditionHolds /\ Renaming /\ Transferring
  BY <1>3 DEF ConditionHolds, Renaming, Transferring
<1>8. QED
  BY <1>4, <1>5, <1>6, <1>7 DEF ImplInv

-----------------------------------------------------------------------------
(* Every step is one that the engine expects                               *)

\* What the engine may see of a step: one of DriverCall's, or nothing.
Allowed == D!Next \/ UNCHANGED D!vars

\* An operation that ends with an error has promised nothing.
LEMMA SimFinish ==
  ASSUME TypeInv, pc \notin {"new", "ready"}, NEW code \in D!Codes, Finish(code),
         UNCHANGED <<tree, local>>,
         code = "ok" => Achieved,
         code = "failed" /\ call.op = "put_cond" /\ Holds(call.path) =>
           D!TimeOf(tree[call.path]) # call.time
  PROVE  Allowed
<1>1. call \in Calls /\ call' = NoCall /\ result' = code
  BY InOperation DEF Finish
<1>2. D!Next
  BY <1>1, SimReturn
<1>3. QED
  BY <1>2 DEF Allowed

\* The codes that an operation may return.
LEMMA CodesAre ==
  /\ {"ok", "failed", "connect", "auth", "errors"} \subseteq D!Codes
  /\ \A c : f2s(c) \in D!Codes /\ (f2s(c) = "ok" => c = "OK") /\ (f2s(c) = "failed" => c = "FAILED")
BY DEF D!Codes, f2s

\* An operation that ends with SITE_ERRORS.
LEMMA SimErrors ==
  ASSUME TypeInv, pc \notin {"new", "ready"}, Finish("errors"), UNCHANGED <<tree, local>>
  PROVE  Allowed
<1>1. "errors" \in D!Codes
  BY CodesAre
<1>2. QED
  BY <1>1, SimFinish

\* An operation goes on at another position.
LEMMA SimGoto ==
  ASSUME NEW p, Goto(p), UNCHANGED <<tree, local>>, SameSession
  PROVE  Allowed
<1>1. UNCHANGED <<call, result>>
  BY DEF Goto
<1>2. UNCHANGED D!vars
  BY <1>1, SimStutter DEF SameSession
<1>3. QED
  BY <1>2 DEF Allowed

\* ftp_open and execute work on the connection alone.
LEMMA SimInside ==
  ASSUME TypeInv, ftp_open \/ RestoreMode \/ execute
  PROVE  Allowed
<1>1. UNCHANGED <<tree, local, call, result>>
  BY DEF ftp_open, RestoreMode, execute
<1>2. SameSession
  <2>1. CASE \E family : sess' = Connected(sess, family)
    BY <2>1, ConnectedFixed
  <2>2. CASE UNCHANGED sess \/ (\E x : sess' = [sess EXCEPT !.cwd = x]) \/ \E x : sess' = [sess EXCEPT !.mode = x]
    BY <2>2, SessionFixed
  <2>3. QED
    BY <2>1, <2>2 DEF ftp_open, RestoreMode, execute
<1>3. UNCHANGED D!vars
  BY <1>1, <1>2, SimStutter DEF SameSession
<1>4. QED
  BY <1>3 DEF Allowed

\* A command does what the operation is there for, or nothing; however often
\* it is sent.
LEMMA SimRun ==
  ASSUME TypeInv, AgreeInv, ImplInv, run_command
  PROVE  Allowed
<1>1. /\ stack # <<>> /\ Top.verb \in Verbs /\ UNCHANGED <<local, call, pc, result>>
  BY RunOutcome
<1>2. PICK r \in {Serve(Top.verb), Says(550)} : Answered(r) \/ Lost(r)
  BY RunOutcome
<1>3. tree' = r.tree /\ Effect(r.tree)
  BY <1>1, <1>2, ServeEffect DEF Answered, Lost
<1>4. SameSession
  <2>1. sess' = sess \/ Disconnect
    BY <1>2 DEF Answered, Lost
  <2>2. QED
    BY <2>1, DisconnectFixed DEF SameSession
<1>5. call \in Calls
  BY <1>1, OpenAt
<1>6. sess'.use_cwd = sess.use_cwd
  BY <1>4 DEF SameSession
<1>7. CASE tree' = tree
  BY <1>1, <1>6, <1>7, SimStutter DEF Allowed
<1>8. CASE /\ pc = "transfer" /\ call.op \in Uploads /\ Target \in Strays(call, sess)
           /\ tree' = [tree EXCEPT ![Target] = "part"]
  <2>1. ConditionHolds /\ "part" \in {"part", call.mode} /\ pc # "mdtm"
    BY <1>8 DEF ImplInv
  <2>2. D!Next
    BY <1>1, <1>5, <1>6, <1>8, <2>1, SimPut
  <2>3. QED
    BY <2>2 DEF Allowed
<1>9. CASE \/ /\ call.op = "delete" /\ Holds(call.path) /\ tree' = [tree EXCEPT ![call.path] = "none"]
           \/ /\ call.op = "rmdir" /\ tree[call.path] = "dir" /\ tree' = [tree EXCEPT ![call.path] = "none"]
           \/ /\ call.op = "mkdir" /\ tree[call.path] = "none" /\ tree' = [tree EXCEPT ![call.path] = "dir"]
           \/ /\ call.op = "move" /\ Holds(call.path)
              /\ tree' = [tree EXCEPT ![call.to] = tree[call.path], ![call.path] = "none"]
  <2>1. D!Next
    BY <1>1, <1>5, <1>6, <1>9, SimChange
  <2>2. QED
    BY <2>1 DEF Allowed
<1>10. QED
  BY <1>3, <1>7, <1>8, <1>9 DEF Effect

\* An operation of one or two commands ends.
LEMMA SimCommand ==
  ASSUME TypeInv, ImplInv, CommandDone \/ ftp_move \/ get_modtime
  PROVE  Allowed
<1>1. /\ UNCHANGED <<sess, tree, local>> /\ Len(stack) = 1 /\ pc \notin {"new", "ready"}
  BY DEF CommandDone, ftp_move, get_modtime, Returned
<1>2. SameSession
  BY <1>1 DEF SameSession
<1>3. call.op \in OpsAt(pc) /\ call.op \in Operations
  BY <1>1, InOperation, CallTyped
<1>4. CASE CommandDone
  <2>1. CASE pc \in {"command", "rnto"}
    <3>1. Finish(f2s(ret))
      BY <1>4, <2>1 DEF CommandDone, Returned
    <3>2. f2s(ret) = "ok" => Achieved
      BY <1>1, <2>1, CodesAre DEF ImplInv, AnswerTrue
    <3>3. call.op # "put_cond"
      BY <1>3, <2>1 DEF OpsAt
    <3>4. f2s(ret) \in D!Codes
      BY CodesAre
    <3>5. QED
      BY <1>1, <3>1, <3>2, <3>3, <3>4, SimFinish
  <2>2. CASE pc = "init"
    <3>1. Finish(IF f2s(ret) = "errors" THEN "failed" ELSE f2s(ret))
      BY <1>4, <2>2 DEF CommandDone, Returned
    <3>2. call.op = "init"
      BY <1>3, <2>2 DEF OpsAt
    <3>3. Achieved
      BY <3>2 DEF Achieved, Uploads, Downloads
    <3>4. (IF f2s(ret) = "errors" THEN "failed" ELSE f2s(ret)) \in D!Codes
      BY CodesAre
    <3>5. QED
      BY <1>1, <3>1, <3>2, <3>3, <3>4, SimFinish
  <2>3. QED
    BY <1>4, <2>1, <2>2 DEF CommandDone, Returned
<1>5. CASE ftp_move
  BY <1>1, <1>2, <1>5, SimGoto, SimErrors DEF ftp_move
<1>6. CASE get_modtime
  <2>1. pc = "mdtm" /\ Len(stack) = 1
    BY <1>6 DEF get_modtime, Returned
  <2>2. CASE ret = "MODTIME" /\ call.op = "modtime" /\ Finish("ok")
    <3>1. Achieved
      BY <2>2 DEF Achieved, Uploads, Downloads
    <3>2. "ok" \in D!Codes
      BY CodesAre
    <3>3. QED
      BY <1>1, <2>2, <3>1, <3>2, SimFinish
  <2>3. CASE ret = "MODTIME" /\ Top.time # call.time /\ Finish(f2s("FAILED"))
    <3>1. Top.time = D!TimeOf(tree[call.path])
      BY <2>1, <2>3 DEF ImplInv, AnswerTrue
    <3>2. f2s("FAILED") = "failed" /\ "failed" \in D!Codes
      BY CodesAre DEF f2s
    <3>3. QED
      BY <1>1, <2>3, <3>1, <3>2, SimFinish
  <2>4. QED
    BY <1>1, <1>2, <1>6, <2>2, <2>3, SimGoto, SimErrors DEF get_modtime
<1>7. QED
  BY <1>4, <1>5, <1>6

\* A transfer is prepared: only ftp_get changes anything, its own local file.
LEMMA SimPrepare ==
  ASSUME TypeInv, ImplInv,
         \/ set_mode \/ fopen \/ maybe_chdir
         \/ ftp_data_open \/ dtp_open_passive \/ dtp_open_active \/ TransferBegun
  PROVE  Allowed
<1>1. /\ pc \notin {"new", "ready"} /\ tree' = tree /\ (~fopen => local' = local)
  BY DEF set_mode, fopen, maybe_chdir, ftp_data_open, dtp_open_passive, dtp_open_active,
         TransferBegun, Skipped, At, Returned
<1>2. SameSession
  <2>1. \/ UNCHANGED sess \/ (\E x : sess' = [sess EXCEPT !.cwd = x])
        \/ (\E x : sess' = [sess EXCEPT !.mode = x]) \/ sess' = [sess EXCEPT !.rfc2428 = "ok"]
    BY DEF set_mode, fopen, maybe_chdir, ftp_data_open, dtp_open_passive, dtp_open_active, TransferBegun
  <2>2. QED
    BY <2>1, SessionFixed
<1>3. CASE set_mode
  <2>1. local' = local
    BY <1>3 DEF set_mode
  <2>2. QED
    BY <1>1, <1>2, <1>3, <2>1, SimGoto, SimErrors DEF set_mode
<1>4. CASE fopen
  <2>1. CASE call.op = "get" /\ local' = "part" /\ Goto("mode")
    <3>1. call \in Calls /\ UNCHANGED <<call, result>> /\ call.op \in Downloads
      BY <1>1, <2>1, InOperation DEF Goto, Downloads
    <3>2. sess'.use_cwd = sess.use_cwd /\ local' \in {"part", call.mode}
      BY <1>2, <2>1 DEF SameSession
    <3>3. D!Next
      BY <1>1, <3>1, <3>2, SimGet
    <3>4. QED
      BY <3>3 DEF Allowed
  <2>2. CASE local' = local /\ (Goto("chdir") \/ Finish("errors"))
    BY <1>1, <1>2, <2>2, SimGoto, SimErrors
  <2>3. QED
    BY <1>4, <2>1, <2>2 DEF fopen
<1>5. CASE maybe_chdir
  <2>1. local' = local
    BY <1>5 DEF maybe_chdir
  <2>2. CASE Finish(f2s(ret)) /\ ret # "OK"
    <3>1. ret # "FAILED"
      BY DEF TypeInv, StackOK, ReplyCodes, OpenCodes
    <3>2. f2s(ret) \in D!Codes /\ f2s(ret) # "ok" /\ f2s(ret) # "failed"
      BY <2>2, <3>1, CodesAre
    <3>3. QED
      BY <1>1, <2>1, <2>2, <3>2, SimFinish
  <2>3. QED
    BY <1>1, <1>2, <1>5, <2>1, <2>2, SimGoto DEF maybe_chdir
<1>6. CASE ftp_data_open \/ dtp_open_passive \/ dtp_open_active \/ TransferBegun
  <2>1. local' = local
    BY <1>6 DEF ftp_data_open, dtp_open_passive, dtp_open_active, TransferBegun
  <2>2. (\E p : Goto(p)) \/ Finish("errors")
    BY <1>6 DEF ftp_data_open, dtp_open_passive, dtp_open_active, TransferBegun
  <2>3. QED
    BY <1>1, <1>2, <2>1, <2>2, SimGoto, SimErrors
<1>7. QED
  BY <1>3, <1>4, <1>5, <1>6

\* The data of a transfer: they arrive as they were sent, or in part.
LEMMA SimBody ==
  ASSUME TypeInv, AgreeInv, ImplInv, send_file \/ receive_file
  PROVE  Allowed
<1>1. pc = "body" /\ UNCHANGED <<sess, call, result>>
  BY DEF send_file, receive_file, At
<1>2. call \in Calls /\ Arrived = call.mode
  BY <1>1, ArrivedRight
<1>3. CASE send_file
  <2>1. PICK code \in {226, 426, 552} : Sends(code)
    BY <1>3, SendCases
  <2>2. local' = local
    BY <1>3 DEF send_file
  <2>3. call.op \in Uploads /\ srv.xfer \in Strays(call, sess) /\ ConditionHolds /\ pc # "mdtm"
    BY <1>1, <2>1 DEF Sends, ImplInv, Transferring
  <2>4. CASE tree' = [tree EXCEPT ![srv.xfer] = call.mode]
    <3>1. sess'.use_cwd = sess.use_cwd /\ call.mode \in {"part", call.mode}
      BY <1>1
    <3>2. UNCHANGED <<local, call, result>>
      BY <1>1, <2>2
    <3>3. D!Next
      BY <1>2, <2>3, <2>4, <3>1, <3>2, SimPut, ZenonT(60)
    <3>4. QED
      BY <3>3 DEF Allowed
  <2>5. CASE tree' = tree
    BY <1>1, <2>2, <2>5, SimStutter DEF Allowed
  <2>6. srv.xfer # NoPath
    <3>1. call.path \in Paths /\ <<Home, call.path[2]>> \in Paths
      BY <1>2, CallTyped, FtpAssumption DEF Paths
    <3>2. srv.xfer \in Paths
      BY <2>3, <3>1 DEF Strays
    <3>3. PICK d \in Dirs, b \in Bases : srv.xfer = <<d, b>>
      BY <3>2 DEF Paths
    <3>4. <<d, b>> # <<>>
      OBVIOUS
    <3>5. QED
      BY <3>3, <3>4 DEF NoPath
  <2>7. QED
    BY <1>2, <2>1, <2>4, <2>5, <2>6 DEF Sends
<1>4. CASE receive_file
  <2>1. PICK code \in {226, 426, 552} : Receives(code)
    BY <1>4, ReceiveCases
  <2>2. call.op \in Downloads /\ tree' = tree /\ local' \in {"part", call.mode}
    BY <1>2, <2>1 DEF Receives
  <2>3. D!Next
    BY <1>1, <1>2, <2>2, SimGet
  <2>4. QED
    BY <2>3 DEF Allowed
<1>5. QED
  BY <1>3, <1>4

\* A transfer that ends with SITE_OK is complete.
LEMMA SimClose ==
  ASSUME TypeInv, ImplInv, dtp_close \/ ftp_fetch_modtimes
  PROVE  Allowed
<1>1. pc \in {"close", "times"} /\ UNCHANGED <<tree, local>>
  BY DEF dtp_close, ftp_fetch_modtimes, At, Skipped, Returned
<1>2. sess'.use_cwd = sess.use_cwd
  <2>1. UNCHANGED sess \/ Disconnect
    BY DEF dtp_close, ftp_fetch_modtimes
  <2>2. QED
    BY <2>1, DisconnectFixed DEF SameSession
<1>3. "ok" \in D!Codes
  BY CodesAre
<1>4. ASSUME Achieved, Finish("ok") PROVE Allowed
  BY <1>1, <1>3, <1>4, SimFinish
<1>5. ASSUME Finish("errors") PROVE Allowed
  BY <1>1, <1>5, SimErrors
<1>6. ASSUME UNCHANGED <<call, result>> PROVE Allowed
  BY <1>1, <1>2, <1>6, SimStutter DEF Allowed
<1>7. CASE dtp_close
  <2>1. pc = "close"
    BY <1>7 DEF dtp_close, At
  <2>2. \/ Transferred(parse_reply(Head(srv.unread).code)) /\ TransferDone
        \/ Finish("errors") \/ PutAgain
    BY <1>7 DEF dtp_close
  <2>3. CASE Transferred(parse_reply(Head(srv.unread).code)) /\ TransferDone
    <3>1. Achieved
      BY <2>1, <2>3 DEF ImplInv, Transferring
    <3>2. QED
      BY <1>4, <1>6, <2>3, <3>1 DEF TransferDone
  <2>4. CASE PutAgain
    BY <1>5, <1>6, <2>4 DEF PutAgain
  <2>5. QED
    BY <1>5, <2>2, <2>3, <2>4
<1>8. CASE ftp_fetch_modtimes
  <2>1. pc = "times"
    BY <1>8 DEF ftp_fetch_modtimes, Skipped, At, Returned
  <2>2. Achieved
    BY <2>1 DEF ImplInv, Transferring
  <2>3. QED
    BY <1>4, <1>5, <1>6, <1>8, <2>2 DEF ftp_fetch_modtimes
<1>9. QED
  BY <1>7, <1>8

\* Every step of a session is one of DriverCall, or nothing that the engine sees.
LEMMA SimStep ==
  ASSUME TypeInv, AgreeInv, ImplInv, [Next]_vars
  PROVE  Allowed
<1>1. CASE UNCHANGED vars
  BY <1>1, SimStutter DEF vars, clientVars, Allowed
<1>2. CASE ftp_finish
  <2>1. UNCHANGED <<tree, local, call, result>> /\ Disconnect
    BY <1>2 DEF ftp_finish
  <2>2. sess'.use_cwd = sess.use_cwd
    BY <2>1, DisconnectFixed DEF SameSession
  <2>3. QED
    BY <2>1, <2>2, SimStutter DEF Allowed
<1>3. ASSUME NEW c \in Calls, Begin(c) PROVE Allowed
  <2>1. sess'.use_cwd = sess.use_cwd
    BY <1>3 DEF Begin, ftp_init
  <2>2. D!Next
    BY <1>3, <2>1, SimBegin DEF Begin, ImplInv
  <2>3. QED
    BY <2>2 DEF Allowed
<1>4. CASE Step
  <2>1. CASE ftp_open \/ RestoreMode \/ execute
    BY <2>1, SimInside
  <2>2. CASE run_command
    BY <2>2, SimRun
  <2>3. CASE CommandDone \/ ftp_move \/ get_modtime
    BY <2>3, SimCommand
  <2>4. CASE \/ set_mode \/ fopen \/ maybe_chdir
             \/ ftp_data_open \/ dtp_open_passive \/ dtp_open_active \/ TransferBegun
    BY <2>4, SimPrepare
  <2>5. CASE send_file \/ receive_file
    BY <2>5, SimBody
  <2>6. CASE dtp_close \/ ftp_fetch_modtimes
    BY <2>6, SimClose
  <2>7. QED
    BY <1>4, <2>1, <2>2, <2>3, <2>4, <2>5, <2>6 DEF Step
<1>5. QED
  BY <1>1, <1>2, <1>3, <1>4 DEF Next

-----------------------------------------------------------------------------
(* The theorem                                                             *)

\* The FTP driver implements what the engine relies on: nothing but the file
\* of the call changes, in the transfer type asked for, and SITE_OK means that
\* it has, whatever connections break before or after a command was carried
\* out.  It does so on the networks whose data connections do not fail in
\* accept or close, and whose IPv6 connections do not break in passive mode.
THEOREM SessionImplements ==
  ASSUME UnreadNever, EpsvUnbroken
  PROVE  Spec => Implements
<1>1. Init => AgreeInv /\ ImplInv
  BY AgreeInit, ImplInit
<1>2. TypeInv /\ AgreeInv /\ ImplInv /\ [Next]_vars => AgreeInv' /\ ImplInv'
  BY AgreeStep, ImplStep
<1>3. Init => D!Init
  BY DEF Init, D!Init, D!NoCall, NoCall
<1>4. TypeInv /\ AgreeInv /\ ImplInv /\ [Next]_vars => [D!Next]_(D!vars)
  BY SimStep DEF Allowed
<1>5. QED
  BY <1>1, <1>2, <1>3, <1>4, TypeInvariant, PTL DEF Spec, Implements, D!Spec
=============================================================================
