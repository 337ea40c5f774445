----------------------------- MODULE FtpSession -----------------------------
(***************************************************************************)
(* The FTP driver: a session of ftp.c behind the operations of             *)
(* ftpdriver.c, with a control connection that may break at any command    *)
(* and is opened again by the next one.  The session remembers where the   *)
(* server is (sess->cwd) and in which transfer type (sess->mode), and a    *)
(* new connection has neither.                                             *)
(*                                                                         *)
(* The FTP server is not part of the program; it is modelled from the      *)
(* commands that ftp.c sends and the replies that parse_reply knows.       *)
(* `Networks' says what may go wrong, any number of times:                 *)
(*    "break"    the control connection is reset, closed or times out, or  *)
(*               the server ends it with a 421                             *)
(*    "error"    it fails in another way, or ends with a 421 after a       *)
(*               transfer                                                  *)
(*    "refuse"   the server refuses what it could have done                *)
(*    "connect"  a new connection is not accepted, greeted or logged in    *)
(*    "data"     the data connection cannot be opened, or breaks           *)
(*    "local"    a local file cannot be opened, rewound or written         *)
(*    "unread"   the data connection fails in accept or close, so that the *)
(*               last reply to the transfer is not read                    *)
(***************************************************************************)
EXTENDS Naturals, Sequences, FiniteSets

CONSTANTS
  Dirs,       \* the directories of the server
  Home,       \* the one in which a login starts
  Bases,      \* the names of files in a directory
  Options,    \* the possible values of use_passive and use_cwd
  Calls,      \* the calls of the driver that may be made
  Trees,      \* the trees that the server may have at first
  Networks,   \* the servers and networks to be met: address families and faults
  MaxUnread   \* bound on the replies that are left unread

VARIABLES
  sess,     \* struct ftp_session_s, and the network it meets: one of Networks
  srv,      \* the server's end of the control connection
  tree,     \* the files of the server
  local,    \* what the download in execution has put into the local file
  call,     \* the operation in execution
  pc,       \* where it is
  tries,    \* the variable tries of ftp_put
  rel,      \* has maybe_chdir made the remote name relative?
  sent,     \* did the data pass the data connection?
  todo,     \* how many files ftp_fetch_modtimes has still to ask for
  stack,    \* the calls of execute, the innermost last
  ret,      \* what the last one returned, "none" while one is running
  result    \* what the last operation returned, "none" during one

clientVars == <<call, pc, tries, rel, sent, todo, stack, ret, result>>
vars == <<sess, srv, tree, local, clientVars>>

Paths  == Dirs \X Bases
NoPath == <<>>

\* What an operation of the driver is called with.
Operations ==
  {"init", "delete", "mkdir", "rmdir", "chmod", "move", "modtime", "put", "put_cond",
   "get", "read", "fetch"}

\* The path to move to is another one, and the time that a conditional upload
\* compares with is that of the engine's own last upload.  A directory begins
\* with a slash (maybe_chdir uses no other), so that "x" is not one.
ASSUME FtpAssumption ==
  /\ Home \in Dirs /\ "x" \notin Dirs /\ IsFiniteSet(Dirs) /\ IsFiniteSet(Bases)
  /\ Options \subseteq [use_passive : BOOLEAN, use_cwd : BOOLEAN]
  /\ \A n \in Networks :
        /\ n.families # {} /\ n.families \subseteq {"ipv4", "ipv6"}
        /\ n.faults \subseteq {"break", "error", "refuse", "connect", "data", "local", "unread"}
  /\ Trees \subseteq [Paths -> {"none", "old", "other"}]
  /\ Calls \subseteq [op : Operations, path : Paths, to : Paths, mode : {"ascii", "binary"},
                      time : {"then"}, times : BOOLEAN]
  /\ \A c \in Calls : c.to # c.path

\* The set {x}, if the fault f may happen.
If(f, x) == IF f \in sess.net.faults THEN {x} ELSE {}

\* With `ftp usecwd', a file may also end up in the login directory.
Strays(c, o) == IF o.use_cwd THEN {c.path, <<Home, c.path[2]>>} ELSE {c.path}

Places(c) == [op |-> c.op, path |-> c.path, to |-> c.to, mode |-> c.mode,
              time |-> c.time, places |-> Strays(c, sess)]

D == INSTANCE DriverCall WITH
       Calls   <- {[op |-> c.op, path |-> c.path, to |-> c.to, mode |-> c.mode,
                    time |-> c.time, places |-> Strays(c, o)] : c \in Calls, o \in Options},
       request <- IF call = [op |-> "none"] THEN call ELSE Places(call)

NoCall == [op |-> "none"]

-----------------------------------------------------------------------------
(* The server                                                              *)

\* The server's end of a new connection.
Login == [cwd |-> Home, type |-> "ascii", data |-> FALSE, rnfr |-> NoPath,
          xfer |-> NoPath, unread |-> <<>>]

\* The remote name of the call, as the server understands it.
Target == IF rel THEN <<srv.cwd, call.path[2]>> ELSE call.path

Holds(p) == tree[p] \in D!Contents

\* What the server makes of a command: the code of its reply, its state, the tree.
Served(code, s, t) == [code |-> code, srv |-> s, tree |-> t]

\* A reply; a 213 carries a modification time.
Reply(code) ==
  [code |-> code,
   time |-> IF code = 213 /\ Holds(call.path) THEN D!TimeOf(tree[call.path]) ELSE "none"]

Says(code)   == Served(code, srv, tree)
Set(code, s)  == Served(code, s, tree)
Write(p, x)   == Served(250, srv, [tree EXCEPT ![p] = x])

Serve(verb) ==
  CASE verb \in {"TYPE_ascii", "TYPE_binary"} ->
         Set(200, [srv EXCEPT !.type = IF verb = "TYPE_ascii" THEN "ascii" ELSE "binary"])
    [] verb = "CWD"  -> Set(250, [srv EXCEPT !.cwd = call.path[1]])
    [] verb = "EPSV" -> Set(229, [srv EXCEPT !.data = TRUE])
    [] verb = "PASV" -> Set(227, [srv EXCEPT !.data = TRUE])
    [] verb = "PORT" -> Set(200, [srv EXCEPT !.data = TRUE])
    [] verb \in {"STOR", "RETR", "LIST"} /\ ~srv.data -> Says(425)
    [] verb = "STOR" /\ srv.data ->
         IF tree[Target] = "dir" THEN Set(550, [srv EXCEPT !.data = FALSE])
         ELSE Served(150, [srv EXCEPT !.data = FALSE, !.xfer = Target],
                     [tree EXCEPT ![Target] = "part"])
    [] verb = "RETR" /\ srv.data -> Set(IF Holds(call.path) THEN 150 ELSE 550, [srv EXCEPT !.data = FALSE])
    [] verb = "LIST" /\ srv.data -> Set(150, [srv EXCEPT !.data = FALSE])
    [] verb = "DELE" -> IF Holds(call.path) THEN Write(call.path, "none") ELSE Says(550)
    [] verb = "RMD"  -> IF tree[call.path] = "dir" THEN Write(call.path, "none") ELSE Says(550)
    [] verb = "MKD"  -> IF tree[call.path] = "none" THEN Write(call.path, "dir") ELSE Says(550)
    [] verb = "SITE_CHMOD" -> Says(IF tree[call.path] = "none" THEN 550 ELSE 200)
    [] verb = "RNFR" ->
         IF Holds(call.path) THEN Set(350, [srv EXCEPT !.rnfr = call.path]) ELSE Says(550)
    [] verb = "RNTO" ->
         IF srv.rnfr = NoPath \/ tree[call.to] = "dir" THEN Says(503)
         ELSE Served(250, [srv EXCEPT !.rnfr = NoPath],
                     [tree EXCEPT ![call.to] = tree[srv.rnfr], ![srv.rnfr] = "none"])
    [] verb = "MDTM" -> Says(IF todo # 0 \/ Holds(call.path) THEN 213 ELSE 550)

-----------------------------------------------------------------------------
(* Control connection                                                      *)

parse_reply(code) ==
  CASE code \in {200, 250} -> "OK"
    [] code = 226 -> "SENT"
    [] code = 150 -> "READY"
    [] code = 550 -> "FILEBAD"
    [] code = 350 -> "FILEMORE"
    [] code = 213 -> "MODTIME"
    [] code \in {227, 229} -> "PASSIVE"
    [] OTHER -> "ERROR"

f2s(code) ==
  CASE code = "OK" -> "ok"
    [] code = "CONNECT" -> "connect"
    [] code = "FAILED" -> "failed"
    [] code = "LOGIN" -> "auth"
    [] OTHER -> "errors"

Top == stack[Len(stack)]

\* A call of execute, with the time that sess->get_modtime has after it: the
\* caller is the only one to read it.
Frame(verb) == [verb |-> verb, tries |-> 0, phase |-> "open", time |-> "none"]

set_type(mode) == IF mode = "ascii" THEN "TYPE_ascii" ELSE "TYPE_binary"

\* ftp_open has returned FTP_OK to the frame that ends st.
Opened(st) ==
  IF st[Len(st)].verb = "OPEN"
  THEN stack' = st /\ ret' = "OK"
  ELSE stack' = [st EXCEPT ![Len(st)].phase = "run"] /\ UNCHANGED ret

\* Mutation: sess->cwd outlives its connection.
ConnectedInCwd(s, family) ==
  [s EXCEPT !.connected = TRUE, !.mode = "unknown", !.family = family]

\* Mutation: the mode is not set to unknown while it is being restored.
ConnectedInMode(s, family) ==
  [s EXCEPT !.connected = TRUE, !.cwd = "x", !.family = family]

\* What ftp_open knows of a new connection: nothing.
Connected(s, family) ==
  [s EXCEPT !.connected = TRUE, !.cwd = "x", !.mode = "unknown", !.family = family]

ftp_open ==
  /\ stack # <<>> /\ ret = "none" /\ Top.phase = "open"
  /\ \/ /\ sess.connected
        /\ Opened(stack)
        /\ UNCHANGED <<sess, srv>>
     \/ /\ ~sess.connected
        /\ \E code \in If("connect", "CONNECT") \cup If("connect", "HELLO") \cup If("connect", "LOGIN") :
             ret' = code
        /\ sess' = [sess EXCEPT !.cwd = "x"]
        /\ UNCHANGED <<srv, stack>>
     \/ /\ ~sess.connected
        /\ \E family \in sess.net.families : sess' = Connected(sess, family)
        /\ srv' = Login
        /\ IF sess.mode = "unknown" THEN Opened(stack)
           ELSE stack' = Append(stack, Frame(set_type(sess.mode))) /\ UNCHANGED ret
  /\ UNCHANGED <<tree, local, call, pc, tries, rel, sent, todo, result>>

\* set_mode, called by ftp_open, returns.
RestoreMode ==
  /\ Len(stack) > 1 /\ ret # "none"
  /\ IF ret = "OK"
     THEN /\ sess' = [sess EXCEPT !.mode = IF Top.verb = "TYPE_ascii" THEN "ascii" ELSE "binary"]
          /\ LET outer == SubSeq(stack, 1, Len(stack) - 1)
             IN  IF outer[Len(outer)].verb = "OPEN"
                 THEN stack' = outer /\ UNCHANGED ret
                 ELSE stack' = [outer EXCEPT ![Len(outer)].phase = "run"] /\ ret' = "none"
     ELSE /\ sess' = [sess EXCEPT !.mode = "unknown"]
          /\ stack' = SubSeq(stack, 1, Len(stack) - 1)
          /\ UNCHANGED ret
  /\ UNCHANGED <<srv, tree, local, call, pc, tries, rel, sent, todo, result>>

\* set_pisockerr, and the server's end of the connection.
Disconnect ==
  /\ sess' = [sess EXCEPT !.connected = FALSE]
  /\ srv' = Login

\* What becomes of a command: a reply, a refusal, or the loss of the
\* connection before or after the server has carried it out.
Fates ==
  {"answer"} \cup If("refuse", "refuse") \cup If("break", "break") \cup If("error", "error")

\* Mutation: the tries are not counted.
RetryForever ==
  /\ stack' = [stack EXCEPT ![Len(stack)].phase = "open"]
  /\ UNCHANGED ret

\* execute tries a command three times in all.
Retry ==
  IF Top.tries + 1 < 3
  THEN /\ stack' = [stack EXCEPT ![Len(stack)].tries = @ + 1, ![Len(stack)].phase = "open"]
       /\ UNCHANGED ret
  ELSE ret' = "ERROR" /\ UNCHANGED stack

run_command ==
  /\ stack # <<>> /\ ret = "none" /\ Top.phase = "run"
  /\ \E fate \in Fates, carried_out \in BOOLEAN :
       LET served  == IF carried_out THEN Serve(Top.verb) ELSE Says(550)
           replies == Append(served.srv.unread, Reply(served.code))
           code    == parse_reply(Head(replies).code)
       IN  /\ fate = "answer" => carried_out
           /\ fate = "refuse" => ~carried_out
           /\ tree' = served.tree
           /\ \/ /\ fate \in {"answer", "refuse"}
                 /\ srv' = [served.srv EXCEPT !.unread = Tail(replies)]
                 /\ ret' = code
                 /\ stack' = [stack EXCEPT ![Len(stack)].time = Head(replies).time]
                 /\ UNCHANGED sess
              \/ fate = "break" /\ Disconnect /\ Retry
              \/ fate = "error" /\ Disconnect /\ ret' = "ERROR" /\ UNCHANGED stack
  /\ UNCHANGED <<local, call, pc, tries, rel, sent, todo, result>>

-----------------------------------------------------------------------------
(* Operations: pc is the position in the code of the operation.  Positions *)
(* at which a command is due call execute, and go on when it has returned. *)

\* The command that an operation is there for.
OpVerb ==
  CASE call.op = "delete" -> "DELE"
    [] call.op = "mkdir" -> "MKD"
    [] call.op = "rmdir" -> "RMD"
    [] call.op = "chmod" -> "SITE_CHMOD"
    [] call.op \in {"put", "put_cond"} -> "STOR"
    [] call.op \in {"get", "read"} -> "RETR"
    [] call.op = "fetch" -> "LIST"

\* The command that a position sends.
Verb ==
  CASE pc \in {"command", "transfer"} -> OpVerb
    [] pc \in {"init", "listen"} -> "OPEN"
    [] pc = "rnfr" -> "RNFR"
    [] pc = "rnto" -> "RNTO"
    [] pc \in {"mdtm", "times"} -> "MDTM"
    [] pc = "mode" -> set_type(call.mode)
    [] pc = "chdir" -> "CWD"
    [] pc = "epsv" -> "EPSV"
    [] pc = "pasv" -> "PASV"
    [] pc = "port" -> "PORT"

\* Where the command is not sent: the type and the directory are right, the
\* name is relative, or the address family or an earlier EPSV rules it out.
Unneeded ==
  \/ pc = "mode" /\ sess.mode = call.mode
  \/ pc = "chdir" /\ (~sess.use_cwd \/ rel \/ sess.cwd = call.path[1])
  \/ pc = "epsv" /\ sess.family = "ipv4"
  \/ pc = "pasv" /\ sess.rfc2428 = "ok"
  \/ pc = "times" /\ todo = 0

Sending == {"init", "command", "rnfr", "rnto", "mdtm", "mode", "chdir", "epsv", "pasv",
            "listen", "port", "transfer", "times"}

\* The call of execute; maybe_chdir makes the name relative before it.
execute ==
  /\ pc \in Sending /\ stack = <<>> /\ ~Unneeded
  /\ stack' = <<Frame(Verb)>>
  /\ rel' = (rel \/ pc = "chdir")
  /\ UNCHANGED <<sess, srv, tree, local, call, pc, tries, sent, todo, ret, result>>

At(p) == pc = p /\ stack = <<>>

\* The command of position p has returned, or was not needed and counts as code.
Returned(p) ==
  /\ pc = p /\ Len(stack) = 1 /\ ret # "none"
  /\ stack' = <<>> /\ ret' = "none"

Skipped(p) == At(p) /\ Unneeded /\ UNCHANGED <<stack, ret>>

Goto(p) == pc' = p /\ UNCHANGED <<call, tries, sent, todo, result>>

Finish(code) ==
  /\ pc' = IF call.op = "init" /\ code # "ok" THEN "new" ELSE "ready"
  /\ call' = NoCall /\ result' = code
  /\ tries' = 0 /\ rel' = FALSE /\ sent' = FALSE /\ todo' = 0

\* ftp_data_open begins.
DataOpen == IF sess.use_passive THEN "epsv" ELSE "listen"

\* ftp_mkdir, ftp_delete, ftp_rmdir, ftp_chmod; the end of ftp_move; init, once
\* the name of the server has been looked up.
CommandDone ==
  \/ /\ Returned("command") \/ Returned("rnto")
     /\ Finish(f2s(ret))
     /\ UNCHANGED <<sess, srv, tree, local>>
  \/ /\ Returned("init")
     /\ Finish(IF f2s(ret) = "errors" THEN "failed" ELSE f2s(ret))
     /\ UNCHANGED <<sess, srv, tree, local>>

ftp_move ==
  /\ Returned("rnfr")
  /\ IF ret = "FILEMORE" THEN Goto("rnto") /\ UNCHANGED rel ELSE Finish("errors")
  /\ UNCHANGED <<sess, srv, tree, local>>

get_modtime ==
  /\ Returned("mdtm")
  /\ \/ ret # "MODTIME" /\ Finish("errors")
     \/ ret = "MODTIME" /\ call.op = "modtime" /\ Finish("ok")
     \/ /\ ret = "MODTIME" /\ call.op = "put_cond"
        /\ IF Top.time = call.time THEN Goto("mode") /\ UNCHANGED rel
           ELSE Finish(f2s("FAILED"))
  /\ UNCHANGED <<sess, srv, tree, local>>

\* ftp_put opens its file after set_mode, ftp_get before.
AfterMode == IF call.op \in {"put", "put_cond"} THEN "fopen" ELSE DataOpen

set_mode ==
  /\ \/ Skipped("mode") /\ Goto(AfterMode) /\ UNCHANGED <<sess, rel>>
     \/ /\ Returned("mode")
        /\ IF ret = "OK"
           THEN /\ sess' = [sess EXCEPT !.mode = call.mode]
                /\ Goto(AfterMode) /\ UNCHANGED rel
           ELSE /\ sess' = [sess EXCEPT !.mode = "unknown"]
                /\ Finish("errors")
  /\ UNCHANGED <<srv, tree, local>>

\* The local file; ftp_get truncates it.
fopen ==
  /\ At("fopen")
  /\ \/ /\ IF call.op = "get" THEN local' = "part" /\ Goto("mode")
           ELSE Goto("chdir") /\ UNCHANGED local
        /\ UNCHANGED rel
     \/ "local" \in sess.net.faults /\ Finish("errors") /\ UNCHANGED local
  /\ UNCHANGED <<sess, srv, tree, stack, ret>>

maybe_chdir ==
  /\ \/ /\ Skipped("chdir")
        /\ rel' = sess.use_cwd
        /\ Goto(DataOpen) /\ UNCHANGED sess
     \/ /\ Returned("chdir")
        /\ IF ret = "OK"
           THEN sess' = [sess EXCEPT !.cwd = call.path[1]] /\ Goto(DataOpen) /\ UNCHANGED rel
           ELSE Finish(f2s(ret)) /\ UNCHANGED sess
  /\ UNCHANGED <<srv, tree, local>>

-----------------------------------------------------------------------------
(* Data connection                                                         *)

\* EPSV over IPv6; PASV after it failed, unless one has ever succeeded.
ftp_data_open ==
  /\ \/ Skipped("epsv") /\ Goto("pasv") /\ UNCHANGED <<sess, rel>>
     \/ /\ Returned("epsv")
        /\ IF ret = "PASSIVE" THEN sess' = [sess EXCEPT !.rfc2428 = "ok"] /\ Goto("connect")
           ELSE Goto("pasv") /\ UNCHANGED sess
        /\ UNCHANGED rel
     \/ Skipped("pasv") /\ Finish("errors") /\ UNCHANGED sess
     \/ /\ Returned("pasv")
        /\ IF ret = "PASSIVE" THEN Goto("connect") /\ UNCHANGED rel ELSE Finish("errors")
        /\ UNCHANGED sess
  /\ UNCHANGED <<srv, tree, local>>

dtp_open_passive ==
  /\ At("connect")
  /\ \/ Goto("transfer") /\ UNCHANGED rel
     \/ "data" \in sess.net.faults /\ Finish("errors")
  /\ UNCHANGED <<sess, srv, tree, local, stack, ret>>

\* ftp_open and the listening socket, then PORT.
dtp_open_active ==
  /\ \/ /\ Returned("listen")
        /\ \/ ret = "OK" /\ Goto("port") /\ UNCHANGED rel
           \/ (ret # "OK" \/ "data" \in sess.net.faults) /\ Finish("errors")
     \/ /\ Returned("port")
        /\ IF ret = "OK" THEN Goto("transfer") /\ UNCHANGED rel ELSE Finish("errors")
  /\ UNCHANGED <<sess, srv, tree, local>>

\* A reply to the transfer that the client does not read.
LeaveUnread(code) ==
  srv' = [srv EXCEPT !.unread = Append(@, Reply(code)), !.xfer = NoPath]

\* The reply to STOR, RETR or LIST; active mode accepts the connection.
TransferBegun ==
  /\ Returned("transfer")
  /\ \E accepted \in {TRUE} \cup If("unread", FALSE) :
       /\ accepted \/ (ret = "READY" /\ ~sess.use_passive /\ Len(srv.unread) < MaxUnread)
       /\ IF ret = "READY" /\ accepted THEN Goto("body") /\ UNCHANGED rel ELSE Finish("errors")
       /\ IF accepted THEN UNCHANGED srv ELSE LeaveUnread(425)
  /\ UNCHANGED <<sess, tree, local>>

\* A file as it arrives: the line ends are only right in the right type.
Arrived == IF srv.type = call.mode \/ call.op = "fetch" THEN call.mode ELSE "garbled"

\* send_file_ascii, send_file_binary: all arrives, the server cannot store
\* it, or the data connection (or the reading of the file) fails.
send_file ==
  /\ At("body") /\ call.op \in {"put", "put_cond"}
  /\ \E code \in {226, 426, 552} :
       /\ code = 426 => "data" \in sess.net.faults
       /\ code = 552 => "refuse" \in sess.net.faults
       /\ srv' = [srv EXCEPT !.unread = Append(@, Reply(code)), !.xfer = NoPath]
       /\ \/ /\ code # 426 /\ sent' = TRUE
             /\ tree' = IF code = 226 /\ srv.xfer # NoPath THEN [tree EXCEPT ![srv.xfer] = Arrived]
                        ELSE tree
          \/ /\ code # 552 /\ "data" \in sess.net.faults /\ sent' = FALSE
             /\ UNCHANGED tree
  /\ pc' = "close"
  /\ UNCHANGED <<sess, local, call, tries, rel, todo, stack, ret, result>>

\* receive_file, and the loops of ftp_read_file and ftp_fetch.  An end of data
\* that comes too early is only known from the server's 426.
receive_file ==
  /\ At("body") /\ call.op \in {"get", "read", "fetch"}
  /\ \E code \in {226, 426} :
       /\ code = 426 => "data" \in sess.net.faults
       /\ srv' = [srv EXCEPT !.unread = Append(@, Reply(code))]
       /\ \/ code = 226 /\ sent' = TRUE /\ local' = Arrived
          \/ /\ {"data", "local"} \cap sess.net.faults # {} /\ sent' = (code = 426)
             /\ local' = "part"
  /\ pc' = "close"
  /\ UNCHANGED <<sess, tree, call, tries, rel, todo, stack, ret, result>>

\* After a transfer: ftp_fetch_modtimes asks for the times of the files.
TransferDone ==
  IF call.op = "fetch"
  THEN /\ pc' = "times"
       /\ todo' = IF call.times THEN Cardinality({p \in Paths : Holds(p)}) ELSE 0
       /\ UNCHANGED <<call, tries, rel, sent, result>>
  ELSE Finish("ok")

\* Mutation: ftp_put begins again after every lost connection.
PutForever ==
  IF call.op \in {"put", "put_cond"}
  THEN /\ tries' = tries + 1 /\ pc' = "chdir"
       /\ UNCHANGED <<call, rel, sent, todo, result>>
  ELSE Finish("errors")

\* ftp_put begins again, at most twice.
PutAgain ==
  \/ /\ call.op \in {"put", "put_cond"} /\ tries + 1 < 3
     /\ tries' = tries + 1 /\ pc' = "chdir"
     /\ UNCHANGED <<call, rel, sent, todo, result>>
  \/ /\ call.op \in {"put", "put_cond"} /\ tries + 1 < 3 => "local" \in sess.net.faults
     /\ Finish("errors")

\* Mutation: an error in sending or receiving is forgotten.
ReplyIsGood(code) == code \in {"OK", "SENT"}

\* The data have passed, and the server says so.
Transferred(code) == sent /\ code \in {"OK", "SENT"}

\* A failed close is an error at once, before the reply is read.
dtp_close ==
  /\ At("close")
  /\ \E fate \in {"read"} \cup ({"break", "error", "unread"} \cap sess.net.faults) :
       \/ /\ fate = "read"
          /\ IF Transferred(parse_reply(Head(srv.unread).code))
             THEN TransferDone ELSE Finish("errors")
          /\ srv' = [srv EXCEPT !.unread = Tail(@)]
          /\ UNCHANGED sess
       \/ fate = "break" /\ Disconnect /\ PutAgain
       \/ /\ fate \in {"error", "unread"}
          /\ fate = "unread" => Len(srv.unread) =< MaxUnread
          /\ Finish("errors")
          /\ IF fate = "error" THEN Disconnect ELSE UNCHANGED <<sess, srv>>
  /\ UNCHANGED <<tree, local, stack, ret>>

ftp_fetch_modtimes ==
  /\ \/ Skipped("times") /\ Finish("ok")
     \/ /\ Returned("times")
        /\ IF ret = "MODTIME"
           THEN todo' = todo - 1 /\ UNCHANGED <<call, pc, tries, rel, sent, result>>
           ELSE Finish("errors")
  /\ UNCHANGED <<sess, srv, tree, local>>

-----------------------------------------------------------------------------
(* The specification                                                       *)

ftp_init(o, n) ==
  [connected |-> FALSE, cwd |-> "x", mode |-> "unknown", rfc2428 |-> "unknown",
   family |-> "ipv4", use_passive |-> o.use_passive, use_cwd |-> o.use_cwd, net |-> n]

Start(op) ==
  CASE op \in {"delete", "mkdir", "rmdir", "chmod"} -> "command"
    [] op = "init" -> "init"
    [] op = "move" -> "rnfr"
    [] op \in {"modtime", "put_cond"} -> "mdtm"
    [] op \in {"put", "read"} -> "mode"
    [] op = "get" -> "fopen"
    [] op = "fetch" -> DataOpen

\* The engine calls the driver: init first, and again after it has failed.
Begin(c) ==
  /\ call = NoCall
  /\ (pc = "new") = (c.op = "init")
  /\ call' = c /\ pc' = Start(c.op)
  /\ sess' = IF c.op = "init" THEN ftp_init(sess, sess.net) ELSE sess
  /\ local' = "none" /\ result' = "none"
  /\ UNCHANGED <<srv, tree, tries, rel, sent, todo, stack, ret>>

\* ftp_finish: QUIT, whatever the server says to it.
ftp_finish ==
  /\ pc = "ready" /\ call = NoCall
  /\ pc' = "new"
  /\ Disconnect
  /\ UNCHANGED <<tree, local, call, tries, rel, sent, todo, stack, ret, result>>

Init ==
  /\ \E o \in Options, n \in Networks : sess = ftp_init(o, n)
  /\ srv = Login
  /\ tree \in Trees
  /\ local = "none"
  /\ call = NoCall /\ pc = "new" /\ tries = 0 /\ rel = FALSE /\ sent = FALSE /\ todo = 0
  /\ stack = <<>> /\ ret = "none" /\ result = "none"

\* The steps of the program while an operation is in execution.
Step ==
  \/ ftp_open \/ RestoreMode \/ run_command \/ execute
  \/ CommandDone \/ ftp_move \/ get_modtime \/ set_mode \/ fopen \/ maybe_chdir
  \/ ftp_data_open \/ dtp_open_passive \/ dtp_open_active \/ TransferBegun
  \/ send_file \/ receive_file \/ dtp_close \/ ftp_fetch_modtimes

Next == Step \/ ftp_finish \/ \E c \in Calls : Begin(c)

Spec == Init /\ [][Next]_vars

FairSpec == Spec /\ WF_vars(Step)

-----------------------------------------------------------------------------
(* Properties                                                              *)

Positions == {"new", "ready", "fopen", "connect", "body", "close"} \cup Sending

\* Types; execute and ftp_put have tried at most three times.
FtpTypeOK ==
  /\ sess \in [connected : BOOLEAN, cwd : Dirs \cup {"x"}, mode : {"unknown", "ascii", "binary"},
               rfc2428 : {"unknown", "ok"}, family : {"ipv4", "ipv6"},
               use_passive : BOOLEAN, use_cwd : BOOLEAN, net : Networks]
  /\ tree \in [Paths -> D!Contents \cup {"none", "dir", "garbled"}]
  /\ call \in Calls \cup {NoCall} /\ pc \in Positions
  /\ tries \in 0..2 /\ rel \in BOOLEAN /\ sent \in BOOLEAN /\ todo \in 0..Cardinality(Paths)
  /\ \A i \in DOMAIN stack : stack[i].tries \in 0..2 /\ stack[i].phase \in {"open", "run"}

\* What the session remembers of the server (sess->cwd, sess->mode) is what
\* this connection has: the directory and the type of an earlier connection
\* are never taken for those of the new one.  While set_mode or maybe_chdir is
\* changing it, the session lags behind.
SessionAgrees ==
  sess.connected /\ pc \notin {"mode", "chdir"} =>
    /\ sess.cwd # "x" => srv.cwd = sess.cwd
    /\ sess.mode # "unknown" => srv.type = sess.mode

\* ftp_open calls set_mode, which calls execute, which calls ftp_open: however
\* often the connection breaks, this goes no deeper than one level.
OpenRecursesOnce == Len(stack) =< 2

\* The driver implements what the engine relies on: nothing but the file of the
\* call changes, in the right transfer type, and SITE_OK means that it has, with
\* connections that break before and after a command was carried out, commands
\* that are sent again, and uploads that start again.
Implements == D!Spec

\* Every call returns, although any connection may break.
Returns == call # NoCall ~> call = NoCall

\* An upload that returns SITE_OK has put the file where it was meant to go:
\* ftp_open invalidates sess->cwd so that a CWD is sent when one is needed.
UploadGoesWhereMeant ==
  [][call # NoCall /\ call' = NoCall /\ result' = "ok" /\ call.op \in {"put", "put_cond"}
       => tree'[call.path] = call.mode]_vars
=============================================================================
