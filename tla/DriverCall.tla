----------------------------- MODULE DriverCall -----------------------------
(***************************************************************************)
(* What the update engine may rely on when it calls an operation of a      *)
(* protocol driver (struct proto_driver of protocol.h): while the call     *)
(* lasts, only the file it names may change, in no way but the one asked   *)
(* for; SITE_OK means that the work is done, and SITE_FAILED of a          *)
(* conditional upload that the condition does not hold.  After an error    *)
(* nothing is promised: the work may be done, in part, or not at all.      *)
(***************************************************************************)
CONSTANT Calls    \* the calls that may be made

VARIABLES
  tree,      \* the server: what each path holds
  local,     \* what the download in execution has put into the local file
  request,   \* the call that is being made
  result     \* the SITE_* code of the last call, "none" during one

vars == <<tree, local, request, result>>

NoCall == [op |-> "none"]

\* "ascii" and "binary" are complete uploads, "old" is a file of an earlier
\* update, "other" one that somebody else has written.
Contents == {"old", "other", "part", "ascii", "binary"}

TimeOf(c) ==
  CASE c = "old" -> "then" [] c = "other" -> "another_time" [] OTHER -> "now"

Codes == {"ok", "failed", "connect", "auth", "errors"}

-----------------------------------------------------------------------------

Put ==
  /\ request.op \in {"put", "put_cond"}
  /\ \E p \in request.places, c \in {"part", request.mode} :
       /\ (request.op = "put_cond" /\ p = request.path) => tree[p] # "other"
       /\ tree' = [tree EXCEPT ![p] = c]
  /\ UNCHANGED local

Change ==
  /\ \/ /\ request.op = "delete" /\ tree[request.path] \in Contents
        /\ tree' = [tree EXCEPT ![request.path] = "none"]
     \/ /\ request.op = "rmdir" /\ tree[request.path] = "dir"
        /\ tree' = [tree EXCEPT ![request.path] = "none"]
     \/ /\ request.op = "mkdir" /\ tree[request.path] = "none"
        /\ tree' = [tree EXCEPT ![request.path] = "dir"]
     \/ /\ request.op = "move" /\ tree[request.path] \in Contents
        /\ tree' = [tree EXCEPT ![request.to] = tree[request.path], ![request.path] = "none"]
  /\ UNCHANGED local

Get ==
  /\ request.op \in {"get", "read", "fetch"}
  /\ local' \in {"part", request.mode}
  /\ UNCHANGED tree

\* What SITE_OK says.
Done ==
  CASE request.op \in {"put", "put_cond"} -> \E p \in request.places : tree[p] = request.mode
    [] request.op \in {"delete", "rmdir"} -> tree[request.path] = "none"
    [] request.op = "mkdir"               -> tree[request.path] = "dir"
    [] request.op = "move" -> tree[request.path] = "none" /\ tree[request.to] \in Contents
    [] request.op \in {"get", "read", "fetch"} -> local = request.mode
    [] OTHER -> TRUE

-----------------------------------------------------------------------------

Begin(r) ==
  /\ request = NoCall
  /\ request' = r
  /\ local' = "none" /\ result' = "none"
  /\ UNCHANGED tree

Work ==
  /\ Put \/ Change \/ Get
  /\ UNCHANGED <<request, result>>

Return(code) ==
  /\ request # NoCall
  /\ code = "ok" => Done
  /\ (code = "failed" /\ request.op = "put_cond" /\ tree[request.path] \in Contents) =>
       TimeOf(tree[request.path]) # request.time
  /\ request' = NoCall
  /\ result' = code
  /\ UNCHANGED <<tree, local>>

Init == request = NoCall /\ result = "none"

Next == Work \/ (\E r \in Calls : Begin(r)) \/ \E c \in Codes : Return(c)

Spec == Init /\ [][Next]_vars
=============================================================================
