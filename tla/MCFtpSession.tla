---------------------------- MODULE MCFtpSession ----------------------------
(* A server with a login directory and one below it, and one name of a file. *)
EXTENDS FtpSession

CONSTANTS home, sub, b

Sub == <<sub, b>>
Top_b == <<home, b>>

C(op, path, to, mode, time, times) ==
  [op |-> op, path |-> path, to |-> to, mode |-> mode, time |-> time, times |-> times]

SessionCall == C("init", Sub, Top_b, "binary", "then", FALSE)

UploadCalls ==
  {SessionCall, C("put", Sub, Top_b, "ascii", "then", FALSE),
   C("put_cond", Sub, Top_b, "binary", "then", FALSE)}

AllCalls ==
  UploadCalls
    \cup {C(op, Sub, Top_b, "binary", "then", FALSE) :
            op \in {"delete", "mkdir", "rmdir", "chmod", "move", "modtime", "read"}}
    \cup {C("get", Sub, Top_b, "ascii", "then", FALSE), C("fetch", Sub, Top_b, "binary", "then", TRUE)}

OneFile == {t \in [Paths -> {"none", "old", "other"}] : t[Sub] # "none" /\ t[Top_b] = "none"}

AllOptions == {[use_passive |-> FALSE, use_cwd |-> FALSE], [use_passive |-> TRUE, use_cwd |-> TRUE]}
\* Over IPv4 all can go wrong; over IPv6 the connection does not break.
PlainFaults == {"refuse", "connect", "data", "local"}
SomeNetworks ==
  {[families |-> {"ipv4"}, faults |-> PlainFaults \cup {"break", "error"}],
   [families |-> {"ipv4", "ipv6"}, faults |-> PlainFaults]}

CwdOptions == [use_passive : BOOLEAN, use_cwd : {TRUE}]
Breaking   == {[families |-> {"ipv4"}, faults |-> {"break"}]}
=============================================================================
