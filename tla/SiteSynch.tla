------------------------------ MODULE SiteSynch ------------------------------
(***************************************************************************)
(* site_synch of sites.c: the three loops that make the local files what   *)
(* the stored state says, one system call or download at a time.  Any of   *)
(* them may fail, and the server may change in between.                    *)
(***************************************************************************)
EXTENDS LocalDisk

VARIABLES
  loop,   \* the loop in execution, "none" outside site_synch
  next    \* the first entry that the loop has not visited

synchVars == <<loop, next>>

Loops == {"directories", "files", "delete_directories"}

DirMode == 493   \* the mode 0755 of mkdir, and of the directories of the umask

-----------------------------------------------------------------------------
(* The local system calls: whether the call succeeds, and the disk after it *)

Done(d)  == [ok |-> TRUE, disk |-> d, fault |-> 0]
Refused  == [ok |-> FALSE, disk |-> disk, fault |-> 1]
Impossible == [ok |-> FALSE, disk |-> disk, fault |-> 0]

\* A call that is possible may still be refused, for want of a permission.
Call(possible, d) == IF possible THEN {Done(d), Refused} ELSE {Impossible}

mkdir(n) ==
  Call(DiskType(n) = "none" /\ HasDirectory(n),
       [disk EXCEPT ![n] = [type |-> "dir", bytes |-> NoData, time |-> Now, mode |-> DirMode]])

unlink(n) == Call(DiskType(n) = "file", [disk EXCEPT ![n] = Absent])

rmdir(n) == Call(DiskType(n) = "dir" /\ IsEmptyLocally(n), [disk EXCEPT ![n] = Absent])

rename(from, to) ==
  Call(DiskType(from) = "file" /\ DiskType(to) # "dir" /\ HasDirectory(to),
       [n \in Names |-> IF n = to THEN disk[from] ELSE IF n = from THEN Absent ELSE disk[n]])

chmod(n, mode) ==
  Call(disk[n] # Absent, [disk EXCEPT ![n].mode = mode])

-----------------------------------------------------------------------------
(* file_download, utime and chmod                                          *)

\* A file as fopen or open leaves it, and the download writes it.
Written(n, bytes) ==
  [disk EXCEPT ![n] =
     [type |-> "file", bytes |-> bytes, time |-> Now,
      mode |-> IF disk[n] = Absent THEN DefaultMode ELSE disk[n].mode]]

\* The local file is opened, and truncated, before the server is asked for
\* anything.  The rsh driver does not do it (SITE_UNSUPPORTED).
file_download(n) ==
  LET place    == <<RemoteName[n], "real">>
      openable == DiskType(n) # "dir" /\ HasDirectory(n)
  IN  CASE opt.protocol = "rsh" \/ ~openable -> {Impossible}
        [] opt.protocol # "rsh" /\ openable /\ TypeAt(server, place) # "file" ->
             {[ok |-> FALSE, disk |-> Written(n, Part), fault |-> 0], Refused}
        [] OTHER -> {Done(Written(n, server[place].content)), Refused,
                     [ok |-> FALSE, disk |-> Written(n, Part), fault |-> 1]}

\* The modification time is set to that of the stored state, and the mode, when
\* it may differ: each may fail, which is reported and nothing more.
Touched(d, f) ==
  IF timesize THEN {[disk |-> [d EXCEPT ![Stored(f).filename].time = Stored(f).content[1]], fault |-> 0],
                    [disk |-> d, fault |-> 1]}
  ELSE {[disk |-> d, fault |-> 0]}

Chmodded(d, f) ==
  IF file_perms_changed(f, site)
  THEN {[disk |-> [d EXCEPT ![Stored(f).filename].mode = Stored(f).mode], fault |-> 0],
        [disk |-> d, fault |-> 1]}
  ELSE {[disk |-> d, fault |-> 0]}

-----------------------------------------------------------------------------
(* The loops                                                               *)

\* The entries that a loop works on; the others are skipped.
handles(l, f) ==
  CASE l = "directories"        -> f.type = "dir" /\ f.diff = "deleted"
    [] l = "files"              -> f.type = "file" /\ f.diff # "unchanged"
    [] l = "delete_directories" -> f.type = "dir" /\ f.diff = "new"

\* synch_delete_directories goes backwards.
current ==
  LET rest == {i \in DOMAIN files :
                 /\ handles(loop, files[i])
                 /\ IF loop = "delete_directories" THEN i =< next ELSE i >= next}
  IN  IF rest = {} THEN 0 ELSE IF loop = "delete_directories" THEN Max(rest) ELSE Min(rest)

Advance(i) == next' = (IF loop = "delete_directories" THEN i - 1 ELSE i + 1) /\ UNCHANGED loop

\* A call is answered.
Answered(a) ==
  /\ disk' = a.disk
  /\ faults' = faults + a.fault /\ faults' =< MaxFaults

\* Mutation: the error is forgotten.
FailedQuietly == UNCHANGED ret

Failed == ret' = 1

\* Mutation: the ignored files are forgotten.
need_conn_unignored == site.num["changed"] + site.num["deleted"] > 0

need_conn == site.num["changed"] + site.num["deleted"] + site.num["ignored"] > 0

\* proto_init, when a connection is needed.
StartSynch ==
  /\ loop = "none" /\ session = "none"
  /\ \/ /\ loop' = "directories" /\ next' = 1 /\ ret' = 0
        /\ session' = IF need_conn THEN "open" ELSE "none"
        /\ UNCHANGED faults
     \/ /\ need_conn
        /\ ret' = 1 /\ faults' = faults + 1 /\ faults' =< MaxFaults
        /\ UNCHANGED <<loop, next, session>>
  /\ UNCHANGED <<site, disk, server>>

\* file_downloaded is called when mkdir fails, and only then.
synch_create_directories ==
  /\ loop = "directories" /\ current # 0
  /\ LET i == current
     IN  \E a \in mkdir(Stored(files[i]).filename) :
           /\ Answered(a)
           /\ \/ a.ok /\ UNCHANGED <<site, ret>>
              \/ ~a.ok /\ Failed /\ site' = file_downloaded(site, i)
           /\ Advance(i)
  /\ UNCHANGED <<server, session>>

\* The entry is that of a file of which only the mode has changed.
OnlyMode(f) == f.diff = "changed" /\ ~file_contents_changed(f)

synch_chmod ==
  /\ loop = "files" /\ current # 0
  /\ OnlyMode(files[current])
  /\ \E a \in chmod(Stored(files[current]).filename, Stored(files[current]).mode) : Answered(a)
  /\ Advance(current)
  /\ UNCHANGED <<site, server, session, ret>>

Downloads(f) == f.type = "file" /\ f.diff \in {"changed", "deleted"} /\ ~OnlyMode(f)

synch_download ==
  /\ loop = "files" /\ current # 0
  /\ LET i == current
         f == files[i]
     IN  /\ Downloads(f)
         /\ \E a \in file_download(Stored(f).filename) :
              \/ /\ ~a.ok /\ Answered(a) /\ Failed /\ UNCHANGED site
              \/ /\ a.ok
                 /\ \E t \in Touched(a.disk, f) : \E c \in Chmodded(t.disk, f) :
                      /\ disk' = c.disk
                      /\ faults' = faults + t.fault + c.fault /\ faults' =< MaxFaults
                 /\ site' = file_downloaded(site, i) /\ UNCHANGED ret
         /\ Advance(i)
  /\ UNCHANGED <<server, session>>

\* The entry of a file that is removed or renamed stays as it is.
synch_unlink ==
  /\ loop = "files" /\ current # 0
  /\ files[current].diff = "new"
  /\ \E a \in unlink(Local(files[current]).filename) :
       Answered(a) /\ (IF a.ok THEN UNCHANGED ret ELSE Failed)
  /\ Advance(current)
  /\ UNCHANGED <<site, server, session>>

synch_rename ==
  /\ loop = "files" /\ current # 0
  /\ files[current].diff = "moved"
  /\ \E a \in rename(Local(files[current]).filename, Stored(files[current]).filename) :
       Answered(a) /\ (IF a.ok THEN UNCHANGED ret ELSE Failed)
  /\ Advance(current)
  /\ UNCHANGED <<site, server, session>>

synch_delete_directories ==
  /\ loop = "delete_directories" /\ current # 0
  /\ LET i == current
     IN  \E a \in rmdir(Local(files[i]).filename) :
           /\ Answered(a)
           /\ \/ a.ok /\ site' = file_delete(site, i) /\ UNCHANGED ret
              \/ ~a.ok /\ Failed /\ UNCHANGED site
           /\ Advance(i)
  /\ UNCHANGED <<server, session>>

LoopAfter(l) ==
  CASE l = "directories" -> "files"
    [] l = "files"       -> "delete_directories"
    [] OTHER             -> "none"

\* Each loop sets ret anew: with keep_going, what failed before is forgotten.
EndLoop ==
  /\ loop # "none" /\ current = 0
  /\ LET l == IF ret = 0 \/ opt.keep_going THEN LoopAfter(loop) ELSE "none"
     IN  /\ loop' = l
         /\ next' = IF l = "delete_directories" THEN Len(files) ELSE 1
         /\ ret' = IF l = "none" THEN ret ELSE 0
         /\ session' = IF l = "none" THEN "none" ELSE session
  /\ UNCHANGED <<site, disk, server, faults>>

SynchStep ==
  \/ synch_create_directories
  \/ synch_chmod \/ synch_download \/ synch_unlink \/ synch_rename
  \/ synch_delete_directories \/ EndLoop
=============================================================================
