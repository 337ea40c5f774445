----------------------------- MODULE LocalDisk -----------------------------
(***************************************************************************)
(* The local files as the file system has them, and the state that the     *)
(* modules of the fetch and of the synchronize share.  Here the content of *)
(* a file is its bytes; file_state.time and the checksum are computed from *)
(* it, as `state checksum' or `state timesize' of the rcfile wants them.   *)
(* Symbolic links are left out: the default `symlinks follow' makes files  *)
(* and directories of them.                                                *)
(***************************************************************************)
EXTENDS Server, Storage

CONSTANTS
  Bytes,      \* what the files hold
  ByteSize,   \* their sizes
  Part,       \* what a download leaves that breaks
  NoSum,      \* a checksum that was not computed: 16 zero bytes
  Times,      \* the modification times of files on the local disk
  Now,        \* the time of a run of the program, as time(NULL) gives it
  Excluded,   \* the names that match an `exclude' pattern
  Orders,     \* the orders in which readdir may return the files
  MaxFaults   \* bound on the number of faults

VARIABLES
  site,     \* the file list
  disk,     \* the local files
  server,   \* the tree on the server
  faults,   \* the number of faults met so far
  session,  \* the session of the driver: "none" or "open"
  ret       \* what the function in execution returns: 0, or 1 after an error

copyVars == <<site, disk, server, faults, session, ret>>

ASSUME CopyAssumption ==
  /\ Bytes \subseteq Contents /\ Part \in Bytes
  /\ NoSum \in Contents \ Bytes
  /\ ByteSize \in [Bytes -> Nat]
  /\ Times \subseteq Nat /\ Now \in Times
  /\ \A t \in Times, b \in Bytes : <<t, ByteSize[b]>> \in Contents
  /\ Excluded \subseteq Names
  /\ \A o \in Orders : o \in Seq(Names) /\ ToSet(o) = Names /\ IsInjective(o)
  /\ MaxFaults \in Nat
  /\ \A o \in Options :
       /\ o.checksum \in BOOLEAN /\ o.safemode \in BOOLEAN /\ o.keep_going \in BOOLEAN
       /\ o.protocol \in {"ftp", "dav", "rsh"}
       /\ o.safemode => o.protocol # "rsh"
       /\ o.protocol = "dav" => o.perms # "all" /\ ~o.dirperms   \* rcfile_verify

files == site.files
opt   == site.opt

\* site->state_method is state_timesize.
timesize == ~opt.checksum

DiskFile ==
  [type : {"file"}, bytes : Bytes, time : Times, mode : Modes]
    \cup [type : {"dir"}, bytes : {NoData}, time : Times, mode : Modes]

ASSUME DiskAssumption == Absent \notin DiskFile

Disk == [Names -> DiskFile \cup {Absent}]

-----------------------------------------------------------------------------
(* The directory structure                                                 *)

\* What is at a name: "none", "file" or "dir".
DiskType(n) ==
  CASE n = Root -> "dir"
    [] n # Root /\ disk[n] = Absent -> "none"
    [] OTHER -> disk[n].type

HasDirectory(n) == DiskType(Parent[n]) = "dir"

IsEmptyLocally(n) == \A m \in Names : Parent[m] = n => disk[m] = Absent

\* The elements of a sequence that are in a set.
OnlyIn(q, S) == FoldLeft(LAMBDA kept, x : IF x \in S THEN Append(kept, x) ELSE kept, << >>, q)

\* The entries of a directory in the order of readdir.
In_directory(dir, order) == OnlyIn(order, {n \in Names : Parent[n] = dir /\ disk[n] # Absent})

-----------------------------------------------------------------------------
(* site_read_local_state                                                   *)

local_state(n) ==
  [filename |-> n, mode |-> disk[n].mode,
   content  |-> CASE disk[n].type = "dir" -> NoData
                  [] disk[n].type = "file" /\ timesize -> <<disk[n].time, ByteSize[disk[n].bytes]>>
                  [] OTHER -> disk[n].bytes]

\* One directory, the one on the top of the stack: its entries are found, but
\* for those that are hidden, and the directories among them are pushed.
read_directory(r, order, hidden) ==
  IF r.stack = << >> THEN r
  ELSE LET kids == OnlyIn(In_directory(Last(r.stack), order), Names \ hidden)
       IN  [stack |-> Front(r.stack) \o OnlyIn(kids, {n \in Names : DiskType(n) = "dir"}),
            names |-> r.names \o kids]

\* The loop over the stack.  It ends when the stack is empty, and there are not
\* more directories than names besides the root.
read_directories(order, hidden) ==
  LET turn[k \in 0 .. Len(order) + 1] ==
        IF k = 0 THEN [stack |-> <<Root>>, names |-> << >>]
        ELSE read_directory(turn[k - 1], order, hidden)
  IN  turn[Len(order) + 1]

\* Mutation: what is excluded is read nevertheless.
scan_everything(order) == read_directories(order, {}).names

\* The names in the order in which they are found.  What is excluded is not
\* added, nor visited.
scan(order) == read_directories(order, Excluded).names

site_read_local_state(s, order) ==
  FoldLeft(LAMBDA t, n : file_set_local(t, disk[n].type, local_state(n)), s, scan(order))
=============================================================================
