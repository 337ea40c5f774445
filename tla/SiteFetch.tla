------------------------------ MODULE SiteFetch ------------------------------
(***************************************************************************)
(* site_fetch of sites.c: the directories of the server are listed one by  *)
(* one from a stack of limited size, the times and checksums of their files *)
(* are asked for one by one, and at the end the stored state of the site   *)
(* is replaced.  Also site_verify, which compares one listing with the     *)
(* stored state.  The server may change between any two of these calls.    *)
(***************************************************************************)
EXTENDS LocalDisk, LsParser

CONSTANTS
  DirStackSize,   \* DIRSTACKSIZE
  ListNoise       \* lines that the server may send before the entries

ASSUME FetchAssumption ==
  /\ DirStackSize \in Nat \ {0}
  /\ Modes = 0 .. 511   \* st_mode & 0777
  /\ ListNoise \subseteq Seq(OtherLine)

VARIABLES
  dirstack,   \* the directories that have yet to be listed
  found,      \* the list of proto_files
  due         \* what is yet to be asked about the files of the last listing

fetchVars == <<dirstack, found, due>>

\* A proto_file.
ProtoFile ==
  [name : Names, type : {"file", "dir"}, mode : Modes, size : Nat, time : Nat,
   sum  : Bytes \cup {NoSum}]

need_modtimes == opt.safemode \/ timesize

-----------------------------------------------------------------------------
(* fetch_list                                                              *)

\* The files of a directory on the server.
Children(dir) == {n \in Names : Parent[n] = dir /\ server[<<n, "real">>] # Absent}

entry_line(n) ==
  LET f == server[<<n, "real">>]
  IN  IF f.type = "dir" THEN EntryLine("d", f.mode, 0, n)
      ELSE EntryLine("-", f.mode, ByteSize[f.content], n)

\* What `ls -la' prints.
listing(dir, order, noise) ==
  LET here == OnlyIn(order, Children(dir))
  IN  noise \o <<EntryLine("d", DefaultMode, 0, Here), EntryLine("d", DefaultMode, 0, HereUp)>>
            \o [k \in DOMAIN here |-> entry_line(here[k])]

\* The times and checksums of a listing are zero.
proto_file(parsed) ==
  [name |-> parsed.file.name, mode |-> parsed.file.mode, size |-> parsed.file.size,
   type |-> IF parsed.result = "directory" THEN "dir" ELSE "file",
   time |-> 0, sum |-> NoSum]

\* The output of ls, as the drivers parse it.
ls_list(dir, order, noise) ==
  LET lines == listing(dir, order, noise)
      read  == IF opt.protocol = "ftp" THEN ftp_fetch(lines) ELSE rsh_fetch(lines)
  IN  [failed |-> read.failed, fault |-> IF read.failed THEN 1 ELSE 0,
       list   |-> [k \in DOMAIN read.list |-> proto_file(read.list[k])]]

\* pfind_results of the WebDAV driver: the resources in the order of the answer.
\* A file of which the server does not tell the size or the time is left out
\* with a warning; the mode is made up from the property `executable'.
pfind_list(dir, order, untold) ==
  LET here == OnlyIn(order, Children(dir) \ untold)
      file(n) ==
        LET f == server[<<n, "real">>]
        IN  IF f.type = "dir"
            THEN [name |-> n, type |-> "dir", mode |-> 0, size |-> 0, time |-> 0, sum |-> NoSum]
            ELSE [name |-> n, type |-> "file", size |-> ByteSize[f.content], time |-> f.time,
                  mode |-> IF f.mode \in ExecModes THEN 493 ELSE 420, sum |-> NoSum]
  IN  [failed |-> FALSE, fault |-> Cardinality(untold), list |-> [k \in DOMAIN here |-> file(here[k])]]

\* A call that lists a directory may be refused, lose its connection, or have
\* an answer that cannot be parsed.
fetch_list(dir) ==
  {[failed |-> TRUE, list |-> << >>, fault |-> 1]}
    \cup IF opt.protocol = "dav"
         THEN {pfind_list(dir, order, untold) :
                 order \in Orders, untold \in {{}} \cup {{n} : n \in {m \in Children(dir) :
                                            TypeAt(server, <<m, "real">>) = "file"}}}
         ELSE {ls_list(dir, order, noise) : order \in Orders, noise \in ListNoise}

-----------------------------------------------------------------------------
(* The loop of site_fetch                                                  *)

\* proto_init.
StartFetch ==
  /\ session = "none"
  /\ \/ session' = "open" /\ ret' = 0 /\ dirstack' = <<Root>> /\ UNCHANGED faults
     \/ session' = "none" /\ ret' = 1 /\ dirstack' = << >>
        /\ faults' = faults + 1 /\ faults' =< MaxFaults
  /\ found' = << >> /\ due' = << >>
  /\ UNCHANGED <<site, disk, server>>

pushed(stack, f) ==
  IF f.name \notin Excluded /\ f.type = "dir" /\ Len(stack) < DirStackSize
  THEN Append(stack, f.name) ELSE stack

\* The new files are put before the ones that were found earlier.
joined(newfiles, old) == newfiles \o old

Request == [about : {"time", "sum"}, at : Nat \ {0}]

\* The requests for the files at some positions of the list.
asked(what, list, positions) ==
  LET here == OnlyIn([k \in DOMAIN list |-> k], positions)
  IN  [i \in DOMAIN here |-> [about |-> what, at |-> here[i]]]

\* After the listing the FTP driver asks for the time of every file, by
\* ftp_fetch_modtimes, and then site_fetch for the checksums of those that are
\* not excluded; rsh does not ask for times, and DAV has them already.
requests(list) ==
  LET regular == {k \in DOMAIN list : list[k].type = "file"}
  IN  asked("time", list, IF opt.protocol = "ftp" /\ need_modtimes THEN regular ELSE {})
        \o asked("sum", list, IF opt.checksum
                              THEN {k \in regular : list[k].name \notin Excluded} ELSE {})

ListDirectory ==
  /\ session = "open" /\ due = << >> /\ dirstack # << >> /\ ret = 0
  /\ \E l \in fetch_list(Last(dirstack)) :
       /\ faults' = faults + l.fault /\ faults' =< MaxFaults
       /\ IF l.failed
          THEN ret' = 1 /\ UNCHANGED fetchVars
          ELSE /\ dirstack' = FoldLeft(pushed, Front(dirstack), l.list)
               /\ found' = joined(l.list, found)
               /\ due' = requests(l.list)
               /\ UNCHANGED ret
  /\ UNCHANGED <<site, disk, server, session>>

\* MDTM or fetch_checksum_file: the server tells the time or the content of what
\* is there by now.
told(f, about) ==
  LET now == server[<<f.name, "real">>]
  IN  IF about = "time" THEN [f EXCEPT !.time = now.time] ELSE [f EXCEPT !.sum = now.content]

\* A file that has gone cannot be asked about, and any request may fail.
\* Without a time the fetch fails, but nobody looks at the result of
\* fetch_checksum_file.
AskFile ==
  /\ session = "open" /\ ret = 0 /\ due # << >>
  /\ \E answered \in BOOLEAN :
       LET f     == found[Head(due).at]
           there == TypeAt(server, <<f.name, "real">>) = "file"
       IN  /\ answered => there
           /\ faults' = faults + (IF there /\ ~answered THEN 1 ELSE 0) /\ faults' =< MaxFaults
           /\ found' = [found EXCEPT ![Head(due).at] = IF answered THEN told(f, Head(due).about) ELSE f]
           /\ ret' = IF Head(due).about = "time" /\ ~answered THEN 1 ELSE 0
  /\ due' = Tail(due)
  /\ UNCHANGED <<site, disk, server, session, dirstack>>

-----------------------------------------------------------------------------
(* The stored state is replaced                                            *)

\* site_destroy_stored: the entries that are removed are those behind the
\* loop, as seen from the end of the list.
site_destroy_stored(s) ==
  LET n == Len(s.files)
      after[k \in 0 .. n] ==
        IF k = 0 THEN s ELSE destroy_stored_entry(after[k - 1], n + 1 - k)
  IN  after[n]

\* Mutation: the server's time is compared after it has been replaced.
munged_unsafe(f, remote_mtime) == IF Local(f) = Absent THEN Now ELSE Local(f).content[1]

\* The time of munge_modtime.
munged_time(f, remote_mtime) ==
  CASE Local(f) = Absent -> Now
    [] Local(f) # Absent /\ opt.safemode /\ f.server # 0 /\ f.server # remote_mtime ->
         Local(f).content[1] + 1
    [] OTHER -> Local(f).content[1]

\* Mutation: the size is taken from the local file as well.
munged_whole(f, remote_mtime) ==
  IF Local(f) = Absent THEN Stored(f).content ELSE Local(f).content

\* Time and size that are stored.
munged(f, remote_mtime) == <<munged_time(f, remote_mtime), Stored(f).content[2]>>

munge_modtime(s, k, remote_mtime) ==
  LET f == s.files[k]
  IN  IF f.type = "file" /\ timesize
      THEN set_states(s, k, [f.st EXCEPT !["stored"].content = munged(f, remote_mtime)])
      ELSE s

fetched_state(pf) ==
  [filename |-> pf.name, mode |-> pf.mode,
   content  |-> CASE pf.type = "dir" -> NoData
                  [] pf.type = "file" /\ timesize -> <<pf.time, pf.size>>
                  [] OTHER -> pf.sum]

fetch_add_file(s, pf) ==
  LET state == fetched_state(pf)
      k     == file_set_index(s, "stored", pf.type, state)
      t     == munge_modtime(file_set_stored(s, pf.type, state), k, pf.time)
  IN  IF opt.safemode THEN file_replace(t, k, [t.files[k] EXCEPT !.server = pf.time]) ELSE t

\* Mutation: the session of a fetch that has failed stays open.
proto_finish_ok == IF ret = 0 THEN "none" ELSE session

proto_finish == "none"

\* The end of site_fetch: a failure leaves the stored state as it was.
FetchDone ==
  /\ session = "open"
  /\ \/ dirstack = << >> /\ due = << >>
     \/ ret = 1
  /\ session' = proto_finish
  /\ site' = IF ret = 1 THEN site
             ELSE FoldLeft(fetch_add_file, site_destroy_stored(site),
                           OnlyIn(found, {f \in ToSet(found) : f.name \notin Excluded}))
  /\ dirstack' = << >> /\ found' = << >> /\ due' = << >>
  /\ UNCHANGED <<disk, server, faults, ret>>

-----------------------------------------------------------------------------
(* site_verify                                                             *)

StoredNames == {Stored(files[i]).filename : i \in {j \in DOMAIN files : Stored(files[j]) # Absent}}

\* Mutation: every file of the list counts.
numremote_any(list) ==
  Cardinality({i \in DOMAIN files : Stored(files[i]) # Absent}) - Len(list)

\* site_verify_compare: the number of stored files that the list does not have.
numremote(list) ==
  Cardinality({i \in DOMAIN files : Stored(files[i]) # Absent})
    - Cardinality({k \in DOMAIN list : list[k].name \in StoredNames})

\* Only the root of the site is listed; the times that the FTP driver asks for
\* then, and a failure of one, are left out.  When proto_init fails nothing is
\* closed, but nothing was opened either.
Verify ==
  /\ session = "none"
  /\ \E l \in fetch_list(Root) :
       /\ faults' = faults + l.fault /\ faults' =< MaxFaults
       /\ ret' = IF l.failed \/ numremote(l.list) # 0 THEN 1 ELSE 0
  /\ UNCHANGED <<site, disk, server, session, fetchVars>>
=============================================================================
