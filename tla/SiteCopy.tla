------------------------------ MODULE SiteCopy ------------------------------
(***************************************************************************)
(* A local copy of a site that is kept with `sitecopy --fetch' and         *)
(* `sitecopy --synch': verify_sites reads the local files and the info     *)
(* file, act_on_site runs the command, and a fetch that succeeds writes    *)
(* the info file.  Between two commands the user changes local files; at   *)
(* any time somebody else changes the server.  The program may be killed.  *)
(***************************************************************************)
EXTENDS SiteFetch, SiteSynch

CONSTANTS
  FirstDisks,     \* the local trees to begin with
  FirstServers,   \* the trees of the server to begin with
  Versions,       \* the contents and modes that a change of a file may give it
  MaxEdits,       \* bound on the changes to files, local or on the server
  Kills           \* whether the program may be killed

VARIABLES
  info,    \* the info file
  pc,      \* what the program is doing
  edits,   \* the changes to files so far
  fresh    \* the server has not changed since the last fetch that succeeded,
           \* nor during it

worldVars == <<info, pc, edits, fresh>>
siteVars  == <<copyVars, fetchVars, synchVars, worldVars>>

\* The command that was read, the function in execution, or its return.
Pcs == {"idle", "fetch", "fetching", "fetched", "saving", "synch", "synching", "synched",
        "verify", "verified"}

ASSUME WorldAssumption ==
  /\ MaxEdits \in Nat /\ Kills \in BOOLEAN
  /\ Versions \subseteq (Bytes \ {Part}) \X Modes
  /\ FirstDisks \subseteq Disk
  /\ \A t \in FirstServers :
       t \in Tree /\ \A p \in Places : TypeAt(t, p) = "file" => t[p].content \in Bytes \ {Part}

Init ==
  /\ \E o \in Options : site = EmptySite(o)
  /\ disk \in FirstDisks /\ server \in FirstServers
  /\ faults = 0 /\ session = "none" /\ ret = 0
  /\ dirstack = << >> /\ found = << >> /\ due = << >>
  /\ loop = "none" /\ next = 1
  /\ info = [status |-> "missing", items |-> << >>]
  /\ pc = "idle" /\ edits = 0 /\ fresh = FALSE

-----------------------------------------------------------------------------
(* The user and the others                                                 *)

\* A time that no other file has; two changes in successive seconds, which the
\* mark of munge_modtime confuses, are left out.
EditTime == 10 * (edits + 1)

\* The user writes, removes, or renames a file, makes a directory or removes
\* an empty one.
Edit ==
  /\ pc = "idle" /\ edits < MaxEdits
  /\ edits' = edits + 1
  /\ \E n \in Names :
       \/ /\ DiskType(n) # "dir" /\ HasDirectory(n)
          /\ \E v \in Versions :
               disk' = [disk EXCEPT ![n] =
                          [type |-> "file", bytes |-> v[1], mode |-> v[2], time |-> EditTime]]
       \/ \E a \in unlink(n) \cup rmdir(n) : a.ok /\ disk' = a.disk
       \/ \E m \in Names : disk[m] = Absent /\ \E a \in rename(n, m) : a.ok /\ disk' = a.disk
  /\ UNCHANGED <<site, server, faults, session, ret, fetchVars, synchVars, info, pc, fresh>>

Publish ==
  /\ edits < MaxEdits
  /\ edits' = edits + 1
  /\ \E n \in Names :
       LET place == <<n, "real">>
       IN  \/ /\ TypeAt(server, place) # "dir" /\ DirectoryExists(server, place)
              /\ \E v \in Versions :
                   server' = [server EXCEPT ![place] =
                      [type |-> "file", content |-> v[1], mode |-> v[2], time |-> EditTime]]
           \/ /\ server[place] # Absent /\ IsEmptyDir(server, place)
              /\ server' = [server EXCEPT ![place] = Absent]
  /\ fresh' = FALSE
  /\ UNCHANGED <<site, disk, faults, session, ret, fetchVars, synchVars, info, pc>>

-----------------------------------------------------------------------------
(* verify_sites                                                            *)

\* Without an info file (SITE_FAILED) only a fetch is carried out, with a
\* corrupt one (SITE_ERRORS) nothing.
Reads(command) ==
  /\ pc = "idle"
  /\ IF command = "fetch" THEN info.status # "corrupt" ELSE info.status = "valid"
  /\ pc' = command

\* The local files are read, except for --verify, and then the info file.
ReadSite(command) ==
  /\ Reads(command)
  /\ \E order \in Orders :
       site' = site_read_stored_state(
                 IF command = "verify" THEN EmptySite(opt)
                 ELSE site_read_local_state(EmptySite(opt), order), info)
  /\ ret' = 0
  /\ UNCHANGED <<disk, server, faults, session, fetchVars, synchVars, info, edits>>

ReadForFetch  == ReadSite("fetch") /\ fresh' = TRUE
ReadForSynch  == ReadSite("synch") /\ UNCHANGED fresh
ReadForVerify == ReadSite("verify") /\ UNCHANGED fresh

\* With --init the info file is not read: every local file is new, and none is
\* stored.  It is the way out of a corrupt one.
Initialize ==
  /\ pc = "idle" /\ info.status = "corrupt"
  /\ info' = ValidInfo(<< >>)
  /\ UNCHANGED <<copyVars, fetchVars, synchVars, pc, edits, fresh>>

-----------------------------------------------------------------------------
(* act_on_site                                                             *)

BeginFetch ==
  /\ pc = "fetch"
  /\ StartFetch
  /\ pc' = IF session' = "open" THEN "fetching" ELSE "fetched"
  /\ UNCHANGED <<synchVars, info, edits, fresh>>

ListNext ==
  /\ pc = "fetching"
  /\ ListDirectory
  /\ UNCHANGED <<synchVars, worldVars>>

AskNext ==
  /\ pc = "fetching"
  /\ AskFile
  /\ UNCHANGED <<synchVars, worldVars>>

FetchReturns ==
  /\ pc = "fetching"
  /\ FetchDone
  /\ pc' = "fetched"
  /\ UNCHANGED <<synchVars, info, edits, fresh>>

\* The program ends, and the list with it.
Ends == pc' = "idle" /\ site' = EmptySite(opt) /\ ret' = 0

FetchFailed ==
  /\ pc = "fetched" /\ ret = 1
  /\ fresh' = FALSE
  /\ Ends
  /\ UNCHANGED <<disk, server, faults, session, fetchVars, synchVars, info, edits>>

\* site_write_stored_state: opening the info file empties it.
OpenInfo ==
  /\ pc = "fetched" /\ ret = 0
  /\ info' = TruncatedInfo
  /\ pc' = "saving"
  /\ UNCHANGED <<copyVars, fetchVars, synchVars, edits, fresh>>

SaveFetched ==
  /\ pc = "saving"
  /\ info' = ValidInfo(items_of(files))
  /\ Ends
  /\ UNCHANGED <<disk, server, faults, session, fetchVars, synchVars, edits, fresh>>

\* Mutation: an empty stored state is taken at its word.
RefusesNever == FALSE

\* Mutation: deleted files are not looked at.
RefusesEmptyDisk ==
  \A k \in {"unchanged", "moved", "changed", "ignored"} : site.num[k] = 0

\* "Refusing to delete all local files with a synchronize operation."
Refuses ==
  \A k \in {"unchanged", "deleted", "moved", "changed", "ignored"} : site.num[k] = 0

RefuseToSynch ==
  /\ pc = "synch" /\ local_is_different(site) /\ Refuses
  /\ Ends
  /\ UNCHANGED <<disk, server, faults, session, fetchVars, synchVars, info, edits, fresh>>

NothingToSynch ==
  /\ pc = "synch" /\ ~local_is_different(site)
  /\ pc' = "synched"
  /\ UNCHANGED <<copyVars, fetchVars, synchVars, info, edits, fresh>>

BeginSynch ==
  /\ pc = "synch" /\ local_is_different(site) /\ ~Refuses
  /\ StartSynch
  /\ pc' = IF loop' = "none" THEN "synched" ELSE "synching"
  /\ UNCHANGED <<fetchVars, info, edits, fresh>>

SynchWorks ==
  /\ pc = "synching"
  /\ SynchStep
  /\ pc' = IF loop' = "none" THEN "synched" ELSE "synching"
  /\ UNCHANGED <<fetchVars, info, edits, fresh>>

VerifySite ==
  /\ pc = "verify"
  /\ Verify
  /\ pc' = "verified"
  /\ UNCHANGED <<synchVars, info, edits, fresh>>

\* Nothing is saved after a synchronize or a verify.
EndUnsaved ==
  /\ pc \in {"synched", "verified"}
  /\ Ends
  /\ UNCHANGED <<disk, server, faults, session, fetchVars, synchVars, info, edits, fresh>>

\* A signal: nothing catches it.
Killed ==
  /\ Kills /\ pc \in {"fetching", "saving", "synching"}
  /\ faults' = faults + 1 /\ faults' =< MaxFaults
  /\ Ends
  /\ fresh' = (fresh /\ pc = "synching")
  /\ session' = "none" /\ dirstack' = << >> /\ found' = << >> /\ due' = << >>
  /\ loop' = "none" /\ next' = 1
  /\ UNCHANGED <<disk, server, info, edits>>

Program ==
  \/ BeginFetch \/ ListNext \/ AskNext \/ FetchReturns
  \/ FetchFailed \/ OpenInfo \/ SaveFetched
  \/ RefuseToSynch \/ NothingToSynch \/ BeginSynch \/ SynchWorks
  \/ VerifySite \/ EndUnsaved

Next ==
  \/ ReadForFetch \/ ReadForSynch \/ ReadForVerify \/ Initialize
  \/ Program
  \/ Edit \/ Publish \/ Killed

Spec == Init /\ [][Next]_siteVars

\* Every function that the program is in returns, since its loops are over
\* finite lists, and the user fetches and synchronizes again and again,
\* whatever else is done in between, and initializes what cannot be read.
Returns == pc # "idle" /\ pc' \in Pcs

FairSpec ==
  /\ Spec
  /\ WF_pc(Returns)
  /\ SF_pc(Reads("fetch")) /\ SF_pc(Reads("synch")) /\ WF_info(Initialize)

-----------------------------------------------------------------------------
(* Properties                                                              *)

\* Every variable has its type, and a session is only open while a function
\* that uses it runs.
CopyTypeOK ==
  /\ site \in Site
  /\ disk \in Disk /\ server \in Tree
  /\ faults \in 0 .. MaxFaults /\ session \in {"none", "open"} /\ ret \in {0, 1}
  /\ dirstack \in Seq(Names \cup {Root}) /\ Len(dirstack) =< DirStackSize
  /\ found \in Seq(ProtoFile) /\ due \in Seq(Request)
  /\ loop \in Loops \cup {"none"} /\ next \in Nat
  /\ info.status \in {"valid", "missing", "corrupt"} /\ info.items \in Seq(Item)
  /\ pc \in Pcs /\ edits \in 0 .. MaxEdits /\ fresh \in BOOLEAN
  /\ session = "open" => pc \in {"fetching", "synching"}

\* A name that neither matches an exclude pattern nor lies in a directory
\* that does.
Visible == {n \in Names : n \notin Excluded /\ Parent[n] \notin Excluded}

\* The local files are those on the server, as far as the state method sees.
SameFile(n) ==
  LET place == <<n, "real">>
  IN  /\ DiskType(n) = TypeAt(server, place)
      /\ DiskType(n) = "file" =>
           IF timesize THEN ByteSize[disk[n].bytes] = ByteSize[server[place].content]
           ELSE disk[n].bytes = server[place].content

IsCopy == \A n \in Visible : SameFile(n)

\* A fetch that succeeds while the server does not change has found every file
\* and directory that is not excluded, in whatever order they were listed and
\* however deep they lie, and nothing else is left of the stored state.  Only
\* a WebDAV server may have hidden a file, with a warning.
FetchComplete ==
  pc = "fetched" /\ ret = 0 /\ fresh /\ (opt.protocol = "dav" => faults = 0) =>
    LET stored == {i \in DOMAIN files : Stored(files[i]) # Absent}
    IN  /\ {<<Stored(files[i]).filename, files[i].type>> : i \in stored}
              = {<<n, TypeAt(server, <<n, "real">>)>> :
                   n \in {m \in Visible : server[<<m, "real">>] # Absent}}
        /\ \A i, j \in stored : Stored(files[i]).filename = Stored(files[j]).filename => i = j

\* In safe mode a fetch marks the files that have changed on the server since
\* their modification time was recorded, although with `state timesize' the
\* times of the local file and of the one on the server are never compared.
FetchSeesChange ==
  pc = "fetched" /\ ret = 0 /\ opt.safemode /\ timesize =>
    \A i \in DOMAIN files, k \in DOMAIN info.items :
       /\ files[i].type = "file" /\ info.items[k].type = "file"
       /\ Local(files[i]) # Absent /\ Stored(files[i]) # Absent
       /\ Local(files[i]).filename = info.items[k].state.filename
       /\ Stored(files[i]).filename = info.items[k].state.filename
       /\ info.items[k].server \notin {0, files[i].server}
       => files[i].diff = "changed"

\* When site_synch returns SITE_OK, or has nothing to do, and the server has
\* not changed since the fetch, the local files are those on the server,
\* ignored files included; not so with keep_going, or with checkmoved,
\* or when a WebDAV server has hidden a file.
SynchMeansCopy ==
  pc = "synched" /\ ret = 0 /\ fresh /\ (opt.protocol = "dav" => faults = 0)
    /\ ~opt.keep_going /\ ~opt.checkmoved => IsCopy

\* No download without a session: site_synch decides by the counters of the
\* list whether to connect, and its loops by the entries.
ConnectedForDownload ==
  loop = "files" =>
    \A i \in DOMAIN files : i >= next /\ Downloads(files[i]) => session = "open"

\* What a broken download leaves of a file is never taken for the file, not
\* even after a fetch has given its time to the stored state; with `state
\* timesize' this asks that no version of the file has the size of the part.
PartIsNoticed ==
  pc = "idle" =>
    \A k \in DOMAIN info.items :
      LET it == info.items[k]
          n  == it.state.filename
      IN  it.type = "file" /\ DiskType(n) = "file" /\ disk[n].bytes = Part
            => it.state.content # local_state(n).content

\* A synchronize leaves alone what is excluded, and every file that is as the
\* stored state says.
UntouchedStays ==
  [][pc = "synching" =>
       \A n \in Names :
          \/ n \in Excluded
          \/ /\ ~opt.checkmoved
             /\ \E i \in DOMAIN files :
                  /\ files[i].diff = "unchanged" /\ files[i].type = DiskType(n)
                  /\ Local(files[i]).filename = n
          => disk'[n] = disk[n]]_siteVars

\* Without a stored state no local file is ever removed or replaced.
EmptyStateKeepsFiles ==
  [][pc = "synching" /\ info.items = << >> => disk' = disk]_siteVars

\* SITE_OK from site_verify means that every stored file was in the listing.
VerifyMeansPresent ==
  [][pc = "verify" /\ pc' = "verified" /\ ret' = 0 =>
       \A n \in StoredNames : server[<<n, "real">>] # Absent]_siteVars

\* Nothing that can hold other files is ever a file.
NoTypeSwap ==
  \A n \in Names : "file" \in {DiskType(n), TypeAt(server, <<n, "real">>)} =>
     /\ \A m \in Names : Parent[m] # n
     /\ "dir" \notin {DiskType(n), TypeAt(server, <<n, "real">>)}

ServerIsEmpty == \A n \in Visible : server[<<n, "real">>] = Absent

\* Once files have stopped to change and calls to fail, fetching and
\* synchronizing again and again makes the local files those on the server,
\* whatever failed before, and although a fetch may store a directory before
\* its parent; not so with checkmoved, where each synchronize may undo what the
\* one before has done, nor with rsh, which cannot download.
SynchConverges ==
  [](NoTypeSwap /\ ~opt.checkmoved /\ opt.protocol # "rsh") => <>[](pc = "idle" => IsCopy \/ ServerIsEmpty)
=============================================================================
