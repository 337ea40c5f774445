------------------------------- MODULE SiteRun -------------------------------
(***************************************************************************)
(* The life of a site over several runs of `sitecopy --update': the user   *)
(* changes the local files, verify_sites reads them and the info file,     *)
(* act_on_site updates the server and writes the info file again.  The     *)
(* program may be killed while it updates, and others may write to the     *)
(* server.  `sitecopy --init' starts over with an empty info file.         *)
(***************************************************************************)
EXTENDS SiteUpdate, Storage

CONSTANTS
  LocalTrees,    \* the local trees that the user may make
  MaxRuns,       \* bound on the runs between which the user edits files
  MaxClock,      \* bound on the server's clock
  Foreign,       \* the content of files written to the server by others
  OutsiderPcs,   \* when others may write to the server
  EditPcs,       \* when the user may change the local files
  Kills          \* whether the program may be killed

VARIABLES
  info,      \* the info file
  pc,        \* what the program is doing
  unread,    \* the local names not yet scanned
  item,      \* the next item of the info file
  doc,       \* doc.server of the XML parser: a server modification time, or 0
  runs       \* the runs so far, up to MaxRuns

runVars == <<info, pc, unread, item, doc, runs>>
allVars == <<updateVars, runVars>>

ASSUME RunAssumption ==
  /\ MaxRuns \in Nat /\ MaxClock \in Nat \ {0}
  /\ OutsiderPcs # {} => Foreign \in Contents
  /\ LocalTrees \subseteq [Names -> LocalFile \cup {Absent}]
  /\ \A t \in LocalTrees : \A n \in Names :
       t[n] # Absent /\ Parent[n] # Root =>
         t[Parent[n]] # Absent /\ t[Parent[n]].type = "dir"

Pcs == {"idle", "read_local", "read_stored", "act", "update", "save"}

\* The site after `sitecopy --init' for a new remote directory.
RunInit ==
  /\ \E o \in Options : site = EmptySite(o)
  /\ local \in LocalTrees
  /\ server = EmptyTree
  /\ clock = 1 /\ faults = 0
  /\ pass = 0 /\ next = 0 /\ step = "entry" /\ ret = 0
  /\ info = ValidInfo(<< >>)
  /\ pc = "idle" /\ unread = {} /\ item = 0 /\ doc = 0 /\ runs = 0

-----------------------------------------------------------------------------
(* The user and the world                                                  *)

Edit ==
  /\ pc \in EditPcs /\ runs < MaxRuns
  /\ local' \in LocalTrees \ {local}
  /\ UNCHANGED <<site, server, clock, faults, pass, next, step, ret, runVars>>

Tick ==
  /\ clock < MaxClock
  /\ clock' = clock + 1
  /\ UNCHANGED <<site, local, server, faults, pass, next, step, ret, runVars>>

\* Someone else uploads a new version of a file.  Two versions of the same
\* second are left out: no comparison of modification times tells them apart.
Outsider ==
  /\ pc \in OutsiderPcs
  /\ \E n \in Names :
       /\ TypeAt(server, <<n, "real">>) = "file"
       /\ server[<<n, "real">>].time < clock
       /\ server' = Uploaded_to(server, <<n, "real">>, Foreign, clock)
  /\ UNCHANGED <<site, local, clock, faults, pass, next, step, ret, runVars>>

-----------------------------------------------------------------------------
(* verify_sites: the local files, then the info file                       *)

StartRun ==
  /\ pc = "idle"
  /\ runs' = (IF runs < MaxRuns THEN runs + 1 ELSE runs)
  /\ site' = EmptySite(opt)
  /\ pc' = "read_local" /\ unread' = {n \in Names : local[n] # Absent}
  /\ UNCHANGED <<local, server, clock, faults, pass, next, step, ret, info, item, doc>>

\* site_read_local_state comes to a directory before the files in it.
ReadLocalFile ==
  /\ pc = "read_local"
  /\ \E n \in unread :
       /\ Parent[n] \notin unread
       /\ unread' = unread \ {n}
       /\ site' = IF local[n] = Absent THEN site
                  ELSE file_set_local(site, local[n].type,
                         [filename |-> n, content |-> local[n].content, mode |-> local[n].mode])
  /\ UNCHANGED <<local, server, clock, faults, pass, next, step, ret, info, pc, item, doc, runs>>

\* A corrupt info file: the site is skipped.
ReadInfo ==
  /\ pc = "read_local" /\ unread = {}
  /\ IF info.status = "corrupt" THEN pc' = "idle" /\ UNCHANGED <<item, doc>>
     ELSE pc' = "read_stored" /\ item' = 1 /\ doc' = 0
  /\ UNCHANGED <<updateVars, info, unread, runs>>

ReadItem ==
  /\ pc = "read_stored" /\ item =< Len(info.items)
  /\ LET read == read_item([site |-> site, doc |-> doc], info.items[item])
     IN  site' = read.site /\ doc' = read.doc
  /\ item' = item + 1
  /\ UNCHANGED <<local, server, clock, faults, pass, next, step, ret, info, pc, unread, runs>>

StoredRead ==
  /\ pc = "read_stored" /\ item > Len(info.items)
  /\ pc' = "act"
  /\ UNCHANGED <<updateVars, info, unread, item, doc, runs>>

-----------------------------------------------------------------------------
(* act_on_site with action_update                                          *)

NothingToDo ==
  /\ pc = "act" /\ ~remote_is_different(site)
  /\ pc' = "idle"
  /\ UNCHANGED <<updateVars, info, unread, item, doc, runs>>

\* site_open_storage_file truncates the info file before site_update begins.
OpenStorage ==
  /\ pc = "act" /\ remote_is_different(site)
  /\ info' = TruncatedInfo
  /\ StartPasses
  /\ pc' = "update"
  /\ UNCHANGED <<unread, item, doc, runs>>

Update ==
  /\ pc = "update" /\ pass # 0
  /\ UpdateStep
  /\ UNCHANGED runVars

UpdateReturns ==
  /\ pc = "update" /\ pass = 0
  /\ pc' = "save"
  /\ UNCHANGED <<updateVars, info, unread, item, doc, runs>>

SaveState ==
  /\ pc = "save"
  /\ info' = ValidInfo(items_of(files))
  /\ pc' = "idle"
  /\ UNCHANGED <<updateVars, unread, item, doc, runs>>

\* A signal during the update: nothing catches it.
Killed ==
  /\ Kills /\ pc \in {"update", "save"}
  /\ pc' = "idle" /\ pass' = 0 /\ next' = 0 /\ step' = "entry" /\ ret' = 1
  /\ UNCHANGED <<site, local, server, clock, faults, info, unread, item, doc, runs>>

\* sitecopy --init: nothing is read, an empty file is written.
Initialize ==
  /\ pc = "idle" /\ info.status = "corrupt"
  /\ info' = ValidInfo(<< >>)
  /\ UNCHANGED <<updateVars, pc, unread, item, doc, runs>>

Program ==
  \/ ReadLocalFile \/ ReadInfo \/ ReadItem \/ StoredRead
  \/ NothingToDo \/ OpenStorage \/ Update \/ UpdateReturns \/ SaveState

RunNext == Program \/ StartRun \/ Initialize \/ Edit \/ Tick \/ Outsider \/ Killed

RunSpec == RunInit /\ [][RunNext]_allVars

\* The user runs `sitecopy --update' again and again, and every run goes on
\* until it ends.
FairSpec == RunSpec /\ WF_allVars(Program) /\ WF_allVars(StartRun)

-----------------------------------------------------------------------------
(* Properties                                                              *)

\* Every variable has its type.
RunTypeOK ==
  /\ site \in Site
  /\ local \in LocalTrees
  /\ server \in Tree
  /\ clock \in 1 .. MaxClock /\ faults \in 0 .. MaxFaults
  /\ pass \in 0 .. Len(handlers) /\ next \in Nat /\ step \in Steps /\ ret \in {0, 1}
  /\ info \in InfoFile
  /\ pc \in Pcs /\ unread \in SUBSET Names /\ item \in Nat /\ doc \in Nat
  /\ runs \in 0 .. MaxRuns

\* What the server holds for a state of the list is what the state says.
OnServer(type, state) ==
  LET place == file_full_remote(state)
  IN  /\ TypeAt(server, place) = type
      /\ type = "file" => server[place].content = state.content
      /\ type = "file" /\ opt.perms = "all" => server[place].mode = state.mode

\* An entry that is "unchanged" needs no update: enum file_diff says "Remote
\* file is same as local file", and no pass looks at the entry again.
UnchangedIsOnServer ==
  pc \in {"act", "update", "save"} =>
    \A i \in DOMAIN files :
       files[i].diff = "unchanged" => OnServer(files[i].type, Local(files[i]))

\* The server holds the local site.
Mirror ==
  \A n \in Names :
     LET place == <<RemoteName[n], "real">>
     IN  /\ local[n] # Absent =>
              /\ TypeAt(server, place) = local[n].type
              /\ local[n].type = "file" /\ n \notin Ignored =>
                   /\ server[place].content = local[n].content
                   /\ opt.perms = "all" => server[place].mode = local[n].mode
         /\ ~opt.nodelete =>
              \/ TypeAt(server, place) = "none"
              \/ \E m \in Names : RemoteName[m] = RemoteName[n] /\ local[m] # Absent

\* When site_update returns SITE_OK and no update was declined, the server
\* holds the local site, whatever failed in earlier runs.
SuccessMeansMirror ==
  pc = "save" /\ ret = 0 /\ ~opt.prompting => Mirror

\* With `tempupload' nobody ever finds a part of a file under its true name,
\* although uploads break and the program is killed.
NoPartialFileVisible ==
  opt.tempupload =>
    \A n \in Names : TypeAt(server, <<n, "real">>) = "file"
                       => server[<<n, "real">>].content # Garbage

\* `nodelete' prevents remote files from being deleted: a file goes away only
\* when it is moved, and then it is found under its new name.
NodeleteDeletesNothing ==
  [][opt.nodelete /\ ~opt.nooverwrite =>
       \A n \in Names :
          LET p == <<n, "real">>
          IN  server[p] # Absent /\ server'[p] = Absent =>
                opt.checkmoved /\ \E m \in Names : server'[<<m, "real">>] = server[p]]_allVars

\* A file that is on the server and still exists locally is never missing from
\* the server, not even for a moment and whatever fails or is killed, unless
\* the options ask for a delete (nooverwrite) or a move.
PublishedStaysPublished ==
  [][~opt.nooverwrite /\ ~opt.checkmoved =>
       \A n \in Names :
          LET p == <<RemoteName[n], "real">>
          IN  local[n] # Absent /\ local[n].type = "file" /\ TypeAt(server, p) = "file"
                => TypeAt(server', p) = "file"]_allVars

\* In safe mode a file that a foreign party has altered since the time that is
\* recorded for it is not uploaded over.  There is no such time when get_modtime
\* fails after an upload, and then nothing is compared; and an upload to the name
\* that a moved file is to leave knows of none.
SafeModeKeepsForeign ==
  [][opt.safemode /\ ~opt.checkmoved =>
       \A i \in DOMAIN files :
          LET p == <<RemoteName[Stored(files[i]).filename], "real">>
          IN  /\ files[i].type = "file" /\ files[i].server # 0 /\ Stored(files[i]) # Absent
              /\ TypeAt(server, p) = "file" /\ server[p].content = Foreign
              /\ server[p].time > files[i].server
              /\ TypeAt(server', p) = "file"
              => server'[p].content = Foreign]_allVars

\* The state of the site outlives a signal: once the program has ended, the
\* info file can be read.
InfoSurvives == pc = "idle" => info.status = "valid"

\* What was written to the info file is what the next run reads: every stored
\* state is in the list once, and a server modification time that was saved is
\* that of its own file again, although the parser keeps the time of one item
\* for the next.  (An item without a time is not promised to have none, and a
\* move gives the time of one state to another.)
InfoRoundTrip ==
  pc = "act" =>
    LET read == {i \in DOMAIN files : Stored(files[i]) # Absent}
    IN  /\ Cardinality(read) = Len(info.items)
        /\ {<<files[i].type, Stored(files[i])>> : i \in read}
              = {<<info.items[k].type, info.items[k].state>> : k \in DOMAIN info.items}
        /\ \A i \in read, k \in DOMAIN info.items :
             /\ info.items[k].type = files[i].type /\ info.items[k].state = Stored(files[i])
             /\ info.items[k].server # 0 /\ ~opt.checkmoved
             => files[i].server = info.items[k].server

\* Nothing that can hold other files is ever a file.
NoTypeSwap == \A n \in Names : local[n] # Absent /\ local[n].type = "file" => \A m \in Names : Parent[m] # n

\* Once the user has stopped editing and the faults have stopped, running the
\* program again and again makes the server hold the local site: no failure of
\* a call leaves anything behind that stops every later run.  A temporary file
\* may do so, since it keeps its directory from being removed; a file that
\* takes the name of a directory does, since directories are deleted last.
Converges == []NoTypeSwap => <>[](pc = "idle" => Mirror \/ opt.tempupload)
=============================================================================
