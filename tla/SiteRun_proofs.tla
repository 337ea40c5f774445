--------------------------- MODULE SiteRun_proofs ---------------------------
(***************************************************************************)
(* The runs of `sitecopy --update' keep their types and the file list      *)
(* exact, and hold the promises of `tempupload', `nodelete' and safe mode  *)
(* and of a plain update, for every site, every set of options and faults, *)
(* and any number of runs, edits and signals.  On plain sites what is      *)
(* recorded as unchanged is on the server, a run that returns SITE_OK has  *)
(* made a mirror, and what is read is what was written.                    *)
(***************************************************************************)
EXTENDS SiteRun, SiteUpdate_lemmas

-----------------------------------------------------------------------------
(* The types, and the list exact                                           *)

\* The state between two steps: the engine and the list are as their lemmas
\* need them, the engine is at rest while the program does something else, and
\* there are items to read only once the info file is being read.
RunInv ==
  /\ EngineOK
  /\ local \in LocalTrees
  /\ clock \in 1 .. MaxClock
  /\ info \in InfoFile
  /\ pc \in Pcs /\ unread \in SUBSET Names /\ item \in Nat /\ doc \in Nat
  /\ runs \in 0 .. MaxRuns
  /\ pc = "read_stored" => item # 0
  /\ pc # "update" => pass = 0

\* An engine at rest is in a state of the engine with every exact list.
LEMMA EngineAtRest ==
  ASSUME EngineOK, pass = 0, pass' = 0, next' \in Nat, step' = "entry" \/ step' = step, ret' \in {0, 1},
         Exact(site)', server' \in Tree, local' \in LocalTrees,
         clock' \in Nat, faults' \in 0 .. MaxFaults
  PROVE  EngineOK'
<1>1. step' = "entry"
  BY DEF EngineOK, AtEntry
<1>2. local' \in [Names -> LocalFile \cup {Absent}]
  BY RunAssumption
<1>3. pass' \in 0 .. Len(handlers)
  BY DEF EngineOK
<1>4. QED
  BY <1>1, <1>2, <1>3 DEF EngineOK, AtEntry, PassAllowed, Steps

\* A state of the engine that only the server, the local files or the clock
\* have left behind is still one.
LEMMA EngineUndisturbed ==
  ASSUME EngineOK, UNCHANGED <<site, faults, pass, next, step, ret>>,
         server' \in Tree, local' \in LocalTrees, clock' \in Nat
  PROVE  EngineOK' /\ opt' = opt
<1>1. local' \in [Names -> LocalFile \cup {Absent}]
  BY RunAssumption
<1>2. Exact(site)' /\ files' = files /\ opt' = opt
  BY DEF EngineOK, files, opt
<1>3. \A p : guard(p)' <=> guard(p)
  BY <1>2 DEF guard
<1>4. QED
  BY <1>1, <1>2, <1>3 DEF EngineOK, AtEntry, PassAllowed

\* The state after `sitecopy --init'.
LEMMA InitRunInv ==
  ASSUME RunInit
  PROVE  RunInv
<1>1. PICK o \in Options : site = EmptySite(o)
  BY DEF RunInit
<1>2. Exact(site)
  BY <1>1, EmptySiteExact
<1>3. server \in Tree
  BY DEF RunInit, EmptyTree, Tree
<1>4. local \in LocalTrees /\ local \in [Names -> LocalFile \cup {Absent}]
  BY RunAssumption DEF RunInit
<1>5. EngineOK
  BY <1>2, <1>3, <1>4, UpdateAssumption DEF RunInit, EngineOK, AtEntry, PassAllowed, Steps
<1>6. info \in InfoFile /\ clock \in 1 .. MaxClock /\ runs \in 0 .. MaxRuns
  BY RunAssumption DEF RunInit, InfoFile, ValidInfo
<1>7. QED
  BY <1>4, <1>5, <1>6 DEF RunInit, RunInv, Pcs

\* The steps of the user and of the world.
LEMMA WorldKeeps ==
  ASSUME RunInv, Edit \/ Tick \/ Outsider
  PROVE  RunInv'
<1>1. UNCHANGED <<site, faults, pass, next, step, ret, runVars>>
  BY DEF Edit, Tick, Outsider
<1>2. local' \in LocalTrees /\ clock' \in 1 .. MaxClock
  BY RunAssumption DEF RunInv, Edit, Tick, Outsider
<1>3. server' \in Tree
  <2>1. CASE Edit \/ Tick
    BY <2>1 DEF Edit, Tick, RunInv, EngineOK
  <2>2. CASE Outsider
    <3>1. PICK n \in Names : server' = Uploaded_to(server, <<n, "real">>, Foreign, clock)
      BY <2>2 DEF Outsider
    <3>2. Foreign \in Contents \cup {Garbage} /\ <<n, "real">> \in Places
          /\ server \in Tree /\ clock \in Nat
      BY <2>2, RunAssumption DEF Outsider, Places, RunInv, EngineOK
    <3>3. QED
      BY <3>1, <3>2, UploadedTree
  <2>3. QED
    BY <2>1, <2>2
<1>4. EngineOK'
  BY <1>1, <1>2, <1>3, RunAssumption, EngineUndisturbed DEF RunInv
<1>5. QED
  BY <1>1, <1>2, <1>4 DEF RunInv, runVars

\* The engine at rest, with another list.
LEMMA AtRestKeeps ==
  ASSUME RunInv, pass = 0, Exact(site)',
         UNCHANGED <<local, server, clock, faults, pass, next, step, ret, info>>,
         pc' \in Pcs, unread' \in SUBSET Names, item' \in Nat, doc' \in Nat,
         runs' \in 0 .. MaxRuns, pc' = "read_stored" => item' # 0
  PROVE  RunInv'
<1>1. EngineOK'
  BY EngineAtRest DEF RunInv, EngineOK
<1>2. QED
  BY <1>1 DEF RunInv

\* The steps that read the local files and the info file.
LEMMA ReadingKeeps ==
  ASSUME RunInv, StartRun \/ ReadLocalFile \/ ReadInfo \/ ReadItem \/ StoredRead
  PROVE  RunInv'
<1>0. pass = 0 /\ Exact(site) /\ opt \in Options
  BY OptionsTyped DEF RunInv, EngineOK, StartRun, ReadLocalFile, ReadInfo, ReadItem, StoredRead
<1>1. CASE StartRun
  <2>1. Exact(site)'
    BY <1>0, <1>1, EmptySiteExact DEF StartRun
  <2>2. runs' \in 0 .. MaxRuns
    BY <1>1, RunAssumption DEF StartRun, RunInv
  <2>3. QED
    BY <1>0, <1>1, <2>1, <2>2, AtRestKeeps DEF StartRun, Pcs, RunInv
<1>2. CASE ReadLocalFile
  <2>1. PICK n \in unread :
          /\ unread' = unread \ {n}
          /\ site' = IF local[n] = Absent THEN site
                     ELSE file_set_local(site, local[n].type,
                            [filename |-> n, content |-> local[n].content, mode |-> local[n].mode])
    BY <1>2 DEF ReadLocalFile
  <2>2. n \in Names /\ local[n] \in LocalFile \cup {Absent}
    BY DEF RunInv, EngineOK
  <2>3. Exact(site)'
    <3> DEFINE state == [filename |-> n, content |-> local[n].content, mode |-> local[n].mode]
    <3>1. CASE local[n] = Absent
      BY <1>0, <2>1, <3>1
    <3>2. CASE local[n] # Absent
      <4>1. local[n].type \in FileTypes /\ state \in FileState
        BY <2>2, <3>2 DEF LocalFile, FileTypes, FileState
      <4>2. site' = file_set(site, "local", local[n].type, state) /\ "local" \in Sides
        BY <2>1, <3>2 DEF file_set_local, Sides
      <4> HIDE DEF state
      <4>3. QED
        BY <1>0, <4>1, <4>2, FileSetExact
    <3>3. QED
      BY <3>1, <3>2
  <2>4. QED
    BY <1>0, <1>2, <2>1, <2>3, AtRestKeeps DEF ReadLocalFile, RunInv, Pcs
<1>3. CASE ReadInfo \/ StoredRead
  <2>1. site' = site
    BY <1>3 DEF ReadInfo, StoredRead, updateVars
  <2>2. QED
    BY <1>0, <1>3, <2>1, AtRestKeeps DEF ReadInfo, StoredRead, RunInv, Pcs, updateVars
<1>4. CASE ReadItem
  <2> DEFINE read == read_item([site |-> site, doc |-> doc], info.items[item])
  <2>1. info.items \in Seq(Item) /\ item \in Nat /\ item # 0 /\ item =< Len(info.items) /\ doc \in Nat
    BY <1>4 DEF ReadItem, RunInv, InfoFile
  <2>2. info.items[item] \in Item
    BY <2>1, ItemAt
  <2>3. Exact(read.site) /\ read.site.opt = site.opt /\ read.doc \in Nat
    BY <1>0, <2>1, <2>2, ReadItemExact
  <2>4. site' = read.site /\ doc' = read.doc
    BY <1>4 DEF ReadItem
  <2>5. item' = item + 1
        /\ UNCHANGED <<local, server, clock, faults, pass, next, step, ret, info, pc, unread, runs>>
    BY <1>4 DEF ReadItem
  <2> HIDE DEF read
  <2>6. QED
    BY <1>0, <2>1, <2>3, <2>4, <2>5, AtRestKeeps DEF RunInv
<1>5. QED
  BY <1>1, <1>2, <1>3, <1>4

\* The steps that update the server and write the info file.
LEMMA ActingKeeps ==
  ASSUME RunInv, NothingToDo \/ OpenStorage \/ Update \/ UpdateReturns \/ SaveState
                 \/ Killed \/ Initialize
  PROVE  RunInv'
<1>1. CASE NothingToDo \/ UpdateReturns
  <2>1. pass = 0 /\ Exact(site) /\ site' = site
    BY <1>1 DEF NothingToDo, UpdateReturns, RunInv, EngineOK, updateVars
  <2>2. QED
    BY <1>1, <2>1, AtRestKeeps DEF NothingToDo, UpdateReturns, RunInv, Pcs, updateVars
<1>2. CASE OpenStorage
  <2>1. EngineOK' /\ UNCHANGED <<local, clock>>
    BY <1>2, StartMoves, EngineKept DEF OpenStorage, RunInv, EngineMoves
  <2>2. info' \in InfoFile
    BY <1>2 DEF OpenStorage, TruncatedInfo, InfoFile
  <2>3. QED
    BY <1>2, <2>1, <2>2 DEF OpenStorage, RunInv, Pcs
<1>3. CASE Update
  <2>1. EngineOK' /\ UNCHANGED <<local, clock>>
    BY <1>3, UpdateMoves, EngineKept DEF Update, RunInv, EngineMoves
  <2>2. QED
    BY <1>3, <2>1 DEF Update, RunInv, runVars
<1>4. CASE SaveState
  <2>1. info' \in InfoFile
    <3>1. files \in Seq(Entry)
      BY DEF RunInv, EngineOK, Exact, SiteOK, Site, files
    <3>2. items_of(files) \in Seq(Item)
      BY <3>1, ItemsTyped
    <3>3. QED
      BY <1>4, <3>2 DEF SaveState, ValidInfo, InfoFile
  <2>2. EngineOK' /\ pass = 0
    BY <1>4, EngineUndisturbed DEF SaveState, RunInv, updateVars, EngineOK
  <2>3. QED
    BY <1>4, <2>1, <2>2 DEF SaveState, RunInv, Pcs, updateVars
<1>5. CASE Killed
  <2>1. EngineOK'
    <3>1. Exact(site)' /\ local' \in [Names -> LocalFile \cup {Absent}]
      BY <1>5 DEF Killed, RunInv, EngineOK
    <3>2. pass' \in 0 .. Len(handlers)
      BY <1>5 DEF Killed, RunInv, EngineOK
    <3>3. QED
      BY <1>5, <3>1, <3>2 DEF Killed, RunInv, EngineOK, AtEntry, PassAllowed, Steps
  <2>2. QED
    BY <1>5, <2>1 DEF Killed, RunInv, Pcs
<1>6. CASE Initialize
  <2>1. info' \in InfoFile
    BY <1>6 DEF Initialize, ValidInfo, InfoFile
  <2>2. EngineOK'
    BY <1>6, EngineUndisturbed DEF Initialize, RunInv, updateVars, EngineOK
  <2>3. QED
    BY <1>6, <2>1, <2>2 DEF Initialize, RunInv, updateVars
<1>7. QED
  BY <1>1, <1>2, <1>3, <1>4, <1>5, <1>6

\* A step that changes nothing.
LEMMA StutterKeeps ==
  ASSUME RunInv, UNCHANGED allVars
  PROVE  RunInv'
<1>1. EngineOK'
  BY EngineUndisturbed DEF RunInv, allVars, updateVars, EngineOK
<1>2. QED
  BY <1>1 DEF RunInv, allVars, updateVars, runVars

\* Every step keeps the invariant.
LEMMA RunInvKept ==
  ASSUME RunInv, [RunNext]_allVars
  PROVE  RunInv'
BY WorldKeeps, ReadingKeeps, ActingKeeps, StutterKeeps DEF RunNext, Program

\* In every run the invariant holds.
LEMMA RunInvariant == RunSpec => []RunInv
<1>1. RunInit => RunInv
  BY InitRunInv
<1>2. RunInv /\ [RunNext]_allVars => RunInv'
  BY RunInvKept
<1>3. QED
  BY <1>1, <1>2, PTL DEF RunSpec

\* Every variable keeps its type over any number of runs: the list and its
\* counters stay a site, the loops of site_update stay at rows and entries of
\* their tables, and the info file is a list of items, however the program is
\* interrupted.
THEOREM RunTyped == RunSpec => []RunTypeOK
<1>1. RunInv => RunTypeOK
  BY DEF RunInv, RunTypeOK, EngineOK, Exact, SiteOK
<1>2. QED
  BY <1>1, RunInvariant, PTL

-----------------------------------------------------------------------------
(* What a step of a run may do                                             *)

\* A step beside the engine: the server is left alone, and the engine stays at
\* its call or is at rest.
Aside ==
  /\ server' = server /\ opt' = opt
  /\ step' = "entry" \/ UNCHANGED <<site, pass, next, step>>

\* Every step is one of the engine, of an outsider, or one beside the engine.
LEMMA RunMoves ==
  ASSUME RunInv, [RunNext]_allVars
  PROVE  \/ EngineMoves /\ opt' = opt
         \/ Outsider /\ UNCHANGED <<site, pass, next, step>>
         \/ Aside
<1>1. CASE Update \/ OpenStorage
  <2>1. EngineMoves
    BY <1>1, UpdateMoves, StartMoves DEF Update, OpenStorage, RunInv
  <2>2. QED
    BY <2>1, EngineKept DEF RunInv
<1>2. CASE Outsider
  BY <1>2 DEF Outsider
<1>3. CASE Edit \/ Tick \/ ReadInfo \/ StoredRead \/ NothingToDo \/ UpdateReturns \/ SaveState
           \/ Killed \/ Initialize \/ UNCHANGED allVars
  BY <1>3 DEF Edit, Tick, ReadInfo, StoredRead, NothingToDo, UpdateReturns, SaveState, Killed,
     Initialize, allVars, updateVars, Aside, opt
<1>4. CASE StartRun \/ ReadLocalFile \/ ReadItem
  <2>1. /\ pass = 0 /\ step = "entry" /\ UNCHANGED <<step, server>>
        /\ Exact(site) /\ site \in Site /\ opt \in Options
    BY <1>4, OptionsTyped DEF StartRun, ReadLocalFile, ReadItem, RunInv, EngineOK, AtEntry, Exact, SiteOK
  <2>2. CASE StartRun
    BY <2>1, <2>2, EmptySiteExact DEF StartRun, Aside, opt
  <2>3. CASE ReadLocalFile
    <3>1. PICK n \in unread :
            site' = IF local[n] = Absent THEN site
                    ELSE file_set_local(site, local[n].type,
                           [filename |-> n, content |-> local[n].content, mode |-> local[n].mode])
      BY <2>3 DEF ReadLocalFile
    <3> DEFINE state == [filename |-> n, content |-> local[n].content, mode |-> local[n].mode]
    <3>2. n \in Names /\ local[n] \in LocalFile \cup {Absent}
      BY DEF RunInv, EngineOK
    <3>3. CASE local[n] = Absent
      BY <2>1, <3>1, <3>3 DEF Aside, opt
    <3>4. CASE local[n] # Absent
      <4>1. local[n].type \in FileTypes /\ state \in FileState
        BY <3>2, <3>4 DEF LocalFile, FileTypes, FileState
      <4>2. site' = file_set(site, "local", local[n].type, state) /\ "local" \in Sides
        BY <3>1, <3>4 DEF file_set_local, Sides
      <4> HIDE DEF state
      <4>3. site'.opt = site.opt
        BY <2>1, <4>1, <4>2, FileSetOpt
      <4>4. QED
        BY <2>1, <4>3 DEF Aside, opt
    <3>5. QED
      BY <3>3, <3>4
  <2>4. CASE ReadItem
    <3> DEFINE read == read_item([site |-> site, doc |-> doc], info.items[item])
    <3>1. info.items \in Seq(Item) /\ item \in Nat /\ item # 0 /\ item =< Len(info.items) /\ doc \in Nat
      BY <2>4 DEF ReadItem, RunInv, InfoFile
    <3>2. info.items[item] \in Item
      BY <3>1, ItemAt
    <3>3. read.site.opt = site.opt
      BY <2>1, <3>1, <3>2, ReadItemExact
    <3>4. site' = read.site
      BY <2>4 DEF ReadItem
    <3>5. QED
      BY <2>1, <3>3, <3>4 DEF Aside, opt
  <2>5. QED
    BY <1>4, <2>2, <2>3, <2>4
<1>5. QED
  BY <1>1, <1>2, <1>3, <1>4 DEF RunNext, Program

\* The entry that the engine is at keeps its local state while it is there.
LEMMA SameEntry ==
  ASSUME EngineOK, pass # 0, current # 0,
         site' = site \/ \E n \in Nat : site' = file_replace(site, current, [here EXCEPT !.server = n])
  PROVE  Local(files'[current]) = Local(here)
<1>1. CASE site' = site
  BY <1>1 DEF files, here
<1>2. CASE \E n \in Nat : site' = file_replace(site, current, [here EXCEPT !.server = n])
  <2>1. PICK n \in Nat : site' = file_replace(site, current, [here EXCEPT !.server = n])
    BY <1>2
  <2>2. current \in DOMAIN site.files /\ here = site.files[current] /\ Exact(site) /\ here \in Entry
    BY CurrentHandled, CurrentEntry DEF EngineOK, here, files
  <2>3. site'.files = [site.files EXCEPT ![current] = [here EXCEPT !.server = n]]
    BY <2>1, <2>2, ServerTimeExact
  <2>4. QED
    BY <2>2, <2>3 DEF files, Local, Entry
<1>3. QED
  BY <1>1, <1>2

-----------------------------------------------------------------------------
(* tempupload: a file is whole when it has its name                        *)

\* No part of a file is at the place p.
WholeAt(p) == TypeAt(server, p) = "file" => server[p].content # Garbage

\* With `tempupload' the engine never uploads under a true name, and what it is
\* about to rename is whole.
WholeFiles ==
  opt.tempupload =>
    /\ \A n \in Names : WholeAt(<<n, "real">>)
    /\ step \notin {"check", "put", "put_if", "upload"}
    /\ step = "move" => WholeAt(temp_upload_filename(file_full_remote(Local(files[next]))))

\* A step of the engine brings no part of a file under a true name.
LEMMA WholeTree ==
  ASSUME RunInv, WholeFiles, EngineMoves, opt.tempupload
  PROVE  \A n \in Names : WholeAt(<<n, "real">>)'
<1> DEFINE temp == temp_upload_filename(PlaceOfLocal)
<1>0. EngineOK /\ server \in Tree /\ server' \in Tree
  BY DEF RunInv, EngineOK, EngineMoves
<1>1. SUFFICES ASSUME NEW n \in Names, TypeAt(server', <<n, "real">>) = "file"
               PROVE  server'[<<n, "real">>].content # Garbage
  BY DEF WholeAt
<1>2. PICK p \in Places : p = <<n, "real">>
  BY DEF Places
<1>3. WholeAt(p) /\ p[2] = "real" /\ TypeAt(server', p) = "file" /\ server'[p] # Absent
  BY <1>1, <1>2 DEF WholeFiles, TypeAt
<1>4. server'[p] = server[p] => server'[p].content # Garbage
  BY <1>3 DEF WholeAt, TypeAt
<1>5. \A S : Removes(server, server', S) => server'[p].content # Garbage
  BY <1>3, <1>4 DEF Removes
<1>6. CASE server' = server
  BY <1>2, <1>4, <1>6
<1>7. CASE \/ In("delete_files", "entry") /\ Removes(server, server', DeletedWith(PlaceOfStored))
           \/ In("delete_dirs", "entry") /\ Removes(server, server', DeletedWith(PlaceOfStored))
           \/ In("files", "delete") /\ Removes(server, server', DeletedWith(PlaceOfLocal))
  BY <1>2, <1>5, <1>7
<1>8. CASE DirAppears
  <2>1. NoData # Garbage
    BY ConstantsAssumption, ServerAssumption
  <2>2. p = PlaceOfLocal \/ server'[p] = server[p]
    BY <1>8 DEF DirAppears
  <2>3. QED
    BY <1>2, <1>4, <1>8, <2>1, <2>2 DEF DirAppears
<1>9. CASE ModeChanges
  <2>1. CASE p = PlaceOfLocal
    <3>1. PICK mode \in Modes : server'[p] = [server[p] EXCEPT !.mode = mode]
      BY <1>9, <2>1 DEF ModeChanges
    <3>2. server[p] \in RemoteFile
      BY <1>0, <1>9, <2>1, FileAt DEF ModeChanges
    <3>3. server'[p].content = server[p].content /\ server'[p].type = server[p].type
      BY <3>1, <3>2 DEF RemoteFile
    <3>4. QED
      BY <1>2, <1>3, <1>9, <2>1, <3>3 DEF WholeAt, TypeAt, ModeChanges
  <2>2. CASE p # PlaceOfLocal
    BY <1>2, <1>4, <1>9, <2>2 DEF ModeChanges
  <2>3. QED
    BY <2>1, <2>2
<1>10. CASE /\ In("move_files", "entry")
            /\ Moves(server, server', PlaceOfStored, PlaceOfLocal, ReplacedWith(PlaceOfLocal))
  <2>1. PlaceOfStored \in Places /\ PlaceOfStored[2] = "real" /\ TypeAt(server, PlaceOfStored) = "file"
    BY <1>0, <1>10, CurrentEntry, StatePlaces DEF In, PlaceOfStored, Moves
  <2>2. PICK m \in Names : PlaceOfStored = <<m, "real">>
    BY <2>1 DEF Places
  <2>3. server[PlaceOfStored].content # Garbage
    BY <2>1, <2>2 DEF WholeFiles, WholeAt
  <2>4. server'[p] \in {server[p], server[PlaceOfStored], Absent}
    BY <1>10 DEF Moves
  <2>5. QED
    BY <1>2, <1>3, <1>4, <2>3, <2>4
<1>11. CASE In("files", "put") \/ In("files", "put_if") \/ In("files", "upload")
  BY <1>11 DEF In, WholeFiles
<1>12. CASE In("files", "temp") /\ Uploads(server, server', temp, source(Local(here)), clock)
  <2>1. /\ temp \in Places /\ temp[2] = "temp" /\ source(Local(here)) \in SUBSET Contents
    BY <1>0, <1>12, CurrentEntry, StatePlaces, SourceTyped DEF In, PlaceOfLocal
  <2>2. clock \in Nat /\ p # temp
    BY <1>0, <1>3, <2>1 DEF EngineOK
  <2> HIDE DEF temp
  <2>3. server'[p] = server[p]
    <3>1. \A after, place, readable, now :
             Uploads(server, after, place, readable, now) /\ p # place => after[p] = server[p]
      BY <1>0, UploadsElsewhere
    <3>2. QED
      BY <1>12, <2>2, <3>1
  <2>4. QED
    BY <1>2, <1>4, <2>3
<1>13. CASE /\ In("files", "move")
            /\ Moves(server, server', temp, PlaceOfLocal, ReplacedWith(PlaceOfLocal))
  <2>1. current = next /\ step = "move" /\ pass # 0
    BY <1>0, <1>13, CurrentHandled DEF In
  <2>2. WholeAt(temp) /\ TypeAt(server, temp) = "file"
    BY <1>13, <2>1 DEF WholeFiles, PlaceOfLocal, here, Moves
  <2>3. temp[2] = "temp"
    BY <1>0, <1>13, CurrentEntry, StatePlaces DEF In, PlaceOfLocal
  <2> HIDE DEF temp
  <2>4. server'[p] \in {server[p], server[temp], Absent}
    BY <1>3, <1>13, <2>3 DEF Moves
  <2>5. QED
    BY <1>2, <1>3, <1>4, <2>2, <2>4 DEF WholeAt
<1>14. QED
  BY <1>6, <1>7, <1>8, <1>9, <1>10, <1>11, <1>12, <1>13 DEF EngineMoves, TreeMoves

\* A step of the engine goes on with no upload under a true name, and with a
\* rename only when the upload under the temporary name was complete.
LEMMA WholeSteps ==
  ASSUME RunInv, WholeFiles, EngineMoves, opt.tempupload, opt.protocol # "sftp"
  PROVE  /\ step' \notin {"check", "put", "put_if", "upload"}
         /\ (step = "move" => WholeAt(temp_upload_filename(file_full_remote(Local(files[next])))))'
<1> DEFINE temp == temp_upload_filename(PlaceOfLocal)
<1>0. EngineOK /\ ~opt.safemode /\ step # "check" /\ server' \in Tree /\ server \in Tree
  BY OptionsTyped DEF RunInv, WholeFiles, EngineMoves, EngineOK
<1>1. CASE step' = "entry"
  BY <1>1
<1>2. CASE /\ pass # 0 /\ current # 0 /\ next' = current /\ NextCall
           /\ site' = site \/ \E n \in Nat : site' = file_replace(site, current, [here EXCEPT !.server = n])
  <2>1. upload_step(here) = "temp"
    BY <1>0 DEF upload_step
  <2>2. step' \notin {"check", "put", "put_if", "upload"}
    BY <1>0, <1>2, <2>1 DEF NextCall
  <2>3. ASSUME step' = "move"
        PROVE  WholeAt(temp_upload_filename(file_full_remote(Local(files[next]))))'
    <3>1. In("files", "temp") /\ TempUploaded
      BY <1>2, <2>1, <2>3 DEF NextCall
    <3>2. Local(files'[next']) = Local(here)
      BY <1>0, <1>2, SameEntry
    <3>3. PICK t \in Places : t = temp
      BY <1>0, <3>1, CurrentEntry, StatePlaces DEF In, PlaceOfLocal
    <3>4. t = temp_upload_filename(file_full_remote(Local(files'[next'])))
      BY <3>2, <3>3 DEF PlaceOfLocal
    <3>5. TypeAt(server', t) = "file" => server'[t].content # Garbage
      <4>1. CASE \E c \in source(Local(here)) : server' = Uploaded_to(server, t, c, clock)
        <5>1. PICK c \in source(Local(here)) : server' = Uploaded_to(server, t, c, clock)
          BY <4>1
        <5>2. c \in Contents
          BY <1>0, <3>1, CurrentEntry, SourceTyped DEF In
        <5>3. clock \in Nat
          BY <1>0 DEF EngineOK
        <5>4. server'[t].content = c
          BY <1>0, <5>1, <5>2, <5>3, UploadedTree
        <5>5. QED
          BY <5>2, <5>4, ServerAssumption
      <4>2. CASE TypeAt(server, t) = "dir" /\ server' = server
        BY <4>2
      <4>3. QED
        BY <3>1, <3>3, <4>1, <4>2 DEF TempUploaded, UploadsAll
    <3>6. QED
      BY <3>4, <3>5 DEF WholeAt
  <2>4. QED
    BY <2>2, <2>3
<1>3. QED
  BY <1>1, <1>2 DEF EngineMoves, ControlMoves

\* The invariant of `tempupload' is kept by every step.
LEMMA WholeKept ==
  ASSUME \A o \in Options : o.tempupload => o.protocol # "sftp",
         RunInv, WholeFiles, [RunNext]_allVars
  PROVE  WholeFiles'
<1>0. EngineOK /\ opt \in Options
  BY OptionsTyped DEF RunInv
<1>1. CASE EngineMoves /\ opt' = opt
  <2>1. SUFFICES ASSUME opt.tempupload
                 PROVE  /\ \A n \in Names : WholeAt(<<n, "real">>)'
                        /\ step' \notin {"check", "put", "put_if", "upload"}
                        /\ (step = "move" => WholeAt(temp_upload_filename(file_full_remote(Local(files[next])))))'
    BY <1>1 DEF WholeFiles
  <2>2. opt.protocol # "sftp"
    BY <1>0, <2>1
  <2>3. QED
    BY <1>1, <2>1, <2>2, WholeTree, WholeSteps
<1>2. CASE Outsider /\ UNCHANGED <<site, pass, next, step>>
  <2>1. PICK n \in Names : server' = Uploaded_to(server, <<n, "real">>, Foreign, clock)
    BY <1>2 DEF Outsider
  <2>2. PICK q \in Places : q = <<n, "real">>
    BY DEF Places
  <2>3. Foreign \in Contents /\ Foreign # Garbage /\ clock \in Nat /\ server \in Tree
    BY <1>0, <1>2, RunAssumption, ServerAssumption DEF Outsider, EngineOK
  <2>4. server'[q].content = Foreign /\ \A p \in Places \ {q} : server'[p] = server[p]
    BY <2>1, <2>2, <2>3, UploadedTree
  <2>5. \A p \in Places : WholeAt(p) => (TypeAt(server', p) = "file" => server'[p].content # Garbage)
    BY <2>3, <2>4 DEF WholeAt, TypeAt
  <2>6. \A n1 \in Names : <<n1, "real">> \in Places
    BY DEF Places
  <2>7. CASE step = "move"
    <3>1. /\ pass # 0 /\ handlers[pass] \in {"create_dirs", "files"}
          /\ next \in DOMAIN files /\ handles(handlers[pass], files[next])
      BY <1>0, <2>7 DEF EngineOK, AtEntry, SlowPasses
    <3>2. files[next].diff \in {"new", "changed"}
      BY <3>1 DEF handles
    <3>3. Local(files[next]) \in FileState
      <4>1. SiteOK(site) /\ next \in DOMAIN site.files /\ files = site.files
        BY <1>0, <3>1 DEF EngineOK, Exact, files
      <4>2. EntryOK(files[next], site) /\ Local(files[next]) \in FileState \cup {Absent}
        BY <4>1, EntryStates DEF SiteOK
      <4>3. QED
        BY <3>2, <4>2, DiffTellsStates
    <3>4. temp_upload_filename(file_full_remote(Local(files[next]))) \in Places
      BY <3>3, StatePlaces
    <3>5. QED
      BY <1>2, <2>5, <2>6, <3>4 DEF WholeFiles, WholeAt, files, opt
  <2>8. CASE step # "move"
    BY <1>2, <2>5, <2>6, <2>8 DEF WholeFiles, WholeAt, opt
  <2>9. QED
    BY <2>7, <2>8
<1>3. CASE Aside
  BY <1>3 DEF Aside, WholeFiles, WholeAt, files
<1>4. QED
  BY <1>1, <1>2, <1>3, RunMoves

\* With `tempupload' nobody ever finds a part of a file under its true name,
\* whatever breaks an upload and whenever the program is killed.  The SFTP
\* driver is left out: it takes an upload that broke for a success.
THEOREM PartsStayHidden ==
  ASSUME \A o \in Options : o.tempupload => o.protocol # "sftp"
  PROVE  RunSpec => []NoPartialFileVisible
<1>1. RunInit => WholeFiles
  <2>1. SUFFICES ASSUME RunInit PROVE WholeFiles
    OBVIOUS
  <2>2. \A n \in Names : server[<<n, "real">>] = Absent
    <3>1. server = [p \in Places |-> Absent]
      BY <2>1 DEF RunInit, EmptyTree
    <3>2. \A n \in Names : <<n, "real">> \in Places
      BY DEF Places
    <3>3. QED
      BY <3>1, <3>2
  <2>3. QED
    BY <2>1, <2>2 DEF RunInit, WholeFiles, WholeAt, TypeAt
<1>2. RunInv /\ WholeFiles /\ [RunNext]_allVars => WholeFiles'
  BY WholeKept
<1>3. WholeFiles => NoPartialFileVisible
  BY DEF WholeFiles, NoPartialFileVisible, WholeAt
<1>4. QED
  BY <1>1, <1>2, <1>3, RunInvariant, PTL DEF RunSpec

-----------------------------------------------------------------------------
(* nodelete: nothing goes away                                             *)

\* What `nodelete' needs of the rest of the options: no driver call that takes
\* away what is in its way.  MOVE of WebDAV removes a collection with the name
\* that a file is to have, and mv puts the file into the directory.
KeepsTargets(o) ==
  o.nodelete /\ ~o.nooverwrite =>
    /\ o.checkmoved => o.protocol = "ftp"
    /\ o.tempupload => o.protocol # "dav"

\* Only `nooverwrite' makes the engine delete a file before it is uploaded, and
\* only `tempupload' makes it rename one.
StepsAsked ==
  /\ step = "delete" => opt.nooverwrite
  /\ step \in {"temp", "move"} => opt.tempupload

\* A step of the engine removes nothing from under a true name but to move it.
LEMMA NothingDeleted ==
  ASSUME RunInv, StepsAsked, EngineMoves, KeepsTargets(opt), opt.nodelete, ~opt.nooverwrite,
         NEW n \in Names, server[<<n, "real">>] # Absent, server'[<<n, "real">>] = Absent
  PROVE  opt.checkmoved /\ \E m \in Names : server'[<<m, "real">>] = server[<<n, "real">>]
<1> DEFINE temp == temp_upload_filename(PlaceOfLocal)
<1>0. EngineOK /\ server \in Tree /\ server' \in Tree
  BY DEF RunInv, EngineOK, EngineMoves
<1>1. PICK p \in Places : p = <<n, "real">>
  BY DEF Places
<1>2. p[2] = "real" /\ server[p] # Absent /\ server'[p] = Absent /\ server' # server
  BY <1>1
<1>3. CASE In("delete_files", "entry") \/ In("delete_dirs", "entry")
  BY <1>0, <1>3, CurrentEntry DEF In
<1>4. CASE In("files", "delete")
  BY <1>4 DEF In, StepsAsked
<1>5. CASE DirAppears \/ ModeChanges
  BY <1>2, <1>5, TreeAssumption DEF DirAppears, ModeChanges
<1>6. CASE /\ In("move_files", "entry")
           /\ Moves(server, server', PlaceOfStored, PlaceOfLocal, ReplacedWith(PlaceOfLocal))
           /\ opt.protocol = "ftp" => TypeAt(server, PlaceOfLocal) # "dir"
  <2>1. opt.checkmoved /\ PlaceOfStored \in Places /\ PlaceOfLocal \in Places /\ PlaceOfLocal[2] = "real"
    BY <1>0, <1>6, CurrentEntry, StatePlaces DEF In, PlaceOfStored, PlaceOfLocal
  <2>2. opt.protocol = "ftp" /\ ReplacedWith(PlaceOfLocal) = {}
    BY <2>1 DEF KeepsTargets, ReplacedWith
  <2>3. PICK m \in Names : PlaceOfLocal = <<m, "real">>
    BY <2>1 DEF Places
  <2>4. p \in {PlaceOfStored, PlaceOfLocal}
    BY <1>2, <1>6, <2>2 DEF Moves
  <2>5. TypeAt(server, PlaceOfStored) = "file" /\ server[PlaceOfStored] # Absent
    BY <1>6 DEF Moves, TypeAt
  <2>6. CASE server'[PlaceOfLocal] = server[PlaceOfStored]
    BY <1>1, <1>2, <2>1, <2>3, <2>4, <2>5, <2>6
  <2>7. CASE server'[PlaceOfLocal] # server[PlaceOfStored]
    BY <1>6, <2>2, <2>7 DEF Moves
  <2>8. QED
    BY <2>6, <2>7
<1>7. CASE \/ /\ In("files", "put") \/ In("files", "put_if") \/ In("files", "upload")
              /\ Uploads(server, server', PlaceOfLocal, source(Local(here)), clock)
           \/ /\ In("files", "temp")
              /\ Uploads(server, server', temp, source(Local(here)), clock)
  <2>1. PICK q \in Places : Uploads(server, server', q, source(Local(here)), clock)
    BY <1>0, <1>7, CurrentEntry, StatePlaces DEF In, PlaceOfLocal
  <2>2. source(Local(here)) \in SUBSET Contents /\ clock \in Nat
    BY <1>0, <1>7, CurrentEntry, SourceTyped DEF In, EngineOK
  <2>3. /\ \A r \in Places \ {q} : server'[r] = server[r]
        /\ server' = server \/ (server'[q] \in RemoteFile /\ server'[q].type = "file")
    <3> DEFINE src == source(Local(here))
    <3>1. src \in SUBSET Contents /\ Uploads(server, server', q, src, clock)
      BY <2>1, <2>2
    <3> HIDE DEF src
    <3>2. QED
      BY <1>0, <2>2, <3>1, UploadsTyped
  <2>4. QED
    BY <1>2, <2>3, TreeAssumption
<1>8. CASE /\ In("files", "move")
           /\ Moves(server, server', temp, PlaceOfLocal, ReplacedWith(PlaceOfLocal))
  <2>1. PlaceOfLocal \in Places /\ temp \in Places /\ temp # PlaceOfLocal /\ temp[2] = "temp"
    BY <1>0, <1>8, CurrentEntry, StatePlaces DEF In, PlaceOfLocal
  <2>2. TypeAt(server, temp) = "file" /\ server[temp] # Absent
    BY <1>8 DEF Moves, TypeAt
  <2> HIDE DEF temp
  <2>3. p = PlaceOfLocal \/ server'[p] = server[p] \/ p \in ReplacedWith(PlaceOfLocal)
    BY <1>2, <1>8, <2>1 DEF Moves
  <2>4. server'[PlaceOfLocal] # Absent
    BY <1>8, <2>1, <2>2 DEF Moves, TypeAt
  <2>5. p \in ReplacedWith(PlaceOfLocal) /\ opt.protocol = "dav"
    BY <1>2, <2>3, <2>4 DEF ReplacedWith
  <2>6. opt.tempupload
    BY <1>8 DEF In, StepsAsked
  <2>7. QED
    BY <2>5, <2>6 DEF KeepsTargets
<1>9. QED
  BY <1>2, <1>3, <1>4, <1>5, <1>6, <1>7, <1>8 DEF EngineMoves, TreeMoves

\* The engine asks for no delete and no rename but for these options.
LEMMA StepsAskedKept ==
  ASSUME RunInv, StepsAsked, [RunNext]_allVars
  PROVE  StepsAsked'
<1>1. CASE EngineMoves /\ opt' = opt
  <2>1. CASE step' = "entry"
    BY <2>1 DEF StepsAsked
  <2>2. CASE NextCall
    <3>1. upload_step(here) \in {"check", "put_if", "upload", "temp"}
          /\ (upload_step(here) = "temp" => opt.tempupload)
      BY DEF upload_step
    <3>2. In("files", "temp") => opt.tempupload
      BY DEF In, StepsAsked
    <3>3. QED
      BY <1>1, <2>2, <3>1, <3>2 DEF NextCall, StepsAsked
  <2>3. QED
    BY <1>1, <2>1, <2>2 DEF EngineMoves, ControlMoves
<1>2. CASE Outsider /\ UNCHANGED <<site, pass, next, step>>
  BY <1>2 DEF StepsAsked, opt
<1>3. CASE Aside
  BY <1>3 DEF StepsAsked, Aside
<1>4. QED
  BY <1>1, <1>2, <1>3, RunMoves

\* `nodelete' prevents remote files from being deleted: in no step of any run
\* does a file or a directory of the server go away, but when it is moved, and
\* then it is found under its new name.  KeepsTargets says for which sites.
THEOREM NothingIsDeleted ==
  ASSUME \A o \in Options : KeepsTargets(o)
  PROVE  RunSpec => NodeleteDeletesNothing
<1> DEFINE Step == opt.nodelete /\ ~opt.nooverwrite =>
                     \A n \in Names :
                        LET p == <<n, "real">>
                        IN  server[p] # Absent /\ server'[p] = Absent =>
                              opt.checkmoved /\ \E m \in Names : server'[<<m, "real">>] = server[p]
<1>1. RunInv /\ StepsAsked /\ [RunNext]_allVars => [Step]_allVars
  <2>1. SUFFICES ASSUME RunInv, StepsAsked, [RunNext]_allVars, opt.nodelete, ~opt.nooverwrite,
                        NEW n \in Names, server[<<n, "real">>] # Absent, server'[<<n, "real">>] = Absent
                 PROVE  opt.checkmoved /\ \E m \in Names : server'[<<m, "real">>] = server[<<n, "real">>]
    OBVIOUS
  <2>2. EngineOK /\ opt \in Options /\ KeepsTargets(opt)
    BY <2>1, OptionsTyped DEF RunInv
  <2>3. CASE EngineMoves
    BY <2>1, <2>2, <2>3, NothingDeleted
  <2>4. CASE Outsider
    <3>1. PICK m \in Names : server' = Uploaded_to(server, <<m, "real">>, Foreign, clock)
      BY <2>4 DEF Outsider
    <3>2. Foreign \in Contents \cup {Garbage} /\ clock \in Nat /\ server \in Tree
      BY <2>2, <2>4, RunAssumption DEF Outsider, EngineOK
    <3>3. PICK q \in Places : q = <<m, "real">>
      BY DEF Places
    <3>4. server'[q] \in RemoteFile /\ \A p \in Places \ {q} : server'[p] = server[p]
      BY <3>1, <3>2, <3>3, UploadedTree
    <3>5. <<n, "real">> \in Places
      BY DEF Places
    <3>6. QED
      BY <2>1, <3>4, <3>5, TreeAssumption
  <2>5. CASE Aside
    BY <2>1, <2>5 DEF Aside
  <2>6. QED
    BY <2>1, <2>3, <2>4, <2>5, RunMoves
<1>2. RunInit => StepsAsked
  BY DEF RunInit, StepsAsked
<1>3. RunInv /\ StepsAsked /\ [RunNext]_allVars => StepsAsked'
  BY StepsAskedKept
<1>4. QED
  BY <1>1, <1>2, <1>3, RunInvariant, PTL DEF RunSpec, NodeleteDeletesNothing

-----------------------------------------------------------------------------
(* A plain update: what is published stays published                       *)

\* A step of the engine keeps the names apart, and every local file in the list.
LEMMA EngineKeyed ==
  ASSUME EngineOK, EngineMoves, Keyed(files)
  PROVE  /\ Keyed(files')
         /\ \A t, n : HasKey(files, "local", t, n) => HasKey(files', "local", t, n)
<1>1. Exact(site) /\ site \in Site /\ site.files \in Seq(Entry) /\ DOMAIN site.files = 1 .. Len(site.files)
      /\ Keyed(site.files) /\ files = site.files /\ files' = site'.files
  BY DEF EngineOK, Exact, SiteOK, Site, files
<1>2. CASE site' = site
  BY <1>1, <1>2
<1>3. CASE site' # site
  <2>1. pass # 0 /\ current # 0 /\ current \in DOMAIN site.files /\ here = site.files[current]
    BY <1>3, CurrentHandled DEF EngineMoves, SiteMoves, files, here
  <2>2. here.st \in [Sides -> FileState \cup {Absent}] /\ Sides = {"local", "stored"}
    BY <1>1, <2>1, EntryStates DEF Exact, Sides
  <2>3. CASE handlers[pass] \in {"delete_files", "delete_dirs"} /\ site' = file_delete(site, current)
    <3>1. site'.files = Removed(site.files, current)
      BY <1>1, <2>1, <2>3, DeleteFiles
    <3>2. Local(here) = Absent
      BY <2>1, <2>3, CurrentEntry
    <3>3. \A t, n : ~Stands(here, "local", t, n)
      BY <3>2 DEF Stands, Local
    <3>4. QED
      BY <1>1, <2>1, <2>2, <3>1, <3>3, KeyedRemoved
  <2>4. CASE Local(here) # Absent /\ site' = file_uploaded(site, current)
    <3> DEFINE st == [x \in Sides |-> Local(here)]
    <3>1. site' = set_states(site, current, st)
      BY <2>1, <2>4 DEF file_uploaded
    <3>2. st \in [Sides -> FileState \cup {Absent}] /\ st["local"] = Local(here)
      BY <2>2 DEF Local
    <3>3. \A x \in Sides : st[x] # Absent =>
            \E y \in Sides : here.st[y] # Absent /\ here.st[y].filename = st[x].filename
      BY <2>2, <2>4 DEF Local
    <3> HIDE DEF st
    <3>4. QED
      BY <1>1, <2>1, <3>1, <3>2, <3>3, SetStatesKeyed
  <2>5. CASE Local(here) # Absent /\ Stored(here) # Absent /\ site' = chmod_done(site, current)
    <3> DEFINE st == [here.st EXCEPT !["stored"] = [Stored(here) EXCEPT !.mode = Local(here).mode]]
    <3>1. site' = set_states(site, current, st)
      BY <2>1, <2>5 DEF chmod_done
    <3>2. Stored(here) \in FileState /\ Local(here) \in FileState
      BY <2>2, <2>5 DEF Stored, Local
    <3>3. [Stored(here) EXCEPT !.mode = Local(here).mode] \in FileState
          /\ [Stored(here) EXCEPT !.mode = Local(here).mode].filename = Stored(here).filename
      BY <3>2 DEF FileState
    <3>4. st \in [Sides -> FileState \cup {Absent}] /\ st["local"] = Local(here)
          /\ st["stored"] = [Stored(here) EXCEPT !.mode = Local(here).mode]
      BY <2>2, <3>3 DEF Local
    <3>5. \A x \in Sides : st[x] # Absent =>
            \E y \in Sides : here.st[y] # Absent /\ here.st[y].filename = st[x].filename
      BY <2>2, <2>5, <3>3, <3>4 DEF Local, Stored
    <3> HIDE DEF st
    <3>6. QED
      BY <1>1, <2>1, <3>1, <3>4, <3>5, SetStatesKeyed
  <2>6. CASE \E n \in Nat : site' = file_replace(site, current, [here EXCEPT !.server = n])
    <3>1. PICK n \in Nat : site' = file_replace(site, current, [here EXCEPT !.server = n])
      BY <2>6
    <3>2. QED
      BY <1>1, <2>1, <2>2, <3>1, ServerTimeKeyed
  <2>7. QED
    BY <1>3, <2>3, <2>4, <2>5, <2>6 DEF EngineMoves, SiteMoves
<1>4. QED
  BY <1>2, <1>3

\* The local file n, if there is one, has an entry in the list.
InList(n) == local[n] # Absent => HasKey(files, "local", local[n].type, n)

\* Without `checkmoved' no file has two entries in the list, or two items in the
\* info file, because no file is merged twice: not what has been scanned, and
\* not what has been read.  What has been scanned stays in the list.
KeysInv ==
  ~opt.checkmoved =>
    /\ Keyed(files)
    /\ KeyedItems(info.items)
    /\ pc = "read_local" =>
         /\ \A t \in FileTypes : \A n \in Names : ~HasKey(files, "stored", t, n)
         /\ \A t \in FileTypes : \A n \in unread : ~HasKey(files, "local", t, n)
         /\ \A n \in Names \ unread : InList(n)
    /\ pc = "read_stored" =>
         \A k \in DOMAIN info.items : k >= item =>
           ~HasKey(files, "stored", info.items[k].type, info.items[k].state.filename)
    /\ pc \in {"read_stored", "act", "update", "save"} => \A n \in Names : InList(n)

\* A file scanned is merged into a list that has no local file of this name.
LEMMA ScanKeyed ==
  ASSUME RunInv, KeysInv, ~opt.checkmoved, ReadLocalFile
  PROVE  KeysInv'
<1>1. /\ pc = "read_local" /\ pc' = pc /\ local' = local /\ info' = info /\ unread \subseteq Names
      /\ SiteOK(site) /\ files = site.files /\ files' = site'.files /\ ~site.opt.checkmoved
      /\ local \in [Names -> LocalFile \cup {Absent}]
  BY DEF ReadLocalFile, RunInv, EngineOK, Exact, files, opt
<1>2. PICK n \in unread :
        /\ unread' = unread \ {n}
        /\ site' = IF local[n] = Absent THEN site
                   ELSE file_set_local(site, local[n].type,
                          [filename |-> n, content |-> local[n].content, mode |-> local[n].mode])
  BY DEF ReadLocalFile
<1>3. n \in Names /\ local[n] \in LocalFile \cup {Absent}
  BY <1>1
<1>4. CASE local[n] = Absent
  BY <1>1, <1>2, <1>3, <1>4 DEF KeysInv, InList
<1>5. CASE local[n] # Absent
  <2> DEFINE state == [filename |-> n, content |-> local[n].content, mode |-> local[n].mode]
             type  == local[n].type
  <2>1. type \in FileTypes /\ state \in FileState /\ state.filename = n
    BY <1>3, <1>5 DEF LocalFile, FileTypes, FileState
  <2>2. site' = file_set(site, "local", type, state) /\ "local" \in Sides /\ "stored" \in Sides
    BY <1>2, <1>5 DEF file_set_local, Sides
  <2> HIDE DEF state, type
  <2>3. ~HasKey(site.files, "local", type, state.filename) /\ Keyed(site.files)
    BY <1>1, <2>1 DEF KeysInv
  <2>4. /\ Keyed(files')
        /\ \A x \in Sides : \A t, m :
             HasKey(files', x, t, m) <=> HasKey(files, x, t, m) \/ (x = "local" /\ t = type /\ m = n)
    <3>1. KeyAdded(file_set(site, "local", type, state).files, site.files, "local", type, state.filename)
      BY <1>1, <2>1, <2>2, <2>3, FileSetKeyed
    <3>2. KeyAdded(files', files, "local", type, n)
      BY <1>1, <2>1, <2>2, <3>1
    <3>3. QED
      BY <3>2 DEF KeyAdded
  <2>5. \A t \in FileTypes : \A m \in Names : ~HasKey(files', "stored", t, m)
    BY <1>1, <2>2, <2>4 DEF KeysInv
  <2>6. \A t \in FileTypes : \A m \in unread' : ~HasKey(files', "local", t, m)
    BY <1>1, <1>2, <2>2, <2>4 DEF KeysInv
  <2>7. ASSUME NEW m \in Names \ unread', local[m] # Absent
        PROVE  HasKey(files', "local", local[m].type, m)
    <3>1. CASE m = n
      BY <2>2, <2>4, <3>1 DEF type
    <3>2. CASE m # n
      BY <1>1, <1>2, <2>2, <2>4, <2>7, <3>2 DEF KeysInv, InList
    <3>3. QED
      BY <3>1, <3>2
  <2>8. KeyedItems(info.items)
    BY DEF KeysInv
  <2>9. QED
    BY <1>1, <2>4, <2>5, <2>6, <2>7, <2>8 DEF KeysInv, InList
<1>6. QED
  BY <1>4, <1>5

\* An item read is merged into a list that has no stored file of this name.
LEMMA ReadAdded ==
  ASSUME RunInv, KeysInv, ~opt.checkmoved, ReadItem
  PROVE  LET it == info.items[item]
         IN  /\ item \in DOMAIN info.items /\ it.type \in FileTypes /\ it.state \in FileState
             /\ KeyAdded(files', files, "stored", it.type, it.state.filename)
             /\ IgnoresNamed(files) => IgnoresNamed(files')
<1> DEFINE it   == info.items[item]
           u    == file_set_stored(site, it.type, it.state)
           k    == file_set_index(site, "stored", it.type, it.state)
           time == server_modtime(doc, it)
<1>1. /\ Exact(site) /\ site \in Site /\ SiteOK(site) /\ ~site.opt.checkmoved
      /\ files = site.files /\ files' = site'.files /\ pc = "read_stored"
      /\ info.items \in Seq(Item) /\ item \in Nat /\ item # 0 /\ item =< Len(info.items) /\ doc \in Nat
  BY DEF ReadItem, RunInv, EngineOK, Exact, SiteOK, files, opt, InfoFile
<1>2. it \in Item /\ it.type \in FileTypes /\ it.state \in FileState /\ it.server \in Nat
      /\ item \in DOMAIN info.items
  <2>1. it \in Item
    BY <1>1, ItemAt
  <2>2. QED
    BY <1>1, <2>1 DEF Item
<1>3. time \in Nat
  BY <1>1, <1>2 DEF server_modtime
<1>4. site' = IF time = 0 THEN u ELSE file_replace(u, k, [u.files[k] EXCEPT !.server = time])
  BY DEF ReadItem, read_item
<1>5. Exact(u) /\ k \in DOMAIN u.files
  BY <1>1, <1>2, FileSetExact, SetIndex DEF file_set_stored, Sides
<1>6. ~HasKey(site.files, "stored", it.type, it.state.filename) /\ Keyed(site.files)
  BY <1>1, <1>2 DEF KeysInv
<1>7. KeyAdded(u.files, files, "stored", it.type, it.state.filename)
      /\ (IgnoresNamed(files) => IgnoresNamed(u.files))
  <2>1. u = file_set(site, "stored", it.type, it.state) /\ "stored" \in Sides
    BY DEF file_set_stored, Sides
  <2> HIDE DEF it, u
  <2>2. QED
    BY <1>1, <1>2, <1>6, <2>1, FileSetKeyed, FileSetIgnores
<1> HIDE DEF u, k, time
<1>8. KeyAdded(files', files, "stored", it.type, it.state.filename)
  <2>1. CASE time = 0
    BY <1>1, <1>4, <1>7, <2>1
  <2>2. CASE time # 0
    <3>1. /\ Keyed(files')
          /\ \A x \in Sides : \A t, m : HasKey(files', x, t, m) <=> HasKey(u.files, x, t, m)
      BY <1>1, <1>3, <1>4, <1>5, <1>7, <2>2, ServerTimeKeyed DEF KeyAdded
    <3>2. QED
      BY <1>7, <3>1 DEF KeyAdded
  <2>3. QED
    BY <2>1, <2>2
<1>9. ASSUME IgnoresNamed(files) PROVE IgnoresNamed(files')
  <2>1. CASE time = 0
    BY <1>1, <1>4, <1>7, <1>9, <2>1
  <2>2. CASE time # 0
    <3> DEFINE g == [u.files[k] EXCEPT !.server = time]
    <3>1. files' = [u.files EXCEPT ![k] = g]
      BY <1>1, <1>3, <1>4, <1>5, <2>2, ServerTimeExact
    <3>2. u.files[k] \in Entry
      BY <1>5 DEF Exact, SiteOK, EntryOK
    <3>3. g.ignore = u.files[k].ignore /\ g.st = u.files[k].st
      BY <3>2 DEF Entry
    <3> HIDE DEF g
    <3>4. \A j \in DOMAIN files' : j \in DOMAIN u.files /\ files'[j] = IF j = k THEN g ELSE u.files[j]
      BY <3>1
    <3>5. QED
      BY <1>7, <1>9, <3>3, <3>4 DEF IgnoresNamed
  <2>3. QED
    BY <2>1, <2>2
<1>10. QED
  BY <1>2, <1>8, <1>9

\* ... and so the names stay apart.
LEMMA ReadKeyed ==
  ASSUME RunInv, KeysInv, ~opt.checkmoved, ReadItem
  PROVE  KeysInv'
<1> DEFINE it == info.items[item]
<1>1. /\ pc = "read_stored" /\ pc' = pc /\ local' = local /\ info' = info /\ item' = item + 1
      /\ info.items \in Seq(Item) /\ item \in Nat
  BY DEF ReadItem, RunInv, InfoFile
<1>2. /\ Keyed(files')
      /\ \A x \in Sides : \A t, m :
           HasKey(files', x, t, m) <=>
             HasKey(files, x, t, m) \/ (x = "stored" /\ t = it.type /\ m = it.state.filename)
  BY ReadAdded DEF KeyAdded
<1>3. item \in DOMAIN info.items
  BY ReadAdded
<1>4. KeyedItems(info.items)
  BY DEF KeysInv
<1>5. ASSUME NEW l \in DOMAIN info.items, l >= item'
      PROVE  ~HasKey(files', "stored", info.items[l].type, info.items[l].state.filename)
  <2>1. l \in Nat /\ l >= item /\ l # item
    BY <1>1, <1>5
  <2>2. ~(info.items[l].type = it.type /\ info.items[l].state.filename = it.state.filename)
    BY <1>3, <1>4, <2>1 DEF KeyedItems
  <2>3. ~HasKey(files, "stored", info.items[l].type, info.items[l].state.filename)
    BY <1>1, <2>1 DEF KeysInv
  <2>4. "stored" \in Sides
    BY DEF Sides
  <2>5. QED
    BY <1>2, <2>2, <2>3, <2>4
<1>6. \A m \in Names : InList(m)'
  <2>1. "local" \in Sides
    BY DEF Sides
  <2>2. QED
    BY <1>1, <1>2, <2>1 DEF KeysInv, InList
<1>7. QED
  BY <1>1, <1>2, <1>4, <1>5, <1>6 DEF KeysInv

\* Every step keeps the names apart.
LEMMA KeysKept ==
  ASSUME EditPcs \subseteq {"idle"}, RunInv, KeysInv, [RunNext]_allVars
  PROVE  KeysInv'
<1>0. opt' = opt
  BY RunMoves DEF Outsider, Aside, opt
<1>1. SUFFICES ASSUME ~opt.checkmoved PROVE KeysInv'
  BY <1>0 DEF KeysInv
<1>2. /\ Keyed(files) /\ KeyedItems(info.items) /\ files' = site'.files /\ files = site.files
      /\ Exact(site) /\ EngineOK
  BY <1>1 DEF KeysInv, RunInv, EngineOK, files
<1>3. CASE ReadLocalFile
  BY <1>1, <1>3, ScanKeyed
<1>4. CASE ReadItem
  BY <1>1, <1>4, ReadKeyed
<1>5. CASE StartRun
  <2>1. files' = << >> /\ DOMAIN << >> = {}
    BY <1>2, <1>5 DEF StartRun, EmptySite
  <2>2. Keyed(files') /\ \A x, t, n : ~HasKey(files', x, t, n)
    BY <2>1 DEF Keyed, HasKey
  <2>3. \A n \in Names \ unread' : InList(n)'
    BY <1>5 DEF StartRun, InList
  <2>4. QED
    BY <1>2, <1>5, <2>2, <2>3 DEF StartRun, KeysInv
<1>6. CASE ReadInfo
  <2>1. /\ pc = "read_local" /\ unread = {} /\ UNCHANGED <<files, local, info, unread>>
        /\ pc' = "idle" \/ (pc' = "read_stored" /\ item' = 1)
    BY <1>6 DEF ReadInfo, updateVars, files
  <2>2. \A n \in Names : InList(n)'
    BY <1>1, <2>1 DEF KeysInv, InList
  <2>3. \A k \in DOMAIN info.items :
          ~HasKey(files, "stored", info.items[k].type, info.items[k].state.filename)
    <3>1. ASSUME NEW k \in DOMAIN info.items
          PROVE  info.items[k].type \in FileTypes /\ info.items[k].state.filename \in Names
      <4>1. info.items \in Seq(Item)
        BY DEF RunInv, InfoFile
      <4>2. info.items[k] \in Item
        BY <4>1
      <4>3. QED
        BY <4>2 DEF Item, FileState
    <3>2. QED
      BY <1>1, <2>1, <3>1 DEF KeysInv
  <2>4. QED
    BY <1>2, <2>1, <2>2, <2>3 DEF KeysInv
<1>7. CASE Update \/ OpenStorage
  <2>1. EngineMoves
    BY <1>7, UpdateMoves, StartMoves DEF Update, OpenStorage, RunInv
  <2>2. Keyed(files') /\ \A t, n : HasKey(files, "local", t, n) => HasKey(files', "local", t, n)
    BY <1>2, <2>1, EngineKeyed
  <2>3. KeyedItems(info'.items) /\ pc' = "update" /\ pc \in {"act", "update"} /\ local' = local
    BY <1>2, <1>7, <2>1 DEF Update, OpenStorage, runVars, TruncatedInfo, KeyedItems, EngineMoves
  <2>4. \A n \in Names : InList(n)'
    BY <1>1, <2>2, <2>3 DEF KeysInv, InList
  <2>5. QED
    BY <2>2, <2>3, <2>4 DEF KeysInv
<1>8. CASE SaveState
  <2>1. site.files \in Seq(Entry)
    BY <1>2 DEF Exact, SiteOK, Site
  <2>2. KeyedItems(info'.items)
    BY <1>2, <1>8, <2>1, ItemsKeyed DEF SaveState, ValidInfo
  <2>3. QED
    BY <1>2, <1>8, <2>2 DEF SaveState, KeysInv, updateVars, files
<1>9. CASE Initialize \/ Edit \/ Killed
  <2>1. pc' = "idle" /\ files' = files /\ KeyedItems(info'.items)
    <3>1. CASE Initialize
      BY <1>2, <3>1 DEF Initialize, ValidInfo, KeyedItems, updateVars, files
    <3>2. CASE Edit
      BY <1>2, <3>2 DEF Edit, runVars, files
    <3>3. CASE Killed
      BY <1>2, <3>3 DEF Killed, files
    <3>4. QED
      BY <1>9, <3>1, <3>2, <3>3
  <2>2. QED
    BY <1>2, <2>1 DEF KeysInv
<1>10. CASE StoredRead \/ UpdateReturns \/ NothingToDo
  <2>1. /\ UNCHANGED <<files, local, info>>
        /\ \/ pc = "read_stored" /\ pc' = "act"
           \/ pc = "update" /\ pc' = "save"
           \/ pc' = "idle"
    BY <1>10 DEF StoredRead, UpdateReturns, NothingToDo, updateVars, files
  <2>2. pc' # "idle" => \A n \in Names : InList(n)'
    BY <1>1, <2>1 DEF KeysInv, InList
  <2>3. QED
    BY <1>2, <2>1, <2>2 DEF KeysInv
<1>11. CASE Tick \/ Outsider \/ UNCHANGED allVars
  <2>1. UNCHANGED <<files, opt, local, info, pc, unread, item>>
    BY <1>11 DEF Tick, Outsider, allVars, updateVars, runVars, files, opt
  <2>2. \A n : InList(n)' <=> InList(n)
    BY <2>1 DEF InList
  <2>3. QED
    BY <2>1, <2>2 DEF KeysInv
<1>12. QED
  BY <1>3, <1>4, <1>5, <1>6, <1>7, <1>8, <1>9, <1>10, <1>11 DEF RunNext, Program

\* Two entries of one type and one name are one.
LEMMA KeyedPair ==
  ASSUME NEW q, Keyed(q), NEW i \in DOMAIN q, NEW j \in DOMAIN q, NEW x \in Sides, NEW y \in Sides,
         q[i].st[x] # Absent, q[j].st[y] # Absent, q[i].type = q[j].type
  PROVE  q[i].st[x].filename = q[j].st[y].filename => i = j
BY DEF Keyed

\* A file of the server that has a local file of its name, no matter which pass
\* is at work, is a file after a step of the engine.
LEMMA FileStays ==
  ASSUME \A m, k \in Names : RemoteName[m] = RemoteName[k] => m = k,
         RunInv, KeysInv, StepsAsked, EngineMoves,
         ~opt.nooverwrite, ~opt.checkmoved, opt.protocol # "dav",
         NEW n \in Names, local[n] # Absent, local[n].type = "file",
         TypeAt(server, <<RemoteName[n], "real">>) = "file"
  PROVE  TypeAt(server', <<RemoteName[n], "real">>) = "file"
<1> DEFINE temp == temp_upload_filename(PlaceOfLocal)
<1>0. EngineOK /\ server \in Tree /\ server' \in Tree
  BY DEF RunInv, EngineOK, EngineMoves
<1>1. PICK p \in Places : p = <<RemoteName[n], "real">>
  BY ServerAssumption DEF Places
<1>2. p[1] = RemoteName[n] /\ p[2] = "real" /\ TypeAt(server, p) = "file"
  BY <1>1
<1>3. SUFFICES ASSUME server' # server PROVE TypeAt(server', p) = "file"
  BY <1>1, <1>2
<1>4. server'[p] = server[p] => TypeAt(server', p) = "file"
  BY <1>2 DEF TypeAt
<1>5. \A q : DeletedWith(q) = {q} /\ ReplacedWith(q) = {}
  BY DEF DeletedWith, ReplacedWith
<1>6. CASE In("delete_files", "entry") /\ Removes(server, server', DeletedWith(PlaceOfStored))
  <2>1. /\ pass # 0 /\ current # 0 /\ pc = "update" /\ handlers[pass] = "delete_files"
    BY <1>6 DEF In, RunInv
  <2>2. /\ here \in Entry /\ Stored(here) \in FileState /\ Local(here) = Absent /\ here.type = "file"
        /\ current \in DOMAIN files /\ here = files[current]
    BY <1>0, <2>1, CurrentEntry, CurrentHandled DEF handles, here
  <2>3. HasKey(files, "local", "file", n) /\ Keyed(files)
    BY <2>1 DEF KeysInv, InList
  <2>4. PICK j \in DOMAIN files : Stands(files[j], "local", "file", n)
    BY <2>3 DEF HasKey
  <2>5. j # current
    BY <2>2, <2>4 DEF Stands, Local
  <2>6. Stored(here).filename # n
    <3>1. "local" \in Sides /\ "stored" \in Sides /\ here.st["stored"] # Absent
      BY <2>2, ConstantsAssumption DEF Stored, Sides
    <3>2. files[j].type = "file" /\ files[j].st["local"] # Absent /\ files[j].st["local"].filename = n
      BY <2>4 DEF Stands
    <3>3. files[current].st["stored"].filename = files[j].st["local"].filename => current = j
      <4>1. /\ files[current].type = files[j].type /\ files[current].st["stored"] # Absent
            /\ current \in DOMAIN files /\ j \in DOMAIN files
        BY <2>2, <3>1, <3>2
      <4>2. QED
        BY <2>3, <3>1, <3>2, <4>1, KeyedPair
    <3>4. QED
      BY <2>2, <2>5, <3>2, <3>3 DEF Stored
  <2>7. PlaceOfStored # p
    BY <1>2, <2>2, <2>6, StatePlaces DEF PlaceOfStored, FileState
  <2>8. QED
    BY <1>4, <1>5, <1>6, <2>7 DEF Removes
<1>7. CASE /\ In("delete_dirs", "entry") /\ TypeAt(server, PlaceOfStored) = "dir"
           /\ Removes(server, server', DeletedWith(PlaceOfStored))
  BY <1>2, <1>4, <1>5, <1>7 DEF Removes
<1>8. CASE DirAppears
  BY <1>2, <1>4, <1>8 DEF DirAppears, TypeAt
<1>9. CASE ModeChanges
  <2>1. CASE p = PlaceOfLocal
    <3>1. PICK mode \in Modes : server'[p] = [server[p] EXCEPT !.mode = mode]
      BY <1>9, <2>1 DEF ModeChanges
    <3>2. server[p] \in RemoteFile
      BY <1>0, <1>9, <2>1, FileAt DEF ModeChanges
    <3>3. server'[p].type = server[p].type /\ server'[p] \in RemoteFile
      BY <1>9, <2>1, <3>1, <3>2 DEF RemoteFile, ModeChanges
    <3>4. QED
      BY <1>2, <3>3, TreeAssumption DEF TypeAt
  <2>2. CASE p # PlaceOfLocal
    BY <1>4, <1>9, <2>2 DEF ModeChanges
  <2>3. QED
    BY <2>1, <2>2
<1>10. CASE In("move_files", "entry")
  BY <1>0, <1>10, CurrentEntry DEF In
<1>11. CASE In("files", "delete")
  BY <1>11 DEF In, StepsAsked
<1>12. CASE \/ /\ In("files", "put") \/ In("files", "put_if") \/ In("files", "upload")
               /\ Uploads(server, server', PlaceOfLocal, source(Local(here)), clock)
            \/ /\ In("files", "temp")
               /\ Uploads(server, server', temp, source(Local(here)), clock)
  <2>1. PICK q \in Places : Uploads(server, server', q, source(Local(here)), clock)
    BY <1>0, <1>12, CurrentEntry, StatePlaces DEF In, PlaceOfLocal
  <2>2. source(Local(here)) \in SUBSET Contents /\ clock \in Nat
    BY <1>0, <1>12, CurrentEntry, SourceTyped DEF In, EngineOK
  <2>3. /\ \A r \in Places \ {q} : server'[r] = server[r]
        /\ server' = server \/ (server'[q] \in RemoteFile /\ server'[q].type = "file")
    <3> DEFINE src == source(Local(here))
    <3>1. src \in SUBSET Contents /\ Uploads(server, server', q, src, clock)
      BY <2>1, <2>2
    <3> HIDE DEF src
    <3>2. QED
      BY <1>0, <2>2, <3>1, UploadsTyped
  <2>4. QED
    BY <1>3, <1>4, <2>3, TreeAssumption DEF TypeAt
<1>13. CASE /\ In("files", "move")
            /\ Moves(server, server', temp, PlaceOfLocal, ReplacedWith(PlaceOfLocal))
  <2>1. PlaceOfLocal \in Places /\ temp \in Places /\ temp # PlaceOfLocal /\ temp[2] = "temp"
    BY <1>0, <1>13, CurrentEntry, StatePlaces DEF In, PlaceOfLocal
  <2>2. TypeAt(server, temp) = "file" /\ p # temp
    BY <1>2, <1>13, <2>1 DEF Moves
  <2> HIDE DEF temp
  <2>3. CASE p # PlaceOfLocal
    BY <1>4, <1>5, <1>13, <2>2, <2>3 DEF Moves
  <2>4. CASE p = PlaceOfLocal
    BY <1>2, <1>4, <1>5, <1>13, <2>1, <2>2, <2>4 DEF Moves, TypeAt
  <2>5. QED
    BY <2>3, <2>4
<1>14. QED
  BY <1>3, <1>6, <1>7, <1>8, <1>9, <1>10, <1>11, <1>12, <1>13 DEF EngineMoves, TreeMoves

\* Nothing is listed or recorded at first.
LEMMA KeysAtInit ==
  ASSUME RunInit
  PROVE  StepsAsked /\ KeysInv
<1>1. files = << >> /\ DOMAIN << >> = {} /\ info.items = << >> /\ pc = "idle"
  BY DEF RunInit, files, EmptySite, ValidInfo
<1>2. KeysInv
  BY <1>1 DEF KeysInv, Keyed, KeyedItems
<1>3. QED
  BY <1>2 DEF RunInit, StepsAsked

\* A file that is on the server and still exists locally is never missing from
\* the server, in no step of any run, whatever fails or is killed, unless the
\* options ask for a delete (nooverwrite) or a move.  Two local files must not
\* share a remote name, nobody may edit the local site during a run, and the
\* site must not be a WebDAV one, where the DELETE of a file that has become a
\* collection takes away what is in it.
THEOREM PublishedStays ==
  ASSUME \A m, k \in Names : RemoteName[m] = RemoteName[k] => m = k,
         EditPcs \subseteq {"idle"},
         \A o \in Options : ~o.nooverwrite /\ ~o.checkmoved => o.protocol # "dav"
  PROVE  RunSpec => PublishedStaysPublished
<1> DEFINE Step == ~opt.nooverwrite /\ ~opt.checkmoved =>
                     \A n \in Names :
                        LET p == <<RemoteName[n], "real">>
                        IN  local[n] # Absent /\ local[n].type = "file" /\ TypeAt(server, p) = "file"
                              => TypeAt(server', p) = "file"
<1>1. RunInv /\ KeysInv /\ StepsAsked /\ [RunNext]_allVars => [Step]_allVars
  <2>1. SUFFICES ASSUME RunInv, KeysInv, StepsAsked, [RunNext]_allVars, ~opt.nooverwrite, ~opt.checkmoved,
                        NEW n \in Names, local[n] # Absent, local[n].type = "file",
                        TypeAt(server, <<RemoteName[n], "real">>) = "file"
                 PROVE  TypeAt(server', <<RemoteName[n], "real">>) = "file"
    OBVIOUS
  <2>2. EngineOK /\ opt \in Options /\ opt.protocol # "dav"
    BY <2>1, OptionsTyped DEF RunInv
  <2>3. CASE EngineMoves
    BY <2>1, <2>2, <2>3, FileStays
  <2>4. CASE Outsider
    <3>1. PICK m \in Names : server' = Uploaded_to(server, <<m, "real">>, Foreign, clock)
      BY <2>4 DEF Outsider
    <3>2. Foreign \in Contents \cup {Garbage} /\ clock \in Nat /\ server \in Tree
      BY <2>2, <2>4, RunAssumption DEF Outsider, EngineOK
    <3>3. PICK q \in Places : q = <<m, "real">>
      BY DEF Places
    <3>4. server'[q] \in RemoteFile /\ server'[q].type = "file"
          /\ \A p \in Places \ {q} : server'[p] = server[p]
      BY <3>1, <3>2, <3>3, UploadedTree
    <3>5. <<RemoteName[n], "real">> \in Places
      BY ServerAssumption DEF Places
    <3>6. QED
      BY <2>1, <3>4, <3>5, TreeAssumption DEF TypeAt
  <2>5. CASE Aside
    BY <2>1, <2>5 DEF Aside
  <2>6. QED
    BY <2>1, <2>3, <2>4, <2>5, RunMoves
<1>2. RunInit => StepsAsked /\ KeysInv
  BY KeysAtInit
<1>3. RunInv /\ KeysInv /\ StepsAsked /\ [RunNext]_allVars => KeysInv' /\ StepsAsked'
  BY KeysKept, StepsAskedKept
<1>4. QED
  BY <1>1, <1>2, <1>3, RunInvariant, PTL DEF RunSpec, PublishedStaysPublished

-----------------------------------------------------------------------------
(* Safe mode: what a foreign party has altered stays                       *)

\* Which steps lead to an upload: the one that has found the time of the file
\* to be the recorded one, and one that knows of no time.
LEMMA UploadsBegun ==
  ASSUME EngineOK, UpdateStep
  PROVE  /\ step' = "put" =>
              /\ pass # 0 /\ current # 0 /\ UNCHANGED <<site, server>> /\ next' = current
              /\ server[PlaceOfLocal].time = here.server
         /\ step' = "upload" =>
              /\ UNCHANGED site /\ next' = current
              /\ opt.safemode => here.server = 0
<1>1. CASE \/ update_delete_files \/ update_delete_directories \/ create_directory \/ chmod_directory
           \/ update_move_files \/ chmod_only \/ record_upload \/ Declined \/ end_pass
  <2>1. step' \in {"entry", "dir_chmod"}
    BY <1>1 DEF update_delete_files, update_delete_directories, update_delete, create_directory,
       chmod_directory, DirDone, update_move_files, chmod_only, record_upload, Declined, end_pass,
       Failed, Advance, AdvanceRemoved, BeginPass
  <2>2. QED
    BY <2>1
<1>2. CASE \/ put_file \/ put_conditionally \/ upload_file \/ upload_temp \/ move_temp
           \/ retrieve_modtime
  <2>1. step' \in {"entry", "modtime", "record", "move"}
    BY <1>2 DEF put_file, put_conditionally, upload_file, upload_temp, move_temp, retrieve_modtime,
       after_upload, GoTo, Failed, Advance
  <2>2. QED
    BY <2>1
<1>3. CASE check_modtime
  <2>1. PICK a \in Answers(server, TypeAt(server, PlaceOfLocal) = "file", server) :
          /\ Answered(a)
          /\ IF a.code = "ok" /\ server[PlaceOfLocal].time = here.server
             THEN GoTo(current, "put") ELSE Failed(current)
    BY <1>3 DEF check_modtime, PlaceOfLocal, here
  <2>2. server' = server
    BY <2>1, AnswersEffect DEF Answered, Answered_with
  <2>3. pass # 0 /\ current # 0
    BY <1>3 DEF check_modtime, In
  <2>4. QED
    BY <2>1, <2>2, <2>3 DEF GoTo, Failed, Advance
<1>4. CASE begin_upload \/ delete_before_upload
  <2>1. \/ step' \in {"entry", "delete"}
        \/ GoTo(current, upload_step(here))
    BY <1>4 DEF begin_upload, delete_before_upload, here, GoTo, Failed, Advance
  <2>2. upload_step(here) # "put" /\ (upload_step(here) = "upload" /\ opt.safemode => here.server = 0)
    BY DEF upload_step
  <2>3. QED
    BY <2>1, <2>2 DEF GoTo
<1>5. QED
  BY <1>1, <1>2, <1>3, <1>4 DEF UpdateStep

\* A conditional upload leaves a file that is newer than the recorded time.
LEMMA NewerRefused ==
  ASSUME EngineOK, UpdateStep, In("files", "put_if"),
         TypeAt(server, PlaceOfLocal) = "file", server[PlaceOfLocal].time > here.server
  PROVE  server' = server
<1>1. put_conditionally
  <2>1. step = "put_if" /\ step # "entry" /\ handlers[pass] = "files" /\ current # 0
    BY DEF In
  <2>2. QED
    BY <2>1 DEF UpdateStep, update_delete_files, update_delete_directories, update_delete,
       create_directory, chmod_directory, update_move_files, chmod_only, begin_upload,
       delete_before_upload, check_modtime, put_file, upload_file, upload_temp, move_temp,
       retrieve_modtime, record_upload, Declined, end_pass, In
<1>2. PICK a \in file_upload_cond_call(opt.protocol, server, PlaceOfLocal, source(Local(here)), clock,
                                       here.server) :
        Answered(a)
  BY <1>1 DEF put_conditionally, PlaceOfLocal, here
<1>3. a.tree = server
  <2>1. CASE opt.protocol # "dav"
    BY <1>2, <2>1 DEF file_upload_cond_call, Answer
  <2>2. CASE opt.protocol = "dav"
    <3>1. PICK b \in Answers(server, FALSE, server) :
            a = [b EXCEPT !.code = IF b.fault = 0 THEN "failed" ELSE b.code]
      BY <1>2, <2>2 DEF file_upload_cond_call
    <3>2. Answered_with(b, server, FALSE, server) /\ b = Answer(b.code, b.tree, b.fault)
      BY <3>1, AnswersEffect, AnswersAreRecords
    <3>3. a.tree = b.tree
      BY <3>1, <3>2 DEF Answer
    <3>4. QED
      BY <3>2, <3>3 DEF Answered_with
  <2>3. QED
    BY <2>1, <2>2
<1>4. QED
  BY <1>2, <1>3 DEF Answered

\* Between the check of safe mode and the upload the file has the time that the
\* entry records; and what is uploaded without a check has no recorded time.
CheckedInv ==
  opt.safemode =>
    /\ step = "put" => server[file_full_remote(Local(files[next]))].time = files[next].server
    /\ step = "upload" => files[next].server = 0

\* Every step keeps it, when others write only between runs.
LEMMA CheckedKept ==
  ASSUME "update" \notin OutsiderPcs, RunInv, CheckedInv, [RunNext]_allVars
  PROVE  CheckedInv'
<1>0. EngineOK
  BY DEF RunInv
<1>1. CASE Update
  <2>1. UpdateStep /\ opt' = opt
    BY <1>0, <1>1, UpdateMoves, EngineKept DEF Update
  <2>2. step' \in {"put", "upload"} => files' = files /\ files'[next'] = here
    BY <1>0, <2>1, UploadsBegun DEF files, here
  <2>3. CASE step' = "put"
    BY <1>0, <2>1, <2>2, <2>3, UploadsBegun DEF CheckedInv, PlaceOfLocal
  <2>4. CASE step' = "upload"
    BY <1>0, <2>1, <2>2, <2>4, UploadsBegun DEF CheckedInv
  <2>5. QED
    BY <2>3, <2>4 DEF CheckedInv
<1>2. CASE Outsider
  <2>1. pc # "update"
    BY <1>2 DEF Outsider
  <2>2. step = "entry"
    BY <1>0, <2>1 DEF RunInv, EngineOK, AtEntry
  <2>3. QED
    BY <1>2, <2>2 DEF Outsider, CheckedInv
<1>3. CASE OpenStorage
  <2>1. step' = "entry"
    BY <1>3 DEF OpenStorage, StartPasses, BeginPass
  <2>2. QED
    BY <2>1 DEF CheckedInv
<1>4. CASE ~Update /\ ~Outsider /\ ~OpenStorage
  <2>1. step' = "entry" \/ UNCHANGED <<server, step>>
    BY <1>4 DEF RunNext, Program, ReadLocalFile, ReadInfo, ReadItem, StoredRead, NothingToDo,
       UpdateReturns, SaveState, StartRun, Initialize, Edit, Tick, Killed, allVars, updateVars
  <2>2. UNCHANGED <<site, next>> \/ pass = 0 \/ step' = "entry"
    BY <1>4 DEF RunInv, RunNext, Program, ReadLocalFile, ReadInfo, ReadItem, StoredRead, NothingToDo,
       UpdateReturns, SaveState, StartRun, Initialize, Edit, Tick, Killed, allVars, updateVars
  <2>3. pass = 0 => step = "entry"
    BY <1>0 DEF EngineOK, AtEntry
  <2>4. QED
    BY <2>1, <2>2, <2>3 DEF CheckedInv, files, opt
<1>5. QED
  BY <1>1, <1>2, <1>3, <1>4

\* A foreign file with a newer time than the recorded one stays, no matter which
\* pass is at work.
LEMMA ForeignStays ==
  ASSUME \A m, k \in Names : RemoteName[m] = RemoteName[k] => m = k,
         RunInv, KeysInv, StepsAsked, CheckedInv, Update,
         opt.safemode, ~opt.checkmoved, NEW i \in DOMAIN files,
         files[i].type = "file", files[i].server # 0, Stored(files[i]) # Absent,
         NEW p \in Places, p = <<RemoteName[Stored(files[i]).filename], "real">>,
         TypeAt(server, p) = "file", server[p].time > files[i].server,
         TypeAt(server', p) = "file"
  PROVE  server'[p].content = server[p].content
<1> DEFINE temp == temp_upload_filename(PlaceOfLocal)
<1>0. /\ EngineOK /\ UpdateStep /\ EngineMoves /\ server \in Tree /\ Keyed(files)
      /\ ~opt.tempupload /\ ~opt.nooverwrite
  BY UpdateMoves, OptionsTyped DEF RunInv, Update, KeysInv, EngineOK
<1>1. SUFFICES ASSUME server'[p].content # server[p].content PROVE FALSE
  OBVIOUS
<1>2. \A S : ~Removes(server, server', S)
  BY <1>1 DEF Removes, TypeAt
<1>3. CASE /\ In("files", "put") \/ In("files", "put_if") \/ In("files", "upload")
           /\ Uploads(server, server', PlaceOfLocal, source(Local(here)), clock)
  <2>1. /\ pass # 0 /\ current # 0 /\ handlers[pass] = "files" /\ step # "entry"
    BY <1>3 DEF In
  <2>2. /\ current = next /\ current \in DOMAIN files /\ here = files[current] /\ here.type = "file"
        /\ Local(here) \in FileState
    BY <1>0, <2>1, CurrentHandled, CurrentEntry DEF handles, here
  <2>3. CASE PlaceOfLocal # p
    BY <1>0, <1>1, <1>3, <2>3, UploadsElsewhere
  <2>4. CASE PlaceOfLocal = p
    <3>1. /\ Local(here).filename \in Names /\ Stored(files[i]).filename \in Names
          /\ RemoteName[Local(here).filename] = RemoteName[Stored(files[i]).filename]
      <4>1. Stored(files[i]) \in FileState
        BY <1>0, EntryStates DEF EngineOK, Exact, files
      <4>2. PlaceOfLocal[1] = RemoteName[Local(here).filename]
        BY <2>2, StatePlaces DEF PlaceOfLocal
      <4>3. p[1] = RemoteName[Stored(files[i]).filename]
        OBVIOUS
      <4>4. QED
        BY <2>2, <2>4, <4>1, <4>2, <4>3 DEF FileState
    <3>2. Local(here).filename = Stored(files[i]).filename
      BY <3>1
    <3>3. i = current
      <4>1. "local" \in Sides /\ "stored" \in Sides
        BY DEF Sides
      <4>2. /\ files[current].st["local"] # Absent /\ files[i].st["stored"] # Absent
            /\ files[current].type = files[i].type
            /\ files[current].st["local"].filename = files[i].st["stored"].filename
        BY <2>2, <3>2, ConstantsAssumption DEF Local, Stored
      <4>3. QED
        BY <1>0, <2>2, <4>1, <4>2, KeyedPair
    <3>4. here.server \in Nat /\ server[p].time \in Nat /\ here.server # 0 /\ here = files[i]
      <4>1. here \in Entry
        BY <1>0, <2>1, CurrentEntry
      <4>2. server[p] \in RemoteFile
        BY <1>0, FileAt DEF TypeAt
      <4>3. QED
        BY <2>2, <3>3, <4>1, <4>2 DEF Entry, RemoteFile
    <3>5. CASE In("files", "put")
      <4>1. server[p].time = here.server
        BY <2>2, <2>4, <3>5 DEF In, CheckedInv, PlaceOfLocal
      <4>2. QED
        BY <3>4, <4>1
    <3>6. CASE In("files", "put_if")
      BY <1>0, <1>1, <2>4, <3>4, <3>6, NewerRefused
    <3>7. CASE In("files", "upload")
      BY <2>2, <3>4, <3>7 DEF In, CheckedInv
    <3>8. QED
      BY <1>3, <3>5, <3>6, <3>7
  <2>5. QED
    BY <2>3, <2>4
<1>4. CASE DirAppears
  BY <1>1, <1>4 DEF DirAppears, TypeAt
<1>5. CASE ModeChanges
  <2>1. CASE p = PlaceOfLocal
    <3>1. PICK mode \in Modes : server'[p] = [server[p] EXCEPT !.mode = mode]
      BY <1>5, <2>1 DEF ModeChanges
    <3>2. server[p] \in RemoteFile
      BY <1>0, FileAt DEF TypeAt
    <3>3. QED
      BY <1>1, <3>1, <3>2 DEF RemoteFile
  <2>2. QED
    BY <1>1, <1>5, <2>1 DEF ModeChanges
<1>6. CASE In("move_files", "entry")
  BY <1>0, <1>6, CurrentEntry DEF In
<1>7. CASE In("files", "temp") \/ In("files", "move")
  BY <1>0, <1>7 DEF In, StepsAsked
<1>8. TreeMoves /\ server' # server
  BY <1>0, <1>1 DEF EngineMoves
<1>9. QED
  BY <1>2, <1>3, <1>4, <1>5, <1>6, <1>7, <1>8 DEF TreeMoves

\* In safe mode a file of the server that a foreign party has altered since the
\* time that is recorded for it is not uploaded over, in no step of any run,
\* with every driver, whatever fails or is killed.  Nobody may write to the
\* server during a run, since over FTP the check and the upload are two commands;
\* nobody may edit the local site during a run; and no two local files may share
\* a remote name.
THEOREM ForeignIsKept ==
  ASSUME \A m, k \in Names : RemoteName[m] = RemoteName[k] => m = k,
         EditPcs \subseteq {"idle"}, "update" \notin OutsiderPcs
  PROVE  RunSpec => SafeModeKeepsForeign
<1> DEFINE Step == opt.safemode /\ ~opt.checkmoved =>
                     \A i \in DOMAIN files :
                        LET p == <<RemoteName[Stored(files[i]).filename], "real">>
                        IN  /\ files[i].type = "file" /\ files[i].server # 0 /\ Stored(files[i]) # Absent
                            /\ TypeAt(server, p) = "file" /\ server[p].content = Foreign
                            /\ server[p].time > files[i].server
                            /\ TypeAt(server', p) = "file"
                            => server'[p].content = Foreign
<1>1. RunInv /\ KeysInv /\ StepsAsked /\ CheckedInv /\ [RunNext]_allVars => [Step]_allVars
  <2>1. SUFFICES ASSUME RunInv, KeysInv, StepsAsked, CheckedInv, [RunNext]_allVars,
                        opt.safemode, ~opt.checkmoved, NEW i \in DOMAIN files,
                        files[i].type = "file", files[i].server # 0, Stored(files[i]) # Absent,
                        NEW p, p = <<RemoteName[Stored(files[i]).filename], "real">>,
                        TypeAt(server, p) = "file", server[p].content = Foreign,
                        server[p].time > files[i].server, TypeAt(server', p) = "file"
                 PROVE  server'[p].content = Foreign
    BY Zenon
  <2>2. p \in Places
    <3>1. Stored(files[i]) \in FileState
      BY <2>1, EntryStates DEF RunInv, EngineOK, Exact, files
    <3>2. QED
      BY <2>1, <3>1, ServerAssumption DEF FileState, Places
  <2>3. CASE Update
    BY <2>1, <2>2, <2>3, ForeignStays
  <2>4. CASE Outsider
    <3>1. PICK m \in Names : server' = Uploaded_to(server, <<m, "real">>, Foreign, clock)
      BY <2>4 DEF Outsider
    <3>2. Foreign \in Contents \cup {Garbage} /\ clock \in Nat /\ server \in Tree
      BY <2>1, <2>4, RunAssumption DEF Outsider, RunInv, EngineOK
    <3>3. PICK q \in Places : q = <<m, "real">>
      BY DEF Places
    <3>4. server'[q].content = Foreign /\ \A r \in Places \ {q} : server'[r] = server[r]
      BY <3>1, <3>2, <3>3, UploadedTree
    <3>5. QED
      BY <2>1, <2>2, <3>4
  <2>5. CASE ~Update /\ ~Outsider
    <3>1. server' = server
      <4>1. CASE OpenStorage
        <5>1. PICK a \in Answers(server, TRUE, server) : server' = a.tree
          BY <4>1 DEF OpenStorage, StartPasses, Answered
        <5>2. QED
          <6>1. \A b \in Answers(server, TRUE, server) : Answered_with(b, server, TRUE, server)
            BY AnswersEffect, Zenon
          <6>2. QED
            BY <5>1, <6>1 DEF Answered_with
      <4>2. CASE ~OpenStorage
        BY <2>1, <2>5, <4>2 DEF RunNext, Program, ReadLocalFile, ReadInfo, ReadItem, StoredRead,
           NothingToDo, UpdateReturns, SaveState, StartRun, Initialize, Edit, Tick, Killed,
           allVars, updateVars
      <4>3. QED
        BY <4>1, <4>2
    <3>2. QED
      BY <2>1, <3>1
  <2>6. QED
    BY <2>3, <2>4, <2>5
<1>2. RunInit => StepsAsked /\ KeysInv /\ CheckedInv
  BY KeysAtInit DEF RunInit, CheckedInv
<1>3. /\ RunInv /\ KeysInv /\ StepsAsked /\ [RunNext]_allVars => KeysInv' /\ StepsAsked'
      /\ RunInv /\ CheckedInv /\ [RunNext]_allVars => CheckedInv'
  BY KeysKept, StepsAskedKept, CheckedKept
<1>4. QED
  BY <1>1, <1>2, <1>3, RunInvariant, PTL DEF RunSpec, SafeModeKeepsForeign

-----------------------------------------------------------------------------
(* Plain sites: what a step of the engine does                             *)

\* What sitecopy does well: over FTP, without moves and without deleting what
\* is to be overwritten; section 3 of the README tells what happens otherwise.
\* The mode of a file is only right when no chmod fails.
PlainSite(o) ==
  /\ o.protocol = "ftp" /\ ~o.checkmoved /\ ~o.nooverwrite
  /\ o.perms = "all" => Faults = {}

\* Nobody but the program writes to the server, nobody edits the local site
\* during a run, no two local files share a remote name, and a call that fails
\* has done nothing.
PlainWorld ==
  /\ \A m, k \in Names : RemoteName[m] = RemoteName[k] => m = k
  /\ EditPcs \subseteq {"idle"} /\ OutsiderPcs = {}
  /\ Faults \subseteq {"refused"}
  /\ \A o \in Options : PlainSite(o)

\* A call is carried out or refused.
LEMMA PlainAnswers ==
  ASSUME Faults \subseteq {"refused"}, NEW tree, NEW allowed \in BOOLEAN, NEW done,
         NEW a \in Answers(tree, allowed, done)
  PROVE  \/ a.code = "ok" /\ allowed /\ a.tree = done
         \/ a.code = "error" /\ a.tree = tree /\ (allowed => Faults # {})
BY DEF Answers, Answer

\* An upload stores what the file is when it is read, or nothing.
LEMMA PlainUpload ==
  ASSUME Faults \subseteq {"refused"}, NEW tree, NEW place, NEW readable, NEW now,
         NEW a \in driver_file_upload(tree, place, readable, now)
  PROVE  \/ /\ a.code = "ok" /\ TypeAt(tree, place) # "dir"
            /\ \E c \in readable : a.tree = Uploaded_to(tree, place, c, now)
         \/ a.code = "error" /\ a.tree = tree
<1> DEFINE allowed == /\ readable # {}
                      /\ TypeAt(tree, place) # "dir" /\ DirectoryExists(tree, place)
<1>1. allowed \in BOOLEAN
  BY DEF DirectoryExists
<1>2. CASE \E c \in readable : a \in Answers(tree, allowed, Uploaded_to(tree, place, c, now))
  <2>1. PICK c \in readable : a \in Answers(tree, allowed, Uploaded_to(tree, place, c, now))
    BY <1>2
  <2>2. allowed => TypeAt(tree, place) # "dir"
    OBVIOUS
  <2> HIDE DEF allowed
  <2>3. \/ a.code = "ok" /\ allowed /\ a.tree = Uploaded_to(tree, place, c, now)
        \/ a.code = "error" /\ a.tree = tree
    BY <1>1, <2>1, PlainAnswers
  <2>4. QED
    BY <2>2, <2>3
<1>3. CASE a \in Answers(tree, FALSE, tree)
  BY <1>3, PlainAnswers
<1>4. QED
  BY <1>2, <1>3 DEF driver_file_upload

\* The entry is recorded as it is locally, and the loop goes on.
Records == site' = file_uploaded(site, current) /\ Advance(current)

\* The next call for the entry.
CallNext(s) == step' = s /\ next' = current /\ ret' = ret

ModeSetAt(place, mode) == [server EXCEPT ![place] = [server[place] EXCEPT !.mode = mode]]

\* A call has failed, or the user has said no.
GivesUp ==
  /\ UNCHANGED <<site, server>> /\ Advance(current)
  /\ ret' = 1 \/ (opt.prompting /\ ret' = ret)
  /\ step \notin {"modtime", "record"}
  /\ step = "dir_chmod" => Faults # {} \/ TypeAt(server, PlaceOfLocal) = "none"

\* The next call is chosen.
Prepares ==
  /\ UNCHANGED <<site, server>> /\ CallNext(step')
  /\ \/ In("files", "entry") /\ step' = upload_step(here)
     \/ In("files", "check") /\ step' = "put"
     \/ In("create_dirs", "entry") /\ here.diff = "changed" /\ step' = "dir_chmod" /\ opt.dirperms

Deletes ==
  /\ In("delete_files", "entry") \/ In("delete_dirs", "entry")
  /\ TypeAt(server, PlaceOfStored) = here.type
  /\ server' = [server EXCEPT ![PlaceOfStored] = Absent]
  /\ site' = file_delete(site, current) /\ AdvanceRemoved(current) /\ ret' = ret

MakesDir ==
  /\ In("create_dirs", "entry") /\ here.diff = "new"
  /\ TypeAt(server, PlaceOfLocal) = "none"
  /\ server' = [server EXCEPT ![PlaceOfLocal] =
                  [type |-> "dir", content |-> NoData, mode |-> DefaultMode, time |-> clock]]
  /\ \/ site' = site /\ CallNext("dir_chmod") /\ opt.dirperms
     \/ Records /\ ret' = ret

\* The mode of a directory is set, or nobody cares.
DirRecorded ==
  /\ Records /\ ret' = ret
  /\ \/ In("create_dirs", "entry") /\ here.diff = "changed" /\ server' = server
     \/ /\ In("create_dirs", "dir_chmod") /\ TypeAt(server, PlaceOfLocal) # "none"
        /\ server' = ModeSetAt(PlaceOfLocal, Local(here).mode)

\* A file of which only the mode has changed.
SetsMode ==
  /\ In("files", "entry") /\ here.diff = "changed" /\ ~file_contents_changed(here)
  /\ TypeAt(server, PlaceOfLocal) # "none"
  /\ server' = ModeSetAt(PlaceOfLocal, Local(here).mode)
  /\ site' = chmod_done(site, current) /\ Advance(current) /\ ret' = ret

\* ... which needs no chmod after all.
Skips ==
  /\ In("files", "entry") /\ here.diff = "changed" /\ ~file_contents_changed(here)
  /\ ~file_perms_changed(here, site)
  /\ UNCHANGED <<site, server, ret>> /\ Advance(current)

SendsTo(place) ==
  /\ TypeAt(server, place) # "dir"
  /\ \E c \in source(Local(here)) : server' = Uploaded_to(server, place, c, clock)
  /\ site' = site

Sends == (In("files", "put") \/ In("files", "upload")) /\ SendsTo(PlaceOfLocal) /\ CallNext(after_upload)

SendsTemp ==
  In("files", "temp") /\ SendsTo(temp_upload_filename(PlaceOfLocal)) /\ CallNext("move")

Renames ==
  LET temp == temp_upload_filename(PlaceOfLocal)
  IN  /\ In("files", "move")
      /\ TypeAt(server, temp) = "file" /\ TypeAt(server, PlaceOfLocal) # "dir"
      /\ server' = [p \in Places |-> IF p = PlaceOfLocal THEN server[temp]
                                     ELSE IF p = temp THEN Absent ELSE server[p]]
      /\ site' = site /\ CallNext(after_upload)

Dates ==
  /\ In("files", "modtime") /\ server' = server
  /\ \E n \in Nat : site' = file_replace(site, current, [here EXCEPT !.server = n])
  /\ CallNext("record")

\* The upload is recorded, whether or not the mode could be set.
FileRecorded ==
  /\ In("files", "record") /\ Records
  /\ \/ ~file_perms_changed(here, site) /\ server' = server /\ ret' = ret
     \/ /\ TypeAt(server, PlaceOfLocal) # "none"
        /\ server' = ModeSetAt(PlaceOfLocal, Local(here).mode) /\ ret' = ret
     \/ /\ server' = server /\ ret' = 1
        /\ Faults # {} \/ TypeAt(server, PlaceOfLocal) = "none"

\* A step of the engine on an entry of a plain site.
PlainStep ==
  \/ GivesUp \/ Prepares \/ Deletes \/ MakesDir \/ DirRecorded \/ SetsMode \/ Skips
  \/ Sends \/ SendsTemp \/ Renames \/ Dates \/ FileRecorded

-----------------------------------------------------------------------------
(* ... and does nothing else                                               *)

\* What the world promises of the site in work.
LEMMA PlainOption ==
  ASSUME EngineOK, PlainWorld
  PROVE  PlainSite(opt) /\ opt.protocol = "ftp" /\ Faults \subseteq {"refused"}
         /\ ~opt.checkmoved /\ ~opt.nooverwrite
BY OptionsTyped DEF PlainWorld, PlainSite

\* The deletes of files and of directories.
LEMMA PlainDelete ==
  ASSUME EngineOK, PlainWorld, NEW p \in {"delete_files", "delete_dirs"}, update_delete(p)
  PROVE  Deletes \/ GivesUp
<1>1. opt.protocol = "ftp" /\ Faults \subseteq {"refused"}
  BY PlainOption
<1>2. In(p, "entry") /\ pass # 0 /\ current # 0 /\ handlers[pass] = p /\ step = "entry"
  BY DEF update_delete, In
<1>3. handles(p, here) /\ here = files[current]
  BY <1>2, CurrentHandled DEF here
<1>4. here.type = (IF p = "delete_files" THEN "file" ELSE "dir")
  BY <1>3 DEF handles
<1>5. PICK a \in delete_call(p, current) :
        /\ server' = a.tree
        /\ \/ /\ a.code = "ok" /\ site' = file_delete(site, current)
              /\ AdvanceRemoved(current) /\ ret' = ret
           \/ a.code # "ok" /\ ret' = 1 /\ Advance(current) /\ site' = site
  BY DEF update_delete, Answered, Failed
<1> DEFINE done == [server EXCEPT ![PlaceOfStored] = Absent]
<1>6. \E allowed \in BOOLEAN : /\ a \in Answers(server, allowed, done)
                               /\ allowed => TypeAt(server, PlaceOfStored) = here.type
  <2>1. CASE p = "delete_files"
    <3>1. a \in Answers(server, TypeAt(server, PlaceOfStored) = "file", done)
      BY <1>1, <1>5, <2>1 DEF delete_call, file_delete_call, Dispatch, driver_file_delete, PlaceOfStored, here
    <3>2. QED
      BY <1>4, <2>1, <3>1
  <2>2. CASE p = "delete_dirs"
    <3>1. a \in Answers(server, TypeAt(server, PlaceOfStored) = "dir" /\ IsEmptyDir(server, PlaceOfStored), done)
      BY <1>1, <1>5, <2>2 DEF delete_call, dir_remove_call, Dispatch, driver_dir_remove, PlaceOfStored, here
    <3>2. QED
      BY <1>4, <2>2, <3>1 DEF IsEmptyDir
  <2>3. QED
    BY <2>1, <2>2
<1> HIDE DEF done
<1>7. \/ a.code = "ok" /\ TypeAt(server, PlaceOfStored) = here.type /\ a.tree = done
      \/ a.code = "error" /\ a.tree = server
  BY <1>1, <1>6, PlainAnswers
<1>8. QED
  BY <1>2, <1>5, <1>7 DEF Deletes, GivesUp, done

\* A new directory.
LEMMA PlainCreate ==
  ASSUME EngineOK, PlainWorld, create_directory
  PROVE  MakesDir \/ DirRecorded \/ Prepares \/ GivesUp
<1> DEFINE done == [server EXCEPT ![PlaceOfLocal] =
                      [type |-> "dir", content |-> NoData, mode |-> DefaultMode, time |-> clock]]
           after == IF opt.dirperms THEN "dir_chmod" ELSE "record"
<1>1. opt.protocol = "ftp" /\ Faults \subseteq {"refused"} /\ opt.dirperms \in BOOLEAN
  BY PlainOption, OptionsTyped, OptionsAssumption
<1>2. In("create_dirs", "entry") /\ step = "entry"
  BY DEF create_directory, In
<1>3. ASSUME DirDone(current, after)
      PROVE  \/ opt.dirperms /\ CallNext("dir_chmod") /\ site' = site
             \/ ~opt.dirperms /\ Records /\ ret' = ret
  BY <1>1, <1>3 DEF DirDone, CallNext, Records
<1>4. CASE here.diff = "changed" /\ DirDone(current, after) /\ server' = server
  BY <1>2, <1>3, <1>4 DEF Prepares, DirRecorded, CallNext
<1>5. CASE /\ here.diff = "new"
           /\ \E a \in dir_create_call(opt.protocol, server, PlaceOfLocal, clock) :
                Answered(a) /\ IF a.code = "ok" THEN DirDone(current, after) ELSE Failed(current)
  <2>1. PICK a \in dir_create_call(opt.protocol, server, PlaceOfLocal, clock) :
          server' = a.tree /\ IF a.code = "ok" THEN DirDone(current, after) ELSE Failed(current)
    BY <1>5 DEF Answered
  <2>2. a \in Answers(server, TypeAt(server, PlaceOfLocal) = "none" /\ DirectoryExists(server, PlaceOfLocal), done)
    BY <1>1, <2>1 DEF dir_create_call, Dispatch, driver_dir_create
  <2> HIDE DEF done
  <2>3. \/ a.code = "ok" /\ TypeAt(server, PlaceOfLocal) = "none" /\ a.tree = done
        \/ a.code = "error" /\ a.tree = server
    <3> DEFINE allowed == TypeAt(server, PlaceOfLocal) = "none" /\ DirectoryExists(server, PlaceOfLocal)
    <3>1. allowed \in BOOLEAN /\ a \in Answers(server, allowed, done)
      BY <2>2 DEF DirectoryExists
    <3>2. allowed => TypeAt(server, PlaceOfLocal) = "none"
      OBVIOUS
    <3> HIDE DEF allowed
    <3>3. QED
      BY <1>1, <3>1, <3>2, PlainAnswers
  <2>4. CASE a.code = "ok" /\ TypeAt(server, PlaceOfLocal) = "none" /\ a.tree = done
    BY <1>2, <1>3, <1>5, <2>1, <2>4 DEF MakesDir, done
  <2>5. CASE a.code = "error" /\ a.tree = server
    BY <1>2, <2>1, <2>5 DEF GivesUp, Failed
  <2>6. QED
    BY <2>3, <2>4, <2>5
<1>6. QED
  BY <1>4, <1>5 DEF create_directory, here, PlaceOfLocal

\* A chmod is carried out or refused.
LEMMA PlainChmod ==
  ASSUME EngineOK, PlainWorld, NEW place, NEW mode,
         NEW a \in file_chmod_call(opt.protocol, server, place, mode)
  PROVE  \/ a.code = "ok" /\ TypeAt(server, place) # "none" /\ a.tree = ModeSetAt(place, mode)
         \/ a.code = "error" /\ a.tree = server /\ (Faults # {} \/ TypeAt(server, place) = "none")
<1> DEFINE done == IF server[place] = Absent THEN server ELSE ModeSetAt(place, mode)
<1>1. opt.protocol = "ftp" /\ Faults \subseteq {"refused"}
  BY PlainOption
<1>2. a \in Answers(server, TypeAt(server, place) # "none", done)
  BY <1>1 DEF file_chmod_call, Dispatch, driver_file_chmod, ModeSetAt
<1>3. TypeAt(server, place) # "none" => done = ModeSetAt(place, mode)
  BY DEF TypeAt
<1> HIDE DEF done
<1>4. \/ a.code = "ok" /\ TypeAt(server, place) # "none" /\ a.tree = done
      \/ a.code = "error" /\ a.tree = server /\ (TypeAt(server, place) # "none" => Faults # {})
  <2> DEFINE allowed == TypeAt(server, place) # "none"
  <2>1. allowed \in BOOLEAN /\ a \in Answers(server, allowed, done)
    BY <1>2
  <2>2. allowed <=> TypeAt(server, place) # "none"
    OBVIOUS
  <2> HIDE DEF allowed
  <2>3. QED
    BY <1>1, <2>1, <2>2, PlainAnswers
<1>5. QED
  BY <1>3, <1>4

\* The mode of a directory.
LEMMA PlainDirMode ==
  ASSUME EngineOK, PlainWorld, chmod_directory
  PROVE  DirRecorded \/ GivesUp
<1>1. In("create_dirs", "dir_chmod") /\ step = "dir_chmod"
  BY DEF chmod_directory, In
<1>2. PICK a \in file_chmod_call(opt.protocol, server, PlaceOfLocal, Local(here).mode) :
        server' = a.tree /\ IF a.code = "ok" THEN DirDone(current, "record") ELSE Failed(current)
  BY DEF chmod_directory, Answered, here, PlaceOfLocal
<1>3. CASE a.code = "ok" /\ TypeAt(server, PlaceOfLocal) # "none"
           /\ a.tree = ModeSetAt(PlaceOfLocal, Local(here).mode)
  BY <1>1, <1>2, <1>3 DEF DirRecorded, DirDone, Records
<1>4. CASE a.code = "error" /\ a.tree = server /\ (Faults # {} \/ TypeAt(server, PlaceOfLocal) = "none")
  BY <1>1, <1>2, <1>4 DEF GivesUp, Failed
<1>5. QED
  BY <1>2, <1>3, <1>4, PlainChmod

\* A file of which only the mode has changed.
LEMMA PlainMode ==
  ASSUME EngineOK, PlainWorld, chmod_only
  PROVE  SetsMode \/ Skips \/ GivesUp
<1>1. /\ In("files", "entry") /\ step = "entry"
      /\ here.diff = "changed" /\ ~file_contents_changed(here)
  BY DEF chmod_only, In, here
<1>2. CASE ~file_perms_changed(here, site) /\ Advance(current) /\ UNCHANGED <<site, server, ret>>
  BY <1>1, <1>2 DEF Skips
<1>3. CASE \E a \in file_chmod_call(opt.protocol, server, PlaceOfLocal, Local(here).mode) :
             /\ Answered(a)
             /\ \/ a.code = "ok" /\ site' = chmod_done(site, current) /\ Advance(current) /\ ret' = ret
                \/ a.code # "ok" /\ Failed(current)
  <2>1. PICK a \in file_chmod_call(opt.protocol, server, PlaceOfLocal, Local(here).mode) :
          /\ server' = a.tree
          /\ \/ a.code = "ok" /\ site' = chmod_done(site, current) /\ Advance(current) /\ ret' = ret
             \/ a.code # "ok" /\ Failed(current)
    BY <1>3 DEF Answered
  <2>2. CASE a.code = "ok" /\ TypeAt(server, PlaceOfLocal) # "none"
             /\ a.tree = ModeSetAt(PlaceOfLocal, Local(here).mode)
    BY <1>1, <2>1, <2>2 DEF SetsMode
  <2>3. CASE a.code = "error" /\ a.tree = server
    BY <1>1, <2>1, <2>3 DEF GivesUp, Failed
  <2>4. QED
    BY <2>1, <2>2, <2>3, PlainChmod
<1>4. QED
  BY <1>2, <1>3 DEF chmod_only, here, PlaceOfLocal

\* The way that an upload goes.
LEMMA PlainBegin ==
  ASSUME EngineOK, PlainWorld, begin_upload \/ check_modtime
  PROVE  Prepares \/ GivesUp
<1>1. opt.protocol = "ftp" /\ Faults \subseteq {"refused"} /\ ~opt.nooverwrite
  BY PlainOption
<1>2. CASE begin_upload
  <2>1. In("files", "entry") /\ GoTo(current, upload_step(here))
    BY <1>1, <1>2 DEF begin_upload, here
  <2>2. QED
    BY <2>1, <1>2 DEF begin_upload, GoTo, CallNext, Prepares
<1>3. CASE check_modtime
  <2>1. In("files", "check") /\ step = "check"
    BY <1>3 DEF check_modtime, In
  <2>2. PICK allowed \in BOOLEAN : \E a \in Answers(server, allowed, server) :
          server' = a.tree /\ (GoTo(current, "put") \/ Failed(current))
    <3> DEFINE allowed == TypeAt(server, PlaceOfLocal) = "file"
    <3>1. PICK a \in Answers(server, allowed, server) :
            server' = a.tree /\ (GoTo(current, "put") \/ Failed(current))
      BY <1>3 DEF check_modtime, Answered, PlaceOfLocal, here
    <3>2. allowed \in BOOLEAN
      OBVIOUS
    <3> HIDE DEF allowed
    <3>3. QED
      BY <3>1, <3>2
  <2>3. server' = server
    BY <1>1, <2>2, PlainAnswers
  <2>4. QED
    BY <2>1, <2>2, <2>3 DEF GoTo, Failed, CallNext, Prepares, GivesUp
<1>4. QED
  BY <1>2, <1>3

\* The uploads, under the true name or another.
LEMMA PlainSend ==
  ASSUME EngineOK, PlainWorld, put_file \/ upload_file \/ upload_temp
  PROVE  Sends \/ SendsTemp \/ GivesUp
<1>1. opt.protocol = "ftp" /\ Faults \subseteq {"refused"}
  BY PlainOption
<1> DEFINE place == IF upload_temp THEN temp_upload_filename(PlaceOfLocal) ELSE PlaceOfLocal
           s     == IF upload_temp THEN "move" ELSE after_upload
<1>2. /\ upload_temp => In("files", "temp")
      /\ ~upload_temp => In("files", "put") \/ In("files", "upload")
      /\ step \notin {"modtime", "record", "dir_chmod"}
  BY DEF put_file, upload_file, upload_temp, In
<1>3. PICK a \in driver_file_upload(server, place, source(Local(here)), clock) :
        server' = a.tree /\ (\/ a.code # "error" /\ GoTo(current, s)
                             \/ a.code # "ok" /\ Failed(current))
  <2>1. CASE upload_temp
    <3>1. PICK a \in file_upload_call(opt.protocol, server, temp_upload_filename(PlaceOfLocal),
                                      source(Local(here)), clock) :
            server' = a.tree /\ IF a.code = "ok" THEN GoTo(current, "move") ELSE Failed(current)
      BY <2>1 DEF upload_temp, Answered, here, PlaceOfLocal
    <3>2. a \in driver_file_upload(server, temp_upload_filename(PlaceOfLocal), source(Local(here)), clock)
      BY <1>1, <3>1 DEF file_upload_call, Dispatch
    <3>3. QED
      BY <2>1, <3>1, <3>2
  <2>2. CASE ~upload_temp
    <3>1. PICK a \in file_upload_call(opt.protocol, server, PlaceOfLocal, source(Local(here)), clock) :
            server' = a.tree /\ (\/ a.code # "error" /\ GoTo(current, after_upload)
                                 \/ a.code # "ok" /\ Failed(current))
      BY <2>2 DEF put_file, upload_file, Answered, here, PlaceOfLocal
    <3>2. a \in driver_file_upload(server, PlaceOfLocal, source(Local(here)), clock)
      BY <1>1, <3>1 DEF file_upload_call, Dispatch
    <3>3. QED
      BY <2>2, <3>1, <3>2
  <2>3. QED
    BY <2>1, <2>2
<1> HIDE DEF place, s
<1>4. CASE /\ a.code = "ok" /\ TypeAt(server, place) # "dir"
           /\ \E c \in source(Local(here)) : a.tree = Uploaded_to(server, place, c, clock)
  <2>1. SendsTo(place) /\ CallNext(s)
    BY <1>3, <1>4 DEF SendsTo, GoTo, CallNext
  <2>2. QED
    BY <1>2, <2>1 DEF Sends, SendsTemp, place, s
<1>5. CASE a.code = "error" /\ a.tree = server
  BY <1>2, <1>3, <1>5 DEF GivesUp, Failed
<1>6. QED
  BY <1>1, <1>3, <1>4, <1>5, PlainUpload

\* The renaming of the temporary file.
LEMMA PlainRename ==
  ASSUME EngineOK, PlainWorld, move_temp
  PROVE  Renames \/ GivesUp
<1> DEFINE temp == temp_upload_filename(PlaceOfLocal)
           done == [p \in Places |-> IF p = PlaceOfLocal THEN server[temp]
                                     ELSE IF p = temp THEN Absent ELSE server[p]]
           allowed == /\ TypeAt(server, temp) = "file"
                      /\ TypeAt(server, PlaceOfLocal) # "dir" /\ DirectoryExists(server, PlaceOfLocal)
<1>1. opt.protocol = "ftp" /\ Faults \subseteq {"refused"}
  BY PlainOption
<1>2. In("files", "move") /\ step = "move"
  BY DEF move_temp, In
<1>3. PICK a \in file_move_call(opt.protocol, server, temp, PlaceOfLocal) :
        server' = a.tree /\ IF a.code = "ok" THEN GoTo(current, after_upload) ELSE Failed(current)
  BY DEF move_temp, Answered, PlaceOfLocal, here
<1>4. a \in Answers(server, allowed, done) /\ allowed \in BOOLEAN
  BY <1>1, <1>3 DEF file_move_call, Dispatch, driver_file_move, DirectoryExists
<1>5. allowed => TypeAt(server, temp) = "file" /\ TypeAt(server, PlaceOfLocal) # "dir"
  OBVIOUS
<1> HIDE DEF allowed, done
<1>6. \/ a.code = "ok" /\ allowed /\ a.tree = done
      \/ a.code = "error" /\ a.tree = server
  BY <1>1, <1>4, PlainAnswers
<1>7. QED
  BY <1>2, <1>3, <1>5, <1>6 DEF Renames, GivesUp, Failed, GoTo, CallNext, done

\* The modification time that the file has got.
LEMMA PlainDate ==
  ASSUME EngineOK, PlainWorld, retrieve_modtime
  PROVE  Dates
<1> DEFINE allowed == TypeAt(server, PlaceOfLocal) = "file"
<1>1. opt.protocol = "ftp" /\ Faults \subseteq {"refused"}
  BY PlainOption
<1>2. In("files", "modtime") /\ pass # 0 /\ current # 0 /\ handlers[pass] = "files"
  BY DEF retrieve_modtime, In
<1>3. PICK a \in get_modtime_call(opt.protocol, server, PlaceOfLocal) :
        /\ server' = a.tree
        /\ site' = file_replace(site, current,
             [here EXCEPT !.server = IF a.code = "ok" THEN server[PlaceOfLocal].time ELSE 0])
        /\ step' = "record" /\ next' = current /\ ret' = ret
  BY DEF retrieve_modtime, Answered, PlaceOfLocal, here
<1>4. a \in Answers(server, allowed, server) /\ allowed \in BOOLEAN
  BY <1>1, <1>3 DEF get_modtime_call
<1>5. allowed => server[PlaceOfLocal].time \in Nat
  <2>1. PlaceOfLocal \in Places
    BY <1>2, CurrentEntry, StatePlaces DEF PlaceOfLocal
  <2>2. allowed => server[PlaceOfLocal] \in RemoteFile
    BY <2>1, FileAt DEF EngineOK
  <2>3. QED
    BY <2>2 DEF RemoteFile
<1> HIDE DEF allowed
<1>6. server' = server /\ (a.code = "ok" => allowed)
  BY <1>1, <1>3, <1>4, PlainAnswers
<1>7. QED
  BY <1>2, <1>3, <1>5, <1>6 DEF Dates, CallNext

\* The record of an upload.
LEMMA PlainRecord ==
  ASSUME EngineOK, PlainWorld, record_upload
  PROVE  FileRecorded
<1>1. In("files", "record") /\ site' = file_uploaded(site, current) /\ Advance(current)
  BY DEF record_upload
<1>2. CASE ~file_perms_changed(here, site) /\ UNCHANGED <<server, ret>>
  BY <1>1, <1>2 DEF FileRecorded, Records
<1>3. CASE \E a \in file_chmod_call(opt.protocol, server, PlaceOfLocal, Local(here).mode) :
             Answered(a) /\ ret' = (IF a.code = "ok" THEN ret ELSE 1)
  <2>1. PICK a \in file_chmod_call(opt.protocol, server, PlaceOfLocal, Local(here).mode) :
          server' = a.tree /\ ret' = (IF a.code = "ok" THEN ret ELSE 1)
    BY <1>3 DEF Answered
  <2>2. CASE a.code = "ok" /\ TypeAt(server, PlaceOfLocal) # "none"
             /\ a.tree = ModeSetAt(PlaceOfLocal, Local(here).mode)
    BY <1>1, <2>1, <2>2 DEF FileRecorded, Records
  <2>3. CASE a.code = "error" /\ a.tree = server /\ (Faults # {} \/ TypeAt(server, PlaceOfLocal) = "none")
    BY <1>1, <2>1, <2>3 DEF FileRecorded, Records
  <2>4. QED
    BY <2>1, <2>2, <2>3, PlainChmod
<1>4. QED
  BY <1>2, <1>3 DEF record_upload, here, PlaceOfLocal

\* A step of the engine is one of these, or the end of a pass.
LEMMA PlainSteps ==
  ASSUME EngineOK, PlainWorld, step \notin {"delete", "put_if"}, UpdateStep
  PROVE  \/ PlainStep /\ pass # 0 /\ current # 0 /\ pass' = pass /\ UNCHANGED <<local, clock>>
         \/ end_pass
<1>1. SUFFICES ASSUME ~end_pass
               PROVE  PlainStep /\ pass # 0 /\ current # 0 /\ pass' = pass /\ UNCHANGED <<local, clock>>
  OBVIOUS
<1>2. pass # 0 /\ current # 0 /\ pass' = pass /\ UNCHANGED <<local, clock>>
  BY <1>1 DEF UpdateStep, update_delete_files, update_delete_directories, update_delete, create_directory,
     chmod_directory, update_move_files, chmod_only, begin_upload, delete_before_upload, check_modtime,
     put_file, put_conditionally, upload_file, upload_temp, move_temp, retrieve_modtime, record_upload,
     Declined, In
<1>3. ~update_move_files
  BY <1>2, PlainOption, CurrentEntry DEF update_move_files, In
<1>4. ~delete_before_upload /\ ~put_conditionally
  BY DEF delete_before_upload, put_conditionally, In
<1>5. Declined => GivesUp
  BY DEF Declined, GivesUp
<1>6. update_delete_files \/ update_delete_directories => Deletes \/ GivesUp
  BY PlainDelete DEF update_delete_files, update_delete_directories
<1>7. PlainStep
  BY <1>1, <1>3, <1>4, <1>5, <1>6, PlainCreate, PlainDirMode, PlainMode, PlainBegin, PlainSend,
     PlainRename, PlainDate, PlainRecord DEF UpdateStep, PlainStep
<1>8. QED
  BY <1>2, <1>7

-----------------------------------------------------------------------------
(* Plain sites: the list is right about the disk and about the server      *)

\* OnServer, for any tree.
HeldBy(tree, type, state) ==
  LET place == file_full_remote(state)
  IN  /\ TypeAt(tree, place) = type
      /\ type = "file" => tree[place].content = state.content
      /\ type = "file" /\ opt.perms = "all" => tree[place].mode = state.mode

\* What was scanned is still on the disk.
Scanned(type, state) ==
  LET f == local[state.filename]
  IN  f # Absent /\ f.type = type /\ f.content = state.content /\ f.mode = state.mode

LocalHeld(f)  == Local(f) # Absent => Scanned(f.type, Local(f))
StoredHeld(f) == Stored(f) # Absent => OnServer(f.type, Stored(f))

\* A new version is on the server and has not been recorded.
Replacing == step \in {"modtime", "record"}

\* Every local state of the list is that of the file on the disk, and every
\* stored state that of the file on the server, but for the one that is being
\* replaced.
ListHeld ==
  \A i \in DOMAIN files :
     LocalHeld(files[i]) /\ (StoredHeld(files[i]) \/ (Replacing /\ i = next))

\* The file of this local state has been sent to the place.
SentTo(place, state) == TypeAt(server, place) = "file" /\ server[place].content = state.content

\* What the calls for one entry have done so far.
StepHeld ==
  LET f     == files[next]
      place == file_full_remote(Local(f))
  IN  /\ step \notin {"delete", "put_if"}
      /\ step = "dir_chmod" => TypeAt(server, place) = "dir"
      /\ step = "move" => SentTo(temp_upload_filename(place), Local(f))
      /\ Replacing => /\ SentTo(place, Local(f))
                      /\ opt.perms = "all" /\ ~file_perms_changed(f, site)
                           => server[place].mode = Local(f).mode

\* The engine with a list that can be trusted.
EngineHeld == EngineOK /\ Keyed(files) /\ StepsAsked /\ ListHeld /\ StepHeld

\* The two states of an entry have one name.
LEMMA OneName ==
  ASSUME Keyed(files), NEW i \in DOMAIN files, Local(files[i]) # Absent, Stored(files[i]) # Absent
  PROVE  /\ Local(files[i]).filename = Stored(files[i]).filename
         /\ file_full_remote(Local(files[i])) = file_full_remote(Stored(files[i]))
<1>1. "local" \in Sides /\ "stored" \in Sides
  BY DEF Sides
<1>2. Local(files[i]).filename = Stored(files[i]).filename
  BY <1>1 DEF Keyed, Local, Stored
<1>3. QED
  BY <1>2 DEF file_full_remote

\* What a call does at the place of the current entry is none of the others'.
OthersStay ==
  \A j \in DOMAIN files \ {current} :
     StoredHeld(files[j]) /\ Stored(files[j]) # Absent =>
       HeldBy(server', files[j].type, Stored(files[j]))

\* A place where nothing is, or something of the entry's type, is not that of
\* an entry of another type; and entries of one type have different names.
LEMMA OtherPlaces ==
  ASSUME PlainWorld, EngineOK, Keyed(files), pass # 0, current # 0,
         NEW y \in Sides, here.st[y] # Absent,
         NEW place, place = file_full_remote(here.st[y]),
         TypeAt(server, place) \in {here.type, "none"},
         \A p \in Places : p[2] = "real" /\ p # place => server'[p] = server[p]
  PROVE  OthersStay
<1>1. SUFFICES ASSUME NEW j \in DOMAIN files, j # current,
                      OnServer(files[j].type, Stored(files[j])), Stored(files[j]) # Absent
               PROVE  HeldBy(server', files[j].type, Stored(files[j]))
  BY DEF OthersStay, StoredHeld
<1>2. current \in DOMAIN files /\ here = files[current] /\ SiteOK(site) /\ files = site.files
  BY CurrentHandled DEF here, EngineOK, Exact, files
<1>3. here.st[y] \in FileState /\ Stored(files[j]) \in FileState /\ files[j] \in Entry
  BY <1>1, <1>2, EntryStates DEF SiteOK, EntryOK
<1>4. file_full_remote(Stored(files[j])) # place
  <2>1. SUFFICES ASSUME file_full_remote(Stored(files[j])) = place PROVE FALSE
    OBVIOUS
  <2>2. Stored(files[j]).filename = here.st[y].filename
    BY <1>3, <2>1 DEF file_full_remote, PlainWorld, FileState
  <2>3. files[j].type # here.type
    BY <1>1, <1>2, <2>2, KeyedPair DEF Stored, Sides
  <2>4. TypeAt(server, place) = files[j].type /\ files[j].type # "none"
    BY <1>1, <1>3, <2>1 DEF OnServer, Entry, FileTypes
  <2>5. QED
    BY <2>3, <2>4
<1>5. server'[file_full_remote(Stored(files[j]))] = server[file_full_remote(Stored(files[j]))]
  BY <1>3, <1>4, StatePlaces
<1>6. QED
  BY <1>1, <1>5 DEF OnServer, HeldBy, TypeAt

\* Nothing on the server has changed but under temporary names.
LEMMA NothingElsewhere ==
  ASSUME EngineOK, \A p \in Places : p[2] = "real" => server'[p] = server[p]
  PROVE  /\ OthersStay
         /\ \A t : \A s \in FileState : OnServer(t, s) => HeldBy(server', t, s)
<1>1. ASSUME NEW t, NEW s \in FileState, OnServer(t, s)
      PROVE  HeldBy(server', t, s)
  BY <1>1, StatePlaces DEF OnServer, HeldBy, TypeAt
<1>2. SiteOK(site) /\ files = site.files
  BY DEF EngineOK, Exact, files
<1>3. \A j \in DOMAIN files : Stored(files[j]) # Absent => Stored(files[j]) \in FileState
  BY <1>2, EntryStates
<1>4. QED
  BY <1>1, <1>3 DEF OthersStay, StoredHeld

\* The list after a step that removes nothing.
EntryChanges ==
  /\ DOMAIN files' = DOMAIN files /\ opt' = opt /\ local' = local
  /\ \A j \in DOMAIN files \ {current} : files'[j] = files[j]
  /\ files'[current].type = here.type /\ Local(files'[current]) = Local(here)

\* It is right if it is right about the current entry.
LEMMA ListStays ==
  ASSUME EngineHeld, pass # 0, current # 0, EntryChanges, OthersStay,
         \/ Stored(files'[current]) # Absent =>
              HeldBy(server', here.type, Stored(files'[current]))
         \/ step' \in {"modtime", "record"} /\ next' = current
  PROVE  ListHeld'
<1>1. current \in DOMAIN files /\ (Replacing => next = current)
  BY CurrentHandled DEF EngineHeld, Replacing
<1>2. SUFFICES ASSUME NEW i \in DOMAIN files'
               PROVE  LocalHeld(files[i])' /\ (StoredHeld(files[i])' \/ (Replacing' /\ i = next'))
  BY DEF ListHeld
<1>3. \A t, s : OnServer(t, s)' <=> HeldBy(server', t, s)
  BY DEF EntryChanges, OnServer, HeldBy
<1>4. \A t, s : Scanned(t, s)' <=> Scanned(t, s)
  BY DEF EntryChanges, Scanned
<1>5. CASE i # current
  <2>1. files'[i] = files[i] /\ i \in DOMAIN files
    BY <1>2, <1>5 DEF EntryChanges
  <2>2. LocalHeld(files[i]) /\ StoredHeld(files[i])
    BY <1>1, <1>5, <2>1 DEF EngineHeld, ListHeld
  <2>3. Stored(files[i]) # Absent => HeldBy(server', files[i].type, Stored(files[i]))
    BY <1>5, <2>1, <2>2 DEF OthersStay
  <2>4. LocalHeld(files[i])'
    BY <1>4, <2>1, <2>2 DEF LocalHeld
  <2>5. StoredHeld(files[i])'
    BY <1>3, <2>1, <2>3 DEF StoredHeld
  <2>6. QED
    BY <2>4, <2>5
<1>6. CASE i = current
  <2>1. LocalHeld(here)
    BY <1>1 DEF EngineHeld, ListHeld, here
  <2>2. LocalHeld(files[i])'
    BY <1>4, <1>6, <2>1 DEF LocalHeld, EntryChanges
  <2>3. StoredHeld(files[i])' \/ (Replacing' /\ i = next')
    BY <1>3, <1>6 DEF StoredHeld, EntryChanges, Replacing
  <2>4. QED
    BY <2>2, <2>3
<1>7. QED
  BY <1>5, <1>6

\* What the operations on the current entry make of it.
LEMMA EntryAfter ==
  ASSUME EngineOK, pass # 0, current # 0, local' = local
  PROVE  /\ site' = site => EntryChanges /\ files'[current] = here
         /\ Local(here) # Absent /\ site' = file_uploaded(site, current) =>
              EntryChanges /\ Stored(files'[current]) = Local(here)
         /\ Local(here) # Absent /\ Stored(here) # Absent /\ site' = chmod_done(site, current) =>
              EntryChanges /\ Stored(files'[current]) = [Stored(here) EXCEPT !.mode = Local(here).mode]
         /\ (\E n \in Nat : site' = file_replace(site, current, [here EXCEPT !.server = n])) =>
              EntryChanges /\ files'[current].st = here.st
<1>1. /\ current \in DOMAIN files /\ here = site.files[current] /\ files = site.files /\ opt = site.opt
      /\ files' = site'.files /\ opt' = site'.opt /\ Exact(site) /\ SiteOK(site) /\ site \in Site
  BY CurrentHandled DEF here, EngineOK, Exact, SiteOK, files, opt
<1>2. here.st \in [Sides -> FileState \cup {Absent}] /\ Sides = {"local", "stored"} /\ here \in Entry
  BY <1>1, EntryStates DEF Sides, SiteOK, EntryOK
<1>3. ASSUME NEW st, site' = set_states(site, current, st), st["local"] = Local(here)
      PROVE  EntryChanges /\ Stored(files'[current]) = st["stored"]
  <2> DEFINE r == set_states(site, current, st).files
  <2>1. /\ r = [site.files EXCEPT ![current] = r[current]]
        /\ r[current].st = st /\ r[current].type = here.type
        /\ set_states(site, current, st).opt = site.opt
    BY <1>1, SetStatesFiles
  <2>2. files' = r /\ opt' = opt
    BY <1>1, <1>3, <2>1
  <2> HIDE DEF r
  <2>3. DOMAIN r = DOMAIN files /\ \A j \in DOMAIN files \ {current} : r[j] = files[j]
    BY <1>1, <2>1
  <2>4. QED
    BY <1>3, <2>1, <2>2, <2>3 DEF EntryChanges, Local, Stored
<1>4. ASSUME site' = site PROVE EntryChanges /\ files'[current] = here
  BY <1>1, <1>4 DEF EntryChanges
<1>5. ASSUME Local(here) # Absent, site' = file_uploaded(site, current)
      PROVE  EntryChanges /\ Stored(files'[current]) = Local(here)
  <2> DEFINE st == [x \in Sides |-> Local(here)]
  <2>1. site' = set_states(site, current, st) /\ st["local"] = Local(here) /\ st["stored"] = Local(here)
    BY <1>1, <1>2, <1>5 DEF file_uploaded
  <2> HIDE DEF st
  <2>2. QED
    BY <1>3, <2>1
<1>6. ASSUME site' = chmod_done(site, current)
      PROVE  EntryChanges /\ Stored(files'[current]) = [Stored(here) EXCEPT !.mode = Local(here).mode]
  <2> DEFINE st == [here.st EXCEPT !["stored"] = [Stored(here) EXCEPT !.mode = Local(here).mode]]
  <2>1. site' = set_states(site, current, st) /\ st["local"] = Local(here)
        /\ st["stored"] = [Stored(here) EXCEPT !.mode = Local(here).mode]
    BY <1>1, <1>2, <1>6 DEF chmod_done, Local
  <2> HIDE DEF st
  <2>2. QED
    BY <1>3, <2>1
<1>7. ASSUME \E n \in Nat : site' = file_replace(site, current, [here EXCEPT !.server = n])
      PROVE  EntryChanges /\ files'[current].st = here.st
  <2>1. PICK n \in Nat : site' = file_replace(site, current, [here EXCEPT !.server = n])
    BY <1>7
  <2> DEFINE f == [here EXCEPT !.server = n]
  <2>2. site'.files = [site.files EXCEPT ![current] = f] /\ opt' = opt
    BY <1>1, <2>1, ServerTimeExact
  <2>3. f.type = here.type /\ f.st = here.st
    BY <1>2 DEF Entry
  <2> HIDE DEF f
  <2>4. DOMAIN files' = DOMAIN files /\ files'[current] = f
        /\ \A j \in DOMAIN files \ {current} : files'[j] = files[j]
    BY <1>1, <2>2
  <2>5. QED
    BY <2>2, <2>3, <2>4 DEF EntryChanges, Local
<1>8. QED
  BY <1>4, <1>5, <1>6, <1>7

\* The entries that are left when one is deleted, and where they are.
LEMMA EntriesShift ==
  ASSUME EngineOK, pass # 0, current # 0, site' = file_delete(site, current)
  PROVE  /\ opt' = opt /\ Len(files) \in Nat /\ DOMAIN files = 1 .. Len(files)
         /\ current \in 1 .. Len(files) /\ DOMAIN files' = 1 .. Len(files) - 1
         /\ \A j \in 1 .. Len(files) - 1 : files'[j] = IF j < current THEN files[j] ELSE files[j + 1]
<1>1. /\ current \in DOMAIN files /\ files = site.files /\ opt = site.opt /\ site \in Site
      /\ files' = site'.files /\ opt' = site'.opt
  BY CurrentHandled DEF EngineOK, Exact, SiteOK, files, opt
<1>2. files' = Removed(files, current) /\ opt' = opt
  BY <1>1, DeleteFiles
<1>3. files \in Seq(Entry) /\ current \in 1 .. Len(files) /\ DOMAIN files = 1 .. Len(files)
      /\ Len(files) \in Nat
  BY <1>1 DEF Site
<1> DEFINE q == files
<1>4. q \in Seq(Entry) /\ current \in 1 .. Len(q)
  BY <1>3
<1> HIDE DEF q
<1>5. /\ Removed(q, current) \in Seq(Entry) /\ Len(Removed(q, current)) = Len(q) - 1
      /\ \A j \in 1 .. Len(q) - 1 : Removed(q, current)[j] = IF j < current THEN q[j] ELSE q[j + 1]
  BY <1>4, RemoveShape
<1>6. files' \in Seq(Entry) /\ Len(files') = Len(files) - 1
  BY <1>2, <1>5 DEF q
<1>7. DOMAIN files' = 1 .. Len(files) - 1
  BY <1>6
<1>8. QED
  BY <1>2, <1>3, <1>5, <1>7 DEF q

\* They were there before.
LEMMA EntriesLeft ==
  ASSUME EngineOK, pass # 0, current # 0, site' = file_delete(site, current)
  PROVE  opt' = opt /\ \A i \in DOMAIN files' : \E j \in DOMAIN files \ {current} : files'[i] = files[j]
<1>1. /\ opt' = opt /\ Len(files) \in Nat /\ DOMAIN files = 1 .. Len(files)
      /\ current \in 1 .. Len(files) /\ DOMAIN files' = 1 .. Len(files) - 1
      /\ \A j \in 1 .. Len(files) - 1 : files'[j] = IF j < current THEN files[j] ELSE files[j + 1]
  BY EntriesShift
<1>2. ASSUME NEW i \in 1 .. Len(files) - 1
      PROVE  \E j \in DOMAIN files \ {current} : files'[i] = files[j]
  <2>1. CASE i < current
    BY <1>1, <2>1
  <2>2. CASE ~(i < current)
    <3>1. i + 1 \in DOMAIN files \ {current} /\ files'[i] = files[i + 1]
      BY <1>1, <2>2
    <3>2. QED
      BY <3>1
  <2>3. QED
    BY <2>1, <2>2
<1>3. QED
  BY <1>1, <1>2

\* What is known of the entry that the engine is at.
LEMMA AtHand ==
  ASSUME PlainWorld, EngineHeld, pass # 0, current # 0
  PROVE  /\ current \in DOMAIN files /\ here \in Entry /\ here = files[current]
         /\ step # "entry" => current = next
         /\ Local(here) # Absent => /\ Local(here) \in FileState /\ LocalHeld(here)
                                    /\ PlaceOfLocal \in Places /\ PlaceOfLocal[2] = "real"
                                    /\ temp_upload_filename(PlaceOfLocal) \in Places
                                    /\ temp_upload_filename(PlaceOfLocal)[2] = "temp"
         /\ Stored(here) # Absent => /\ Stored(here) \in FileState
                                     /\ PlaceOfStored \in Places /\ PlaceOfStored[2] = "real"
                                     /\ ~Replacing => OnServer(here.type, Stored(here))
         /\ Local(here) # Absent /\ Stored(here) # Absent => PlaceOfLocal = PlaceOfStored
<1>1. current \in DOMAIN files /\ here = files[current] /\ (step # "entry" => current = next)
      /\ SiteOK(site) /\ files = site.files
  BY CurrentHandled DEF here, EngineHeld, EngineOK, Exact, files
<1>2. /\ here \in Entry
      /\ Local(here) \in FileState \cup {Absent} /\ Stored(here) \in FileState \cup {Absent}
  BY <1>1, EntryStates DEF SiteOK, EntryOK
<1>3. Local(here) # Absent /\ Stored(here) # Absent => PlaceOfLocal = PlaceOfStored
  BY <1>1, OneName DEF EngineHeld, PlaceOfLocal, PlaceOfStored
<1>4. LocalHeld(here) /\ (StoredHeld(here) \/ Replacing)
  BY <1>1 DEF EngineHeld, ListHeld
<1>5. QED
  BY <1>1, <1>2, <1>3, <1>4, StatePlaces DEF PlaceOfLocal, PlaceOfStored, StoredHeld

\* Nothing is under way when the engine goes on to another entry.
LEMMA RestHeld ==
  ASSUME step' = "entry"
  PROVE  StepHeld' /\ ~Replacing'
BY DEF StepHeld, Replacing

\* A call that fails, or is not made, and the choice of the next one.
LEMMA IdleHeld ==
  ASSUME PlainWorld, EngineHeld, pass # 0, current # 0, local' = local,
         GivesUp \/ Skips \/ Prepares
  PROVE  ListHeld' /\ StepHeld'
<1>1. server' = server /\ site' = site
  BY DEF GivesUp, Skips, Prepares
<1>2. EngineOK /\ EntryChanges /\ files'[current] = here
  BY <1>1, EntryAfter DEF EngineHeld
<1>3. OthersStay /\ \A t : \A s \in FileState : OnServer(t, s) => HeldBy(server', t, s)
  BY <1>1, <1>2, NothingElsewhere
<1>4. ~Replacing
  BY DEF GivesUp, Skips, Prepares, In, Replacing
<1>5. Stored(here) # Absent => Stored(here) \in FileState /\ OnServer(here.type, Stored(here))
  BY <1>4, AtHand
<1>6. ListHeld'
  BY <1>2, <1>3, <1>5, ListStays
<1>7. CASE step' = "entry"
  BY <1>6, <1>7, RestHeld
<1>8. CASE step' = "dir_chmod" /\ Prepares
  <2>1. In("create_dirs", "entry") /\ here.diff = "changed" /\ next' = current
    BY <1>8, PlainOption DEF Prepares, CallNext, upload_step, EngineHeld
  <2>2. /\ Local(here) \in FileState /\ Stored(here) \in FileState
        /\ here.type = "dir"
    BY <1>2, <2>1, CurrentEntry, CurrentHandled DEF handles, In
  <2>3. TypeAt(server, PlaceOfLocal) = "dir"
    BY <1>5, <2>2, AtHand, ConstantsAssumption DEF OnServer, PlaceOfStored
  <2>4. QED
    BY <1>1, <1>2, <1>6, <1>8, <2>1, <2>3 DEF StepHeld, Replacing, PlaceOfLocal
<1>9. CASE step' # "dir_chmod" /\ Prepares
  <2>1. opt.protocol = "ftp"
    BY <1>2, PlainOption
  <2>2. step' \in {"check", "temp", "upload", "put"}
    BY <1>9, <2>1 DEF Prepares, upload_step
  <2>3. QED
    BY <1>6, <2>2 DEF StepHeld, Replacing
<1>10. QED
  BY <1>7, <1>8, <1>9 DEF GivesUp, Skips, Advance

\* A delete.
LEMMA DeleteHeld ==
  ASSUME PlainWorld, EngineHeld, pass # 0, current # 0, local' = local, Deletes
  PROVE  ListHeld' /\ StepHeld'
<1>1. /\ EngineOK /\ Keyed(files) /\ ListHeld /\ step = "entry" /\ step' = "entry"
      /\ handlers[pass] \in {"delete_files", "delete_dirs"}
      /\ TypeAt(server, PlaceOfStored) = here.type
      /\ server' = [server EXCEPT ![PlaceOfStored] = Absent] /\ server \in Tree
  BY DEF Deletes, In, AdvanceRemoved, EngineHeld, EngineOK
<1>2. Stored(here) # Absent
  BY <1>1, CurrentEntry, ConstantsAssumption
<1>3. OthersStay
  <2>1. \A p \in Places : p[2] = "real" /\ p # PlaceOfStored => server'[p] = server[p]
    BY <1>1 DEF Tree
  <2>2. "stored" \in Sides /\ here.st["stored"] # Absent
        /\ PlaceOfStored = file_full_remote(here.st["stored"])
    BY <1>2 DEF Sides, Stored, PlaceOfStored
  <2>3. QED
    BY <1>1, <2>1, <2>2, OtherPlaces
<1>4. opt' = opt /\ \A i \in DOMAIN files' : \E j \in DOMAIN files \ {current} : files'[i] = files[j]
  BY <1>1, EntriesLeft DEF Deletes
<1>5. ASSUME NEW i \in DOMAIN files'
      PROVE  LocalHeld(files[i])' /\ StoredHeld(files[i])'
  <2>1. PICK j \in DOMAIN files \ {current} : files'[i] = files[j]
    BY <1>4
  <2>2. LocalHeld(files[j]) /\ StoredHeld(files[j])
    BY <1>1 DEF ListHeld, Replacing
  <2>3. Stored(files[j]) # Absent => HeldBy(server', files[j].type, Stored(files[j]))
    BY <1>3, <2>2 DEF OthersStay
  <2>4. QED
    BY <1>4, <2>1, <2>2, <2>3 DEF LocalHeld, StoredHeld, Scanned, OnServer, HeldBy
<1>6. QED
  BY <1>1, <1>5, RestHeld DEF ListHeld

\* The place of an entry that is recorded as it is locally.
LEMMA RecordHeld ==
  ASSUME PlainWorld, EngineHeld, pass # 0, current # 0, local' = local, Records,
         Local(here) # Absent, OthersStay, HeldBy(server', here.type, Local(here))
  PROVE  ListHeld' /\ StepHeld'
<1>1. EntryChanges /\ Stored(files'[current]) = Local(here)
  BY EntryAfter DEF Records, EngineHeld
<1>2. ListHeld'
  BY <1>1, ListStays
<1>3. QED
  BY <1>2, RestHeld DEF Records, Advance

\* A new directory.
LEMMA MakeHeld ==
  ASSUME PlainWorld, EngineHeld, pass # 0, current # 0, local' = local, MakesDir
  PROVE  ListHeld' /\ StepHeld'
<1>1. /\ EngineOK /\ Keyed(files) /\ server \in Tree /\ step = "entry" /\ here.diff = "new"
      /\ handlers[pass] = "create_dirs" /\ TypeAt(server, PlaceOfLocal) = "none"
  BY DEF MakesDir, In, EngineHeld, EngineOK
<1>2. Local(here) # Absent /\ here.type = "dir" /\ Stored(here) = Absent
  BY <1>1, CurrentEntry, CurrentHandled, DiffTellsStates, ConstantsAssumption DEF handles
<1>3. PlaceOfLocal \in Places /\ PlaceOfLocal[2] = "real"
  BY <1>2, AtHand
<1> DEFINE dir == [type |-> "dir", content |-> NoData, mode |-> DefaultMode, time |-> clock]
<1>4. server' = [server EXCEPT ![PlaceOfLocal] = dir] /\ dir # Absent /\ dir.type = "dir"
  BY TreeAssumption, ServerAssumption, ConstantsAssumption DEF MakesDir, RemoteFile, EngineHeld, EngineOK
<1> HIDE DEF dir
<1>5. TypeAt(server', PlaceOfLocal) = "dir"
      /\ \A p \in Places : p[2] = "real" /\ p # PlaceOfLocal => server'[p] = server[p]
  BY <1>1, <1>3, <1>4 DEF TypeAt, Tree
<1>6. OthersStay
  <2>1. "local" \in Sides /\ here.st["local"] # Absent
        /\ PlaceOfLocal = file_full_remote(here.st["local"])
    BY <1>2 DEF Sides, Local, PlaceOfLocal
  <2>2. QED
    BY <1>1, <1>5, <2>1, OtherPlaces
<1>7. CASE Records
  <2>1. HeldBy(server', here.type, Local(here))
    BY <1>2, <1>5 DEF HeldBy, PlaceOfLocal
  <2>2. QED
    BY <1>2, <1>6, <1>7, <2>1, RecordHeld
<1>8. CASE site' = site /\ CallNext("dir_chmod")
  <2>1. EntryChanges /\ files'[current] = here
    BY <1>1, <1>8, EntryAfter
  <2>2. ListHeld'
    BY <1>2, <1>6, <2>1, ListStays
  <2>3. StepHeld'
    BY <1>5, <1>8, <2>1 DEF StepHeld, Replacing, CallNext, PlaceOfLocal
  <2>4. QED
    BY <2>2, <2>3
<1>9. QED
  BY <1>7, <1>8 DEF MakesDir

\* A chmod.
LEMMA ModeSet ==
  ASSUME server \in Tree, NEW place \in Places, NEW mode \in Modes,
         TypeAt(server, place) # "none", server' = ModeSetAt(place, mode)
  PROVE  /\ TypeAt(server', place) = TypeAt(server, place)
         /\ server'[place].content = server[place].content
         /\ server'[place].mode = mode
         /\ \A p \in Places : p # place => server'[p] = server[p]
<1> DEFINE f == [server[place] EXCEPT !.mode = mode]
<1>1. server[place] \in RemoteFile /\ server[place] # Absent
  BY FileAt DEF TypeAt
<1>2. /\ f \in RemoteFile /\ f.type = server[place].type
      /\ f.content = server[place].content /\ f.mode = mode
  BY <1>1 DEF RemoteFile
<1> HIDE DEF f
<1>3. server' = [server EXCEPT ![place] = f]
  BY DEF ModeSetAt, f
<1>4. server'[place] = f /\ \A p \in Places : p # place => server'[p] = server[p]
  BY <1>3 DEF Tree
<1>5. f # Absent
  BY <1>2, TreeAssumption
<1>6. QED
  BY <1>1, <1>2, <1>4, <1>5 DEF TypeAt

\* A chmod of what the entry has at its place is no matter to the others.
LEMMA ModeStays ==
  ASSUME PlainWorld, EngineHeld, pass # 0, current # 0, Local(here) # Absent,
         TypeAt(server, PlaceOfLocal) = here.type,
         server' = ModeSetAt(PlaceOfLocal, Local(here).mode)
  PROVE  /\ OthersStay /\ TypeAt(server', PlaceOfLocal) = here.type
         /\ server'[PlaceOfLocal].content = server[PlaceOfLocal].content
         /\ server'[PlaceOfLocal].mode = Local(here).mode
<1>1. EngineOK /\ Keyed(files) /\ server \in Tree
  BY DEF EngineHeld, EngineOK
<1>2. PlaceOfLocal \in Places /\ Local(here) \in FileState /\ here \in Entry
  BY AtHand
<1>3. Local(here).mode \in Modes /\ here.type # "none"
  BY <1>2 DEF FileState, Entry, FileTypes
<1>4. /\ TypeAt(server', PlaceOfLocal) = here.type
      /\ server'[PlaceOfLocal].content = server[PlaceOfLocal].content
      /\ server'[PlaceOfLocal].mode = Local(here).mode
      /\ \A p \in Places : p # PlaceOfLocal => server'[p] = server[p]
  BY <1>1, <1>2, <1>3, ModeSet
<1>5. "local" \in Sides /\ here.st["local"] # Absent /\ PlaceOfLocal = file_full_remote(here.st["local"])
  BY DEF Sides, Local, PlaceOfLocal
<1>6. OthersStay
  BY <1>1, <1>4, <1>5, OtherPlaces
<1>7. QED
  BY <1>4, <1>6

\* The record of a directory.
LEMMA DirHeld ==
  ASSUME PlainWorld, EngineHeld, pass # 0, current # 0, local' = local, DirRecorded
  PROVE  ListHeld' /\ StepHeld'
<1>1. EngineOK /\ Records /\ handlers[pass] = "create_dirs"
  BY DEF EngineHeld, DirRecorded, In
<1>2. Local(here) # Absent /\ here.type = "dir"
  BY <1>1, CurrentEntry, CurrentHandled, ConstantsAssumption DEF handles
<1>3. TypeAt(server, PlaceOfLocal) = "dir"
  <2>1. CASE In("create_dirs", "entry") /\ here.diff = "changed"
    <3>1. Stored(here) # Absent /\ ~Replacing
      BY <1>1, <2>1, CurrentEntry, ConstantsAssumption DEF In, Replacing
    <3>2. QED
      BY <1>2, <3>1, AtHand DEF OnServer, PlaceOfStored
  <2>2. CASE In("create_dirs", "dir_chmod")
    BY <2>2, AtHand DEF In, EngineHeld, StepHeld, PlaceOfLocal
  <2>3. QED
    BY <2>1, <2>2 DEF DirRecorded
<1>4. OthersStay /\ TypeAt(server', PlaceOfLocal) = "dir"
  <2>1. CASE server' = server
    BY <1>1, <1>3, <2>1, NothingElsewhere
  <2>2. CASE server' = ModeSetAt(PlaceOfLocal, Local(here).mode)
    BY <1>2, <1>3, <2>2, ModeStays
  <2>3. QED
    BY <2>1, <2>2 DEF DirRecorded
<1>5. HeldBy(server', here.type, Local(here))
  BY <1>2, <1>4 DEF HeldBy, PlaceOfLocal
<1>6. QED
  BY <1>1, <1>2, <1>4, <1>5, RecordHeld

\* The chmod of a file that has not changed.
LEMMA ModeHeld ==
  ASSUME PlainWorld, EngineHeld, pass # 0, current # 0, local' = local, SetsMode
  PROVE  ListHeld' /\ StepHeld'
<1>1. /\ EngineOK /\ step = "entry" /\ handlers[pass] = "files" /\ here.diff = "changed"
      /\ step' = "entry" /\ server' = ModeSetAt(PlaceOfLocal, Local(here).mode)
      /\ site' = chmod_done(site, current)
  BY DEF EngineHeld, SetsMode, In, Advance
<1>2. /\ Local(here) # Absent /\ Stored(here) # Absent /\ Stored(here) \in FileState
      /\ here.type = "file" /\ ~Replacing
  BY <1>1, CurrentEntry, CurrentHandled, ConstantsAssumption DEF handles, Replacing
<1>3. /\ PlaceOfLocal = PlaceOfStored /\ OnServer("file", Stored(here))
      /\ TypeAt(server, PlaceOfLocal) = here.type
  BY <1>2, AtHand DEF OnServer, PlaceOfStored
<1>4. /\ OthersStay /\ TypeAt(server', PlaceOfLocal) = "file"
      /\ server'[PlaceOfLocal].content = server[PlaceOfLocal].content
      /\ server'[PlaceOfLocal].mode = Local(here).mode
  BY <1>1, <1>2, <1>3, ModeStays
<1> DEFINE st == [Stored(here) EXCEPT !.mode = Local(here).mode]
<1>5. EntryChanges /\ Stored(files'[current]) = st
  BY <1>1, <1>2, EntryAfter
<1>6. st.filename = Stored(here).filename /\ st.content = Stored(here).content /\ st.mode = Local(here).mode
  BY <1>2 DEF FileState
<1> HIDE DEF st
<1>7. HeldBy(server', here.type, Stored(files'[current]))
  BY <1>2, <1>3, <1>4, <1>5, <1>6 DEF HeldBy, OnServer, PlaceOfStored, file_full_remote
<1>8. QED
  BY <1>1, <1>4, <1>5, <1>7, ListStays, RestHeld

\* The time of a file.
LEMMA DateHeld ==
  ASSUME PlainWorld, EngineHeld, pass # 0, current # 0, local' = local, Dates
  PROVE  ListHeld' /\ StepHeld'
<1>1. /\ EngineOK /\ Replacing /\ step # "entry" /\ step' = "record" /\ next' = current /\ server' = server
  BY DEF EngineHeld, Dates, In, CallNext, Replacing
<1>2. EntryChanges /\ files'[current].st = here.st
  BY <1>1, EntryAfter DEF Dates
<1>3. OthersStay
  BY <1>1, NothingElsewhere
<1>4. ListHeld'
  BY <1>1, <1>2, <1>3, ListStays
<1>5. /\ Local(files'[current]) = Local(here) /\ site'.opt = site.opt
      /\ file_perms_changed(files'[current], site') = file_perms_changed(here, site)
  BY <1>2 DEF Local, Stored, file_perms_changed, EntryChanges, opt
<1>6. current = next /\ here = files[next]
  BY <1>1, AtHand DEF here
<1>7. StepHeld'
  BY <1>1, <1>2, <1>5, <1>6 DEF StepHeld, Replacing, SentTo, EngineHeld, EntryChanges
<1>8. QED
  BY <1>4, <1>7

\* What is sent is what was scanned.
LEMMA SourceScanned ==
  ASSUME NEW f, f.type = "file", LocalHeld(f), Local(f) # Absent
  PROVE  source(Local(f)) = {Local(f).content}
BY DEF LocalHeld, Scanned, source

\* The file that is sent is whole when it has arrived.
LEMMA Arrived ==
  ASSUME PlainWorld, EngineHeld, pass # 0, current # 0, handlers[pass] = "files",
         NEW place \in Places, SendsTo(place)
  PROVE  /\ TypeAt(server', place) = "file" /\ server'[place].content = Local(here).content
         /\ \A p \in Places : p # place => server'[p] = server[p]
         /\ TypeAt(server, place) = "file" => server'[place].mode = server[place].mode
<1>1. EngineOK /\ server \in Tree /\ clock \in Nat
  BY DEF EngineHeld, EngineOK
<1>2. here.type = "file" /\ Local(here) # Absent /\ LocalHeld(here) /\ Local(here) \in FileState
  BY <1>1, AtHand, CurrentEntry, CurrentHandled, ConstantsAssumption DEF handles
<1>3. server' = Uploaded_to(server, place, Local(here).content, clock)
  BY <1>2, SourceScanned DEF SendsTo
<1> DEFINE c == Local(here).content
<1>4. c \in Contents \cup {Garbage}
  BY <1>2 DEF FileState
<1> HIDE DEF c
<1>5. /\ server' \in Tree
      /\ server'[place] \in RemoteFile /\ server'[place].type = "file" /\ server'[place].content = c
      /\ \A p \in Places \ {place} : server'[p] = server[p]
  BY <1>1, <1>3, <1>4, UploadedTree DEF c
<1>6. TypeAt(server, place) = "file" => server'[place].mode = server[place].mode
  BY <1>1, <1>3 DEF TypeAt, Uploaded_to, Tree
<1>7. QED
  BY <1>5, <1>6, TreeAssumption DEF TypeAt, c

\* A file of which the mode has not changed has its mode on the server.
LEMMA ModeUnchanged ==
  ASSUME PlainWorld, EngineHeld, pass # 0, current # 0, handlers[pass] = "files", ~Replacing,
         opt.perms = "all", ~file_perms_changed(here, site)
  PROVE  ~opt.tempupload /\ TypeAt(server, PlaceOfLocal) = "file"
         /\ server[PlaceOfLocal].mode = Local(here).mode
<1>1. EngineOK /\ here.type = "file" /\ Local(here) # Absent
  BY CurrentEntry, CurrentHandled, ConstantsAssumption DEF handles, EngineHeld
<1>2. ~opt.tempupload /\ ModeOf(Local(here)) = ModeOf(Stored(here))
  BY DEF file_perms_changed, opt
<1>3. Stored(here) # Absent /\ Stored(here).mode = Local(here).mode
  BY <1>1, <1>2 DEF ModeOf
<1>4. OnServer("file", Stored(here)) /\ PlaceOfLocal = PlaceOfStored
  BY <1>1, <1>3, AtHand
<1>5. QED
  BY <1>2, <1>3, <1>4 DEF OnServer, PlaceOfStored

\* An upload under the true name.
LEMMA SendHeld ==
  ASSUME PlainWorld, EngineHeld, pass # 0, current # 0, local' = local, Sends
  PROVE  ListHeld' /\ StepHeld'
<1>1. /\ EngineOK /\ Keyed(files) /\ handlers[pass] = "files" /\ step # "entry" /\ ~Replacing
      /\ SendsTo(PlaceOfLocal) /\ site' = site /\ next' = current /\ step' \in {"modtime", "record"}
      /\ TypeAt(server, PlaceOfLocal) # "dir" /\ server \in Tree
  BY DEF EngineHeld, EngineOK, Sends, In, CallNext, SendsTo, after_upload, Replacing
<1>2. here.type = "file" /\ Local(here) # Absent /\ PlaceOfLocal \in Places
  BY <1>1, AtHand, CurrentEntry, CurrentHandled, ConstantsAssumption DEF handles
<1>3. /\ TypeAt(server', PlaceOfLocal) = "file" /\ server'[PlaceOfLocal].content = Local(here).content
      /\ \A p \in Places : p # PlaceOfLocal => server'[p] = server[p]
      /\ TypeAt(server, PlaceOfLocal) = "file" => server'[PlaceOfLocal].mode = server[PlaceOfLocal].mode
  BY <1>1, <1>2, Arrived
<1>4. EntryChanges /\ files'[current] = here
  BY <1>1, EntryAfter
<1>5. OthersStay
  <2>1. TypeAt(server, PlaceOfLocal) \in {here.type, "none"}
    BY <1>1, <1>2, FileAt
  <2>2. "local" \in Sides /\ here.st["local"] # Absent /\ PlaceOfLocal = file_full_remote(here.st["local"])
    BY <1>2 DEF Sides, Local, PlaceOfLocal
  <2>3. QED
    BY <1>1, <1>3, <2>1, <2>2, OtherPlaces
<1>6. ListHeld'
  BY <1>1, <1>4, <1>5, ListStays
<1>7. file_perms_changed(files'[current], site') = file_perms_changed(here, site)
  BY <1>1, <1>4
<1>8. opt.perms = "all" /\ ~file_perms_changed(here, site)
        => server'[PlaceOfLocal].mode = Local(here).mode
  BY <1>1, <1>3, ModeUnchanged
<1>9. StepHeld'
  BY <1>1, <1>3, <1>4, <1>7, <1>8 DEF StepHeld, Replacing, SentTo, EntryChanges, PlaceOfLocal
<1>10. QED
  BY <1>6, <1>9

\* An upload under a temporary name.
LEMMA SendTempHeld ==
  ASSUME PlainWorld, EngineHeld, pass # 0, current # 0, local' = local, SendsTemp
  PROVE  ListHeld' /\ StepHeld'
<1> DEFINE temp == temp_upload_filename(PlaceOfLocal)
<1>1. /\ EngineOK /\ handlers[pass] = "files" /\ step # "entry" /\ ~Replacing
      /\ SendsTo(temp) /\ site' = site /\ next' = current /\ step' = "move"
  BY DEF EngineHeld, SendsTemp, In, CallNext, SendsTo, Replacing
<1>2. Local(here) # Absent /\ temp \in Places /\ temp[2] = "temp"
  BY <1>1, AtHand, CurrentEntry, ConstantsAssumption
<1>3. /\ TypeAt(server', temp) = "file" /\ server'[temp].content = Local(here).content
      /\ \A p \in Places : p # temp => server'[p] = server[p]
  BY <1>1, <1>2, Arrived
<1>4. EntryChanges /\ files'[current] = here
  BY <1>1, EntryAfter
<1>5. OthersStay /\ \A t : \A s \in FileState : OnServer(t, s) => HeldBy(server', t, s)
  BY <1>1, <1>2, <1>3, NothingElsewhere
<1>6. Stored(here) # Absent => HeldBy(server', here.type, Stored(here))
  BY <1>1, <1>5, AtHand
<1>7. ListHeld'
  BY <1>4, <1>5, <1>6, ListStays
<1>8. StepHeld'
  BY <1>1, <1>3, <1>4 DEF StepHeld, Replacing, SentTo, PlaceOfLocal
<1>9. QED
  BY <1>7, <1>8

\* The renaming of the temporary file.
LEMMA RenameHeld ==
  ASSUME PlainWorld, EngineHeld, pass # 0, current # 0, local' = local, Renames
  PROVE  ListHeld' /\ StepHeld'
<1> DEFINE temp == temp_upload_filename(PlaceOfLocal)
<1>1. /\ EngineOK /\ Keyed(files) /\ server \in Tree /\ handlers[pass] = "files"
      /\ step = "move" /\ ~Replacing /\ site' = site /\ next' = current
      /\ step' \in {"modtime", "record"}
      /\ TypeAt(server, temp) = "file" /\ TypeAt(server, PlaceOfLocal) # "dir"
      /\ server' = [p \in Places |-> IF p = PlaceOfLocal THEN server[temp]
                                     ELSE IF p = temp THEN Absent ELSE server[p]]
  BY DEF EngineHeld, EngineOK, Renames, In, CallNext, after_upload, Replacing
<1>2. /\ here.type = "file" /\ Local(here) # Absent /\ PlaceOfLocal \in Places /\ PlaceOfLocal[2] = "real"
      /\ temp \in Places /\ temp[2] = "temp" /\ current = next /\ here = files[next]
  BY <1>1, AtHand, CurrentEntry, CurrentHandled, ConstantsAssumption DEF handles, here
<1>3. server[temp].content = Local(here).content
  BY <1>1, <1>2 DEF EngineHeld, StepHeld, SentTo, PlaceOfLocal
<1> HIDE DEF temp
<1>4. /\ TypeAt(server', PlaceOfLocal) = "file" /\ server'[PlaceOfLocal].content = Local(here).content
      /\ \A p \in Places : p[2] = "real" /\ p # PlaceOfLocal => server'[p] = server[p]
  BY <1>1, <1>2, <1>3 DEF TypeAt
<1>5. EntryChanges /\ files'[current] = here
  BY <1>1, EntryAfter
<1>6. OthersStay
  <2>1. TypeAt(server, PlaceOfLocal) \in {here.type, "none"}
    BY <1>1, <1>2, FileAt
  <2>2. "local" \in Sides /\ here.st["local"] # Absent /\ PlaceOfLocal = file_full_remote(here.st["local"])
    BY <1>2 DEF Sides, Local, PlaceOfLocal
  <2>3. QED
    BY <1>1, <1>4, <2>1, <2>2, OtherPlaces
<1>7. ListHeld'
  BY <1>1, <1>5, <1>6, ListStays
<1>8. file_perms_changed(files'[current], site') = file_perms_changed(here, site)
  BY <1>1, <1>5
<1>9. opt.perms = "all" => file_perms_changed(here, site)
  BY <1>1, ModeUnchanged DEF EngineHeld, StepsAsked
<1>10. StepHeld'
  BY <1>1, <1>4, <1>5, <1>8, <1>9 DEF StepHeld, Replacing, SentTo, EntryChanges, PlaceOfLocal
<1>11. QED
  BY <1>7, <1>10

\* The record of a file.
LEMMA FileHeld ==
  ASSUME PlainWorld, EngineHeld, pass # 0, current # 0, local' = local, FileRecorded
  PROVE  ListHeld' /\ StepHeld'
<1>1. EngineOK /\ Records /\ handlers[pass] = "files" /\ step = "record" /\ Replacing
  BY DEF EngineHeld, FileRecorded, In, Replacing
<1>2. /\ here.type = "file" /\ Local(here) # Absent /\ PlaceOfLocal \in Places
      /\ current = next /\ here = files[next]
  BY <1>1, AtHand, CurrentEntry, CurrentHandled, ConstantsAssumption DEF handles, here
<1>3. /\ TypeAt(server, PlaceOfLocal) = "file" /\ server[PlaceOfLocal].content = Local(here).content
      /\ opt.perms = "all" /\ ~file_perms_changed(here, site) => server[PlaceOfLocal].mode = Local(here).mode
  BY <1>1, <1>2 DEF EngineHeld, StepHeld, SentTo, PlaceOfLocal
<1>4. CASE server' = ModeSetAt(PlaceOfLocal, Local(here).mode)
  <2>1. /\ OthersStay /\ TypeAt(server', PlaceOfLocal) = "file"
        /\ server'[PlaceOfLocal].content = server[PlaceOfLocal].content
        /\ server'[PlaceOfLocal].mode = Local(here).mode
    BY <1>2, <1>3, <1>4, ModeStays
  <2>2. HeldBy(server', here.type, Local(here))
    BY <1>2, <1>3, <2>1 DEF HeldBy, PlaceOfLocal
  <2>3. QED
    BY <1>1, <1>2, <2>1, <2>2, RecordHeld
<1>5. CASE server' = server /\ (opt.perms = "all" => ~file_perms_changed(here, site))
  <2>1. OthersStay
    BY <1>1, <1>5, NothingElsewhere
  <2>2. HeldBy(server', here.type, Local(here))
    BY <1>2, <1>3, <1>5 DEF HeldBy, PlaceOfLocal
  <2>3. QED
    BY <1>1, <1>2, <2>1, <2>2, RecordHeld
<1>6. opt.perms = "all" => Faults = {}
  BY <1>1, PlainOption DEF PlainSite
<1>7. QED
  BY <1>3, <1>4, <1>5, <1>6 DEF FileRecorded

\* Every step of the engine.
LEMMA PlainStepHeld ==
  ASSUME PlainWorld, EngineHeld, UpdateStep
  PROVE  ListHeld' /\ StepHeld'
<1>1. EngineOK /\ step \notin {"delete", "put_if"}
  BY DEF EngineHeld, StepHeld
<1>2. CASE PlainStep /\ pass # 0 /\ current # 0 /\ local' = local
  BY <1>2, IdleHeld, DeleteHeld, MakeHeld, DirHeld, ModeHeld, SendHeld, SendTempHeld, RenameHeld, DateHeld,
     FileHeld DEF PlainStep
<1>3. CASE end_pass
  <2>1. step = "entry" /\ step' = "entry" /\ UNCHANGED <<site, local, server>>
    BY <1>3 DEF end_pass, BeginPass
  <2>2. ListHeld'
    BY <2>1 DEF EngineHeld, ListHeld, Replacing, LocalHeld, StoredHeld, Scanned, OnServer, files, opt
  <2>3. QED
    BY <2>1, <2>2, RestHeld
<1>4. QED
  BY <1>1, <1>2, <1>3, PlainSteps

-----------------------------------------------------------------------------
(* Plain sites: over all runs                                              *)

\* Between two steps the list of a run can be trusted, and so can the info file
\* for the next run.
HeldInv ==
  /\ pc # "idle" => ListHeld
  /\ StepHeld
  /\ \A k \in DOMAIN info.items : OnServer(info.items[k].type, info.items[k].state)
  /\ pc \in {"update", "save"} => info.items = << >>

\* The states that a list may have.
TrustedStates ==
  {q \in Sides \X FileTypes \X FileState :
     IF q[1] = "local" THEN Scanned(q[2], q[3]) ELSE OnServer(q[2], q[3])}

\* A list has these states only when each of its entries can be trusted.
LEMMA TrustedList ==
  ASSUME NEW q \in Seq(Entry)
  PROVE  StatesAmong(q, TrustedStates) <=> \A i \in DOMAIN q : LocalHeld(q[i]) /\ StoredHeld(q[i])
<1>1. ASSUME NEW i \in DOMAIN q
      PROVE  (\A x \in Sides : q[i].st[x] # Absent => <<x, q[i].type, q[i].st[x]>> \in TrustedStates)
               <=> LocalHeld(q[i]) /\ StoredHeld(q[i])
  <2>1. q[i] \in Entry
    OBVIOUS
  <2>2. q[i].type \in FileTypes /\ q[i].st \in [Sides -> FileState \cup {Absent}] /\ Sides = {"local", "stored"}
    BY <2>1 DEF Entry, Sides
  <2>3. \A x \in Sides : q[i].st[x] # Absent =>
          (<<x, q[i].type, q[i].st[x]>> \in TrustedStates <=>
             IF x = "local" THEN Scanned(q[i].type, q[i].st[x]) ELSE OnServer(q[i].type, q[i].st[x]))
    BY <2>2 DEF TrustedStates
  <2>4. QED
    BY <2>2, <2>3 DEF LocalHeld, StoredHeld, Local, Stored
<1>2. QED
  BY <1>1 DEF StatesAmong

\* The engine at rest has nothing under way.
LEMMA AtRestHeld ==
  ASSUME RunInv, pc # "update"
  PROVE  step = "entry" /\ ~Replacing
BY DEF RunInv, EngineOK, AtEntry, Replacing

\* Reading the local files and the info file.
LEMMA ReadingHeld ==
  ASSUME RunInv, HeldInv, ReadLocalFile \/ ReadItem
  PROVE  HeldInv'
<1>1. /\ Exact(site) /\ SiteOK(site) /\ site \in Site /\ site.files \in Seq(Entry) /\ files = site.files
      /\ pc \in {"read_local", "read_stored"} /\ pc' = pc /\ step = "entry" /\ step' = step
      /\ UNCHANGED <<local, server, info>>
      /\ info.items \in Seq(Item) /\ item \in Nat /\ doc \in Nat
      /\ local \in [Names -> LocalFile \cup {Absent}]
  BY AtRestHeld DEF ReadLocalFile, ReadItem, RunInv, EngineOK, Exact, SiteOK, Site, files, InfoFile
<1>2. opt' = opt /\ files' = site'.files /\ files' \in Seq(Entry)
  <2>1. opt' = opt
    BY <1>1, RunMoves DEF RunNext, Program, EngineMoves, Aside, Outsider, opt
  <2>2. RunInv'
    BY ReadingKeeps
  <2>3. QED
    BY <2>1, <2>2 DEF RunInv, EngineOK, Exact, SiteOK, Site, files
<1>3. StatesAmong(site.files, TrustedStates)
  BY <1>1, TrustedList DEF HeldInv, ListHeld, Replacing
<1>4. StatesAmong(files', TrustedStates)
  <2>1. CASE ReadLocalFile
    <3>1. PICK n \in unread :
            site' = IF local[n] = Absent THEN site
                    ELSE file_set_local(site, local[n].type,
                           [filename |-> n, content |-> local[n].content, mode |-> local[n].mode])
      BY <2>1 DEF ReadLocalFile
    <3> DEFINE state == [filename |-> n, content |-> local[n].content, mode |-> local[n].mode]
               type  == local[n].type
    <3>2. n \in Names /\ local[n] \in LocalFile \cup {Absent}
      BY <1>1 DEF RunInv
    <3>3. CASE local[n] = Absent
      BY <1>2, <1>3, <3>1, <3>3
    <3>4. CASE local[n] # Absent
      <4>1. type \in FileTypes /\ state \in FileState
        BY <3>2, <3>4 DEF LocalFile, FileTypes, FileState
      <4>2. <<"local", type, state>> \in TrustedStates
        BY <3>4, <4>1 DEF TrustedStates, Scanned, Sides
      <4>3. site' = file_set(site, "local", type, state) /\ "local" \in Sides
        BY <3>1, <3>4 DEF file_set_local, Sides
      <4> HIDE DEF state, type
      <4>4. StatesAmong(file_set(site, "local", type, state).files, TrustedStates)
        BY <1>1, <1>3, <4>1, <4>2, <4>3, FileSetStatesIn
      <4>5. QED
        BY <1>2, <4>3, <4>4
    <3>5. QED
      BY <3>3, <3>4
  <2>2. CASE ReadItem
    <3> DEFINE it   == info.items[item]
               u    == file_set_stored(site, it.type, it.state)
               k    == file_set_index(site, "stored", it.type, it.state)
               time == server_modtime(doc, it)
    <3>1. item # 0 /\ item =< Len(info.items) /\ item \in DOMAIN info.items
      BY <1>1, <2>2 DEF ReadItem, RunInv
    <3>2. it \in Item /\ it.type \in FileTypes /\ it.state \in FileState /\ it.server \in Nat
      <4>1. it \in Item
        BY <1>1, <3>1, ItemAt
      <4>2. QED
        BY <4>1 DEF Item
    <3>3. site' = IF time = 0 THEN u ELSE file_replace(u, k, [u.files[k] EXCEPT !.server = time])
      BY <2>2 DEF ReadItem, read_item
    <3>4. time \in Nat
      BY <1>1, <3>2 DEF server_modtime
    <3>5. <<"stored", it.type, it.state>> \in TrustedStates
      BY <3>1, <3>2 DEF TrustedStates, Sides, HeldInv
    <3>6. Exact(u) /\ k \in DOMAIN u.files
      BY <1>1, <3>2, FileSetExact, SetIndex DEF file_set_stored, Sides
    <3>7. StatesAmong(u.files, TrustedStates)
      <4>1. u = file_set(site, "stored", it.type, it.state) /\ "stored" \in Sides
        BY DEF file_set_stored, Sides
      <4> HIDE DEF it, u
      <4>2. QED
        BY <1>1, <1>3, <3>2, <3>5, <4>1, FileSetStatesIn
    <3> HIDE DEF u, k, time
    <3>8. QED
      BY <1>2, <3>3, <3>4, <3>6, <3>7, ServerTimeStatesIn
  <2>3. QED
    BY <2>1, <2>2
<1>5. TrustedStates' = TrustedStates
  BY <1>1, <1>2 DEF TrustedStates, Scanned, OnServer
<1>6. \A i \in DOMAIN files' : LocalHeld(files'[i]) /\ StoredHeld(files'[i])
  BY <1>2, <1>4, TrustedList
<1>7. ListHeld'
  BY <1>1, <1>2, <1>6 DEF ListHeld, LocalHeld, StoredHeld, Scanned, OnServer
<1>8. QED
  BY <1>1, <1>2, <1>7, RestHeld DEF HeldInv, OnServer

\* The list and the server are as they were.
LEMMA HeldStays ==
  ASSUME HeldInv, UNCHANGED <<site, server, local, next>>, step' = step, info' = info,
         pc' # "idle" => pc # "idle", pc' \in {"update", "save"} => pc \in {"update", "save"}
  PROVE  HeldInv'
<1>1. files' = files /\ opt' = opt
  BY DEF files, opt
<1>3. StepHeld'
  BY <1>1 DEF HeldInv, StepHeld, SentTo, Replacing, file_perms_changed, opt
<1>4. pc' # "idle" => ListHeld'
  BY <1>1 DEF HeldInv, ListHeld, LocalHeld, StoredHeld, Scanned, OnServer, Replacing
<1>5. QED
  BY <1>1, <1>3, <1>4 DEF HeldInv, OnServer

\* A new run, a run that begins to update, and one that ends.
LEMMA TurnHeld ==
  ASSUME PlainWorld, RunInv, HeldInv, StartRun \/ OpenStorage \/ SaveState
  PROVE  HeldInv'
<1>1. CASE StartRun
  <2>1. files' = << >> /\ opt' = opt /\ DOMAIN << >> = {}
    BY <1>1 DEF StartRun, EmptySite, files, opt
  <2>2. step' = "entry" /\ UNCHANGED <<server, info>> /\ pc' = "read_local"
    BY <1>1, AtRestHeld DEF StartRun
  <2>3. ListHeld'
    BY <2>1 DEF ListHeld
  <2>4. QED
    BY <2>1, <2>2, <2>3, RestHeld DEF HeldInv, OnServer
<1>2. CASE OpenStorage
  <2>1. PICK a \in Answers(server, TRUE, server) : server' = a.tree /\ step' = "entry"
    BY <1>2 DEF OpenStorage, StartPasses, Answered, BeginPass
  <2>2. server' = server
    BY <2>1, PlainAnswers DEF PlainWorld
  <2>3. /\ UNCHANGED <<site, local>> /\ info'.items = << >> /\ pc' = "update" /\ pc = "act"
    BY <1>2 DEF OpenStorage, StartPasses, TruncatedInfo
  <2>4. ~Replacing
    BY <2>3, AtRestHeld
  <2>5. \A i \in DOMAIN files : LocalHeld(files[i]) /\ StoredHeld(files[i])
    BY <2>3, <2>4 DEF HeldInv, ListHeld
  <2>6. files' = files /\ opt' = opt /\ DOMAIN << >> = {}
    BY <2>3 DEF files, opt
  <2>7. ListHeld'
    BY <2>2, <2>3, <2>5, <2>6 DEF ListHeld, LocalHeld, StoredHeld, Scanned, OnServer
  <2>8. QED
    BY <2>1, <2>3, <2>6, <2>7, RestHeld DEF HeldInv
<1>3. CASE SaveState
  <2>1. /\ UNCHANGED <<site, local, server, step, next>> /\ pc = "save" /\ pc' = "idle"
        /\ info'.items = items_of(files)
    BY <1>3 DEF SaveState, updateVars, ValidInfo
  <2>2. ~Replacing /\ step = "entry"
    BY <2>1, AtRestHeld
  <2>3. \A i \in DOMAIN files : LocalHeld(files[i]) /\ StoredHeld(files[i])
    BY <2>1, <2>2 DEF HeldInv, ListHeld
  <2>4. files \in Seq(Entry)
    BY DEF RunInv, EngineOK, Exact, SiteOK, Site, files
  <2>5. ItemsIn(items_of(files), TrustedStates)
    BY <2>3, <2>4, TrustedList, WrittenIn
  <2>6. \A k \in DOMAIN info'.items : OnServer(info'.items[k].type, info'.items[k].state)
    BY <2>1, <2>5 DEF ItemsIn, TrustedStates
  <2>7. opt' = opt
    BY <2>1 DEF opt
  <2>8. QED
    BY <2>1, <2>2, <2>6, <2>7, RestHeld DEF HeldInv, OnServer
<1>4. QED
  BY <1>1, <1>2, <1>3

\* A step of site_update.
LEMMA UpdateHeld ==
  ASSUME PlainWorld, RunInv, KeysInv, StepsAsked, HeldInv, Update
  PROVE  HeldInv'
<1>1. EngineOK /\ pc = "update" /\ UpdateStep /\ pc' = pc /\ info' = info
  BY DEF Update, RunInv, runVars
<1>2. ~opt.checkmoved
  BY <1>1, PlainOption
<1>3. EngineHeld
  BY <1>1, <1>2 DEF EngineHeld, KeysInv, HeldInv
<1>4. ListHeld' /\ StepHeld'
  BY <1>1, <1>3, PlainStepHeld
<1>5. info.items = << >> /\ DOMAIN << >> = {}
  BY <1>1 DEF HeldInv
<1>6. QED
  BY <1>1, <1>4, <1>5 DEF HeldInv

\* The invariant is kept by every step.
LEMMA HeldKept ==
  ASSUME PlainWorld, RunInv, KeysInv, StepsAsked, HeldInv, [RunNext]_allVars
  PROVE  HeldInv'
<1>1. CASE ReadLocalFile \/ ReadItem
  BY <1>1, ReadingHeld
<1>2. CASE StartRun \/ OpenStorage \/ SaveState
  BY <1>2, TurnHeld
<1>3. CASE Update
  BY <1>3, UpdateHeld
<1>4. CASE ReadInfo \/ StoredRead \/ NothingToDo \/ UpdateReturns \/ Tick \/ UNCHANGED allVars
  BY <1>4, HeldStays DEF ReadInfo, StoredRead, NothingToDo, UpdateReturns, Tick,
     allVars, updateVars, runVars
<1>5. CASE Initialize
  <2>1. info'.items = << >> /\ DOMAIN << >> = {} /\ pc' = "idle" /\ step' = "entry"
    BY <1>5, AtRestHeld DEF Initialize, ValidInfo, updateVars
  <2>2. QED
    BY <2>1, RestHeld DEF HeldInv
<1>6. CASE Edit
  <2>1. pc' = "idle" /\ UNCHANGED <<site, server, info>> /\ step' = "entry"
    BY <1>6, AtRestHeld DEF Edit, PlainWorld, runVars
  <2>2. QED
    BY <2>1, RestHeld DEF HeldInv, OnServer, opt
<1>7. CASE Killed
  <2>1. pc' = "idle" /\ UNCHANGED <<site, server, info>> /\ step' = "entry"
    BY <1>7 DEF Killed
  <2>2. QED
    BY <2>1, RestHeld DEF HeldInv, OnServer, opt
<1>8. CASE Outsider
  BY <1>8 DEF Outsider, PlainWorld
<1>9. QED
  BY <1>1, <1>2, <1>3, <1>4, <1>5, <1>6, <1>7, <1>8 DEF RunNext, Program

\* Two states of one file between which no difference is seen are on the server
\* or not alike.
LEMMA SameOnServer ==
  ASSUME NEW type, NEW a, NEW b, file_full_remote(a) = file_full_remote(b),
         ~states_differ(type, a, b, site), OnServer(type, b)
  PROVE  OnServer(type, a)
<1>1. CASE type = "file"
  <2>1. a.content = b.content /\ (opt.perms = "all" => a.mode = b.mode)
    BY <1>1 DEF states_differ, perms_compared, opt
  <2>2. QED
    BY <2>1 DEF OnServer
<1>2. CASE type # "file"
  BY <1>2 DEF OnServer
<1>3. QED
  BY <1>1, <1>2

\* What follows for the entries that need no update: the stored state of an
\* entry without a difference is on the server, so its local state is.
LEMMA HeldUnchanged ==
  ASSUME PlainWorld, RunInv, KeysInv, HeldInv
  PROVE  UnchangedIsOnServer
<1>1. SUFFICES ASSUME pc \in {"act", "update", "save"}, NEW i \in DOMAIN files,
                      files[i].diff = "unchanged"
               PROVE  OnServer(files[i].type, Local(files[i]))
  BY DEF UnchangedIsOnServer
<1>2. EngineOK /\ SiteOK(site) /\ files = site.files /\ EntryOK(files[i], site)
  BY DEF RunInv, EngineOK, Exact, SiteOK, files
<1>3. Keyed(files)
  BY <1>2, PlainOption DEF KeysInv
<1>4. /\ Local(files[i]) # Absent /\ Stored(files[i]) # Absent
      /\ ~states_differ(files[i].type, Local(files[i]), Stored(files[i]), site)
  BY <1>1, <1>2 DEF EntryOK, file_compare
<1>5. ~(Replacing /\ i = next)
  <2>1. SUFFICES ASSUME step \in {"modtime", "record"} PROVE i # next
    BY DEF Replacing
  <2>2. handles(handlers[pass], files[next]) /\ handlers[pass] \in {"create_dirs", "files"}
    BY <1>2, <2>1 DEF EngineOK, AtEntry, SlowPasses
  <2>3. files[next].diff \in {"new", "changed"}
    BY <2>2 DEF handles
  <2>4. QED
    BY <1>1, <2>3
<1>6. OnServer(files[i].type, Stored(files[i]))
  BY <1>1, <1>4, <1>5 DEF HeldInv, ListHeld, StoredHeld
<1>7. QED
  BY <1>3, <1>4, <1>6, OneName, SameOnServer

\* Nothing has been read and nothing written yet.
LEMMA HeldAtInit ==
  ASSUME RunInit
  PROVE  HeldInv /\ KeysInv /\ StepsAsked
<1>1. /\ files = << >> /\ info.items = << >> /\ DOMAIN << >> = {} /\ pc = "idle" /\ step = "entry"
  BY DEF RunInit, files, EmptySite, ValidInfo
<1>2. KeysInv
  BY <1>1 DEF KeysInv, Keyed, KeyedItems
<1>3. HeldInv
  BY <1>1 DEF HeldInv, StepHeld, Replacing
<1>4. QED
  BY <1>1, <1>2, <1>3 DEF StepsAsked

\* What enum file_diff says of an entry that is "unchanged" is true: the remote
\* file is there, with the content of the local one and, with `permissions all',
\* its mode, although no pass ever looks at it.  So it stays over any number of
\* runs, edits between them, calls that fail, and kills at any point, because
\* the info file is truncated before the server is touched.  It holds for a
\* plain site in a plain world; section 3 of the README has the runs in which
\* other sites break it.
THEOREM UnchangedHeld ==
  ASSUME PlainWorld
  PROVE  RunSpec => []UnchangedIsOnServer
<1>1. RunInit => HeldInv /\ KeysInv /\ StepsAsked
  BY HeldAtInit
<1>2. RunInv /\ KeysInv /\ StepsAsked /\ HeldInv /\ [RunNext]_allVars
        => KeysInv' /\ StepsAsked' /\ HeldInv'
  BY KeysKept, StepsAskedKept, HeldKept DEF PlainWorld
<1>3. RunInv /\ KeysInv /\ HeldInv => UnchangedIsOnServer
  BY HeldUnchanged
<1>4. QED
  BY <1>1, <1>2, <1>3, RunInvariant, PTL DEF RunSpec

-----------------------------------------------------------------------------
(* Plain sites: what a pass leaves behind                                  *)

\* The loop of the pass has gone beyond entry j.
Behind(j) == IF backwards(pass) THEN j > next ELSE j < next

\* Nothing is left to be done for the entry by the passes that have dealt
\* with it.
Settled(j) ==
  \A k \in DOMAIN handlers :
    guard(handlers[k]) /\ (pass = 0 \/ k < pass \/ (k = pass /\ Behind(j)))
      => ~handles(handlers[k], files[j])

\* As long as nothing has failed and nothing was declined.
PassInv ==
  pc \in {"update", "save"} /\ ret = 0 /\ ~opt.prompting => \A j \in DOMAIN files : Settled(j)

\* The loop comes to every entry of its pass.
LEMMA NoneSkipped ==
  ASSUME EngineOK, pass # 0, NEW j \in DOMAIN files, handles(handlers[pass], files[j]), ~Behind(j)
  PROVE  current # 0 /\ IF backwards(pass) THEN j =< current ELSE current =< j
<1> DEFINE rest == {i \in DOMAIN files :
                      /\ handles(handlers[pass], files[i])
                      /\ IF backwards(pass) THEN i =< next ELSE i >= next}
<1>1. Len(files) \in Nat /\ DOMAIN files = 1 .. Len(files)
  BY DEF EngineOK, Exact, SiteOK, Site, files
<1>2. rest \in SUBSET (1 .. Len(files)) /\ next \in Nat
  BY <1>1 DEF EngineOK
<1>3. j \in rest
  BY <1>1, <1>2 DEF Behind
<1>4. current = IF backwards(pass) THEN Max(rest) ELSE Min(rest)
  BY <1>3 DEF current
<1> HIDE DEF rest
<1>5. /\ Max(rest) \in rest /\ \A y \in rest : y =< Max(rest)
      /\ Min(rest) \in rest /\ \A y \in rest : Min(rest) =< y
  BY <1>1, <1>2, <1>3, MaxInSet, MinInSet
<1>6. current \in rest
  BY <1>4, <1>5
<1>7. QED
  BY <1>2, <1>3, <1>4, <1>5, <1>6

\* The rows of the table between two passes have a guard that is false.
LEMMA RowsBetween ==
  ASSUME NEW p \in 0 .. Len(handlers), NEW k \in DOMAIN handlers, p < k, guard(handlers[k])
  PROVE  pass_after(p) # 0 /\ pass_after(p) =< k
<1> DEFINE S == {j \in p + 1 .. Len(handlers) : guard(handlers[j])}
<1>1. Len(handlers) = 5 /\ DOMAIN handlers = 1 .. 5
  BY DEF handlers
<1>2. k \in S /\ S \in SUBSET (1 .. 5) /\ 5 \in Nat
  BY <1>1
<1>3. pass_after(p) = First(S)
  BY DEF pass_after
<1> HIDE DEF S
<1>4. Min(S) \in S /\ \A y \in S : Min(S) =< y
  BY <1>2, MinInSet
<1>5. First(S) = Min(S)
  BY <1>2 DEF First
<1>6. QED
  BY <1>2, <1>3, <1>4, <1>5

\* When a pass begins, the ones before it have dealt with every entry.
LEMMA PassBegins ==
  ASSUME EngineOK, site' = site,
         pass' = pass_after(pass), next' = IF pass' = 0 THEN 0 ELSE first_entry(pass'),
         \A j \in DOMAIN files : \A k \in DOMAIN handlers :
            guard(handlers[k]) /\ k =< pass => ~handles(handlers[k], files[j])
  PROVE  \A j \in DOMAIN files' : Settled(j)'
<1>1. files' = files /\ opt' = opt
  BY DEF files, opt
<1>2. /\ \A p : guard(p)' <=> guard(p)
      /\ \A k, j : handles(handlers[k], files[j])' <=> handles(handlers[k], files[j])
  BY <1>1 DEF guard, handles
<1>3. Len(files) \in Nat /\ DOMAIN files = 1 .. Len(files) /\ pass \in 0 .. Len(handlers)
      /\ Len(handlers) = 5 /\ DOMAIN handlers = 1 .. 5 /\ pass' \in 0 .. Len(handlers)
  BY PassAfter DEF EngineOK, Exact, SiteOK, Site, files, handlers
<1>4. SUFFICES ASSUME NEW j \in DOMAIN files, NEW k \in DOMAIN handlers, guard(handlers[k]),
                      (pass = 0 \/ k < pass \/ (k = pass /\ Behind(j)))'
               PROVE  ~handles(handlers[k], files[j])
  BY <1>1, <1>2 DEF Settled
<1>5. ~(k = pass /\ Behind(j))' \/ pass' = 0
  BY <1>1, <1>3, <1>4 DEF Behind, first_entry, backwards
<1>6. pass' = 0 \/ k < pass'
  BY <1>4, <1>5
<1>7. ~(pass < k)
  <2>1. SUFFICES ASSUME pass < k PROVE FALSE
    OBVIOUS
  <2>2. pass_after(pass) # 0 /\ pass_after(pass) =< k
    BY <1>3, <1>4, <2>1, RowsBetween
  <2>3. QED
    BY <1>3, <1>6, <2>2
<1>8. k =< pass
  BY <1>3, <1>7
<1>9. QED
  BY <1>4, <1>8

\* An entry that has been recorded as it is locally needs nothing more.
LEMMA NothingLeft ==
  ASSUME NEW f, f.diff = "unchanged", NEW k \in DOMAIN handlers
  PROVE  ~handles(handlers[k], f)
<1>1. handlers[k] \in {"delete_files", "create_dirs", "move_files", "files", "delete_dirs"}
  BY DEF handlers
<1>2. QED
  BY <1>1 DEF handles

\* A file that is recorded as it is locally is "unchanged", and so is one whose
\* mode is.  What is ignored stays so.
LEMMA EntryMade ==
  ASSUME EngineOK, ~opt.checkmoved, pass # 0, current # 0
  PROVE  /\ Local(here) # Absent /\ site' = file_uploaded(site, current) =>
              files'[current].diff = "unchanged" /\ files'[current].ignore = here.ignore
         /\ /\ Local(here) # Absent /\ Stored(here) # Absent /\ here.type = "file"
            /\ ~file_contents_changed(here) /\ site' = chmod_done(site, current)
            => files'[current].diff = "unchanged" /\ files'[current].ignore = here.ignore
         /\ (\E n \in Nat : site' = file_replace(site, current, [here EXCEPT !.server = n])) =>
              /\ files'[current].diff = here.diff /\ files'[current].type = here.type
              /\ files'[current].ignore = here.ignore
<1>1. /\ current \in DOMAIN files /\ here = site.files[current] /\ opt = site.opt
      /\ files = site.files /\ files' = site'.files /\ Exact(site) /\ SiteOK(site) /\ site \in Site
  BY CurrentHandled DEF here, EngineOK, Exact, SiteOK, files, opt
<1>2. /\ here.st \in [Sides -> FileState \cup {Absent}] /\ Sides = {"local", "stored"} /\ here \in Entry
      /\ here.type \in FileTypes
  <2>1. here \in Entry
    BY <1>1 DEF SiteOK, EntryOK
  <2>2. QED
    BY <2>1 DEF Sides, Entry
<1>3. ASSUME NEW st, site' = set_states(site, current, st)
      PROVE  /\ files'[current].diff = file_compare(here.type, st["local"], st["stored"], site)
             /\ files'[current].ignore = here.ignore
  <2> DEFINE r == set_states(site, current, st).files
  <2>1. /\ r[current].diff = file_compare(here.type, st["local"], st["stored"], site)
        /\ r[current].ignore = here.ignore
    <3>1. site \in Site /\ current \in DOMAIN site.files /\ here = site.files[current]
      BY <1>1
    <3>2. r[current].diff = file_compare(site.files[current].type, st["local"], st["stored"], site)
      BY <3>1, SetStatesFiles, Zenon
    <3>3. r[current].ignore = here.ignore
      BY <3>1, SetStatesIgnore
    <3>4. QED
      BY <3>1, <3>2, <3>3
  <2>2. files' = r
    BY <1>1, <1>3
  <2> HIDE DEF r
  <2>3. QED
    BY <2>1, <2>2
<1>4. ASSUME Local(here) # Absent, site' = file_uploaded(site, current)
      PROVE  files'[current].diff = "unchanged" /\ files'[current].ignore = here.ignore
  <2> DEFINE st == [x \in Sides |-> Local(here)]
  <2>1. site' = set_states(site, current, st) /\ st["local"] = Local(here) /\ st["stored"] = Local(here)
    BY <1>1, <1>2, <1>4 DEF file_uploaded
  <2> HIDE DEF st
  <2>2. ~states_differ(here.type, Local(here), Local(here), site)
    BY <1>2 DEF states_differ, FileTypes
  <2>3. file_compare(here.type, Local(here), Local(here), site) = "unchanged"
    BY <1>4, <2>2 DEF file_compare
  <2>4. QED
    BY <1>3, <2>1, <2>3
<1>5. ASSUME Local(here) # Absent, Stored(here) # Absent, here.type = "file",
             ~file_contents_changed(here), site' = chmod_done(site, current)
      PROVE  files'[current].diff = "unchanged" /\ files'[current].ignore = here.ignore
  <2> DEFINE new == [Stored(here) EXCEPT !.mode = Local(here).mode]
             st  == [here.st EXCEPT !["stored"] = new]
  <2>1. site' = set_states(site, current, st) /\ st["local"] = Local(here) /\ st["stored"] = new
    BY <1>1, <1>2, <1>5 DEF chmod_done, Local
  <2>2. Stored(here) \in FileState
    BY <1>2, <1>5 DEF Stored
  <2>3. new \in FileState /\ new.mode = Local(here).mode /\ new.content = Stored(here).content
    <3>1. Local(here) \in FileState
      BY <1>2, <1>5 DEF Local
    <3>2. QED
      BY <2>2, <3>1 DEF FileState
  <2>4. new # Absent /\ new.content = Local(here).content
    BY <1>5, <2>3, ConstantsAssumption DEF file_contents_changed
  <2> HIDE DEF st, new
  <2>5. ~states_differ("file", Local(here), new, site)
    BY <2>3, <2>4 DEF states_differ
  <2>6. file_compare("file", Local(here), new, site) = "unchanged"
    BY <1>1, <1>5, <2>4, <2>5 DEF file_compare
  <2>7. QED
    BY <1>3, <1>5, <2>1, <2>6
<1>6. ASSUME NEW n \in Nat, site' = file_replace(site, current, [here EXCEPT !.server = n])
      PROVE  /\ files'[current].diff = here.diff /\ files'[current].type = here.type
             /\ files'[current].ignore = here.ignore
  <2> DEFINE f == [here EXCEPT !.server = n]
  <2>1. files' = [site.files EXCEPT ![current] = f]
    <3>1. f = [site.files[current] EXCEPT !.server = n]
      BY <1>1
    <3>2. file_replace(site, current, [site.files[current] EXCEPT !.server = n]).files
            = [site.files EXCEPT ![current] = [site.files[current] EXCEPT !.server = n]]
      BY <1>1, ServerTimeExact
    <3>3. QED
      BY <1>1, <1>6, <3>1, <3>2
  <2>2. f.diff = here.diff /\ f.type = here.type /\ f.ignore = here.ignore
    BY <1>2 DEF Entry
  <2> HIDE DEF f
  <2>3. files'[current] = f
    BY <1>1, <2>1
  <2>4. QED
    BY <2>2, <2>3
<1>7. QED
  BY <1>4, <1>5, <1>6

\* A file of which nothing but the mode has changed does need a chmod.
LEMMA NothingToSkip ==
  ASSUME EngineOK, pass # 0, current # 0
  PROVE  ~Skips
<1>1. SUFFICES ASSUME In("files", "entry"), here.diff = "changed", ~file_contents_changed(here),
                      ~file_perms_changed(here, site)
               PROVE  FALSE
  BY DEF Skips
<1>2. EntryOK(here, site) /\ here.type = "file"
  BY <1>1, CurrentEntry, CurrentHandled DEF In, handles
<1>3. Local(here) # Absent /\ Stored(here) # Absent /\ states_differ("file", Local(here), Stored(here), site)
  BY <1>1, <1>2 DEF EntryOK, file_compare
<1>4. Local(here).content = Stored(here).content
  BY <1>1, <1>3 DEF file_contents_changed
<1>5. perms_compared(Local(here).mode, Stored(here).mode, site) /\ Local(here).mode # Stored(here).mode
  BY <1>3, <1>4 DEF states_differ
<1>6. ModeOf(Local(here)) = {Local(here).mode} /\ ModeOf(Stored(here)) = {Stored(here).mode}
  BY <1>3 DEF ModeOf
<1>7. QED
  BY <1>1, <1>5, <1>6 DEF file_perms_changed, perms_compared

\* A step that goes on with an entry, or leaves it in need of nothing.
LEMMA SettledStays ==
  ASSUME EngineOK, pass # 0, current # 0, pass' = pass, EntryChanges,
         \A j \in DOMAIN files : Settled(j),
         \/ /\ next' = current
            /\ files'[current].diff = here.diff /\ files'[current].type = here.type
            /\ files'[current].ignore = here.ignore
         \/ files'[current].diff = "unchanged" /\ Advance(current)
  PROVE  \A j \in DOMAIN files' : Settled(j)'
<1>1. /\ current \in DOMAIN files /\ DOMAIN files' = DOMAIN files /\ opt' = opt
      /\ DOMAIN files = 1 .. Len(files) /\ Len(files) \in Nat
      /\ pass \in 0 .. Len(handlers) /\ Len(handlers) = 5 /\ DOMAIN handlers = 1 .. 5
  BY CurrentHandled DEF EntryChanges, EngineOK, Exact, SiteOK, Site, files, handlers
<1>2. \A p : guard(p)' <=> guard(p)
  BY <1>1 DEF guard
<1>3. SUFFICES ASSUME NEW j \in DOMAIN files, NEW k \in DOMAIN handlers, guard(handlers[k]),
                      k < pass \/ (k = pass /\ Behind(j)')
               PROVE  ~handles(handlers[k], files'[j])
  BY <1>1, <1>2 DEF Settled, handles
<1>4. Settled(j)
  OBVIOUS
<1>5. CASE j # current
  <2>1. files'[j] = files[j]
    BY <1>1, <1>5 DEF EntryChanges
  <2>2. CASE k < pass
    BY <1>3, <1>4, <2>1, <2>2 DEF Settled
  <2>3. CASE k = pass /\ Behind(j)'
    <3>1. IF backwards(pass) THEN j > current ELSE j < current
      BY <1>1, <1>5, <2>3 DEF Behind, Advance, backwards
    <3>2. ~handles(handlers[pass], files[j]) \/ Behind(j)
      BY <1>1, <3>1, NoneSkipped
    <3>3. QED
      BY <1>3, <1>4, <2>1, <2>3, <3>2 DEF Settled
  <2>4. QED
    BY <1>3, <2>2, <2>3
<1>6. CASE j = current /\ files'[current].diff = "unchanged"
  BY <1>6, NothingLeft
<1>7. CASE /\ j = current /\ next' = current
           /\ files'[current].diff = here.diff /\ files'[current].type = here.type
           /\ files'[current].ignore = here.ignore
  <2>1. k < pass
    BY <1>1, <1>3, <1>7 DEF Behind
  <2>2. ~handles(handlers[k], files[j])
    BY <1>3, <1>4, <2>1 DEF Settled
  <2>3. handles(handlers[k], files'[j]) <=> handles(handlers[k], files[j])
    BY <1>7 DEF handles, here
  <2>4. QED
    BY <2>2, <2>3
<1>8. QED
  BY <1>5, <1>6, <1>7

\* A step that removes an entry.
LEMMA SettledLeft ==
  ASSUME EngineOK, pass # 0, current # 0, pass' = pass, site' = file_delete(site, current),
         AdvanceRemoved(current), \A j \in DOMAIN files : Settled(j)
  PROVE  \A j \in DOMAIN files' : Settled(j)'
<1>1. /\ opt' = opt /\ Len(files) \in Nat /\ DOMAIN files = 1 .. Len(files)
      /\ current \in 1 .. Len(files) /\ DOMAIN files' = 1 .. Len(files) - 1
      /\ \A j \in 1 .. Len(files) - 1 : files'[j] = IF j < current THEN files[j] ELSE files[j + 1]
      /\ pass \in 0 .. Len(handlers) /\ Len(handlers) = 5 /\ DOMAIN handlers = 1 .. 5
  BY EntriesShift DEF EngineOK, handlers
<1>2. \A p : guard(p)' <=> guard(p)
  BY <1>1 DEF guard
<1>3. SUFFICES ASSUME NEW j \in 1 .. Len(files) - 1, NEW k \in DOMAIN handlers, guard(handlers[k]),
                      k < pass \/ (k = pass /\ Behind(j)')
               PROVE  ~handles(handlers[k], files'[j])
  BY <1>1, <1>2 DEF Settled, handles
<1>4. PICK l \in DOMAIN files : l = IF j < current THEN j ELSE j + 1
  BY <1>1
<1>5. files'[j] = files[l] /\ Settled(l)
  BY <1>1, <1>4
<1>6. CASE k < pass
  BY <1>3, <1>5, <1>6 DEF Settled
<1>7. CASE k = pass /\ Behind(j)'
  <2>1. IF backwards(pass) THEN l > current ELSE l < current
    BY <1>1, <1>4, <1>7 DEF Behind, AdvanceRemoved, backwards
  <2>2. ~handles(handlers[pass], files[l]) \/ Behind(l)
    BY <1>1, <2>1, NoneSkipped
  <2>3. QED
    BY <1>3, <1>5, <1>7, <2>2 DEF Settled
<1>8. QED
  BY <1>3, <1>6, <1>7

\* A step on an entry, as long as nothing fails and nothing is declined.
LEMMA PassStep ==
  ASSUME PlainWorld, EngineOK, pass # 0, current # 0, pass' = pass, local' = local, PlainStep,
         ret' = 0, ~opt.prompting, ret = 0 => \A j \in DOMAIN files : Settled(j)
  PROVE  \A j \in DOMAIN files' : Settled(j)'
<1>1. ret = 0 /\ \A j \in DOMAIN files : Settled(j)
  BY DEF EngineOK, PlainStep, GivesUp, Prepares, Deletes, MakesDir, DirRecorded, SetsMode, Skips, Sends,
     SendsTemp, Renames, Dates, FileRecorded, CallNext
<1>2. CASE site' = site /\ next' = current
  <2>1. EntryChanges /\ files'[current] = here
    BY <1>2, EntryAfter
  <2>2. QED
    BY <1>1, <1>2, <2>1, SettledStays
<1>3. CASE Dates
  <2>1. EntryChanges /\ next' = current
    BY <1>3, EntryAfter DEF Dates, CallNext
  <2>2. /\ files'[current].diff = here.diff /\ files'[current].type = here.type
        /\ files'[current].ignore = here.ignore
    BY <1>3, PlainOption, EntryMade DEF Dates
  <2>3. QED
    BY <1>1, <2>1, <2>2, SettledStays
<1>4. CASE Records /\ handlers[pass] \in {"create_dirs", "files"}
  <2>1. Local(here) # Absent
    BY <1>4, CurrentEntry, ConstantsAssumption
  <2>2. EntryChanges /\ files'[current].diff = "unchanged" /\ Advance(current)
    BY <1>4, <2>1, PlainOption, EntryAfter, EntryMade DEF Records
  <2>3. QED
    BY <1>1, <2>2, SettledStays
<1>5. CASE SetsMode
  <2>1. Local(here) # Absent /\ Stored(here) # Absent /\ here.type = "file"
    BY <1>5, CurrentEntry, CurrentHandled, ConstantsAssumption DEF SetsMode, In, handles
  <2>2. EntryChanges /\ files'[current].diff = "unchanged" /\ Advance(current)
    BY <1>5, <2>1, PlainOption, EntryAfter, EntryMade DEF SetsMode
  <2>3. QED
    BY <1>1, <2>2, SettledStays
<1>6. CASE Deletes
  BY <1>1, <1>6, SettledLeft DEF Deletes
<1>7. ~Skips
  BY NothingToSkip
<1>8. ~GivesUp
  BY DEF GivesUp
<1>9. Prepares \/ Sends \/ SendsTemp \/ Renames => site' = site /\ next' = current
  BY DEF Prepares, Sends, SendsTemp, SendsTo, Renames, CallNext
<1>10. MakesDir => (site' = site /\ next' = current) \/ (Records /\ handlers[pass] \in {"create_dirs", "files"})
  BY DEF MakesDir, CallNext, In
<1>11. DirRecorded \/ FileRecorded => Records /\ handlers[pass] \in {"create_dirs", "files"}
  BY DEF DirRecorded, FileRecorded, In
<1>12. QED
  BY <1>2, <1>3, <1>4, <1>5, <1>6, <1>7, <1>8, <1>9, <1>10, <1>11 DEF PlainStep

\* The passes leave nothing behind.
LEMMA PassKept ==
  ASSUME PlainWorld, RunInv, HeldInv, PassInv, [RunNext]_allVars
  PROVE  PassInv'
<1>1. opt' = opt /\ EngineOK
  BY RunMoves DEF Outsider, Aside, opt, RunInv
<1>2. SUFFICES ASSUME pc' \in {"update", "save"}, ret' = 0, ~opt.prompting
               PROVE  \A j \in DOMAIN files' : Settled(j)'
  BY <1>1 DEF PassInv
<1>3. CASE Update
  <2>1. pc = "update" /\ UpdateStep /\ step \notin {"delete", "put_if"}
    BY <1>3 DEF Update, HeldInv, StepHeld
  <2>2. ret = 0 => \A j \in DOMAIN files : Settled(j)
    BY <1>2, <2>1 DEF PassInv
  <2>3. CASE PlainStep /\ pass # 0 /\ current # 0 /\ pass' = pass /\ UNCHANGED <<local, clock>>
    BY <1>1, <1>2, <2>2, <2>3, PassStep
  <2>4. CASE end_pass
    <3>1. /\ pass # 0 /\ current = 0 /\ site' = site /\ ret = 0
          /\ pass' = pass_after(pass) /\ next' = IF pass' = 0 THEN 0 ELSE first_entry(pass')
      BY <1>2, <2>4 DEF end_pass, BeginPass
    <3>2. ASSUME NEW j \in DOMAIN files, NEW k \in DOMAIN handlers, guard(handlers[k]), k =< pass
          PROVE  ~handles(handlers[k], files[j])
      <4>1. Settled(j)
        BY <2>2, <3>1
      <4>2. pass \in 0 .. Len(handlers) /\ Len(handlers) = 5 /\ DOMAIN handlers = 1 .. 5
        BY <1>1 DEF EngineOK, handlers
      <4>3. ~handles(handlers[pass], files[j]) \/ Behind(j)
        BY <1>1, <3>1, NoneSkipped
      <4>4. k < pass \/ k = pass
        BY <3>2, <4>2
      <4>5. QED
        BY <3>2, <4>1, <4>3, <4>4 DEF Settled
    <3>3. QED
      BY <1>1, <3>1, <3>2, PassBegins
  <2>5. QED
    BY <1>1, <2>1, <2>3, <2>4, PlainSteps
<1>4. CASE OpenStorage
  <2>1. PICK a : /\ pass = 0 /\ site' = site
                 /\ IF a.code = "ok" THEN BeginPass(pass_after(0)) /\ ret' = 0 ELSE BeginPass(0) /\ ret' = 1
    BY <1>4 DEF OpenStorage, StartPasses
  <2>2. pass' = pass_after(pass) /\ next' = IF pass' = 0 THEN 0 ELSE first_entry(pass')
    BY <1>2, <2>1 DEF BeginPass
  <2>3. \A k \in DOMAIN handlers : ~(k =< pass)
    BY <2>1 DEF handlers
  <2>4. QED
    BY <1>1, <2>1, <2>2, <2>3, PassBegins
<1>5. CASE UpdateReturns \/ Tick \/ UNCHANGED allVars
  <2>1. UNCHANGED <<site, pass, next, ret>> /\ pc \in {"update", "save"}
    BY <1>2, <1>5 DEF UpdateReturns, Tick, allVars, updateVars, runVars
  <2>2. files' = files /\ \A j \in DOMAIN files : Settled(j)
    BY <1>2, <2>1 DEF PassInv, files
  <2>3. \A j : Settled(j)' <=> Settled(j)
    BY <1>1, <2>1, <2>2 DEF Settled, Behind, guard, handles, backwards
  <2>4. QED
    BY <2>2, <2>3
<1>6. /\ ~StartRun /\ ~ReadLocalFile /\ ~ReadInfo /\ ~ReadItem /\ ~StoredRead /\ ~NothingToDo
      /\ ~SaveState /\ ~Killed /\ ~Initialize /\ ~Edit /\ ~Outsider
  BY <1>2 DEF StartRun, ReadLocalFile, ReadInfo, ReadItem, StoredRead, NothingToDo, SaveState, Killed,
     Initialize, Edit, Outsider, PlainWorld, runVars
<1>7. QED
  BY <1>3, <1>4, <1>5, <1>6 DEF RunNext, Program

-----------------------------------------------------------------------------
(* Plain sites: the names of the entries                                   *)

\* A step on an entry that stays in the list leaves its local state alone, and
\* its stored state keeps its name or gets that of the local state.
LEMMA EntryPlain ==
  ASSUME PlainWorld, EngineOK, Keyed(files), pass # 0, current # 0, local' = local, PlainStep, ~Deletes
  PROVE  /\ EntryChanges /\ files'[current].ignore = here.ignore
         /\ \/ Stored(files'[current]) = Stored(here)
            \/ /\ Stored(files'[current]) # Absent /\ Local(here) # Absent
               /\ Stored(files'[current]).filename = Local(here).filename
<1>1. CASE site' = site
  BY <1>1, EntryAfter
<1>2. CASE Dates
  <2>1. EntryChanges /\ files'[current].st = here.st
    BY <1>2, EntryAfter DEF Dates
  <2>2. files'[current].ignore = here.ignore
    BY <1>2, PlainOption, EntryMade DEF Dates
  <2>3. QED
    BY <2>1, <2>2 DEF Stored
<1>3. CASE Records /\ handlers[pass] \in {"create_dirs", "files"}
  <2>1. Local(here) # Absent
    BY <1>3, CurrentEntry, ConstantsAssumption
  <2>2. EntryChanges /\ Stored(files'[current]) = Local(here)
    BY <1>3, <2>1, EntryAfter DEF Records
  <2>3. files'[current].ignore = here.ignore
    BY <1>3, <2>1, PlainOption, EntryMade DEF Records
  <2>4. QED
    BY <2>1, <2>2, <2>3
<1>4. CASE SetsMode
  <2>1. Local(here) # Absent /\ Stored(here) # Absent /\ here.type = "file"
        /\ Stored(here) \in FileState /\ current \in DOMAIN files /\ here = files[current]
    BY <1>4, CurrentEntry, CurrentHandled, ConstantsAssumption DEF SetsMode, In, handles, here
  <2>2. EntryChanges /\ Stored(files'[current]) = [Stored(here) EXCEPT !.mode = Local(here).mode]
    BY <1>4, <2>1, EntryAfter DEF SetsMode
  <2>3. files'[current].ignore = here.ignore
    BY <1>4, <2>1, PlainOption, EntryMade DEF SetsMode
  <2>4. Stored(files'[current]).filename = Local(here).filename
    BY <2>1, <2>2, OneName DEF FileState
  <2>5. Stored(files'[current]) # Absent
    <3>1. Local(here) \in FileState
      BY <1>4, CurrentEntry DEF SetsMode, In
    <3>2. Stored(files'[current]) \in FileState
      BY <2>1, <2>2, <3>1 DEF FileState
    <3>3. QED
      BY <3>2, ConstantsAssumption
  <2>6. QED
    BY <2>1, <2>2, <2>3, <2>4, <2>5
<1>5. GivesUp \/ Prepares \/ Skips \/ Sends \/ SendsTemp \/ Renames => site' = site
  BY DEF GivesUp, Prepares, Skips, Sends, SendsTemp, SendsTo, Renames
<1>6. MakesDir \/ DirRecorded \/ FileRecorded =>
        site' = site \/ (Records /\ handlers[pass] \in {"create_dirs", "files"})
  BY DEF MakesDir, DirRecorded, FileRecorded, In
<1>7. QED
  BY <1>1, <1>2, <1>3, <1>4, <1>5, <1>6 DEF PlainStep

\* What is scanned is merged into a list that has no local file of this name.
LEMMA ScanIgnores ==
  ASSUME RunInv, KeysInv, ~opt.checkmoved, IgnoresNamed(files), ReadLocalFile
  PROVE  IgnoresNamed(files')
<1>1. /\ pc = "read_local" /\ unread \subseteq Names
      /\ SiteOK(site) /\ files = site.files /\ files' = site'.files /\ ~site.opt.checkmoved
      /\ local \in [Names -> LocalFile \cup {Absent}]
  BY DEF ReadLocalFile, RunInv, EngineOK, Exact, files, opt
<1>2. PICK n \in unread :
        site' = IF local[n] = Absent THEN site
                ELSE file_set_local(site, local[n].type,
                       [filename |-> n, content |-> local[n].content, mode |-> local[n].mode])
  BY DEF ReadLocalFile
<1>3. n \in Names /\ local[n] \in LocalFile \cup {Absent}
  BY <1>1
<1>4. CASE local[n] = Absent
  BY <1>1, <1>2, <1>4
<1>5. CASE local[n] # Absent
  <2> DEFINE state == [filename |-> n, content |-> local[n].content, mode |-> local[n].mode]
             type  == local[n].type
  <2>1. type \in FileTypes /\ state \in FileState /\ state.filename = n
    BY <1>3, <1>5 DEF LocalFile, FileTypes, FileState
  <2>2. site' = file_set(site, "local", type, state) /\ "local" \in Sides
    BY <1>2, <1>5 DEF file_set_local, Sides
  <2> HIDE DEF state, type
  <2>3. ~HasKey(site.files, "local", type, state.filename) /\ Keyed(site.files)
    BY <1>1, <2>1 DEF KeysInv
  <2>4. QED
    BY <1>1, <2>1, <2>2, <2>3, FileSetIgnores
<1>6. QED
  BY <1>4, <1>5

\* Only files whose name is ignored are ignored, in every run.
LEMMA IgnoresKept ==
  ASSUME PlainWorld, RunInv, KeysInv, HeldInv, IgnoresNamed(files), [RunNext]_allVars
  PROVE  IgnoresNamed(files')
<1>1. EngineOK /\ ~opt.checkmoved /\ Keyed(files)
  BY PlainOption DEF RunInv, KeysInv
<1>2. CASE site' = site
  BY <1>2 DEF files
<1>3. CASE StartRun
  BY <1>3 DEF StartRun, EmptySite, files, IgnoresNamed
<1>4. CASE ReadLocalFile \/ ReadItem
  BY <1>1, <1>4, ScanIgnores, ReadAdded
<1>5. CASE Update /\ PlainStep /\ pass # 0 /\ current # 0 /\ local' = local
  <2>1. CASE Deletes
    <3>1. \A i \in DOMAIN files' : \E j \in DOMAIN files : files'[i] = files[j]
      BY <1>1, <1>5, <2>1, EntriesLeft DEF Deletes
    <3>2. QED
      BY <3>1 DEF IgnoresNamed
  <2>2. CASE ~Deletes
    <3>1. /\ EntryChanges /\ files'[current].ignore = here.ignore
          /\ \/ Stored(files'[current]) = Stored(here)
             \/ Local(here) # Absent /\ Stored(files'[current]).filename = Local(here).filename
      BY <1>1, <1>5, <2>2, EntryPlain
    <3>2. current \in DOMAIN files /\ here = files[current] /\ Sides = {"local", "stored"}
      BY <1>1, <1>5, CurrentHandled DEF here, Sides
    <3>3. SUFFICES ASSUME NEW i \in DOMAIN files', files'[i].ignore, NEW x \in Sides, files'[i].st[x] # Absent
                   PROVE  files'[i].st[x].filename \in Ignored
      BY DEF IgnoresNamed
    <3>4. CASE i # current
      BY <3>1, <3>3, <3>4 DEF EntryChanges, IgnoresNamed
    <3>5. CASE i = current
      BY <3>1, <3>2, <3>3, <3>5 DEF EntryChanges, IgnoresNamed, Local, Stored
    <3>6. QED
      BY <3>4, <3>5
  <2>3. QED
    BY <2>1, <2>2
<1>6. Update => site' = site \/ (PlainStep /\ pass # 0 /\ current # 0 /\ local' = local)
  <2>1. Update => UpdateStep /\ step \notin {"delete", "put_if"}
    BY DEF Update, HeldInv, StepHeld
  <2>2. end_pass => site' = site
    BY DEF end_pass
  <2>3. QED
    BY <1>1, <2>1, <2>2, PlainSteps
<1>7. ~Update /\ ~StartRun /\ ~ReadLocalFile /\ ~ReadItem => site' = site
  BY DEF RunNext, Program, ReadInfo, StoredRead, NothingToDo, OpenStorage, StartPasses, UpdateReturns, SaveState,
     Killed, Initialize, Edit, Tick, Outsider, allVars, updateVars, runVars
<1>8. QED
  BY <1>2, <1>3, <1>4, <1>5, <1>6, <1>7

-----------------------------------------------------------------------------
(* Plain sites: what is on the server is known                             *)

\* A site with `nodelete' may leave anything on the server.  Of any other the
\* program has to remember what it has put there: it must not be killed while
\* the info file is truncated, nor fail to set the mode of a directory that it
\* has made and not yet recorded.
MirrorWorld ==
  /\ PlainWorld
  /\ \A o \in Options : o.nodelete \/ (~Kills /\ (o.dirperms => Faults = {}))

\* An item from m on, or an entry of the list, stands for what is at the place.
InItems(p, m) == \E k \in DOMAIN info.items : k >= m /\ file_full_remote(info.items[k].state) = p
InStored(p)   == \E i \in DOMAIN files : Stored(files[i]) # Absent /\ file_full_remote(Stored(files[i])) = p

\* It has been made or sent, and will be recorded.
UnrecordedSteps == {"dir_chmod", "modtime", "record"}
UnderWay(p) == step \in UnrecordedSteps /\ p = file_full_remote(Local(files[next]))

\* Everything on the server is in the info file, in what has been read of it, or
\* in the list.
Known(p) ==
  /\ pc \in {"idle", "read_local", "read_stored", "act"} => InItems(p, 1)
  /\ pc = "read_stored" => InItems(p, item) \/ InStored(p)
  /\ pc \in {"act", "update", "save"} => InStored(p) \/ UnderWay(p)

Occupied(p) == p[2] = "real" /\ server[p] # Absent

KnownInv ==
  ~opt.nodelete =>
    /\ info.status = "corrupt" => pc \in {"update", "save"}
    /\ step = "dir_chmod" => opt.dirperms
    /\ \A p \in Places : Occupied(p) => Known(p)

\* The current entry is recorded, or about to be.
Claims ==
  \/ Records /\ handlers[pass] \in {"create_dirs", "files"}
  \/ next' = current /\ step' \in UnrecordedSteps

\* A step occupies no place but that of the entry, and claims it when it does
\* or when the place is under way.
LEMMA PlacesClaimed ==
  ASSUME MirrorWorld, EngineHeld, ~opt.nodelete, step = "dir_chmod" => opt.dirperms,
         pass # 0, current # 0, PlainStep, ~Deletes
  PROVE  /\ \A p \in Places : Occupied(p)' => Occupied(p) \/ (p = PlaceOfLocal /\ Claims)
         /\ step \in UnrecordedSteps => Claims
         /\ step' = "dir_chmod" => opt.dirperms
<1>1. /\ EngineOK /\ PlainWorld /\ server \in Tree /\ (opt.dirperms => Faults = {})
      /\ StepHeld
  BY OptionsTyped DEF MirrorWorld, EngineHeld, EngineOK
<1>2. step # "entry" => next = current
  BY <1>1, CurrentHandled
<1>3. ASSUME step \in UnrecordedSteps
      PROVE  Claims
  <2>1. ~GivesUp
    <3>1. SUFFICES ASSUME GivesUp PROVE FALSE
      OBVIOUS
    <3>2. step = "dir_chmod"
      BY <1>3, <3>1 DEF GivesUp, UnrecordedSteps
    <3>3. TypeAt(server, PlaceOfLocal) = "dir"
      BY <1>1, <1>2, <3>2 DEF StepHeld, PlaceOfLocal, here
    <3>4. QED
      BY <1>1, <3>1, <3>2, <3>3 DEF GivesUp
  <2>2. step # "entry" /\ step \notin {"check", "put", "upload", "temp", "move"}
    BY <1>3 DEF UnrecordedSteps
  <2>3. DirRecorded \/ Dates \/ FileRecorded
    BY <2>1, <2>2 DEF PlainStep, Prepares, Deletes, MakesDir, SetsMode, Skips, Sends, SendsTemp, Renames, In
  <2>4. QED
    BY <2>3 DEF DirRecorded, Dates, FileRecorded, CallNext, Claims, UnrecordedSteps, In
<1>4. after_upload \in UnrecordedSteps \ {"dir_chmod"}
  BY DEF after_upload, UnrecordedSteps
<1>5. step' = "dir_chmod" => opt.dirperms
  BY <1>4 DEF PlainStep, GivesUp, Prepares, MakesDir, DirRecorded, SetsMode, Skips, Sends, SendsTemp, Renames,
     Dates, FileRecorded, Records, Advance, CallNext, upload_step
<1>6. ASSUME NEW p \in Places, p[2] = "real", server'[p] # Absent, server[p] = Absent
      PROVE  p = PlaceOfLocal /\ Claims
  <2>1. CASE MakesDir
    <3>1. Claims
      BY <2>1 DEF MakesDir, CallNext, Claims, UnrecordedSteps, In
    <3>2. QED
      BY <1>1, <1>6, <2>1, <3>1 DEF MakesDir, Tree
  <2>2. CASE Sends
    <3>1. Claims
      BY <1>4, <2>2 DEF Sends, CallNext, Claims
    <3>2. p = PlaceOfLocal
      BY <1>1, <1>6, <2>2 DEF Sends, SendsTo, Uploaded_to, Tree
    <3>3. QED
      BY <3>1, <3>2
  <2>3. CASE Renames
    <3>1. Claims
      BY <1>4, <2>3 DEF Renames, CallNext, Claims
    <3>2. p = PlaceOfLocal
      BY <1>1, <1>6, <2>3 DEF Renames
    <3>3. QED
      BY <3>1, <3>2
  <2>4. ~SendsTemp
    <3>1. SUFFICES ASSUME SendsTemp PROVE FALSE
      OBVIOUS
    <3>2. temp_upload_filename(PlaceOfLocal) # p
      BY <1>6 DEF temp_upload_filename
    <3>3. QED
      BY <1>1, <1>6, <3>1, <3>2 DEF SendsTemp, SendsTo, Uploaded_to, Tree
  <2>5. server' = server \/ (TypeAt(server, PlaceOfLocal) # "none" /\ server' = ModeSetAt(PlaceOfLocal, Local(here).mode))
        => FALSE
    <3>1. SUFFICES ASSUME TypeAt(server, PlaceOfLocal) # "none", server' = ModeSetAt(PlaceOfLocal, Local(here).mode)
                   PROVE  FALSE
      BY <1>6
    <3>2. p # PlaceOfLocal
      BY <1>6, <3>1 DEF TypeAt
    <3>3. QED
      BY <1>1, <1>6, <3>1, <3>2 DEF ModeSetAt, Tree
  <2>6. QED
    BY <2>1, <2>2, <2>3, <2>4, <2>5 DEF PlainStep, GivesUp, Prepares, DirRecorded, SetsMode, Skips, Dates,
       FileRecorded
<1>7. QED
  BY <1>3, <1>5, <1>6 DEF Occupied

\* A stored state stands for its place as its name does.
LEMMA StoredNames ==
  ASSUME NEW q \in Seq(Entry), NEW p
  PROVE  (\E i \in DOMAIN q : Stored(q[i]) # Absent /\ file_full_remote(Stored(q[i])) = p)
           <=> \E t \in FileTypes : \E n \in Names : HasKey(q, "stored", t, n) /\ p = <<RemoteName[n], "real">>
<1>1. ASSUME NEW i \in DOMAIN q, Stored(q[i]) # Absent
      PROVE  q[i].type \in FileTypes /\ Stored(q[i]).filename \in Names
  <2>1. q[i] \in Entry
    OBVIOUS
  <2>2. Stored(q[i]) \in FileState
    BY <1>1, <2>1 DEF Entry, Stored, Sides
  <2>3. QED
    BY <2>1, <2>2 DEF Entry, FileState
<1>2. ASSUME NEW i \in DOMAIN q, Stored(q[i]) # Absent, file_full_remote(Stored(q[i])) = p
      PROVE  \E t \in FileTypes : \E n \in Names : HasKey(q, "stored", t, n) /\ p = <<RemoteName[n], "real">>
  <2>1. HasKey(q, "stored", q[i].type, Stored(q[i]).filename)
    BY <1>2 DEF HasKey, Stands, Stored
  <2>2. QED
    BY <1>1, <1>2, <2>1 DEF file_full_remote
<1>3. ASSUME NEW t \in FileTypes, NEW n \in Names, HasKey(q, "stored", t, n), p = <<RemoteName[n], "real">>
      PROVE  \E i \in DOMAIN q : Stored(q[i]) # Absent /\ file_full_remote(Stored(q[i])) = p
  BY <1>3 DEF HasKey, Stands, Stored, file_full_remote
<1>4. QED
  BY <1>2, <1>3

\* What an entry stands for stays known when the engine is at another.
LEMMA StaysStored ==
  ASSUME PlainWorld, EngineOK, Keyed(files), pass # 0, current # 0, local' = local, PlainStep, ~Deletes,
         NEW p, InStored(p)
  PROVE  InStored(p)'
<1>1. /\ EntryChanges
      /\ \/ Stored(files'[current]) = Stored(here)
         \/ /\ Stored(files'[current]) # Absent /\ Local(here) # Absent
            /\ Stored(files'[current]).filename = Local(here).filename
  BY EntryPlain
<1>2. PICK i \in DOMAIN files : Stored(files[i]) # Absent /\ file_full_remote(Stored(files[i])) = p
  BY DEF InStored
<1>3. i \in DOMAIN files'
  BY <1>1 DEF EntryChanges
<1>4. Stored(files'[i]) # Absent /\ file_full_remote(Stored(files'[i])) = p
  <2>1. CASE i # current
    BY <1>1, <1>2, <2>1 DEF EntryChanges
  <2>2. CASE i = current
    <3>1. here = files[i]
      BY <2>2 DEF here
    <3>2. Local(here) # Absent => Local(here).filename = Stored(here).filename
      BY <1>2, <3>1, OneName
    <3>3. QED
      BY <1>1, <1>2, <2>2, <3>1, <3>2 DEF file_full_remote
  <2>3. QED
    BY <2>1, <2>2
<1>5. QED
  BY <1>3, <1>4 DEF InStored

\* A step of the engine leaves nothing on the server that is not known.
LEMMA KnownStep ==
  ASSUME MirrorWorld, EngineHeld, ~opt.nodelete, step = "dir_chmod" => opt.dirperms,
         pass # 0, current # 0, local' = local, PlainStep,
         \A p \in Places : Occupied(p) => InStored(p) \/ UnderWay(p)
  PROVE  /\ step' = "dir_chmod" => opt.dirperms
         /\ \A p \in Places : Occupied(p)' => (InStored(p) \/ UnderWay(p))'
<1>1. EngineOK /\ PlainWorld /\ Keyed(files) /\ server \in Tree
  BY DEF MirrorWorld, EngineHeld, EngineOK
<1>2. current \in DOMAIN files /\ here = files[current] /\ (step # "entry" => next = current)
  BY <1>1, CurrentHandled DEF here
<1>3. CASE Deletes
  <2>1. step = "entry" /\ step' = "entry" /\ site' = file_delete(site, current)
        /\ server' = [server EXCEPT ![PlaceOfStored] = Absent]
    BY <1>3 DEF Deletes, In, AdvanceRemoved
  <2>2. ASSUME NEW p \in Places, Occupied(p)'
        PROVE  InStored(p)'
    <3>1. PlaceOfStored \in Places
      <4>1. Stored(here) \in FileState
        BY <1>1, <1>3, CurrentEntry DEF Deletes, In
      <4>2. QED
        BY <4>1, StatePlaces DEF PlaceOfStored
    <3>2. p # PlaceOfStored /\ Occupied(p)
      BY <1>1, <2>1, <2>2, <3>1 DEF Occupied, Tree
    <3>3. InStored(p)
      BY <2>1, <3>2 DEF UnderWay, UnrecordedSteps
    <3>4. PICK i \in DOMAIN files : Stored(files[i]) # Absent /\ file_full_remote(Stored(files[i])) = p
      BY <3>3 DEF InStored
    <3>5. i # current
      BY <1>2, <3>2, <3>4 DEF PlaceOfStored
    <3>6. /\ Len(files) \in Nat /\ DOMAIN files = 1 .. Len(files)
          /\ current \in 1 .. Len(files) /\ DOMAIN files' = 1 .. Len(files) - 1
          /\ \A j \in 1 .. Len(files) - 1 : files'[j] = IF j < current THEN files[j] ELSE files[j + 1]
      BY <1>1, <2>1, EntriesShift
    <3>7. \E j \in DOMAIN files' : files'[j] = files[i]
      <4>1. CASE i < current
        BY <3>6, <4>1
      <4>2. CASE ~(i < current)
        <5>1. i - 1 \in DOMAIN files' /\ ~(i - 1 < current) /\ i - 1 + 1 = i
          BY <3>5, <3>6, <4>2
        <5>2. files'[i - 1] = files[i]
          BY <3>6, <5>1
        <5>3. QED
          BY <5>1, <5>2
      <4>3. QED
        BY <4>1, <4>2
    <3>8. QED
      BY <3>4, <3>7 DEF InStored
  <2>3. QED
    BY <2>1, <2>2
<1>4. CASE ~Deletes
  <2>1. /\ \A p \in Places : Occupied(p)' => Occupied(p) \/ (p = PlaceOfLocal /\ Claims)
        /\ step \in UnrecordedSteps => Claims
        /\ step' = "dir_chmod" => opt.dirperms
    BY <1>4, PlacesClaimed
  <2>2. EntryChanges
    BY <1>1, <1>4, EntryPlain
  <2>3. ASSUME Claims, NEW p, p = PlaceOfLocal
        PROVE  (InStored(p) \/ UnderWay(p))'
    <3>1. CASE next' = current /\ step' \in UnrecordedSteps
      BY <2>2, <2>3, <3>1 DEF EntryChanges, UnderWay, PlaceOfLocal
    <3>2. CASE Records /\ handlers[pass] \in {"create_dirs", "files"}
      <4>1. Local(here) # Absent
        BY <1>1, <3>2, CurrentEntry, ConstantsAssumption
      <4>2. Stored(files'[current]) = Local(here) /\ current \in DOMAIN files'
        BY <1>1, <1>2, <2>2, <3>2, <4>1, EntryAfter DEF Records, EntryChanges
      <4>3. QED
        BY <2>3, <4>1, <4>2 DEF InStored, PlaceOfLocal
    <3>3. QED
      BY <2>3, <3>1, <3>2 DEF Claims
  <2>4. ASSUME NEW p \in Places, Occupied(p)'
        PROVE  (InStored(p) \/ UnderWay(p))'
    <3>1. CASE p = PlaceOfLocal /\ Claims
      BY <2>3, <3>1
    <3>2. CASE Occupied(p) /\ InStored(p)
      BY <1>1, <1>4, <3>2, StaysStored
    <3>3. UnderWay(p) => p = PlaceOfLocal /\ Claims
      BY <1>2, <2>1 DEF UnderWay, UnrecordedSteps, PlaceOfLocal, here
    <3>4. QED
      BY <2>1, <2>4, <3>1, <3>2, <3>3
  <2>5. QED
    BY <2>1, <2>4
<1>5. QED
  BY <1>3, <1>4

\* What was read is in the list, and what is still to be read in the info file.
LEMMA ReadKnown ==
  ASSUME RunInv, KeysInv, ~opt.checkmoved, ReadItem, NEW p, InItems(p, item) \/ InStored(p)
  PROVE  (InItems(p, item) \/ InStored(p))'
<1> DEFINE it == info.items[item]
<1>1. /\ item \in DOMAIN info.items /\ it.type \in FileTypes /\ it.state \in FileState
      /\ KeyAdded(files', files, "stored", it.type, it.state.filename)
  BY ReadAdded
<1>2. info' = info /\ item' = item + 1 /\ item \in Nat /\ DOMAIN info.items \subseteq Nat
  BY DEF ReadItem, RunInv, InfoFile
<1>3. files \in Seq(Entry) /\ files' \in Seq(Entry)
  <2>1. RunInv'
    BY ReadingKeeps
  <2>2. QED
    BY <2>1 DEF RunInv, EngineOK, Exact, SiteOK, Site, files
<1>4. "stored" \in Sides /\ it.state.filename \in Names
  BY <1>1 DEF Sides, FileState
<1> HIDE DEF it
<1>5. \A t \in FileTypes : \A n \in Names :
        HasKey(files', "stored", t, n) <=>
          HasKey(files, "stored", t, n) \/ (t = it.type /\ n = it.state.filename)
  BY <1>1, <1>4 DEF KeyAdded
<1>6. ASSUME NEW t \in FileTypes, NEW n \in Names, HasKey(files', "stored", t, n), p = <<RemoteName[n], "real">>
      PROVE  InStored(p)'
  <2> DEFINE q == files'
  <2>1. q \in Seq(Entry) /\ HasKey(q, "stored", t, n)
    BY <1>3, <1>6
  <2> HIDE DEF q
  <2>2. \E i \in DOMAIN q : Stored(q[i]) # Absent /\ file_full_remote(Stored(q[i])) = p
    BY <1>6, <2>1, StoredNames
  <2>3. QED
    BY <2>2 DEF InStored, q
<1>7. CASE InStored(p)
  <2>1. \E t \in FileTypes : \E n \in Names : HasKey(files, "stored", t, n) /\ p = <<RemoteName[n], "real">>
    BY <1>3, <1>7, StoredNames DEF InStored
  <2>2. QED
    BY <1>5, <1>6, <2>1
<1>8. CASE InItems(p, item)
  <2>1. PICK k \in DOMAIN info.items : k >= item /\ file_full_remote(info.items[k].state) = p
    BY <1>8 DEF InItems
  <2>2. CASE k = item
    <3>1. p = <<RemoteName[it.state.filename], "real">>
      BY <2>1, <2>2 DEF it, file_full_remote
    <3>2. QED
      BY <1>1, <1>4, <1>5, <1>6, <3>1
  <2>3. CASE k # item
    <3>1. k >= item'
      BY <1>2, <2>1, <2>3
    <3>2. QED
      BY <1>2, <2>1, <3>1 DEF InItems
  <2>4. QED
    BY <2>2, <2>3
<1>9. QED
  BY <1>7, <1>8

\* The info file is written with an item for every stored state.
LEMMA SavedKnown ==
  ASSUME RunInv, SaveState, NEW p, InStored(p)
  PROVE  InItems(p, 1)'
<1>1. files \in Seq(Entry) /\ Len(files) \in Nat /\ DOMAIN files = 1 .. Len(files)
  BY DEF RunInv, EngineOK, Exact, SiteOK, Site, files
<1> DEFINE q == items_of(files)
<1>2. info'.items = q
  BY DEF SaveState, ValidInfo
<1>3. PICK g : WrittenFor(q, files, Len(files), g)
  BY <1>1, ItemsOfEntries
<1>4. q \in Seq(Item)
  BY <1>1, ItemsTyped
<1> HIDE DEF q
<1>5. PICK i \in DOMAIN files : Stored(files[i]) # Absent /\ file_full_remote(Stored(files[i])) = p
  BY DEF InStored
<1>6. PICK k \in DOMAIN q : g[k] = i /\ q[k] = item_of(files[i])
  BY <1>1, <1>3, <1>5 DEF WrittenFor
<1>7. q[k].state = Stored(files[i])
  BY <1>6 DEF item_of
<1>8. k >= 1
  BY <1>4
<1>9. QED
  BY <1>2, <1>5, <1>6, <1>7, <1>8 DEF InItems

\* Nothing is ever left on the server that the next run does not know of.
LEMMA KnownKept ==
  ASSUME MirrorWorld, RunInv, KeysInv, StepsAsked, HeldInv, KnownInv, [RunNext]_allVars
  PROVE  KnownInv'
<1>1. /\ opt' = opt /\ EngineOK /\ ~opt.checkmoved /\ Keyed(files) /\ PlainWorld /\ opt \in Options
      /\ (step \in UnrecordedSteps => pc = "update")
  <2>1. step # "entry" => pass # 0
    BY DEF RunInv, EngineOK, AtEntry
  <2>2. QED
    BY <2>1, RunMoves, PlainOption, OptionsTyped
    DEF Outsider, Aside, opt, RunInv, KeysInv, MirrorWorld, UnrecordedSteps
<1>2. SUFFICES ASSUME ~opt.nodelete
               PROVE  KnownInv'
  BY <1>1 DEF KnownInv
<1>3. /\ ~Kills /\ (info.status = "corrupt" => pc \in {"update", "save"})
      /\ step = "dir_chmod" => opt.dirperms
      /\ \A p \in Places : Occupied(p) => Known(p)
  BY <1>1, <1>2 DEF KnownInv, MirrorWorld
<1>4. CASE Update
  <2>1. pc = "update" /\ UpdateStep /\ step \notin {"delete", "put_if"} /\ pc' = pc /\ info' = info
    BY <1>4 DEF Update, HeldInv, StepHeld, runVars
  <2>2. \A p \in Places : Occupied(p) => InStored(p) \/ UnderWay(p)
    BY <1>3, <2>1 DEF Known
  <2>3. EngineHeld
    BY <1>1, <2>1 DEF EngineHeld, HeldInv
  <2>4. CASE PlainStep /\ pass # 0 /\ current # 0 /\ pass' = pass /\ UNCHANGED <<local, clock>>
    <3>1. /\ step' = "dir_chmod" => opt.dirperms
          /\ \A p \in Places : Occupied(p)' => (InStored(p) \/ UnderWay(p))'
      BY <1>2, <1>3, <2>2, <2>3, <2>4, KnownStep
    <3>2. QED
      BY <1>1, <2>1, <3>1 DEF KnownInv, Known
  <2>5. CASE end_pass
    <3>1. UNCHANGED <<site, server>> /\ step = "entry" /\ step' = "entry"
      BY <2>5 DEF end_pass, BeginPass
    <3>2. \A p : InStored(p)' <=> InStored(p)
      BY <3>1 DEF InStored, files
    <3>3. \A p \in Places : Occupied(p)' => InStored(p)'
      BY <2>2, <3>1, <3>2 DEF Occupied, UnderWay, UnrecordedSteps
    <3>4. QED
      BY <2>1, <3>1, <3>3 DEF KnownInv, Known
  <2>6. QED
    BY <1>1, <2>1, <2>4, <2>5, PlainSteps
<1>5. CASE OpenStorage
  <2>1. PICK a \in Answers(server, TRUE, server) : server' = a.tree /\ step' = "entry"
    BY <1>5 DEF OpenStorage, StartPasses, Answered, BeginPass
  <2>2. server' = server
    <3>1. Faults \subseteq {"refused"} /\ TRUE \in BOOLEAN
      BY DEF MirrorWorld, PlainWorld
    <3>2. a.tree = server
      BY <2>1, <3>1, PlainAnswers, Zenon
    <3>3. QED
      BY <2>1, <3>2
  <2>3. site' = site /\ pc = "act" /\ pc' = "update" /\ ~(step \in UnrecordedSteps)
    BY <1>1, <1>5 DEF OpenStorage, StartPasses
  <2>4. \A p : InStored(p)' <=> InStored(p)
    BY <2>3 DEF InStored, files
  <2>5. \A p \in Places : Occupied(p)' => InStored(p)'
    BY <1>3, <2>2, <2>3, <2>4 DEF Occupied, Known, UnderWay
  <2>6. QED
    BY <2>1, <2>3, <2>5 DEF KnownInv, Known
<1>6. CASE SaveState
  <2>1. /\ UNCHANGED <<server, step>> /\ pc = "save" /\ pc' = "idle" /\ info'.status = "valid"
        /\ ~(step \in UnrecordedSteps)
    BY <1>1, <1>6 DEF SaveState, updateVars, ValidInfo
  <2>2. \A p \in Places : Occupied(p) => InStored(p)
    BY <1>3, <2>1 DEF Known, UnderWay
  <2>3. \A p \in Places : Occupied(p)' => InItems(p, 1)'
    BY <1>6, <2>1, <2>2, SavedKnown DEF Occupied
  <2>4. QED
    BY <2>1, <2>3 DEF KnownInv, Known, UnrecordedSteps
<1>7. CASE ReadItem
  <2>1. /\ UNCHANGED <<server, step, info>> /\ pc = "read_stored" /\ pc' = pc
    BY <1>7 DEF ReadItem
  <2>2. \A p : InItems(p, 1)' <=> InItems(p, 1)
    BY <2>1 DEF InItems
  <2>3. \A p \in Places : Occupied(p) => InItems(p, 1) /\ (InItems(p, item) \/ InStored(p))'
    BY <1>1, <1>3, <1>7, <2>1, ReadKnown DEF Known
  <2>4. QED
    BY <1>1, <1>3, <2>1, <2>2, <2>3 DEF KnownInv, Known, Occupied
<1>8. ~Initialize /\ ~Killed /\ ~Outsider
  BY <1>1, <1>3 DEF Initialize, Killed, Outsider, PlainWorld
<1>9. CASE StartRun \/ ReadLocalFile \/ ReadInfo \/ StoredRead \/ NothingToDo \/ Edit
  <2>1. /\ UNCHANGED <<server, step, info>> /\ pc \in {"idle", "read_local", "read_stored", "act"}
        /\ pc' \in {"idle", "read_local", "read_stored", "act"}
        /\ pc' = "read_stored" => item' = 1
        /\ pc' = "act" => pc = "read_stored" /\ item > Len(info.items) /\ site' = site
    BY <1>1, <1>9 DEF StartRun, ReadLocalFile, ReadInfo, StoredRead, NothingToDo, Edit, PlainWorld, updateVars, runVars
  <2>3. \A p : InItems(p, 1)' <=> InItems(p, 1)
    BY <2>1 DEF InItems
  <2>4. ASSUME NEW p \in Places, Occupied(p)'
        PROVE  Known(p)'
    <3>1. Known(p)
      BY <1>3, <2>1, <2>4 DEF Occupied
    <3>2. InItems(p, 1)'
      BY <2>1, <2>3, <3>1 DEF Known
    <3>3. pc' = "read_stored" => InItems(p, item)'
      BY <2>1, <3>2 DEF InItems
    <3>4. pc' = "act" => InStored(p)'
      <4>1. SUFFICES ASSUME pc' = "act" PROVE InStored(p)'
        OBVIOUS
      <4>2. InItems(p, item) \/ InStored(p)
        BY <2>1, <3>1, <4>1 DEF Known
      <4>3. info.items \in Seq(Item) /\ item \in Nat
        BY DEF RunInv, InfoFile
      <4>4. ~InItems(p, item)
        BY <2>1, <4>1, <4>3 DEF InItems
      <4>5. QED
        BY <2>1, <4>1, <4>2, <4>4 DEF InStored, files
    <3>5. QED
      BY <2>1, <3>2, <3>3, <3>4 DEF Known
  <2>5. QED
    BY <1>1, <1>3, <2>1, <2>4 DEF KnownInv
<1>10. CASE UpdateReturns \/ Tick \/ UNCHANGED allVars
  <2>1. /\ UNCHANGED <<site, server, step, next, info, item>>
        /\ pc' = pc \/ (pc = "update" /\ pc' = "save")
    BY <1>10 DEF UpdateReturns, Tick, allVars, updateVars, runVars
  <2>2. /\ \A p, m : InItems(p, m)' <=> InItems(p, m)
        /\ \A p : InStored(p)' <=> InStored(p)
        /\ \A p : UnderWay(p)' <=> UnderWay(p)
    BY <2>1 DEF InItems, InStored, UnderWay, files
  <2>3. \A p \in Places : Occupied(p)' => Known(p)'
    BY <1>3, <2>1, <2>2 DEF Known, Occupied
  <2>4. QED
    BY <1>1, <1>3, <2>1, <2>3 DEF KnownInv
<1>11. QED
  BY <1>4, <1>5, <1>6, <1>7, <1>8, <1>9, <1>10 DEF RunNext, Program

\* Nothing has been written yet, and nothing is known.
LEMMA MirrorAtInit ==
  ASSUME RunInit
  PROVE  PassInv /\ KnownInv /\ IgnoresNamed(files)
<1>1. /\ files = << >> /\ DOMAIN << >> = {} /\ info.status = "valid" /\ pc = "idle" /\ step = "entry"
      /\ \A p \in Places : server[p] = Absent
  BY DEF RunInit, files, EmptySite, ValidInfo, EmptyTree
<1>2. QED
  BY <1>1 DEF PassInv, KnownInv, Occupied, IgnoresNamed

\* When the passes have come to their end without an error, what was scanned is
\* on the server: an entry is "unchanged", or it is ignored.
LEMMA LocalMirrored ==
  ASSUME PlainWorld, RunInv, KeysInv, HeldInv, PassInv, IgnoresNamed(files),
         pc = "save", ret = 0, ~opt.prompting, NEW n \in Names, local[n] # Absent
  PROVE  LET place == <<RemoteName[n], "real">>
         IN  /\ TypeAt(server, place) = local[n].type
             /\ local[n].type = "file" /\ n \notin Ignored =>
                  /\ server[place].content = local[n].content
                  /\ opt.perms = "all" => server[place].mode = local[n].mode
<1> DEFINE place == <<RemoteName[n], "real">>
<1>1. /\ EngineOK /\ SiteOK(site) /\ files = site.files /\ opt = site.opt
      /\ pass = 0 /\ step = "entry" /\ ~Replacing
      /\ Keyed(files) /\ ~opt.checkmoved /\ InList(n)
      /\ local \in [Names -> LocalFile \cup {Absent}]
  BY PlainOption, AtRestHeld DEF RunInv, EngineOK, Exact, KeysInv, files, opt
<1>2. PICK i \in DOMAIN files : Stands(files[i], "local", local[n].type, n)
  BY <1>1 DEF InList, HasKey
<1> DEFINE f == files[i]
<1>3. f.type = local[n].type /\ Local(f) # Absent /\ Local(f).filename = n /\ f.type \in {"file", "dir"}
  <2>1. local[n] \in LocalFile
    BY <1>1
  <2>2. QED
    BY <1>2, <2>1 DEF Stands, Local, LocalFile
<1>4. /\ file_full_remote(Local(f)) = place
      /\ local[n].content = Local(f).content /\ local[n].mode = Local(f).mode
      /\ Stored(f) # Absent => OnServer(f.type, Stored(f))
  <2>1. LocalHeld(f) /\ StoredHeld(f)
    BY <1>1, <1>2 DEF HeldInv, ListHeld
  <2>2. QED
    BY <1>3, <2>1 DEF LocalHeld, StoredHeld, Scanned, file_full_remote
<1>5. /\ f.diff = file_compare(f.type, Local(f), Stored(f), site)
      /\ f.diff \in {"unchanged", "new", "changed"} /\ (f.diff = "changed" => Stored(f) # Absent)
  BY <1>1, <1>2, <1>3 DEF SiteOK, EntryOK, file_compare
<1>6. ~handles("create_dirs", f) /\ ~handles("files", f)
  <2>1. Settled(i)
    BY <1>2 DEF PassInv
  <2>2. {2, 4} \subseteq DOMAIN handlers /\ handlers[2] = "create_dirs" /\ handlers[4] = "files"
        /\ guard("create_dirs") /\ guard("files")
    BY DEF handlers, guard
  <2>3. QED
    BY <1>1, <2>1, <2>2 DEF Settled
<1>7. CASE f.diff = "unchanged"
  <2>1. OnServer(f.type, Local(f))
    BY <1>2, <1>7, HeldUnchanged DEF UnchangedIsOnServer
  <2>2. QED
    BY <1>3, <1>4, <2>1 DEF OnServer
<1>8. CASE f.diff # "unchanged"
  <2>1. f.diff = "changed" /\ f.type = "file" /\ f.ignore /\ Stored(f) # Absent
    <3>1. f.type = "file"
      BY <1>3, <1>5, <1>6, <1>8 DEF handles
    <3>2. QED
      BY <1>5, <1>6, <1>8, <3>1 DEF handles
  <2>2. n \in Ignored
    BY <1>2, <1>3, <2>1 DEF IgnoresNamed, Local, Sides
  <2>3. file_full_remote(Stored(f)) = place
    BY <1>1, <1>2, <1>3, <1>4, <2>1, OneName
  <2>4. QED
    BY <1>3, <1>4, <2>1, <2>2, <2>3 DEF OnServer
<1>9. QED
  BY <1>7, <1>8

\* ... and there is nothing else: what is on the server stands in the list, and
\* without a local file it would have been deleted.
LEMMA NothingElse ==
  ASSUME MirrorWorld, RunInv, KeysInv, HeldInv, PassInv, KnownInv,
         pc = "save", ret = 0, ~opt.prompting, ~opt.nodelete, NEW n \in Names
  PROVE  \/ TypeAt(server, <<RemoteName[n], "real">>) = "none"
         \/ \E m \in Names : RemoteName[m] = RemoteName[n] /\ local[m] # Absent
<1> DEFINE place == <<RemoteName[n], "real">>
<1>1. SUFFICES ASSUME server[place] # Absent, local[n] = Absent PROVE FALSE
  BY DEF TypeAt
<1>2. /\ EngineOK /\ SiteOK(site) /\ files = site.files /\ server \in Tree
      /\ pass = 0 /\ ~Replacing /\ ~(step \in UnrecordedSteps) /\ Keyed(files) /\ PlainWorld
  BY PlainOption, AtRestHeld DEF MirrorWorld, RunInv, EngineOK, Exact, KeysInv, files, UnrecordedSteps
<1>3. place \in Places /\ Occupied(place) /\ place[1] = RemoteName[n]
  BY <1>1, ServerAssumption DEF Places, Occupied
<1>4. InStored(place)
  BY <1>2, <1>3 DEF KnownInv, Known, UnderWay
<1>5. PICK i \in DOMAIN files : Stored(files[i]) # Absent /\ file_full_remote(Stored(files[i])) = place
  BY <1>4 DEF InStored
<1> DEFINE f == files[i]
<1>6. Stored(f) \in FileState /\ f.type \in FileTypes
  BY <1>2, <1>5, EntryStates DEF SiteOK, EntryOK, Entry
<1>7. Stored(f).filename = n
  <2>1. RemoteName[Stored(f).filename] = RemoteName[n] /\ Stored(f).filename \in Names
    BY <1>5, <1>6 DEF file_full_remote, FileState
  <2>2. QED
    BY <1>2, <2>1 DEF PlainWorld
<1>8. LocalHeld(f) /\ StoredHeld(f)
  BY <1>2, <1>5 DEF HeldInv, ListHeld
<1>9. Local(f) = Absent
  <2>1. SUFFICES ASSUME Local(f) # Absent PROVE FALSE
    OBVIOUS
  <2>2. Local(f).filename = n
    BY <1>2, <1>5, <1>7, <2>1, OneName
  <2>3. QED
    BY <1>1, <1>8, <2>1, <2>2 DEF LocalHeld, Scanned
<1>10. f.diff = "deleted"
  BY <1>2, <1>5, <1>9 DEF SiteOK, EntryOK, file_compare
<1>11. f.type \in {"file", "dir"}
  <2>1. TypeAt(server, place) = f.type
    BY <1>5, <1>8 DEF StoredHeld, OnServer
  <2>2. server[place] \in RemoteFile
    BY <1>1, <1>2, <1>3, FileAt
  <2>3. QED
    BY <1>1, <2>1, <2>2 DEF TypeAt, RemoteFile
<1>12. ~handles("delete_files", f) /\ ~handles("delete_dirs", f)
  <2>1. Settled(i)
    BY <1>5 DEF PassInv
  <2>2. {1, 5} \subseteq DOMAIN handlers /\ handlers[1] = "delete_files" /\ handlers[5] = "delete_dirs"
        /\ guard("delete_files") /\ guard("delete_dirs")
    BY DEF handlers, guard
  <2>3. QED
    BY <1>2, <2>1, <2>2 DEF Settled
<1>13. QED
  BY <1>10, <1>11, <1>12 DEF handles

\* The answer SITE_OK can be trusted.  When site_update has returned it and no
\* update was declined, the server has every local file, with the content that
\* it has now unless it is ignored, and with `permissions all' its mode; and,
\* unless `nodelete' is set, it has nothing else.  So it is whatever failed in
\* the runs before, and whatever the user has done between them.
THEOREM SuccessMirrors ==
  ASSUME MirrorWorld
  PROVE  RunSpec => []SuccessMeansMirror
<1> DEFINE MirrorInv == KeysInv /\ StepsAsked /\ HeldInv /\ PassInv /\ KnownInv /\ IgnoresNamed(files)
<1>1. RunInit => MirrorInv
  BY HeldAtInit, MirrorAtInit
<1>2. RunInv /\ MirrorInv /\ [RunNext]_allVars => MirrorInv'
  BY KeysKept, StepsAskedKept, HeldKept, PassKept, KnownKept, IgnoresKept DEF MirrorWorld, PlainWorld
<1>3. RunInv /\ MirrorInv => SuccessMeansMirror
  <2>1. SUFFICES ASSUME RunInv, MirrorInv, pc = "save", ret = 0, ~opt.prompting
                 PROVE  Mirror
    BY DEF SuccessMeansMirror
  <2>2. PlainWorld
    BY DEF MirrorWorld
  <2>3. QED
    BY <2>1, <2>2, LocalMirrored, NothingElse DEF Mirror
<1>4. QED
  BY <1>1, <1>2, <1>3, RunInvariant, PTL DEF RunSpec

-----------------------------------------------------------------------------
(* What is read is what was written                                        *)

\* What is read of the info file so far: the stored states of the list are the
\* items before this one, with the server modification times that they have, and
\* all of them have been read at the end.
ReadInv ==
  ~opt.checkmoved /\ pc \in {"read_stored", "act"} =>
    /\ pc = "act" => item > Len(info.items)
    /\ \A i \in DOMAIN files : Stored(files[i]) # Absent =>
         \E k \in DOMAIN info.items :
            k < item /\ info.items[k].type = files[i].type /\ info.items[k].state = Stored(files[i])
    /\ \A k \in DOMAIN info.items : k < item =>
         HasKey(files, "stored", info.items[k].type, info.items[k].state.filename)
    /\ \A i \in DOMAIN files, k \in DOMAIN info.items :
         /\ k < item /\ Stored(files[i]) # Absent
         /\ info.items[k].type = files[i].type /\ info.items[k].state = Stored(files[i])
         /\ info.items[k].server # 0
         => files[i].server = info.items[k].server

\* An item that is merged joins the local entry of its name, or gets one of its own.
LEMMA SetStoredUnmoved ==
  ASSUME NEW s, SiteOK(s), ~s.opt.checkmoved, Keyed(s.files),
         NEW tp \in FileTypes, NEW st \in FileState, ~HasKey(s.files, "stored", tp, st.filename)
  PROVE  \/ \E g \in Entry : /\ g = one_sided(tp, "stored", st, tp = "file" /\ file_isignored(st.filename))
                             /\ file_set(s, "stored", tp, st).files = Inserted(s.files, g)
         \/ \E d \in DOMAIN s.files, diff \in Diffs :
              /\ Stands(s.files[d], OtherSide("stored"), tp, st.filename)
              /\ file_set(s, "stored", tp, st).files
                   = [s.files EXCEPT ![d] = Taken(s.files[d], "stored", st, diff)]
<1> DEFINE side == "stored"
<1>1. side \in Sides
  BY DEF Sides
<1> HIDE DEF side
<1>2. LET q == s.files
          r == file_set(s, side, tp, st).files
          f == one_sided(tp, side, st, tp = "file" /\ file_isignored(st.filename))
      IN  \/ /\ f \in Entry /\ r = Inserted(q, f)
             /\ ~HasKey(q, OtherSide(side), tp, st.filename)
          \/ \E d \in DOMAIN q, diff \in Diffs :
               /\ Stands(q[d], OtherSide(side), tp, st.filename)
               /\ q[d].st[side] = Absent
               /\ r = [q EXCEPT ![d] = Taken(q[d], side, st, diff)]
  <2>1. ~HasKey(s.files, side, tp, st.filename)
    BY DEF side
  <2>2. QED
    BY <1>1, <2>1, FileSetUnmoved
<1>3. QED
  BY <1>2, Zenon DEF side

\* The entry that takes an item takes its time, if it has one, and no other
\* entry with a stored state changes its own.
LEMMA TimesRead ==
  ASSUME RunInv, KeysInv, ~opt.checkmoved, ReadItem,
         NEW j \in DOMAIN files', Stored(files'[j]) # Absent
  PROVE  LET it == info.items[item]
         IN  \/ /\ files'[j].type = it.type /\ Stored(files'[j]).filename = it.state.filename
                /\ it.server # 0 => files'[j].server = it.server
             \/ \E l \in DOMAIN files :
                  /\ files[l].type = files'[j].type /\ Stored(files[l]) = Stored(files'[j])
                  /\ files[l].server = files'[j].server
<1> DEFINE it   == info.items[item]
           v    == file_set(site, "stored", it.type, it.state)
           k    == file_set_index(site, "stored", it.type, it.state)
           time == server_modtime(doc, it)
           w    == [v.files[k] EXCEPT !.server = time]
           f    == one_sided(it.type, "stored", it.state,
                             it.type = "file" /\ file_isignored(it.state.filename))
<1>1. /\ Exact(site) /\ site \in Site /\ SiteOK(site) /\ ~site.opt.checkmoved
      /\ files = site.files /\ files' = site'.files /\ pc = "read_stored"
      /\ files \in Seq(Entry) /\ Keyed(files) /\ "stored" \in Sides /\ doc \in Nat
  BY DEF ReadItem, RunInv, EngineOK, Exact, SiteOK, Site, files, opt, KeysInv, Sides
<1>2. /\ item \in DOMAIN info.items /\ it.type \in FileTypes /\ it.state \in FileState
      /\ it.server \in Nat /\ item \in Nat
  <2>1. item \in DOMAIN info.items /\ it.type \in FileTypes /\ it.state \in FileState
    BY ReadAdded
  <2>2. info.items \in Seq(Item) /\ item \in Nat
    BY DEF RunInv, InfoFile
  <2>3. it \in Item
    BY <2>1, <2>2
  <2>4. QED
    BY <2>1, <2>2, <2>3 DEF Item
<1>3. time \in Nat /\ (it.server # 0 => time = it.server)
  BY <1>1, <1>2 DEF server_modtime
<1>4. site' = IF time = 0 THEN v ELSE file_replace(v, k, w)
  BY DEF ReadItem, read_item, file_set_stored
<1>5. ~HasKey(files, "stored", it.type, it.state.filename)
  BY <1>1, <1>2 DEF KeysInv
<1>6. Exact(v) /\ k \in DOMAIN v.files /\ Keyed(v.files)
      /\ v.files[k].type = it.type /\ v.files[k].st["stored"] = it.state
  BY <1>1, <1>2, <1>5, FileSetExact, SetIndex, SetIndexState, FileSetKeyed DEF KeyAdded
<1>7. it.state # Absent
  BY <1>2, ConstantsAssumption
<1>8. v.files \in Seq(Entry) /\ v.files[k] \in Entry
  <2> HIDE DEF it, v, k
  <2>1. v.files \in Seq(Entry)
    BY <1>6 DEF Exact, SiteOK, Site
  <2>2. QED
    BY <1>6, <2>1
<1>9. \/ f \in Entry /\ v.files = Inserted(files, f)
      \/ \E d \in DOMAIN files, diff \in Diffs :
           v.files = [files EXCEPT ![d] = Taken(files[d], "stored", it.state, diff)]
           /\ files[d].type = it.type
  <2>1. SiteOK(site) /\ Keyed(site.files) /\ ~HasKey(site.files, "stored", it.type, it.state.filename)
    BY <1>1, <1>5
  <2> HIDE DEF it, v
  <2>2. \/ f \in Entry /\ v.files = Inserted(site.files, f)
        \/ \E d \in DOMAIN site.files, diff \in Diffs :
             /\ Stands(site.files[d], OtherSide("stored"), it.type, it.state.filename)
             /\ v.files = [site.files EXCEPT ![d] = Taken(site.files[d], "stored", it.state, diff)]
    <3> DEFINE tp == it.type
               st == it.state
    <3>1. tp \in FileTypes /\ st \in FileState
      BY <1>2
    <3>2. SiteOK(site) /\ Keyed(site.files) /\ ~site.opt.checkmoved /\ "stored" \in Sides
          /\ ~HasKey(site.files, "stored", tp, st.filename)
      BY <1>1, <2>1
    <3>3. v = file_set(site, "stored", tp, st)
          /\ f = one_sided(tp, "stored", st, tp = "file" /\ file_isignored(st.filename))
      BY DEF v, f
    <3> HIDE DEF tp, st, f
    <3>4. \/ \E g \in Entry : /\ g = one_sided(tp, "stored", st, tp = "file" /\ file_isignored(st.filename))
                              /\ file_set(site, "stored", tp, st).files = Inserted(site.files, g)
          \/ \E d \in DOMAIN site.files, diff \in Diffs :
               /\ Stands(site.files[d], OtherSide("stored"), tp, st.filename)
               /\ file_set(site, "stored", tp, st).files
                    = [site.files EXCEPT ![d] = Taken(site.files[d], "stored", st, diff)]
      BY <3>1, <3>2, SetStoredUnmoved
    <3>5. QED
      BY <3>3, <3>4 DEF tp, st
  <2> HIDE DEF f
  <2>3. QED
    BY <1>1, <2>2 DEF Stands
<1> HIDE DEF it, v, k, time, f
<1>10. w.type = it.type /\ w.st["stored"] = it.state /\ w.server = time
  BY <1>6, <1>8 DEF Entry
<1>11. files' = IF time = 0 THEN v.files ELSE [v.files EXCEPT ![k] = w]
  <2>1. time # 0 => file_replace(v, k, w).files = [v.files EXCEPT ![k] = w]
    BY <1>3, <1>6, ServerTimeExact
  <2>2. QED
    BY <1>1, <1>4, <2>1
<1>12. DOMAIN files' = DOMAIN v.files
  BY <1>8, <1>11
<1> HIDE DEF w
<1>13. CASE j = k
  <2>1. files'[j].type = it.type /\ Stored(files'[j]) = it.state
    BY <1>6, <1>10, <1>11, <1>13 DEF Stored
  <2>2. it.server # 0 => files'[j].server = it.server
    BY <1>3, <1>6, <1>10, <1>11, <1>13
  <2>3. QED
    BY <2>1, <2>2 DEF it
<1>14. CASE j # k
  <2>1. files'[j] = v.files[j] /\ j \in DOMAIN v.files
    BY <1>11, <1>12, <1>14
  <2>2. v.files[j].st["stored"] # Absent
    BY <2>1 DEF Stored
  <2>3. ~(v.files[j].type = it.type /\ v.files[j].st["stored"] = it.state)
    BY <1>1, <1>6, <1>7, <1>14, <2>1, <2>2 DEF Keyed
  <2>4. \E l \in DOMAIN files : v.files[j] = files[l]
    <3>1. CASE f \in Entry /\ v.files = Inserted(files, f)
      <4>1. PICK e \in DOMAIN v.files : \E g : InsertedAt(v.files, files, f, e, g)
        BY <1>1, <3>1, InsertMap
      <4>2. j # e
        <5>1. f.type = it.type /\ f.st["stored"] = it.state
          BY <1>1 DEF one_sided, f
        <5>2. v.files[e] = f
          BY <4>1 DEF InsertedAt
        <5>3. QED
          BY <2>3, <5>1, <5>2
      <4>3. QED
        BY <2>1, <4>1, <4>2 DEF InsertedAt
    <3>2. ASSUME NEW d \in DOMAIN files, NEW diff \in Diffs, files[d].type = it.type,
                 v.files = [files EXCEPT ![d] = Taken(files[d], "stored", it.state, diff)]
          PROVE  \E l \in DOMAIN files : v.files[j] = files[l]
      <4>1. files[d] \in Entry
        BY <1>1
      <4>2. Taken(files[d], "stored", it.state, diff).type = it.type
            /\ Taken(files[d], "stored", it.state, diff).st["stored"] = it.state
        BY <1>1, <3>2, <4>1 DEF Taken, Entry
      <4>3. j # d
        BY <2>3, <3>2, <4>2
      <4>4. QED
        BY <2>1, <3>2, <4>3
    <3>3. QED
      BY <1>9, <3>1, <3>2
  <2>5. QED
    BY <2>1, <2>4
<1>15. QED
  BY <1>13, <1>14

\* One item more.
LEMMA ItemRead ==
  ASSUME RunInv, KeysInv, ReadInv, ~opt.checkmoved, ReadItem
  PROVE  ReadInv'
<1> DEFINE it == info.items[item]
           v  == file_set(site, "stored", it.type, it.state)
           kk == file_set_index(site, "stored", it.type, it.state)
           time == server_modtime(doc, it)
           Q  == {e \in Sides \X FileTypes \X FileState :
                    e[1] = "stored" =>
                      \E k \in DOMAIN info.items :
                         k =< item /\ info.items[k].type = e[2] /\ info.items[k].state = e[3]}
<1>1. /\ item \in DOMAIN info.items /\ it.type \in FileTypes /\ it.state \in FileState
      /\ KeyAdded(files', files, "stored", it.type, it.state.filename)
  BY ReadAdded
<1>2. /\ pc = "read_stored" /\ pc' = pc /\ info' = info /\ item' = item + 1 /\ item \in Nat
      /\ DOMAIN info.items \subseteq Nat /\ site \in Site /\ files = site.files /\ files' = site'.files
      /\ files \in Seq(Entry) /\ Sides = {"local", "stored"} /\ info.items \in Seq(Item) /\ doc \in Nat
      /\ Exact(site) /\ KeyedItems(info.items)
  BY DEF ReadItem, RunInv, InfoFile, EngineOK, Exact, SiteOK, Site, files, Sides, KeysInv
<1>3. site' = IF time = 0 THEN v ELSE file_replace(v, kk, [v.files[kk] EXCEPT !.server = time])
  BY DEF ReadItem, read_item, file_set_stored
<1>4. time \in Nat
  <2>1. it \in Item
    BY <1>1, <1>2
  <2>2. QED
    BY <1>2, <2>1 DEF server_modtime, Item
<1>5. <<"stored", it.type, it.state>> \in Q
  BY <1>1, <1>2
<1>6. StatesAmong(site.files, Q)
  <2>1. SUFFICES ASSUME NEW i \in DOMAIN files, NEW x \in Sides, files[i].st[x] # Absent
                 PROVE  <<x, files[i].type, files[i].st[x]>> \in Q
    BY <1>2 DEF StatesAmong
  <2>2. files[i].type \in FileTypes /\ files[i].st[x] \in FileState
    <3>1. files[i] \in Entry
      BY <1>2
    <3>2. QED
      BY <2>1, <3>1 DEF Entry
  <2>3. x = "stored" => \E k \in DOMAIN info.items :
          k =< item /\ info.items[k].type = files[i].type /\ info.items[k].state = files[i].st[x]
    BY <1>2, <2>1 DEF ReadInv, Stored
  <2>4. QED
    BY <2>2, <2>3
<1> HIDE DEF it, time
<1>7. StatesAmong(files', Q)
  <2> HIDE DEF Q
  <2>1. StatesAmong(v.files, Q)
    BY <1>1, <1>2, <1>5, <1>6, FileSetStatesIn
  <2>2. Exact(v) /\ kk \in DOMAIN v.files
    BY <1>1, <1>2, FileSetExact, SetIndex
  <2> HIDE DEF v, kk
  <2>3. StatesAmong(file_replace(v, kk, [v.files[kk] EXCEPT !.server = time]).files, Q)
    BY <1>4, <2>1, <2>2, ServerTimeStatesIn
  <2>4. QED
    BY <1>2, <1>3, <2>1, <2>3
<1>8. ASSUME NEW i \in DOMAIN files', Stored(files'[i]) # Absent
      PROVE  \E k \in DOMAIN info.items :
               k < item' /\ info.items[k].type = files'[i].type /\ info.items[k].state = Stored(files'[i])
  <2>1. <<"stored", files'[i].type, Stored(files'[i])>> \in Q
    BY <1>2, <1>7, <1>8 DEF StatesAmong, Stored
  <2>2. PICK k \in DOMAIN info.items :
          k =< item /\ info.items[k].type = files'[i].type /\ info.items[k].state = Stored(files'[i])
    BY <2>1
  <2>3. k < item'
    BY <1>2, <2>2
  <2>4. QED
    BY <2>2, <2>3
<1> HIDE DEF Q, v, kk
<1>9. ASSUME NEW k \in DOMAIN info.items, k < item'
      PROVE  HasKey(files', "stored", info.items[k].type, info.items[k].state.filename)
  <2>1. k < item \/ k = item
    BY <1>2, <1>9
  <2>2. k < item => HasKey(files, "stored", info.items[k].type, info.items[k].state.filename)
    BY <1>2 DEF ReadInv
  <2>3. QED
    BY <1>1, <1>2, <2>1, <2>2 DEF KeyAdded, it
<1>10. ASSUME NEW i \in DOMAIN files', NEW k \in DOMAIN info.items,
              k < item', Stored(files'[i]) # Absent,
              info.items[k].type = files'[i].type, info.items[k].state = Stored(files'[i]),
              info.items[k].server # 0
       PROVE  files'[i].server = info.items[k].server
  <2>1. CASE /\ files'[i].type = it.type /\ Stored(files'[i]).filename = it.state.filename
             /\ it.server # 0 => files'[i].server = it.server
    <3>1. k = item
      BY <1>1, <1>2, <1>10, <2>1 DEF KeyedItems, it
    <3>2. QED
      BY <1>10, <2>1, <3>1 DEF it
  <2>2. ASSUME NEW l \in DOMAIN files,
               files[l].type = files'[i].type, Stored(files[l]) = Stored(files'[i]),
               files[l].server = files'[i].server
        PROVE  files'[i].server = info.items[k].server
    <3>1. HasKey(files, "stored", info.items[k].type, info.items[k].state.filename)
      BY <1>10, <2>2 DEF HasKey, Stands, Stored
    <3>2. ~(k >= item)
      BY <1>2, <3>1 DEF KeysInv
    <3>3. k < item
      BY <1>2, <3>2
    <3>4. QED
      BY <1>2, <1>10, <2>2, <3>3 DEF ReadInv
  <2>3. QED
    BY <1>10, <2>1, <2>2, TimesRead DEF it
<1>11. QED
  BY <1>2, <1>8, <1>9, <1>10 DEF ReadInv

\* Every step keeps it.
LEMMA ReadKept ==
  ASSUME RunInv, KeysInv, ReadInv, [RunNext]_allVars
  PROVE  ReadInv'
<1>0. opt' = opt
  BY RunMoves DEF Outsider, Aside, opt
<1>1. SUFFICES ASSUME ~opt.checkmoved PROVE ReadInv'
  BY <1>0 DEF ReadInv
<1>2. CASE ReadItem
  BY <1>1, <1>2, ItemRead
<1>3. CASE ReadInfo
  <2>1. /\ pc = "read_local" /\ unread = {} /\ files' = files /\ info' = info
        /\ pc' \in {"idle", "read_stored"} /\ (pc' = "read_stored" => item' = 1)
        /\ files \in Seq(Entry) /\ DOMAIN info.items \subseteq Nat \ {0}
    BY <1>3 DEF ReadInfo, updateVars, RunInv, InfoFile, EngineOK, Exact, SiteOK, Site, files
  <2>2. ASSUME NEW i \in DOMAIN files PROVE Stored(files[i]) = Absent
    <3>1. files[i] \in Entry
      BY <2>1
    <3>2. files[i].type \in FileTypes /\ files[i].st["stored"] \in FileState \cup {Absent}
      BY <3>1 DEF Entry, Sides
    <3>3. files[i].st["stored"] # Absent =>
            HasKey(files, "stored", files[i].type, files[i].st["stored"].filename)
      BY DEF HasKey, Stands
    <3>4. files[i].st["stored"] # Absent => files[i].st["stored"].filename \in Names
      BY <3>2 DEF FileState
    <3>5. QED
      BY <1>1, <2>1, <3>2, <3>3, <3>4 DEF KeysInv, Stored
  <2>3. QED
    BY <2>1, <2>2 DEF ReadInv
<1>4. CASE StoredRead
  BY <1>4 DEF StoredRead, updateVars, files, opt, ReadInv
<1>5. CASE UNCHANGED <<site, info, pc, item>> \/ pc' \notin {"read_stored", "act"}
  BY <1>5 DEF ReadInv, files, opt
<1>6. ~ReadItem /\ ~ReadInfo /\ ~StoredRead
        => UNCHANGED <<site, info, pc, item>> \/ pc' \notin {"read_stored", "act"}
  BY DEF RunNext, Program, ReadLocalFile, NothingToDo, OpenStorage, Update, UpdateReturns, SaveState,
     StartRun, Initialize, Edit, Tick, Outsider, Killed, allVars, updateVars, runVars
<1>7. QED
  BY <1>2, <1>3, <1>4, <1>5, <1>6

\* The list that has been read is the info file.
LEMMA AllRead ==
  ASSUME RunInv, KeysInv, ReadInv, ~opt.checkmoved, pc = "act"
  PROVE  InfoRoundTrip
<1> DEFINE read == {i \in DOMAIN files : Stored(files[i]) # Absent}
           q    == info.items
           n    == Len(info.items)
<1>1. /\ Keyed(files) /\ KeyedItems(q) /\ files \in Seq(Entry) /\ q \in Seq(Item) /\ n \in Nat
      /\ DOMAIN q = 1 .. n /\ item \in Nat /\ item > n /\ "stored" \in Sides
  BY DEF RunInv, EngineOK, Exact, SiteOK, Site, files, InfoFile, KeysInv, ReadInv, Sides
<1>2. \A i \in read : \E k \in DOMAIN q : q[k].type = files[i].type /\ q[k].state = Stored(files[i])
  BY DEF ReadInv
<1>3. ASSUME NEW k \in DOMAIN q
      PROVE  \E i \in read : q[k].type = files[i].type /\ q[k].state = Stored(files[i])
  <2>1. k < item
    BY <1>1
  <2>2. HasKey(files, "stored", q[k].type, q[k].state.filename)
    BY <2>1 DEF ReadInv
  <2>3. PICK i \in DOMAIN files : /\ files[i].type = q[k].type /\ Stored(files[i]) # Absent
                                  /\ Stored(files[i]).filename = q[k].state.filename
    BY <2>2 DEF HasKey, Stands, Stored
  <2>4. PICK l \in DOMAIN q : q[l].type = files[i].type /\ q[l].state = Stored(files[i])
    BY <1>2, <2>3
  <2>5. l = k
    BY <1>1, <2>3, <2>4 DEF KeyedItems
  <2>6. QED
    BY <2>3, <2>4, <2>5
<1>4. ASSUME NEW i \in read, NEW j \in read, files[i].type = files[j].type, Stored(files[i]) = Stored(files[j])
      PROVE  i = j
  BY <1>1, <1>4 DEF Keyed, Stored
<1>5. ASSUME NEW i \in read, NEW k \in DOMAIN q,
             q[k].type = files[i].type, q[k].state = Stored(files[i]), q[k].server # 0
      PROVE  files[i].server = q[k].server
  <2>1. k < item
    BY <1>1
  <2>2. QED
    BY <1>5, <2>1 DEF ReadInv
<1> HIDE DEF read, q, n
<1>6. Cardinality(read) = n
  <2> DEFINE h == [k \in 1 .. n |->
                     CHOOSE i \in read : q[k].type = files[i].type /\ q[k].state = Stored(files[i])]
  <2>1. \A k \in 1 .. n : h[k] \in read /\ q[k].type = files[h[k]].type /\ q[k].state = Stored(files[h[k]])
    BY <1>1, <1>3
  <2>2. h \in [1 .. n -> read]
    BY <2>1
  <2> HIDE DEF h
  <2>3. h \in Injection(1 .. n, read)
    <3>1. \A k, l \in 1 .. n : h[k] = h[l] => q[k].type = q[l].type /\ q[k].state = q[l].state
      BY <2>1
    <3>2. \A k, l \in 1 .. n : h[k] = h[l] => k = l
      BY <1>1, <3>1 DEF KeyedItems
    <3>3. QED
      BY <2>2, <3>2 DEF Injection, IsInjective
  <2>4. \A i \in read : \E k \in 1 .. n : h[k] = i
    BY <1>1, <1>2, <1>4, <2>1
  <2>5. h \in Surjection(1 .. n, read)
    BY <2>2, <2>4 DEF Surjection
  <2>6. IsFiniteSet(1 .. n) /\ Cardinality(1 .. n) = n
    <3>1. 1 \in Int /\ n \in Int /\ (1 > n => n = 0)
      BY <1>1
    <3>2. QED
      BY <3>1, FS_Interval
  <2>7. QED
    BY <2>3, <2>5, <2>6, FS_Surjection
<1>7. {<<files[i].type, Stored(files[i])>> : i \in read} = {<<q[k].type, q[k].state>> : k \in DOMAIN q}
  <2>1. ASSUME NEW i \in read
        PROVE  \E k \in DOMAIN q : <<files[i].type, Stored(files[i])>> = <<q[k].type, q[k].state>>
    BY <1>2
  <2>2. ASSUME NEW k \in DOMAIN q
        PROVE  \E i \in read : <<files[i].type, Stored(files[i])>> = <<q[k].type, q[k].state>>
    BY <1>3
  <2>3. QED
    BY <2>1, <2>2
<1>8. QED
  BY <1>5, <1>6, <1>7 DEF InfoRoundTrip, read, q, n

\* What was written to the info file is what the next run reads, in every run of
\* a site that does not check for moves, whatever was edited, failed or killed
\* before: every stored state is in the list once, and in safe mode with the
\* server's modification time that was saved for it, if one was.
THEOREM InfoReadBack ==
  ASSUME EditPcs \subseteq {"idle"}, \A o \in Options : ~o.checkmoved
  PROVE  RunSpec => []InfoRoundTrip
<1>0. RunInv => ~opt.checkmoved
  BY OptionsTyped DEF RunInv
<1>1. RunInit => KeysInv /\ ReadInv
  BY KeysAtInit DEF RunInit, ReadInv
<1>2. RunInv /\ KeysInv /\ ReadInv /\ [RunNext]_allVars => KeysInv' /\ ReadInv'
  BY KeysKept, ReadKept
<1>3. RunInv /\ KeysInv /\ ReadInv => InfoRoundTrip
  <2>1. CASE pc = "act"
    BY <1>0, <2>1, AllRead
  <2>2. CASE pc # "act"
    BY <2>2 DEF InfoRoundTrip
  <2>3. QED
    BY <2>1, <2>2
<1>4. QED
  BY <1>1, <1>2, <1>3, RunInvariant, PTL DEF RunSpec
=============================================================================
