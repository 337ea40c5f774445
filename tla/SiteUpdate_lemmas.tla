-------------------------- MODULE SiteUpdate_lemmas --------------------------
(***************************************************************************)
(* First, what one call of a protocol driver may do to the tree on the     *)
(* server, for every tree, protocol and set of faults: which places it may *)
(* change, into what, and what a SITE_OK stands for.  Then, what one step  *)
(* of site_update may do to the file list, to the loops and to the server. *)
(* The proofs about the runs of the program are built from these facts and *)
(* not from the eighteen actions of the engine.                            *)
(***************************************************************************)
EXTENDS SiteUpdate, FileList_lemmas

-----------------------------------------------------------------------------
(* The drivers                                                             *)

\* The tree `after' is `before' without some of the files at the places S.
Removes(before, after, S) ==
  /\ after \in Tree
  /\ \A p \in Places : after[p] = before[p] \/ (p \in S /\ after[p] = Absent)

\* The places that the DELETE of a collection takes away.
PlacesBelow(place) == {p \in Places : p = place \/ p[1] \in Below(place[1])}

\* The file at `from' is now at `to', and nothing else has changed but for the
\* places G, which may have been emptied.  A directory at `to' may have
\* swallowed the file; what is moved to its own place may be deleted there.
Moves(before, after, from, to, G) ==
  /\ after \in Tree
  /\ TypeAt(before, from) = "file"
  /\ \A p \in Places \ {from, to} : after[p] = before[p] \/ (p \in G /\ after[p] = Absent)
  /\ \/ after[to] = before[from] /\ (from # to => after[from] = Absent)
     \/ TypeAt(before, to) = "dir" /\ after[to] = before[to] /\ after[from] = Absent
     \/ from = to /\ to \in G /\ after[to] = Absent

\* What answers have in common.
AnswerOK(a, tree) == a.fault \in {0, 1} /\ a.tree \in Tree

-----------------------------------------------------------------------------

\* An answer to a call leaves the tree as it was or as the call makes it, and
\* SITE_OK means the latter.
Answered_with(a, tree, allowed, done) ==
  /\ a.fault \in {0, 1} /\ a.code \in {"ok", "error"}
  /\ a.tree = tree \/ (allowed /\ a.tree = done)
  /\ a.code = "ok" => allowed /\ a.tree = done

\* All answers are of this kind.
LEMMA AnswersEffect ==
  ASSUME NEW tree, NEW allowed, NEW done
  PROVE  \A a \in Answers(tree, allowed, done) : Answered_with(a, tree, allowed, done)
BY DEF Answers, Answer, Answered_with

\* The answers of sftp, which nobody reads, leave one of the same trees.
LEMMA UnheardEffect ==
  ASSUME NEW tree, NEW answers, \A b \in answers : b = Answer(b.code, b.tree, b.fault),
         NEW a \in Unheard(tree, answers)
  PROVE  \/ a.fault = 1 /\ a.tree = tree /\ a.code = "error"
         \/ \E b \in answers : a.fault = b.fault /\ a.tree = b.tree
BY DEF Unheard, Answer

\* Every answer is the record that Answer makes.
LEMMA AnswersAreRecords ==
  ASSUME NEW tree, NEW allowed, NEW done
  PROVE  \A b \in Answers(tree, allowed, done) : b = Answer(b.code, b.tree, b.fault)
BY DEF Answers, Answer

\* A file that is no longer Absent is a record of a file.
LEMMA FileAt ==
  ASSUME NEW tree \in Tree, NEW p \in Places
  PROVE  /\ tree[p] \in RemoteFile \cup {Absent}
         /\ tree[p] # Absent => tree[p] \in RemoteFile /\ TypeAt(tree, p) = tree[p].type
         /\ TypeAt(tree, p) = "none" <=> tree[p] = Absent
         /\ TypeAt(tree, p) \in {"none", "file", "dir"}
<1>1. tree[p] \in RemoteFile \cup {Absent}
  BY DEF Tree
<1>2. tree[p] # Absent => tree[p].type \in {"file", "dir"}
  BY <1>1 DEF RemoteFile
<1>3. QED
  BY <1>1, <1>2 DEF TypeAt

\* A place given up.
LEMMA ClearedTree ==
  ASSUME NEW tree \in Tree, NEW place \in Places
  PROVE  Removes(tree, [tree EXCEPT ![place] = Absent], {place})
BY DEF Removes, Tree

\* ... and with it what is below it.
LEMMA DeletedTree ==
  ASSUME NEW tree \in Tree, NEW place \in Places
  PROVE  Removes(tree, Deleted(tree, place), PlacesBelow(place))
<1>1. \A p \in Places : Deleted(tree, place)[p] = IF p \in PlacesBelow(place) THEN Absent ELSE tree[p]
  BY DEF Deleted, PlacesBelow
<1>2. \A p \in Places : tree[p] \in RemoteFile \cup {Absent}
  BY DEF Tree
<1>3. Deleted(tree, place) \in Tree
  BY <1>1, <1>2 DEF Deleted, Tree
<1>4. QED
  BY <1>1, <1>3 DEF Removes

-----------------------------------------------------------------------------
(* The calls                                                               *)

\* A driver's operation is that of FTP, of WebDAV, of a shell command, or of a
\* shell command whose answers nobody reads.
Dispatched_to(a, protocol, tree, ftp, dav, shell) ==
  \/ protocol = "ftp" /\ a \in ftp
  \/ protocol = "dav" /\ a \in dav
  \/ protocol = "rsh" /\ a \in shell
  \/ /\ protocol = "sftp"
     /\ \/ a.fault = 1 /\ a.tree = tree /\ a.code = "error"
        \/ \E b \in shell : a.fault = b.fault /\ a.tree = b.tree

\* Every operation is dispatched so.
LEMMA DispatchEffect ==
  ASSUME NEW protocol \in Protocols, NEW tree, NEW ftp, NEW dav, NEW shell,
         \A b \in shell : b = Answer(b.code, b.tree, b.fault),
         NEW a \in Dispatch(protocol, tree, ftp, dav, shell)
  PROVE  Dispatched_to(a, protocol, tree, ftp, dav, shell)
<1>1. CASE protocol = "sftp"
  <2>1. a \in Unheard(tree, shell)
    BY <1>1 DEF Dispatch
  <2>2. QED
    BY <1>1, <2>1, UnheardEffect DEF Dispatched_to
<1>2. CASE protocol # "sftp"
  BY <1>2 DEF Dispatch, Protocols, Dispatched_to
<1>3. QED
  BY <1>1, <1>2

\* DELETE, DELE and rm remove one file, or with WebDAV a collection.
LEMMA FileDeleteEffect ==
  ASSUME NEW protocol \in Protocols, NEW tree \in Tree, NEW place \in Places,
         NEW a \in file_delete_call(protocol, tree, place)
  PROVE  /\ a.fault \in {0, 1}
         /\ Removes(tree, a.tree, IF protocol = "dav" THEN PlacesBelow(place) ELSE {place})
<1> DEFINE done == [tree EXCEPT ![place] = Absent]
           rm   == driver_file_delete(tree, place)
           gone == IF protocol = "dav" THEN PlacesBelow(place) ELSE {place}
<1>1. \A S \in SUBSET Places : Removes(tree, tree, S)
  BY DEF Removes
<1>2. {place} \in SUBSET Places /\ PlacesBelow(place) \in SUBSET Places
  BY DEF PlacesBelow
<1>3. \A b \in rm : b.fault \in {0, 1} /\ Removes(tree, b.tree, {place})
  <2>1. SUFFICES ASSUME NEW b \in rm
                 PROVE  b.fault \in {0, 1} /\ Removes(tree, b.tree, {place})
    OBVIOUS
  <2>2. Answered_with(b, tree, TypeAt(tree, place) = "file", done)
    BY AnswersEffect DEF driver_file_delete
  <2>3. QED
    BY <1>1, <1>2, <2>2, ClearedTree DEF Answered_with
<1>4. \A b \in Answers(tree, TypeAt(tree, place) # "none", Deleted(tree, place)) :
        b.fault \in {0, 1} /\ Removes(tree, b.tree, PlacesBelow(place))
  <2>1. SUFFICES ASSUME NEW b \in Answers(tree, TypeAt(tree, place) # "none", Deleted(tree, place))
                 PROVE  b.fault \in {0, 1} /\ Removes(tree, b.tree, PlacesBelow(place))
    OBVIOUS
  <2>2. Answered_with(b, tree, TypeAt(tree, place) # "none", Deleted(tree, place))
    BY AnswersEffect
  <2>3. QED
    BY <1>1, <1>2, <2>2, DeletedTree DEF Answered_with
<1>5. \A b \in rm : b = Answer(b.code, b.tree, b.fault)
  BY AnswersAreRecords DEF driver_file_delete
<1> HIDE DEF rm
<1>6. a \in Dispatch(protocol, tree, rm,
                     Answers(tree, TypeAt(tree, place) # "none", Deleted(tree, place)), rm)
  BY DEF file_delete_call, rm
<1>7. Dispatched_to(a, protocol, tree, rm,
                    Answers(tree, TypeAt(tree, place) # "none", Deleted(tree, place)), rm)
  BY <1>5, <1>6, DispatchEffect
<1>8. QED
  BY <1>1, <1>2, <1>3, <1>4, <1>7 DEF Dispatched_to

\* RMD and rmdir remove an empty directory, DELETE one with all that is in it.
LEMMA DirRemoveEffect ==
  ASSUME NEW protocol \in Protocols, NEW tree \in Tree, NEW place \in Places,
         NEW a \in dir_remove_call(protocol, tree, place)
  PROVE  /\ a.fault \in {0, 1}
         /\ Removes(tree, a.tree, IF protocol = "dav" THEN PlacesBelow(place) ELSE {place})
         /\ TypeAt(tree, place) = "dir" \/ a.tree = tree
<1> DEFINE done  == [tree EXCEPT ![place] = Absent]
           rmdir == driver_dir_remove(tree, place)
           dav   == dav_dir_remove(tree, place)
<1>1. \A S \in SUBSET Places : Removes(tree, tree, S)
  BY DEF Removes
<1>2. {place} \in SUBSET Places /\ PlacesBelow(place) \in SUBSET Places
  BY DEF PlacesBelow
<1>3. \A b \in rmdir : /\ b.fault \in {0, 1} /\ Removes(tree, b.tree, {place})
                       /\ TypeAt(tree, place) = "dir" \/ b.tree = tree
  <2>1. SUFFICES ASSUME NEW b \in rmdir
                 PROVE  /\ b.fault \in {0, 1} /\ Removes(tree, b.tree, {place})
                        /\ TypeAt(tree, place) = "dir" \/ b.tree = tree
    OBVIOUS
  <2>2. Answered_with(b, tree, TypeAt(tree, place) = "dir" /\ IsEmptyDir(tree, place), done)
    BY AnswersEffect DEF driver_dir_remove
  <2>3. QED
    BY <1>1, <1>2, <2>2, ClearedTree DEF Answered_with
<1>4. \A b \in dav : /\ b.fault \in {0, 1} /\ Removes(tree, b.tree, PlacesBelow(place))
                     /\ TypeAt(tree, place) = "dir" \/ b.tree = tree
  <2>1. SUFFICES ASSUME NEW b \in dav
                 PROVE  /\ b.fault \in {0, 1} /\ Removes(tree, b.tree, PlacesBelow(place))
                        /\ TypeAt(tree, place) = "dir" \/ b.tree = tree
    OBVIOUS
  <2>2. Answered_with(b, tree, TypeAt(tree, place) = "dir", Deleted(tree, place))
    BY AnswersEffect DEF dav_dir_remove
  <2>3. QED
    BY <1>1, <1>2, <2>2, DeletedTree DEF Answered_with
<1>5. \A b \in rmdir : b = Answer(b.code, b.tree, b.fault)
  BY AnswersAreRecords DEF driver_dir_remove
<1> HIDE DEF rmdir, dav
<1>6. a \in Dispatch(protocol, tree, rmdir, dav, rmdir)
  BY DEF dir_remove_call, rmdir, dav
<1>7. Dispatched_to(a, protocol, tree, rmdir, dav, rmdir)
  BY <1>5, <1>6, DispatchEffect
<1>8. QED
  BY <1>1, <1>2, <1>3, <1>4, <1>7 DEF Dispatched_to

\* A directory is made where there was nothing.
LEMMA DirCreateEffect ==
  ASSUME NEW protocol \in Protocols, NEW tree \in Tree, NEW place \in Places, NEW now \in Nat,
         NEW a \in dir_create_call(protocol, tree, place, now)
  PROVE  /\ a.fault \in {0, 1} /\ a.tree \in Tree
         /\ \/ a.tree = tree
            \/ /\ tree[place] = Absent /\ a.tree[place] \in RemoteFile
               /\ a.tree[place].type = "dir" /\ a.tree[place].content = NoData
               /\ \A p \in Places \ {place} : a.tree[p] = tree[p]
<1> DEFINE dir   == [type |-> "dir", content |-> NoData, mode |-> DefaultMode, time |-> now]
           done  == [tree EXCEPT ![place] = dir]
           mkdir == driver_dir_create(tree, place, now)
<1>1. dir \in RemoteFile /\ dir.type = "dir" /\ dir.content = NoData
  BY ServerAssumption, ConstantsAssumption DEF RemoteFile
<1>2. \A b \in mkdir : b.fault \in {0, 1} /\ (b.tree = tree \/ (tree[place] = Absent /\ b.tree = done))
  <2>1. SUFFICES ASSUME NEW b \in mkdir
                 PROVE  b.fault \in {0, 1} /\ (b.tree = tree \/ (tree[place] = Absent /\ b.tree = done))
    OBVIOUS
  <2>2. Answered_with(b, tree,
                      TypeAt(tree, place) = "none" /\ DirectoryExists(tree, place), done)
    BY AnswersEffect DEF driver_dir_create
  <2>3. QED
    BY <2>2, FileAt DEF Answered_with
<1>3. \A b \in mkdir : b = Answer(b.code, b.tree, b.fault)
  BY AnswersAreRecords DEF driver_dir_create
<1> HIDE DEF mkdir, dir, done
<1>4. a \in Dispatch(protocol, tree, mkdir, mkdir, mkdir)
  BY DEF dir_create_call, mkdir
<1>5. a.fault \in {0, 1} /\ (a.tree = tree \/ (tree[place] = Absent /\ a.tree = done))
  <2>1. Dispatched_to(a, protocol, tree, mkdir, mkdir, mkdir)
    BY <1>3, <1>4, DispatchEffect
  <2>2. QED
    BY <1>2, <2>1 DEF Dispatched_to
<1>6. /\ done \in Tree /\ done[place] = dir
      /\ \A p \in Places \ {place} : done[p] = tree[p]
  BY <1>1 DEF Tree, done
<1>7. QED
  BY <1>1, <1>5, <1>6

\* The mode of what is there is changed, and nothing else.
LEMMA ChmodEffect ==
  ASSUME NEW protocol \in Protocols, NEW tree \in Tree, NEW place \in Places, NEW mode \in Modes,
         NEW a \in file_chmod_call(protocol, tree, place, mode)
  PROVE  /\ a.fault \in {0, 1} /\ a.tree \in Tree
         /\ \/ a.tree = tree
            \/ /\ tree[place] # Absent /\ a.tree[place] = [tree[place] EXCEPT !.mode = mode]
               /\ a.tree[place] \in RemoteFile
               /\ \A p \in Places \ {place} : a.tree[p] = tree[p]
<1> DEFINE new   == [tree[place] EXCEPT !.mode = mode]
           done  == IF tree[place] = Absent THEN tree
                    ELSE [tree EXCEPT ![place] = [tree[place] EXCEPT !.mode = mode]]
           chmod == driver_file_chmod(tree, place, mode)
<1>1. tree[place] # Absent => new \in RemoteFile
  BY FileAt DEF RemoteFile
<1>2. \A b \in chmod : b.fault \in {0, 1} /\ (b.tree = tree \/ b.tree = done)
  <2>1. chmod = Answers(tree, TypeAt(tree, place) # "none", done)
    BY DEF driver_file_chmod
  <2> HIDE DEF chmod, done
  <2>2. \A b \in chmod : Answered_with(b, tree, TypeAt(tree, place) # "none", done)
    BY <2>1, AnswersEffect
  <2>3. QED
    BY <2>2 DEF Answered_with
<1>3. \A b \in chmod : b = Answer(b.code, b.tree, b.fault)
  BY AnswersAreRecords DEF driver_file_chmod
<1> HIDE DEF chmod, done
<1>4. a \in Dispatch(protocol, tree, chmod, chmod, chmod)
  BY DEF file_chmod_call, chmod
<1>5. a.fault \in {0, 1} /\ (a.tree = tree \/ a.tree = done)
  <2>1. Dispatched_to(a, protocol, tree, chmod, chmod, chmod)
    BY <1>3, <1>4, DispatchEffect
  <2>2. QED
    BY <1>2, <2>1 DEF Dispatched_to
<1>6. CASE tree[place] = Absent
  BY <1>5, <1>6 DEF done
<1>7. CASE tree[place] # Absent
  <2>0. done = [tree EXCEPT ![place] = new]
    BY <1>7 DEF done
  <2> HIDE DEF new
  <2>1. /\ done \in Tree /\ done[place] = new
        /\ \A p \in Places \ {place} : done[p] = tree[p]
    BY <1>1, <1>7, <2>0 DEF Tree
  <2>2. QED
    BY <1>1, <1>5, <1>7, <2>1 DEF new
<1>8. QED
  BY <1>6, <1>7

\* RNFR and RNTO, MOVE, and mv.
LEMMA MoveEffect ==
  ASSUME NEW protocol \in Protocols, NEW tree \in Tree, NEW from \in Places, NEW to \in Places,
         NEW a \in file_move_call(protocol, tree, from, to)
  PROVE  /\ a.fault \in {0, 1} /\ a.tree \in Tree
         /\ a.tree = tree \/ Moves(tree, a.tree, from, to,
                                   IF protocol = "dav" THEN PlacesBelow(to) ELSE {})
         /\ protocol = "ftp" => a.tree = tree \/ TypeAt(tree, to) # "dir"
<1> DEFINE movable  == TypeAt(tree, from) = "file" /\ DirectoryExists(tree, to)
           G        == PlacesBelow(to)
           renamed  == [p \in Places |-> IF p = to THEN tree[from]
                                         ELSE IF p = from THEN Absent ELSE tree[p]]
           replaced == [Deleted(tree, to) EXCEPT ![to] = tree[from], ![from] = Absent]
           lost     == [tree EXCEPT ![from] = Absent]
           ftp      == driver_file_move(tree, from, to)
           dav      == Answers(tree, movable, replaced)
           shell    == IF TypeAt(tree, to) = "dir" THEN Answers(tree, movable, lost) ELSE ftp
<1>1. G \in SUBSET Places
  BY DEF PlacesBelow
<1>2. TypeAt(tree, from) = "file" => Moves(tree, renamed, from, to, {})
  <2>1. \A p \in Places : renamed[p] = IF p = to THEN tree[from]
                                       ELSE IF p = from THEN Absent ELSE tree[p]
    OBVIOUS
  <2>2. renamed \in Tree
    BY <2>1, FileAt DEF Tree
  <2> HIDE DEF renamed
  <2>3. QED
    BY <2>1, <2>2 DEF Moves
<1>3. TypeAt(tree, from) = "file" => Moves(tree, replaced, from, to, G)
  <2> DEFINE t == Deleted(tree, to)
  <2>1. t \in Tree /\ \A p \in Places : t[p] = tree[p] \/ (p \in G /\ t[p] = Absent)
    BY DeletedTree DEF Removes
  <2> HIDE DEF t
  <2>2. /\ [t EXCEPT ![to] = tree[from], ![from] = Absent] \in Tree
        /\ \A p \in Places : [t EXCEPT ![to] = tree[from], ![from] = Absent][p]
                               = IF p = from THEN Absent ELSE IF p = to THEN tree[from] ELSE t[p]
    BY <2>1, FileAt DEF Tree
  <2>3. to \in G
    BY DEF PlacesBelow
  <2> HIDE DEF G
  <2>4. replaced \in Tree /\ \A p \in Places : replaced[p] = IF p = from THEN Absent
                                               ELSE IF p = to THEN tree[from] ELSE t[p]
    BY <2>2 DEF t
  <2> HIDE DEF replaced
  <2>5. QED
    BY <2>1, <2>3, <2>4 DEF Moves
<1>4. TypeAt(tree, from) = "file" /\ TypeAt(tree, to) = "dir" => Moves(tree, lost, from, to, {})
  <2>1. lost \in Tree /\ \A p \in Places : lost[p] = IF p = from THEN Absent ELSE tree[p]
    BY DEF Tree
  <2> HIDE DEF lost
  <2>2. QED
    BY <2>1 DEF Moves
<1> HIDE DEF renamed, replaced, lost, G
<1>5. \A b \in ftp : /\ b.fault \in {0, 1} /\ b = Answer(b.code, b.tree, b.fault)
                     /\ b.tree = tree \/ Moves(tree, b.tree, from, to, {})
                     /\ b.tree = tree \/ TypeAt(tree, to) # "dir"
  <2>1. \A b \in ftp : Answered_with(b, tree,
          TypeAt(tree, from) = "file" /\ TypeAt(tree, to) # "dir" /\ DirectoryExists(tree, to), renamed)
    BY AnswersEffect DEF driver_file_move, renamed
  <2>2. \A b \in ftp : b = Answer(b.code, b.tree, b.fault)
    BY AnswersAreRecords DEF driver_file_move
  <2> HIDE DEF ftp
  <2>3. QED
    BY <1>2, <2>1, <2>2 DEF Answered_with
<1>6. \A b \in dav : /\ b.fault \in {0, 1}
                     /\ b.tree = tree \/ Moves(tree, b.tree, from, to, G)
  <2>1. \A b \in dav : Answered_with(b, tree, movable, replaced)
    BY AnswersEffect
  <2> HIDE DEF dav
  <2>2. QED
    BY <1>3, <2>1 DEF Answered_with
<1>7. \A b \in shell : /\ b.fault \in {0, 1} /\ b = Answer(b.code, b.tree, b.fault)
                       /\ b.tree = tree \/ Moves(tree, b.tree, from, to, {})
  <2>1. CASE TypeAt(tree, to) # "dir"
    BY <1>5, <2>1
  <2>2. CASE TypeAt(tree, to) = "dir"
    <3>1. \A b \in shell : Answered_with(b, tree, movable, lost)
      BY <2>2, AnswersEffect
    <3>2. \A b \in shell : b = Answer(b.code, b.tree, b.fault)
      BY <2>2, AnswersAreRecords
    <3> HIDE DEF shell
    <3>3. QED
      BY <1>4, <2>2, <3>1, <3>2 DEF Answered_with
  <2>3. QED
    BY <2>1, <2>2
<1>8. a \in Dispatch(protocol, tree, ftp, dav, shell)
  BY DEF file_move_call, replaced, lost
<1> HIDE DEF ftp, dav, shell
<1>9. Dispatched_to(a, protocol, tree, ftp, dav, shell)
  BY <1>7, <1>8, DispatchEffect
<1>10. QED
  BY <1>5, <1>6, <1>7, <1>9 DEF Dispatched_to, Moves, G

\* A place that an upload has written.
LEMMA UploadedTree ==
  ASSUME NEW tree \in Tree, NEW place \in Places, NEW c \in Contents \cup {Garbage}, NEW now \in Nat
  PROVE  /\ Uploaded_to(tree, place, c, now) \in Tree
         /\ Uploaded_to(tree, place, c, now)[place] \in RemoteFile
         /\ Uploaded_to(tree, place, c, now)[place].type = "file"
         /\ Uploaded_to(tree, place, c, now)[place].content = c
         /\ Uploaded_to(tree, place, c, now)[place].time = now
         /\ \A p \in Places \ {place} : Uploaded_to(tree, place, c, now)[p] = tree[p]
<1> DEFINE mode == IF tree[place] = Absent THEN DefaultMode ELSE tree[place].mode
           file == [type |-> "file", content |-> c, time |-> now, mode |-> mode]
<1>1. mode \in Modes
  BY FileAt, ServerAssumption DEF RemoteFile
<1> HIDE DEF mode
<1>2. file \in RemoteFile /\ file.type = "file" /\ file.content = c /\ file.time = now
  BY <1>1 DEF RemoteFile
<1> HIDE DEF file
<1>3. Uploaded_to(tree, place, c, now) = [tree EXCEPT ![place] = file]
  BY DEF Uploaded_to, file, mode
<1>4. QED
  BY <1>2, <1>3 DEF Tree

\* What an upload to `place' may leave: nothing new, or a file there whose
\* content is one of the readable ones, or a part of it.
Uploads(before, after, place, readable, now) ==
  \/ after = before
  \/ /\ TypeAt(before, place) # "dir"
     /\ \E c \in readable \cup {Garbage} : after = Uploaded_to(before, place, c, now)

\* When the upload is answered with SITE_OK, a readable content is there.
UploadsAll(before, after, place, readable, now) ==
  \E c \in readable : after = Uploaded_to(before, place, c, now)

\* STOR, PUT and rcp.
LEMMA PutEffect ==
  ASSUME NEW tree \in Tree, NEW place, NEW readable, NEW now,
         NEW a \in driver_file_upload(tree, place, readable, now)
  PROVE  /\ a.fault \in {0, 1} /\ a = Answer(a.code, a.tree, a.fault)
         /\ Uploads(tree, a.tree, place, readable, now)
         /\ a.code = "ok" => UploadsAll(tree, a.tree, place, readable, now)
<1> DEFINE allowed == /\ readable # {}
                      /\ TypeAt(tree, place) # "dir" /\ DirectoryExists(tree, place)
           whole == UNION {Answers(tree, allowed, Uploaded_to(tree, place, c, now)) : c \in readable}
           none  == {b \in Answers(tree, FALSE, tree) : ~allowed}
           part  == {b \in {Answer("error", Uploaded_to(tree, place, Garbage, now), 1)} :
                       allowed /\ "partial" \in Faults}
           lost  == {b \in {Answer("connect", tree, 1)} : "reconnect" \in Faults}
<1>1. CASE \E c \in readable : a \in Answers(tree, allowed, Uploaded_to(tree, place, c, now))
  <2>1. PICK c \in readable : a \in Answers(tree, allowed, Uploaded_to(tree, place, c, now))
    BY <1>1
  <2>2. Answered_with(a, tree, allowed, Uploaded_to(tree, place, c, now))
    BY <2>1, AnswersEffect
  <2>3. a = Answer(a.code, a.tree, a.fault)
    BY <2>1, AnswersAreRecords
  <2>4. QED
    BY <2>2, <2>3 DEF Answered_with, Uploads, UploadsAll
<1>2. CASE a \in Answers(tree, FALSE, tree)
  <2>1. Answered_with(a, tree, FALSE, tree)
    BY <1>2, AnswersEffect
  <2>2. a = Answer(a.code, a.tree, a.fault)
    BY <1>2, AnswersAreRecords
  <2>3. QED
    BY <2>1, <2>2 DEF Answered_with, Uploads
<1>3. CASE allowed /\ a = Answer("error", Uploaded_to(tree, place, Garbage, now), 1)
  BY <1>3 DEF Answer, Uploads
<1>4. CASE a = Answer("connect", tree, 1)
  BY <1>4 DEF Answer, Uploads
<1>5. a \in whole \cup none \cup part \cup lost
  BY DEF driver_file_upload
<1> HIDE DEF whole, none, part, lost
<1>6. a \in whole \/ a \in none \/ a \in part \/ a \in lost
  BY <1>5
<1>7. QED
  BY <1>1, <1>2, <1>3, <1>4, <1>6, Zenon DEF whole, none, part, lost

\* Nothing but the place of an upload changes.
LEMMA UploadsTyped ==
  ASSUME NEW tree \in Tree, NEW after, NEW place \in Places, NEW readable \in SUBSET Contents,
         NEW now \in Nat, Uploads(tree, after, place, readable, now)
  PROVE  /\ after \in Tree
         /\ \A p \in Places \ {place} : after[p] = tree[p]
         /\ after = tree \/ (after[place] \in RemoteFile /\ after[place].type = "file")
<1>1. CASE after = tree
  BY <1>1
<1>2. CASE \E c \in readable \cup {Garbage} : after = Uploaded_to(tree, place, c, now)
  <2>1. PICK c \in readable \cup {Garbage} : after = Uploaded_to(tree, place, c, now)
    BY <1>2
  <2>2. c \in Contents \cup {Garbage}
    OBVIOUS
  <2>3. QED
    BY <2>1, <2>2, UploadedTree
<1>3. QED
  BY <1>1, <1>2 DEF Uploads

\* The same of one place.
LEMMA UploadsElsewhere ==
  ASSUME NEW tree \in Tree, NEW p \in Places
  PROVE  \A after, place, readable, now :
           Uploads(tree, after, place, readable, now) /\ p # place => after[p] = tree[p]
<1>1. SUFFICES ASSUME NEW after, NEW place, NEW readable, NEW now,
                      Uploads(tree, after, place, readable, now), p # place
               PROVE  after[p] = tree[p]
  OBVIOUS
<1>2. CASE after = tree
  BY <1>2
<1>3. CASE \E c \in readable \cup {Garbage} : after = Uploaded_to(tree, place, c, now)
  <2>1. PICK c \in readable \cup {Garbage} : after = Uploaded_to(tree, place, c, now)
    BY <1>3
  <2>2. p \in DOMAIN tree
    BY DEF Tree
  <2>3. QED
    BY <1>1, <2>1, <2>2 DEF Uploaded_to
<1>4. QED
  BY <1>1, <1>2, <1>3 DEF Uploads

\* ... by every driver: rcp, and sftp, may put a file into a directory.
LEMMA UploadEffect ==
  ASSUME NEW protocol \in Protocols, NEW tree \in Tree, NEW place, NEW readable, NEW now,
         NEW a \in file_upload_call(protocol, tree, place, readable, now)
  PROVE  /\ a.fault \in {0, 1}
         /\ Uploads(tree, a.tree, place, readable, now)
         /\ a.code = "ok" /\ protocol \in {"ftp", "dav"}
              => UploadsAll(tree, a.tree, place, readable, now)
         /\ a.code = "ok" /\ protocol = "rsh"
              => \/ UploadsAll(tree, a.tree, place, readable, now)
                 \/ TypeAt(tree, place) = "dir" /\ a.tree = tree
<1> DEFINE put   == driver_file_upload(tree, place, readable, now)
           shell == IF TypeAt(tree, place) = "dir" THEN Answers(tree, readable # {}, tree) ELSE put
<1>1. \A b \in put : /\ b.fault \in {0, 1} /\ b = Answer(b.code, b.tree, b.fault)
                     /\ Uploads(tree, b.tree, place, readable, now)
                     /\ b.code = "ok" => UploadsAll(tree, b.tree, place, readable, now)
  BY PutEffect
<1> HIDE DEF put
<1>2. \A b \in shell : /\ b.fault \in {0, 1} /\ b = Answer(b.code, b.tree, b.fault)
                       /\ Uploads(tree, b.tree, place, readable, now)
                       /\ b.code = "ok" => \/ UploadsAll(tree, b.tree, place, readable, now)
                                           \/ TypeAt(tree, place) = "dir" /\ b.tree = tree
  <2>1. CASE TypeAt(tree, place) # "dir"
    BY <1>1, <2>1
  <2>2. CASE TypeAt(tree, place) = "dir"
    <3>1. \A b \in shell : Answered_with(b, tree, readable # {}, tree)
      BY <2>2, AnswersEffect
    <3>2. \A b \in shell : b = Answer(b.code, b.tree, b.fault)
      BY <2>2, AnswersAreRecords
    <3> HIDE DEF shell
    <3>3. QED
      BY <2>2, <3>1, <3>2 DEF Answered_with, Uploads
  <2>3. QED
    BY <2>1, <2>2
<1>3. a \in Dispatch(protocol, tree, put, put, shell)
  BY DEF file_upload_call, put
<1> HIDE DEF shell
<1>4. Dispatched_to(a, protocol, tree, put, put, shell)
  BY <1>2, <1>3, DispatchEffect
<1>5. Uploads(tree, tree, place, readable, now)
  BY DEF Uploads
<1>6. QED
  BY <1>1, <1>2, <1>4, <1>5 DEF Dispatched_to

\* The conditional upload of the drivers but that of FTP.
LEMMA UploadCondEffect ==
  ASSUME NEW protocol \in Protocols, NEW tree \in Tree, NEW place, NEW readable, NEW now, NEW time,
         NEW a \in file_upload_cond_call(protocol, tree, place, readable, now, time)
  PROVE  a.fault \in {0, 1} /\ Uploads(tree, a.tree, place, readable, now)
<1> DEFINE newer == TypeAt(tree, place) = "file" /\ tree[place].time > time
<1>1. CASE protocol # "dav"
  <2>1. a = Answer("unsupported", tree, 0)
    BY <1>1 DEF file_upload_cond_call
  <2>2. QED
    BY <2>1 DEF Answer, Uploads
<1>2. CASE protocol = "dav" /\ newer
  <2>1. PICK b \in Answers(tree, FALSE, tree) :
          a = [b EXCEPT !.code = IF b.fault = 0 THEN "failed" ELSE b.code]
    BY <1>2 DEF file_upload_cond_call
  <2>2. Answered_with(b, tree, FALSE, tree) /\ b = Answer(b.code, b.tree, b.fault)
    BY AnswersEffect, AnswersAreRecords
  <2>3. a.fault = b.fault /\ a.tree = b.tree
    BY <2>1, <2>2 DEF Answer
  <2>4. QED
    BY <2>2, <2>3 DEF Answered_with, Uploads
<1>3. CASE protocol = "dav" /\ ~newer
  <2>1. a \in driver_file_upload(tree, place, readable, now)
    BY <1>3 DEF file_upload_cond_call
  <2>2. QED
    BY <2>1, PutEffect
<1>4. QED
  BY <1>1, <1>2, <1>3

\* MDTM and HEAD change nothing.
LEMMA ModtimeEffect ==
  ASSUME NEW protocol, NEW tree \in Tree, NEW place,
         NEW a \in get_modtime_call(protocol, tree, place)
  PROVE  /\ a.fault \in {0, 1} /\ a.tree = tree
         /\ a.code = "ok" => TypeAt(tree, place) = "file"
<1>1. CASE protocol \in {"rsh", "sftp"}
  <2>1. a = Answer("unsupported", tree, 0)
    BY <1>1 DEF get_modtime_call
  <2>2. QED
    BY <2>1 DEF Answer
<1>2. CASE protocol \notin {"rsh", "sftp"}
  <2>1. a \in Answers(tree, TypeAt(tree, place) = "file", tree)
    BY <1>2 DEF get_modtime_call
  <2>2. Answered_with(a, tree, TypeAt(tree, place) = "file", tree)
    BY <2>1, AnswersEffect
  <2>3. QED
    BY <2>2 DEF Answered_with
<1>3. QED
  BY <1>1, <1>2

-----------------------------------------------------------------------------
(* The engine                                                              *)

\* The entry of the list that the loop is at.
here == files[current]

PlaceOfLocal  == file_full_remote(Local(here))
PlaceOfStored == file_full_remote(Stored(here))

\* The loops that stay at one entry for more than one driver call.
SlowPasses == {"create_dirs", "files"}

\* A loop that has begun with an entry is still at it.
AtEntry ==
  step # "entry" =>
    /\ pass # 0 /\ handlers[pass] \in SlowPasses
    /\ next \in DOMAIN files
    /\ handles(handlers[pass], files[next])

\* A row of the table is in execution only when its guard is true.
PassAllowed == pass # 0 => guard(handlers[pass])

\* The state of the engine between two driver calls.
EngineOK ==
  /\ Exact(site)
  /\ server \in Tree
  /\ local \in [Names -> LocalFile \cup {Absent}]
  /\ clock \in Nat /\ faults \in 0 .. MaxFaults
  /\ pass \in 0 .. Len(handlers) /\ next \in Nat /\ step \in Steps /\ ret \in {0, 1}
  /\ AtEntry
  /\ PassAllowed

-----------------------------------------------------------------------------
(* The current entry                                                       *)

\* The loop comes to an entry that its pass handles; an entry that it has begun
\* with is the one it is at.
LEMMA CurrentHandled ==
  ASSUME EngineOK, pass # 0, current # 0
  PROVE  /\ current \in DOMAIN files
         /\ handles(handlers[pass], here)
         /\ step # "entry" => current = next
<1> DEFINE rest == {i \in DOMAIN files :
                      /\ handles(handlers[pass], files[i])
                      /\ IF backwards(pass) THEN i =< next ELSE i >= next}
<1>1. Len(files) \in Nat /\ DOMAIN files = 1 .. Len(files)
  BY DEF EngineOK, Exact, SiteOK, Site, files
<1>2. rest \in SUBSET (1 .. Len(files)) /\ next \in Nat
  BY <1>1 DEF EngineOK
<1>3. rest # {} /\ current = IF backwards(pass) THEN Max(rest) ELSE Min(rest)
  BY DEF current
<1>4. current \in rest
  BY <1>1, <1>2, <1>3, MaxInSet, MinInSet
<1>5. ASSUME step # "entry" PROVE current = next
  <2>1. next \in DOMAIN files /\ handles(handlers[pass], files[next])
        /\ handlers[pass] \in SlowPasses
    BY <1>5 DEF EngineOK, AtEntry
  <2>2. ~backwards(pass)
    BY <2>1 DEF backwards, SlowPasses
  <2>3. next \in rest /\ \A y \in rest : next =< y
    BY <1>1, <1>2, <2>1, <2>2
  <2>4. Min(rest) =< next /\ next =< Min(rest) /\ Min(rest) \in Nat
    <3> DEFINE n == Len(files)
    <3>1. n \in Nat /\ rest \in SUBSET (1 .. n) /\ rest # {}
      BY <1>1, <1>2, <1>3
    <3>2. next \in rest
      BY <2>3
    <3> HIDE DEF rest, n
    <3>3. Min(rest) \in rest /\ \A y \in rest : Min(rest) =< y
      BY <3>1, MinInSet
    <3>4. rest \subseteq Nat
      BY <3>1
    <3>5. Min(rest) =< next /\ Min(rest) \in Nat
      BY <3>2, <3>3, <3>4
    <3>6. QED
      BY <2>3, <3>3, <3>5
  <2>5. current = Min(rest)
    BY <1>3, <2>2
  <2> HIDE DEF rest
  <2>6. QED
    BY <1>2, <2>4, <2>5
<1>6. QED
  BY <1>4, <1>5 DEF here

\* Which states the current entry has, and where they are on the server.
LEMMA CurrentEntry ==
  ASSUME EngineOK, pass # 0, current # 0
  PROVE  /\ here \in Entry /\ EntryOK(here, site)
         /\ handlers[pass] \in {"delete_files", "delete_dirs"} =>
              /\ here.diff = "deleted" /\ ~opt.nodelete
              /\ Local(here) = Absent /\ Stored(here) \in FileState
         /\ handlers[pass] \in {"create_dirs", "move_files", "files"} => Local(here) \in FileState
         /\ handlers[pass] = "move_files" => Stored(here) \in FileState /\ opt.checkmoved
         /\ here.diff = "changed" => Local(here) \in FileState /\ Stored(here) \in FileState
<1>1. current \in DOMAIN files /\ handles(handlers[pass], here)
  BY CurrentHandled
<1>2. SiteOK(site) /\ guard(handlers[pass])
  BY DEF EngineOK, Exact, PassAllowed
<1>3. /\ EntryOK(here, site)
      /\ Local(here) \in FileState \cup {Absent} /\ Stored(here) \in FileState \cup {Absent}
  BY <1>1, <1>2, EntryStates DEF SiteOK, here, files
<1>4. /\ here.diff = "deleted" <=> Local(here) = Absent
      /\ here.diff = "new" <=> Local(here) # Absent /\ Stored(here) = Absent
      /\ Local(here) # Absent \/ Stored(here) # Absent
  BY <1>3, DiffTellsStates DEF EntryOK
<1>5. /\ handlers[pass] \in {"delete_files", "delete_dirs"} => here.diff = "deleted" /\ ~opt.nodelete
      /\ handlers[pass] \in {"create_dirs", "move_files", "files"} => here.diff \in {"new", "changed", "moved"}
      /\ handlers[pass] = "move_files" => here.diff = "moved" /\ opt.checkmoved
  BY <1>1, <1>2 DEF handles, guard
<1>6. QED
  BY <1>3, <1>4, <1>5 DEF EntryOK

\* The names of states are places of the tree.
LEMMA StatePlaces ==
  ASSUME NEW s \in FileState
  PROVE  /\ file_full_remote(s) \in Places
         /\ temp_upload_filename(file_full_remote(s)) \in Places
         /\ file_full_remote(s) # temp_upload_filename(file_full_remote(s))
         /\ file_full_remote(s)[2] = "real" /\ file_full_remote(s)[1] = RemoteName[s.filename]
         /\ temp_upload_filename(file_full_remote(s))[2] = "temp"
BY ServerAssumption DEF FileState, Places, file_full_remote, temp_upload_filename

-----------------------------------------------------------------------------
(* What a step does                                                        *)

\* ... to the list: at most one operation on the current entry.
SiteMoves ==
  \/ site' = site
  \/ /\ pass # 0 /\ current # 0
     /\ \/ /\ handlers[pass] \in {"delete_files", "delete_dirs"}
           /\ site' = file_delete(site, current)
        \/ Local(here) # Absent /\ site' = file_uploaded(site, current)
        \/ Local(here) # Absent /\ Stored(here) # Absent /\ site' = chmod_done(site, current)
        \/ \E n \in Nat : site' = file_replace(site, current, [here EXCEPT !.server = n])

\* The upload under a temporary name is complete, as far as the driver knows.
TempUploaded ==
  LET temp == temp_upload_filename(PlaceOfLocal)
  IN  \/ UploadsAll(server, server', temp, source(Local(here)), clock)
      \/ opt.protocol = "rsh" /\ TypeAt(server, temp) = "dir" /\ server' = server
      \/ opt.protocol = "sftp" /\ Uploads(server, server', temp, source(Local(here)), clock)

\* The next driver call for the same entry.
NextCall ==
  \/ step' = "dir_chmod"
  \/ step' \in {"modtime", "record"}
  \/ step' = upload_step(here)
  \/ step' = "delete" /\ opt.nooverwrite
  \/ step = "check" /\ step' = "put"
  \/ In("files", "temp") /\ step' = "move" /\ TempUploaded

\* ... to the loops: on to another entry, to another call for the same entry, or
\* to another row of the table.
ControlMoves ==
  \/ pass' = pass /\ step' = "entry" /\ next' \in Nat
  \/ /\ pass' = pass /\ pass # 0 /\ current # 0 /\ handlers[pass] \in SlowPasses
     /\ next' = current /\ NextCall
     /\ site' = site \/ \E n \in Nat : site' = file_replace(site, current, [here EXCEPT !.server = n])
  \/ /\ site' = site /\ step' = "entry" /\ next' \in Nat
     /\ pass' = 0 \/ pass' = pass_after(pass)

\* A directory appears at the place of the current entry.
DirAppears ==
  /\ server' \in Tree
  /\ server[PlaceOfLocal] = Absent /\ server'[PlaceOfLocal] \in RemoteFile
  /\ server'[PlaceOfLocal].type = "dir" /\ server'[PlaceOfLocal].content = NoData
  /\ \A p \in Places \ {PlaceOfLocal} : server'[p] = server[p]

\* What is there has another mode.
ModeChanges ==
  /\ server' \in Tree
  /\ server[PlaceOfLocal] # Absent /\ server'[PlaceOfLocal] \in RemoteFile
  /\ \E mode \in Modes : server'[PlaceOfLocal] = [server[PlaceOfLocal] EXCEPT !.mode = mode]
  /\ \A p \in Places \ {PlaceOfLocal} : server'[p] = server[p]

\* What a DELETE of WebDAV, or another driver's delete, may remove.
DeletedWith(place) == IF opt.protocol = "dav" THEN PlacesBelow(place) ELSE {place}

\* What a MOVE of WebDAV may remove besides.
ReplacedWith(place) == IF opt.protocol = "dav" THEN PlacesBelow(place) ELSE {}

\* ... to the server: at most one driver call for the current entry.
TreeMoves ==
  \/ server' = server
  \/ /\ In("delete_files", "entry")
     /\ Removes(server, server', DeletedWith(PlaceOfStored))
  \/ /\ In("delete_dirs", "entry") /\ TypeAt(server, PlaceOfStored) = "dir"
     /\ Removes(server, server', DeletedWith(PlaceOfStored))
  \/ In("create_dirs", "entry") /\ DirAppears
  \/ (In("create_dirs", "dir_chmod") \/ In("files", "entry") \/ In("files", "record")) /\ ModeChanges
  \/ /\ In("move_files", "entry")
     /\ Moves(server, server', PlaceOfStored, PlaceOfLocal, ReplacedWith(PlaceOfLocal))
     /\ opt.protocol = "ftp" => TypeAt(server, PlaceOfLocal) # "dir"
  \/ In("files", "delete") /\ Removes(server, server', DeletedWith(PlaceOfLocal))
  \/ /\ In("files", "put") \/ In("files", "put_if") \/ In("files", "upload")
     /\ Uploads(server, server', PlaceOfLocal, source(Local(here)), clock)
  \/ /\ In("files", "temp")
     /\ Uploads(server, server', temp_upload_filename(PlaceOfLocal), source(Local(here)), clock)
  \/ /\ In("files", "move")
     /\ Moves(server, server', temp_upload_filename(PlaceOfLocal), PlaceOfLocal,
              ReplacedWith(PlaceOfLocal))
     /\ opt.protocol = "ftp" => TypeAt(server, PlaceOfLocal) # "dir"

\* All of it.
EngineMoves ==
  /\ SiteMoves /\ ControlMoves /\ TreeMoves
  /\ server' \in Tree /\ faults' \in 0 .. MaxFaults /\ ret' \in {0, 1}
  /\ UNCHANGED <<local, clock>>

\* An answer is counted.
LEMMA FaultsBounded ==
  ASSUME EngineOK, NEW a, a.fault \in {0, 1}, Answered(a)
  PROVE  faults' \in 0 .. MaxFaults /\ server' = a.tree
BY UpdateAssumption DEF EngineOK, Answered

\* What the engine needs to know of the options.
LEMMA OptionsTyped ==
  ASSUME EngineOK
  PROVE  /\ opt \in Options /\ opt.protocol \in Protocols
         /\ opt.safemode => ~opt.tempupload /\ ~opt.nooverwrite
<1>1. opt \in Options
  BY DEF EngineOK, Exact, SiteOK, Site, opt
<1>2. QED
  BY <1>1, UpdateOptionsAssumption DEF EngineCanDo

\* Advance goes to a natural number.
LEMMA AdvanceTyped ==
  ASSUME EngineOK, pass # 0, current # 0
  PROVE  /\ Advance(current) => step' = "entry" /\ next' \in Nat
         /\ AdvanceRemoved(current) => step' = "entry" /\ next' \in Nat
<1>1. current \in DOMAIN files /\ Len(files) \in Nat /\ DOMAIN files = 1 .. Len(files)
  BY CurrentHandled DEF EngineOK, Exact, SiteOK, Site, files
<1>2. current - 1 \in Nat /\ current + 1 \in Nat /\ current \in Nat
  BY <1>1
<1>3. QED
  BY <1>2 DEF Advance, AdvanceRemoved

\* update_delete_files and update_delete_directories.
LEMMA DeleteMoves ==
  ASSUME EngineOK, update_delete_files \/ update_delete_directories
  PROVE  EngineMoves
<1>1. PICK p \in {"delete_files", "delete_dirs"} : update_delete(p)
  BY DEF update_delete_files, update_delete_directories
<1>2. /\ pass # 0 /\ handlers[pass] = p /\ step = "entry" /\ current # 0
  BY <1>1 DEF update_delete, In
<1>3. PICK a \in delete_call(p, current) :
        /\ Answered(a)
        /\ \/ /\ a.code = "ok"
              /\ site' = file_delete(site, current)
              /\ AdvanceRemoved(current) /\ UNCHANGED ret
           \/ a.code # "ok" /\ Failed(current)
  BY <1>1 DEF update_delete
<1>4. PlaceOfStored \in Places /\ opt.protocol \in Protocols /\ server \in Tree
  BY <1>2, CurrentEntry, StatePlaces, OptionsTyped DEF PlaceOfStored, EngineOK
<1>5. a \in (IF p = "delete_files" THEN file_delete_call(opt.protocol, server, PlaceOfStored)
             ELSE dir_remove_call(opt.protocol, server, PlaceOfStored))
  BY <1>3 DEF delete_call, PlaceOfStored, here
<1>6. /\ a.fault \in {0, 1}
      /\ Removes(server, a.tree, DeletedWith(PlaceOfStored))
      /\ p = "delete_dirs" => TypeAt(server, PlaceOfStored) = "dir" \/ a.tree = server
  BY <1>4, <1>5, FileDeleteEffect, DirRemoveEffect DEF DeletedWith
<1>7. faults' \in 0 .. MaxFaults /\ server' = a.tree
  BY <1>3, <1>6, FaultsBounded
<1>8. TreeMoves /\ server' \in Tree
  BY <1>2, <1>6, <1>7 DEF TreeMoves, Removes, In
<1>9. SiteMoves
  BY <1>2, <1>3 DEF SiteMoves, Failed
<1>10. pass' = pass /\ step' = "entry" /\ next' \in Nat /\ ret' \in {0, 1} /\ UNCHANGED <<local, clock>>
  BY <1>1, <1>2, <1>3, AdvanceTyped DEF Failed, update_delete, EngineOK
<1>11. QED
  BY <1>7, <1>8, <1>9, <1>10 DEF EngineMoves, ControlMoves

\* file_uploaded on the current entry, or the step to its next driver call.
LEMMA DirDoneMoves ==
  ASSUME EngineOK, pass # 0, handlers[pass] = "create_dirs", current # 0,
         NEW s \in {"dir_chmod", "record"}, DirDone(current, s), pass' = pass
  PROVE  SiteMoves /\ ControlMoves /\ ret' \in {0, 1}
<1>1. Local(here) # Absent
  BY CurrentEntry, ConstantsAssumption
<1>2. CASE s = "dir_chmod"
  <2>1. step' = "dir_chmod" /\ next' = current /\ site' = site /\ ret' = ret
    BY <1>2 DEF DirDone
  <2>2. QED
    BY <2>1 DEF SiteMoves, ControlMoves, NextCall, SlowPasses, EngineOK
<1>3. CASE s = "record"
  <2>1. site' = file_uploaded(site, current) /\ Advance(current) /\ ret' = ret
    BY <1>3 DEF DirDone
  <2>2. step' = "entry" /\ next' \in Nat
    BY <2>1, AdvanceTyped
  <2>3. QED
    BY <1>1, <2>1, <2>2 DEF SiteMoves, ControlMoves, EngineOK
<1>4. QED
  BY <1>2, <1>3

\* A call that has failed.
LEMMA FailedMoves ==
  ASSUME EngineOK, pass # 0, current # 0, Failed(current), pass' = pass
  PROVE  SiteMoves /\ ControlMoves /\ ret' \in {0, 1}
BY AdvanceTyped DEF Failed, SiteMoves, ControlMoves

\* A call that is followed by another one for the same entry.
LEMMA GoToMoves ==
  ASSUME EngineOK, pass # 0, current # 0, handlers[pass] \in SlowPasses, pass' = pass,
         GoTo(current, step'), NextCall
  PROVE  SiteMoves /\ ControlMoves /\ ret' \in {0, 1}
BY DEF GoTo, SiteMoves, ControlMoves, EngineOK

\* update_create_directories.
LEMMA CreateMoves ==
  ASSUME EngineOK, create_directory
  PROVE  EngineMoves
<1> DEFINE after == IF opt.dirperms THEN "dir_chmod" ELSE "record"
<1>1. /\ pass # 0 /\ handlers[pass] = "create_dirs" /\ step = "entry" /\ current # 0
      /\ In("create_dirs", "entry")
      /\ UNCHANGED <<local, clock, pass>>
  BY DEF create_directory, In
<1>2. after \in {"dir_chmod", "record"}
  OBVIOUS
<1>3. /\ PlaceOfLocal \in Places /\ opt.protocol \in Protocols
      /\ server \in Tree /\ clock \in Nat /\ faults \in 0 .. MaxFaults
  BY <1>1, CurrentEntry, StatePlaces, OptionsTyped DEF PlaceOfLocal, EngineOK
<1> HIDE DEF after
<1>4. CASE \E a \in dir_create_call(opt.protocol, server, PlaceOfLocal, clock) :
             Answered(a) /\ IF a.code = "ok" THEN DirDone(current, after) ELSE Failed(current)
  <2>1. PICK a \in dir_create_call(opt.protocol, server, PlaceOfLocal, clock) :
               Answered(a) /\ IF a.code = "ok" THEN DirDone(current, after) ELSE Failed(current)
    BY <1>4
  <2>2. /\ a.fault \in {0, 1} /\ a.tree \in Tree
        /\ \/ a.tree = server
           \/ /\ server[PlaceOfLocal] = Absent /\ a.tree[PlaceOfLocal] \in RemoteFile
              /\ a.tree[PlaceOfLocal].type = "dir" /\ a.tree[PlaceOfLocal].content = NoData
              /\ \A p \in Places \ {PlaceOfLocal} : a.tree[p] = server[p]
    BY <1>3, DirCreateEffect
  <2>3. faults' \in 0 .. MaxFaults /\ server' = a.tree
    BY <2>1, <2>2, FaultsBounded
  <2>4. TreeMoves
    BY <1>1, <2>2, <2>3 DEF TreeMoves, DirAppears
  <2>5. SiteMoves /\ ControlMoves /\ ret' \in {0, 1}
    BY <1>1, <1>2, <2>1, DirDoneMoves, FailedMoves
  <2>6. QED
    BY <1>1, <2>2, <2>3, <2>4, <2>5 DEF EngineMoves
<1>5. CASE DirDone(current, after) /\ UNCHANGED <<server, faults>>
  <2>1. SiteMoves /\ ControlMoves /\ ret' \in {0, 1}
    BY <1>1, <1>2, <1>5, DirDoneMoves
  <2>2. QED
    BY <1>1, <1>3, <1>5, <2>1 DEF EngineMoves, TreeMoves
<1>6. QED
  BY <1>4, <1>5 DEF create_directory, after, PlaceOfLocal, here

\* A driver's chmod of the current entry, wherever the engine calls it.
LEMMA ChmodMoves ==
  ASSUME EngineOK, pass # 0, current # 0,
         In("create_dirs", "dir_chmod") \/ In("files", "entry") \/ In("files", "record"),
         NEW a \in file_chmod_call(opt.protocol, server, PlaceOfLocal, Local(here).mode),
         Answered(a)
  PROVE  TreeMoves /\ server' \in Tree /\ faults' \in 0 .. MaxFaults
<1>1. handlers[pass] \in {"create_dirs", "files"}
  BY DEF In
<1>2. PlaceOfLocal \in Places /\ opt.protocol \in Protocols /\ server \in Tree
  BY <1>1, CurrentEntry, StatePlaces, OptionsTyped DEF PlaceOfLocal, EngineOK
<1>3. Local(here).mode \in Modes
  BY <1>1, CurrentEntry DEF FileState
<1>4. /\ a.fault \in {0, 1} /\ a.tree \in Tree
      /\ \/ a.tree = server
         \/ /\ server[PlaceOfLocal] # Absent
            /\ a.tree[PlaceOfLocal] = [server[PlaceOfLocal] EXCEPT !.mode = Local(here).mode]
            /\ a.tree[PlaceOfLocal] \in RemoteFile
            /\ \A p \in Places \ {PlaceOfLocal} : a.tree[p] = server[p]
  BY <1>2, <1>3, ChmodEffect
<1>5. faults' \in 0 .. MaxFaults /\ server' = a.tree
  BY <1>4, FaultsBounded
<1>6. server' = server \/ ModeChanges
  BY <1>3, <1>4, <1>5 DEF ModeChanges
<1>7. QED
  BY <1>4, <1>5, <1>6 DEF TreeMoves

\* The chmod of a new directory.
LEMMA ChmodDirectoryMoves ==
  ASSUME EngineOK, chmod_directory
  PROVE  EngineMoves
<1>1. /\ pass # 0 /\ handlers[pass] = "create_dirs" /\ current # 0
      /\ In("create_dirs", "dir_chmod")
      /\ UNCHANGED <<local, clock, pass>>
  BY DEF chmod_directory, In
<1>2. PICK a \in file_chmod_call(opt.protocol, server, PlaceOfLocal, Local(here).mode) :
        Answered(a) /\ IF a.code = "ok" THEN DirDone(current, "record") ELSE Failed(current)
  BY DEF chmod_directory, PlaceOfLocal, here
<1>3. TreeMoves /\ server' \in Tree /\ faults' \in 0 .. MaxFaults
  BY <1>1, <1>2, ChmodMoves
<1>4. SiteMoves /\ ControlMoves /\ ret' \in {0, 1}
  BY <1>1, <1>2, DirDoneMoves, FailedMoves
<1>5. QED
  BY <1>1, <1>3, <1>4 DEF EngineMoves

\* update_move_files.
LEMMA MoveFilesMoves ==
  ASSUME EngineOK, update_move_files
  PROVE  EngineMoves
<1>1. /\ pass # 0 /\ handlers[pass] = "move_files" /\ current # 0
      /\ In("move_files", "entry")
      /\ UNCHANGED <<local, clock, pass>>
  BY DEF update_move_files, In
<1>2. PICK a \in file_move_call(opt.protocol, server, PlaceOfStored, PlaceOfLocal) :
        /\ Answered(a)
        /\ \/ /\ a.code = "ok"
              /\ site' = file_uploaded(site, current)
              /\ Advance(current) /\ UNCHANGED ret
           \/ a.code # "ok" /\ Failed(current)
  BY DEF update_move_files, PlaceOfLocal, PlaceOfStored, here
<1>3. /\ PlaceOfLocal \in Places /\ PlaceOfStored \in Places /\ Local(here) # Absent
      /\ opt.protocol \in Protocols /\ server \in Tree
  BY <1>1, CurrentEntry, StatePlaces, OptionsTyped, ConstantsAssumption
     DEF PlaceOfLocal, PlaceOfStored, EngineOK
<1>4. /\ a.fault \in {0, 1} /\ a.tree \in Tree
      /\ a.tree = server
         \/ /\ Moves(server, a.tree, PlaceOfStored, PlaceOfLocal, ReplacedWith(PlaceOfLocal))
            /\ opt.protocol = "ftp" => TypeAt(server, PlaceOfLocal) # "dir"
  BY <1>3, MoveEffect DEF ReplacedWith
<1>5. faults' \in 0 .. MaxFaults /\ server' = a.tree
  BY <1>2, <1>4, FaultsBounded
<1>6. TreeMoves
  BY <1>1, <1>4, <1>5 DEF TreeMoves
<1>7. SiteMoves /\ ControlMoves /\ ret' \in {0, 1}
  BY <1>1, <1>2, <1>3, AdvanceTyped, FailedMoves DEF SiteMoves, ControlMoves, EngineOK
<1>8. QED
  BY <1>1, <1>4, <1>5, <1>6, <1>7 DEF EngineMoves

\* The mode of a file whose contents are the same.
LEMMA ChmodOnlyMoves ==
  ASSUME EngineOK, chmod_only
  PROVE  EngineMoves
<1>1. /\ pass # 0 /\ handlers[pass] = "files" /\ current # 0
      /\ In("files", "entry") /\ here.diff = "changed"
      /\ UNCHANGED <<local, clock, pass>>
  BY DEF chmod_only, In, here
<1>2. Local(here) # Absent /\ Stored(here) # Absent
  BY <1>1, CurrentEntry, ConstantsAssumption
<1>3. CASE Advance(current) /\ UNCHANGED <<site, server, faults, ret>>
  BY <1>1, <1>3, AdvanceTyped DEF EngineMoves, SiteMoves, ControlMoves, TreeMoves, EngineOK
<1>4. CASE \E a \in file_chmod_call(opt.protocol, server, PlaceOfLocal, Local(here).mode) :
             /\ Answered(a)
             /\ \/ /\ a.code = "ok"
                   /\ site' = chmod_done(site, current)
                   /\ Advance(current) /\ UNCHANGED ret
                \/ a.code # "ok" /\ Failed(current)
  <2>1. PICK a \in file_chmod_call(opt.protocol, server, PlaceOfLocal, Local(here).mode) :
             /\ Answered(a)
             /\ \/ /\ a.code = "ok"
                   /\ site' = chmod_done(site, current)
                   /\ Advance(current) /\ UNCHANGED ret
                \/ a.code # "ok" /\ Failed(current)
    BY <1>4
  <2>2. TreeMoves /\ server' \in Tree /\ faults' \in 0 .. MaxFaults
    BY <1>1, <2>1, ChmodMoves
  <2>3. SiteMoves /\ ControlMoves /\ ret' \in {0, 1}
    BY <1>1, <1>2, <2>1, AdvanceTyped, FailedMoves DEF SiteMoves, ControlMoves, EngineOK
  <2>4. QED
    BY <1>1, <2>2, <2>3 DEF EngineMoves
<1>5. QED
  BY <1>3, <1>4 DEF chmod_only, PlaceOfLocal, here

\* The first call for a file to be uploaded.
LEMMA BeginUploadMoves ==
  ASSUME EngineOK, begin_upload
  PROVE  EngineMoves
<1>1. /\ pass # 0 /\ handlers[pass] = "files" /\ current # 0
      /\ UNCHANGED <<local, server, clock, faults, pass>>
  BY DEF begin_upload, In
<1>2. GoTo(current, IF here.diff = "changed" /\ opt.nooverwrite THEN "delete" ELSE upload_step(here))
  BY DEF begin_upload, here
<1>3. GoTo(current, step') /\ NextCall
  <2>1. CASE here.diff = "changed" /\ opt.nooverwrite
    BY <1>2, <2>1 DEF GoTo, NextCall
  <2>2. CASE ~(here.diff = "changed" /\ opt.nooverwrite)
    BY <1>2, <2>2 DEF GoTo, NextCall
  <2>3. QED
    BY <2>1, <2>2
<1>4. SiteMoves /\ ControlMoves /\ ret' \in {0, 1}
  BY <1>1, <1>3, GoToMoves DEF SlowPasses
<1>5. QED
  BY <1>1, <1>4 DEF EngineMoves, TreeMoves, EngineOK

\* With nooverwrite the old version is deleted.
LEMMA DeleteBeforeMoves ==
  ASSUME EngineOK, delete_before_upload
  PROVE  EngineMoves
<1>1. /\ pass # 0 /\ handlers[pass] = "files" /\ current # 0
      /\ In("files", "delete")
      /\ UNCHANGED <<local, clock, pass>>
  BY DEF delete_before_upload, In
<1>2. PICK a \in file_delete_call(opt.protocol, server, PlaceOfLocal) :
        /\ Answered(a)
        /\ IF a.code = "ok" THEN GoTo(current, upload_step(here)) ELSE Failed(current)
  BY DEF delete_before_upload, PlaceOfLocal, here
<1>3. PlaceOfLocal \in Places /\ opt.protocol \in Protocols /\ server \in Tree
  BY <1>1, CurrentEntry, StatePlaces, OptionsTyped DEF PlaceOfLocal, EngineOK
<1>4. a.fault \in {0, 1} /\ Removes(server, a.tree, DeletedWith(PlaceOfLocal))
  BY <1>2, <1>3, FileDeleteEffect DEF DeletedWith
<1>5. faults' \in 0 .. MaxFaults /\ server' = a.tree
  BY <1>2, <1>4, FaultsBounded
<1>6. TreeMoves /\ server' \in Tree
  BY <1>1, <1>4, <1>5 DEF TreeMoves, Removes
<1>7. SiteMoves /\ ControlMoves /\ ret' \in {0, 1}
  <2>1. CASE GoTo(current, upload_step(here))
    <3>1. GoTo(current, step') /\ NextCall
      BY <2>1 DEF GoTo, NextCall
    <3>2. QED
      BY <1>1, <3>1, GoToMoves DEF SlowPasses
  <2>2. QED
    BY <1>1, <1>2, <2>1, FailedMoves
<1>8. QED
  BY <1>1, <1>5, <1>6, <1>7 DEF EngineMoves

\* MDTM before a STOR.
LEMMA CheckMoves ==
  ASSUME EngineOK, check_modtime
  PROVE  EngineMoves
<1>1. /\ pass # 0 /\ handlers[pass] = "files" /\ current # 0
      /\ In("files", "check") /\ step = "check"
      /\ UNCHANGED <<local, clock, pass>>
  BY DEF check_modtime, In
<1>2. PICK a \in Answers(server, TypeAt(server, PlaceOfLocal) = "file", server) :
        /\ Answered(a)
        /\ GoTo(current, "put") \/ Failed(current)
  <2>1. PICK a \in Answers(server, TypeAt(server, PlaceOfLocal) = "file", server) :
          /\ Answered(a)
          /\ IF a.code = "ok" /\ server[PlaceOfLocal].time = here.server
             THEN GoTo(current, "put") ELSE Failed(current)
    BY DEF check_modtime, PlaceOfLocal, here
  <2>2. QED
    BY <2>1
<1>3. a.fault \in {0, 1} /\ a.tree = server
  BY <1>2, AnswersEffect DEF Answered_with
<1>4. faults' \in 0 .. MaxFaults /\ server' = server
  BY <1>2, <1>3, FaultsBounded
<1>5. SiteMoves /\ ControlMoves /\ ret' \in {0, 1}
  <2>1. CASE GoTo(current, "put")
    <3>1. GoTo(current, step') /\ NextCall
      BY <1>1, <2>1 DEF GoTo, NextCall
    <3>2. QED
      BY <1>1, <3>1, GoToMoves DEF SlowPasses
  <2>2. QED
    BY <1>1, <1>2, <2>1, FailedMoves
<1>6. QED
  BY <1>1, <1>4, <1>5 DEF EngineMoves, TreeMoves, EngineOK

\* What is read of a local file is no part of one.
LEMMA SourceTyped ==
  ASSUME EngineOK, NEW state \in FileState
  PROVE  source(state) \in SUBSET Contents
<1>1. local[state.filename] \in LocalFile \cup {Absent}
  BY DEF EngineOK, FileState
<1>2. local[state.filename] # Absent => local[state.filename].content \in Contents
  BY <1>1 DEF LocalFile
<1>3. QED
  BY <1>2 DEF source

\* A call that uploads the current file, and what follows it.
LEMMA UploadMoves ==
  ASSUME EngineOK, pass # 0, handlers[pass] = "files", current # 0,
         UNCHANGED <<local, clock, pass>>,
         NEW place, place \in {PlaceOfLocal, temp_upload_filename(PlaceOfLocal)},
         NEW a, a.fault \in {0, 1}, Answered(a),
         Uploads(server, a.tree, place, source(Local(here)), clock),
         IF place = PlaceOfLocal
         THEN In("files", "put") \/ In("files", "put_if") \/ In("files", "upload")
         ELSE In("files", "temp"),
         Failed(current) \/ (GoTo(current, step') /\ NextCall)
  PROVE  EngineMoves
<1>1. place \in Places /\ server \in Tree /\ clock \in Nat
  BY CurrentEntry, StatePlaces DEF PlaceOfLocal, EngineOK
<1>2. source(Local(here)) \in SUBSET Contents
  BY CurrentEntry, SourceTyped
<1>3. a.tree \in Tree
  BY <1>1, <1>2, UploadsTyped
<1>4. faults' \in 0 .. MaxFaults /\ server' = a.tree
  BY FaultsBounded
<1>5. TreeMoves
  BY <1>4 DEF TreeMoves
<1>6. SiteMoves /\ ControlMoves /\ ret' \in {0, 1}
  BY FailedMoves, GoToMoves DEF SlowPasses
<1>7. QED
  BY <1>3, <1>4, <1>5, <1>6 DEF EngineMoves

\* The STOR of a safe-mode upload, the conditional PUT, and the plain upload.
LEMMA PutMoves ==
  ASSUME EngineOK, put_file \/ put_conditionally \/ upload_file
  PROVE  EngineMoves
<1>1. /\ pass # 0 /\ handlers[pass] = "files" /\ current # 0
      /\ In("files", "put") \/ In("files", "put_if") \/ In("files", "upload")
      /\ UNCHANGED <<local, clock, pass>>
  BY DEF put_file, put_conditionally, upload_file, In
<1>2. opt.protocol \in Protocols /\ server \in Tree
  BY OptionsTyped DEF EngineOK
<1>3. PICK a \in file_upload_call(opt.protocol, server, PlaceOfLocal, source(Local(here)), clock)
                 \cup file_upload_cond_call(opt.protocol, server, PlaceOfLocal, source(Local(here)),
                                            clock, here.server) :
        Answered(a) /\ (Failed(current) \/ GoTo(current, after_upload))
  BY DEF put_file, put_conditionally, upload_file, PlaceOfLocal, here
<1>4. a.fault \in {0, 1} /\ Uploads(server, a.tree, PlaceOfLocal, source(Local(here)), clock)
  BY <1>2, <1>3, UploadEffect, UploadCondEffect
<1>5. GoTo(current, after_upload) => GoTo(current, step') /\ NextCall
  BY DEF GoTo, NextCall, after_upload
<1>6. QED
  BY <1>1, <1>3, <1>4, <1>5, UploadMoves

\* The upload under a temporary name.
LEMMA UploadTempMoves ==
  ASSUME EngineOK, upload_temp
  PROVE  EngineMoves
<1> DEFINE temp == temp_upload_filename(PlaceOfLocal)
<1>1. /\ pass # 0 /\ handlers[pass] = "files" /\ current # 0
      /\ In("files", "temp") /\ step = "temp"
      /\ UNCHANGED <<local, clock, pass>>
  BY DEF upload_temp, In
<1>2. opt.protocol \in Protocols /\ server \in Tree /\ PlaceOfLocal # temp
  BY <1>1, CurrentEntry, StatePlaces, OptionsTyped DEF EngineOK, PlaceOfLocal
<1>3. PICK a \in file_upload_call(opt.protocol, server, temp, source(Local(here)), clock) :
        Answered(a) /\ IF a.code = "ok" THEN GoTo(current, "move") ELSE Failed(current)
  BY DEF upload_temp, PlaceOfLocal, here
<1>4. /\ a.fault \in {0, 1} /\ Uploads(server, a.tree, temp, source(Local(here)), clock)
      /\ a.code = "ok" /\ opt.protocol \in {"ftp", "dav"}
           => UploadsAll(server, a.tree, temp, source(Local(here)), clock)
      /\ a.code = "ok" /\ opt.protocol = "rsh"
           => \/ UploadsAll(server, a.tree, temp, source(Local(here)), clock)
              \/ TypeAt(server, temp) = "dir" /\ a.tree = server
  BY <1>2, <1>3, UploadEffect
<1>5. server' = a.tree
  BY <1>3 DEF Answered
<1>6. a.code = "ok" => TempUploaded
  BY <1>2, <1>4, <1>5 DEF TempUploaded, Protocols
<1>7. Failed(current) \/ (GoTo(current, step') /\ NextCall)
  BY <1>1, <1>3, <1>6 DEF GoTo, NextCall
<1> HIDE DEF temp
<1>8. QED
  BY <1>1, <1>2, <1>3, <1>4, <1>7, UploadMoves DEF temp

\* ... and the move to the true name.
LEMMA MoveTempMoves ==
  ASSUME EngineOK, move_temp
  PROVE  EngineMoves
<1> DEFINE temp == temp_upload_filename(PlaceOfLocal)
<1>1. /\ pass # 0 /\ handlers[pass] = "files" /\ current # 0
      /\ In("files", "move")
      /\ UNCHANGED <<local, clock, pass>>
  BY DEF move_temp, In
<1>2. PICK a \in file_move_call(opt.protocol, server, temp, PlaceOfLocal) :
        /\ Answered(a)
        /\ IF a.code = "ok" THEN GoTo(current, after_upload) ELSE Failed(current)
  BY DEF move_temp, PlaceOfLocal, here
<1>3. /\ PlaceOfLocal \in Places /\ temp \in Places
      /\ opt.protocol \in Protocols /\ server \in Tree
  BY <1>1, CurrentEntry, StatePlaces, OptionsTyped DEF PlaceOfLocal, EngineOK
<1>4. /\ a.fault \in {0, 1} /\ a.tree \in Tree
      /\ \/ a.tree = server
         \/ /\ Moves(server, a.tree, temp, PlaceOfLocal, ReplacedWith(PlaceOfLocal))
            /\ opt.protocol = "ftp" => TypeAt(server, PlaceOfLocal) # "dir"
  BY <1>2, <1>3, MoveEffect DEF ReplacedWith
<1>5. faults' \in 0 .. MaxFaults /\ server' = a.tree
  BY <1>2, <1>4, FaultsBounded
<1>6. TreeMoves
  BY <1>1, <1>4, <1>5 DEF TreeMoves
<1>7. GoTo(current, after_upload) => GoTo(current, step') /\ NextCall
  BY DEF GoTo, NextCall, after_upload
<1>8. SiteMoves /\ ControlMoves /\ ret' \in {0, 1}
  BY <1>1, <1>2, <1>7, FailedMoves, GoToMoves DEF SlowPasses
<1>9. QED
  BY <1>1, <1>4, <1>5, <1>6, <1>8 DEF EngineMoves

\* file_retrieve_server notes a time of the server.
LEMMA RetrieveMoves ==
  ASSUME EngineOK, retrieve_modtime
  PROVE  EngineMoves
<1>1. /\ pass # 0 /\ handlers[pass] = "files" /\ current # 0
      /\ UNCHANGED <<local, clock, pass>>
  BY DEF retrieve_modtime, In
<1>2. PICK a \in get_modtime_call(opt.protocol, server, PlaceOfLocal) :
        /\ Answered(a)
        /\ site' = file_replace(site, current,
             [here EXCEPT !.server = IF a.code = "ok" THEN server[PlaceOfLocal].time ELSE 0])
        /\ step' = "record" /\ next' = current /\ UNCHANGED ret
  BY DEF retrieve_modtime, PlaceOfLocal, here
<1>3. PlaceOfLocal \in Places /\ server \in Tree
  BY <1>1, CurrentEntry, StatePlaces DEF PlaceOfLocal, EngineOK
<1>4. a.fault \in {0, 1} /\ a.tree = server /\ (a.code = "ok" => TypeAt(server, PlaceOfLocal) = "file")
  BY <1>2, <1>3, ModtimeEffect
<1>5. faults' \in 0 .. MaxFaults /\ server' = server
  BY <1>2, <1>4, FaultsBounded
<1>6. a.code = "ok" => server[PlaceOfLocal].time \in Nat
  <2>1. SUFFICES ASSUME a.code = "ok" PROVE server[PlaceOfLocal].time \in Nat
    OBVIOUS
  <2>2. server[PlaceOfLocal] \in RemoteFile
    BY <1>3, <1>4, <2>1, FileAt
  <2>3. QED
    BY <2>2 DEF RemoteFile
<1>7. \E n \in Nat : site' = file_replace(site, current, [here EXCEPT !.server = n])
  BY <1>2, <1>6
<1>8. SiteMoves /\ ControlMoves /\ ret' \in {0, 1}
  BY <1>1, <1>2, <1>7 DEF SiteMoves, ControlMoves, NextCall, SlowPasses, EngineOK
<1>9. QED
  BY <1>1, <1>3, <1>5, <1>8 DEF EngineMoves, TreeMoves

\* The chmod after an upload, and the record.
LEMMA RecordMoves ==
  ASSUME EngineOK, record_upload
  PROVE  EngineMoves
<1>1. /\ pass # 0 /\ handlers[pass] = "files" /\ current # 0
      /\ In("files", "record")
      /\ site' = file_uploaded(site, current) /\ Advance(current)
      /\ UNCHANGED <<local, clock, pass>>
  BY DEF record_upload, In
<1>2. /\ TreeMoves /\ server' \in Tree /\ faults' \in 0 .. MaxFaults
      /\ ret' \in {0, 1}
  <2>1. CASE UNCHANGED <<server, faults, ret>>
    BY <2>1 DEF TreeMoves, EngineOK
  <2>2. CASE \E a \in file_chmod_call(opt.protocol, server, PlaceOfLocal, Local(here).mode) :
               Answered(a) /\ ret' = (IF a.code = "ok" THEN ret ELSE 1)
    <3>1. PICK a \in file_chmod_call(opt.protocol, server, PlaceOfLocal, Local(here).mode) :
               Answered(a) /\ ret' = (IF a.code = "ok" THEN ret ELSE 1)
      BY <2>2
    <3>2. TreeMoves /\ server' \in Tree /\ faults' \in 0 .. MaxFaults
      BY <1>1, <3>1, ChmodMoves
    <3>3. QED
      BY <3>1, <3>2 DEF EngineOK
  <2>3. QED
    BY <2>1, <2>2 DEF record_upload, PlaceOfLocal, here
<1>3. SiteMoves /\ ControlMoves
  BY <1>1, CurrentEntry, AdvanceTyped, ConstantsAssumption DEF SiteMoves, ControlMoves
<1>4. QED
  BY <1>1, <1>2, <1>3 DEF EngineMoves

\* The loop goes on without a call, or ends.
LEMMA LoopMoves ==
  ASSUME EngineOK, Declined \/ end_pass
  PROVE  EngineMoves
<1>1. CASE Declined
  <2>1. /\ pass # 0 /\ current # 0 /\ Advance(current)
        /\ UNCHANGED <<site, local, server, clock, faults, pass, ret>>
    BY <1>1 DEF Declined
  <2>2. QED
    BY <2>1, AdvanceTyped DEF EngineMoves, SiteMoves, ControlMoves, TreeMoves, EngineOK
<1>2. CASE end_pass
  <2>1. /\ BeginPass(IF ret = 0 \/ opt.keep_going THEN pass_after(pass) ELSE 0)
        /\ UNCHANGED <<site, local, server, clock, faults, ret>>
    BY <1>2 DEF end_pass
  <2>2. step' = "entry" /\ next' \in Nat /\ (pass' = 0 \/ pass' = pass_after(pass))
    <3>1. Len(files) \in Nat
      BY DEF EngineOK, Exact, SiteOK, Site, files
    <3>2. QED
      BY <2>1, <3>1 DEF BeginPass, first_entry
  <2>3. QED
    BY <2>1, <2>2 DEF EngineMoves, SiteMoves, ControlMoves, TreeMoves, EngineOK
<1>3. QED
  BY <1>1, <1>2

\* site_update begins.
LEMMA StartMoves ==
  ASSUME EngineOK, StartPasses
  PROVE  EngineMoves
<1>1. PICK a \in Answers(server, TRUE, server) :
        /\ Answered(a)
        /\ IF a.code = "ok" THEN BeginPass(pass_after(0)) /\ ret' = 0
           ELSE BeginPass(0) /\ ret' = 1
  BY DEF StartPasses
<1>2. a.fault \in {0, 1} /\ a.tree = server
  <2>1. Answered_with(a, server, TRUE, server)
    BY AnswersEffect
  <2>2. QED
    BY <2>1 DEF Answered_with
<1>3. faults' \in 0 .. MaxFaults /\ server' = server
  BY <1>1, <1>2, FaultsBounded
<1>4. pass = 0 /\ UNCHANGED <<site, local, clock>>
  BY DEF StartPasses
<1>5. step' = "entry" /\ next' \in Nat /\ (pass' = 0 \/ pass' = pass_after(pass)) /\ ret' \in {0, 1}
  <2>1. Len(files) \in Nat
    BY DEF EngineOK, Exact, SiteOK, Site, files
  <2>2. QED
    BY <1>1, <1>4, <2>1 DEF BeginPass, first_entry
<1>6. QED
  BY <1>3, <1>4, <1>5 DEF EngineMoves, SiteMoves, ControlMoves, TreeMoves, EngineOK

\* Every step of site_update is a move of the engine.
LEMMA UpdateMoves ==
  ASSUME EngineOK, UpdateStep
  PROVE  EngineMoves
BY DeleteMoves, CreateMoves, ChmodDirectoryMoves, MoveFilesMoves, ChmodOnlyMoves, BeginUploadMoves,
   DeleteBeforeMoves, CheckMoves, PutMoves, UploadTempMoves, MoveTempMoves, RetrieveMoves,
   RecordMoves, LoopMoves
   DEF UpdateStep

-----------------------------------------------------------------------------
(* What the steps keep                                                     *)

\* set_states leaves the options.
LEMMA SetStatesOpt ==
  ASSUME NEW s \in Site, NEW i \in DOMAIN s.files, NEW st
  PROVE  set_states(s, i, st).opt = s.opt
<1> DEFINE r == set_states(s, i, st).files
<1>1. /\ r = [s.files EXCEPT ![i] = r[i]]
      /\ set_states(s, i, st).opt = s.opt
  BY SetStatesFiles
<1>2. QED
  BY <1>1

\* The list stays exact, with the same options.
LEMMA SiteMovesExact ==
  ASSUME EngineOK, SiteMoves
  PROVE  Exact(site)' /\ opt' = opt
<1>1. Exact(site) /\ site \in Site /\ SiteOK(site)
  BY DEF EngineOK, Exact, SiteOK
<1>2. CASE site' = site
  BY <1>1, <1>2 DEF opt
<1>3. CASE site' # site
  <2>1. current \in DOMAIN site.files /\ here = site.files[current]
    BY <1>3, CurrentHandled DEF SiteMoves, files, here
  <2>2. Exact(site') /\ site'.opt = site.opt
    <3>1. CASE site' = file_delete(site, current)
      BY <1>1, <2>1, <3>1, DeleteExact, DeleteFiles
    <3>2. CASE Local(here) # Absent /\ site' = file_uploaded(site, current)
      <4> DEFINE st == [x \in Sides |-> Local(site.files[current])]
      <4>1. site' = set_states(site, current, st)
        BY <3>2 DEF file_uploaded
      <4>2. Exact(set_states(site, current, st))
        BY <1>1, <2>1, <3>2, UploadedExact
      <4> HIDE DEF st
      <4>3. set_states(site, current, st).opt = site.opt
        BY <1>1, <2>1, SetStatesOpt
      <4>4. QED
        BY <4>1, <4>2, <4>3
    <3>3. CASE Local(here) # Absent /\ Stored(here) # Absent /\ site' = chmod_done(site, current)
      <4> DEFINE st == [site.files[current].st EXCEPT !["stored"] =
                          [Stored(site.files[current]) EXCEPT !.mode = Local(site.files[current]).mode]]
      <4>1. chmod_done(site, current) = set_states(site, current, st)
        BY DEF chmod_done
      <4>2. Exact(chmod_done(site, current))
        BY <1>1, <2>1, <3>3, ChmodExact
      <4> HIDE DEF st
      <4>3. set_states(site, current, st).opt = site.opt
        BY <1>1, <2>1, SetStatesOpt
      <4>4. QED
        BY <3>3, <4>1, <4>2, <4>3
    <3>4. CASE \E n \in Nat : site' = file_replace(site, current, [here EXCEPT !.server = n])
      <4>1. PICK n \in Nat : site' = file_replace(site, current, [site.files[current] EXCEPT !.server = n])
        BY <2>1, <3>4
      <4>2. QED
        BY <1>1, <2>1, <4>1, ServerTimeExact
    <3>5. QED
      BY <1>3, <3>1, <3>2, <3>3, <3>4 DEF SiteMoves
  <2>3. QED
    BY <2>2 DEF opt
<1>4. QED
  BY <1>2, <1>3

\* The next row of the table whose guard is true.
LEMMA PassAfter ==
  ASSUME EngineOK
  PROVE  /\ pass_after(pass) \in 0 .. Len(handlers)
         /\ pass_after(pass) # 0 => guard(handlers[pass_after(pass)])
<1> DEFINE S == {j \in pass + 1 .. Len(handlers) : guard(handlers[j])}
<1>1. Len(handlers) = 5
  BY DEF handlers
<1>2. S \in SUBSET (1 .. 5)
  BY <1>1 DEF EngineOK
<1>3. pass_after(pass) = First(S)
  BY DEF pass_after
<1>4. First(S) # 0 => First(S) \in S
  <2>1. 5 \in Nat
    OBVIOUS
  <2> HIDE DEF S
  <2>2. QED
    BY <1>2, <2>1, FirstInSet
<1>5. QED
  BY <1>1, <1>2, <1>3, <1>4

\* A step of the engine leaves it in a state of the engine.
LEMMA EngineKept ==
  ASSUME EngineOK, EngineMoves
  PROVE  EngineOK' /\ opt' = opt
<1>1. Exact(site)' /\ opt' = opt
  BY SiteMovesExact DEF EngineMoves
<1>2. /\ server' \in Tree /\ local' \in [Names -> LocalFile \cup {Absent}]
      /\ clock' \in Nat /\ faults' \in 0 .. MaxFaults /\ ret' \in {0, 1}
  BY DEF EngineMoves, EngineOK
<1>3. pass' \in 0 .. Len(handlers) /\ next' \in Nat /\ step' \in Steps /\ AtEntry'
  <2>1. CASE pass' = pass /\ step' = "entry" /\ next' \in Nat
    BY <2>1 DEF EngineOK, Steps, AtEntry
  <2>2. CASE /\ pass' = pass /\ pass # 0 /\ current # 0 /\ handlers[pass] \in SlowPasses
             /\ next' = current /\ NextCall
             /\ \/ site' = site
                \/ \E n \in Nat : site' = file_replace(site, current, [here EXCEPT !.server = n])
    <3>1. current \in DOMAIN files /\ handles(handlers[pass], here) /\ current \in Nat
      BY <2>2, CurrentHandled DEF EngineOK, Exact, SiteOK, Site, files
    <3>2. step' \in Steps
      BY <2>2 DEF NextCall, Steps, upload_step
    <3>3. current \in DOMAIN files' /\ handles(handlers[pass], files'[current])
      <4>1. CASE site' = site
        BY <3>1, <4>1 DEF files, here
      <4>2. CASE \E n \in Nat : site' = file_replace(site, current, [here EXCEPT !.server = n])
        <5>1. PICK n \in Nat : site' = file_replace(site, current, [here EXCEPT !.server = n])
          BY <4>2
        <5>2. here \in Entry /\ files \in Seq(Entry)
          BY <3>1 DEF EngineOK, Exact, SiteOK, Site, files, here
        <5>3. files' = [files EXCEPT ![current] = [here EXCEPT !.server = n]]
          BY <3>1, <5>1, ServerTimeExact DEF files, here, EngineOK
        <5> DEFINE g == [here EXCEPT !.server = n]
        <5>4. g.type = here.type /\ g.diff = here.diff /\ g.ignore = here.ignore
          BY <5>2 DEF Entry
        <5> HIDE DEF g
        <5>5. files'[current] = g /\ current \in DOMAIN files'
          BY <3>1, <5>2, <5>3 DEF g
        <5>6. QED
          BY <3>1, <5>4, <5>5 DEF handles
      <4>3. QED
        BY <2>2, <4>1, <4>2
    <3>4. QED
      BY <2>2, <3>1, <3>2, <3>3 DEF EngineOK, AtEntry
  <2>3. CASE /\ site' = site /\ step' = "entry" /\ next' \in Nat
             /\ pass' = 0 \/ pass' = pass_after(pass)
    BY <2>3, PassAfter DEF Steps, AtEntry, handlers
  <2>4. QED
    BY <2>1, <2>2, <2>3 DEF EngineMoves, ControlMoves
<1>4. PassAllowed'
  <2>1. \A p : guard(p)' <=> guard(p)
    BY <1>1 DEF guard
  <2>2. CASE pass' = pass
    BY <2>1, <2>2 DEF EngineOK, PassAllowed
  <2>3. CASE pass' = 0 \/ pass' = pass_after(pass)
    BY <2>1, <2>3, PassAfter DEF PassAllowed
  <2>4. QED
    BY <2>2, <2>3 DEF EngineMoves, ControlMoves
<1>5. QED
  BY <1>1, <1>2, <1>3, <1>4 DEF EngineOK
=============================================================================
