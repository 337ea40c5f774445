-------------------------- MODULE SiteFiles_proofs --------------------------
(***************************************************************************)
(* The file list keeps its type, the cached diff of every entry and every  *)
(* counter are exact, and while states are merged no state is lost and no  *)
(* name stands in two entries: for every set of names, contents, modes and *)
(* options and for every sequence of operations.                           *)
(***************************************************************************)
EXTENDS SiteFiles, FileList_lemmas

-----------------------------------------------------------------------------
(* Names are unique while states are merged                                *)

\* No two entries have the same name on this side.
UniqueOn(q, side) ==
  \A i, j \in DOMAIN q :
     /\ q[i].st[side] # Absent /\ q[j].st[side] # Absent
     /\ q[i].st[side].filename = q[j].st[side].filename
     => i = j

\* No entry but entry i has this name on this side (i = 0: no entry at all).
FreeBut(q, i, side, name) ==
  \A j \in DOMAIN q \ {i} : q[j].st[side] # Absent => q[j].st[side].filename # name

\* file_insert keeps names unique when the name of the new entry is free.
LEMMA UniqueInserted ==
  ASSUME NEW q \in Seq(Entry), NEW f \in Entry, NEW side, UniqueOn(q, side),
         f.st[side] # Absent => FreeBut(q, 0, side, f.st[side].filename)
  PROVE  UniqueOn(Inserted(q, f), side)
<1> DEFINE r == Inserted(q, f)
<1>1. Len(q) \in Nat /\ DOMAIN q = 1 .. Len(q)
  OBVIOUS
<1>2. DOMAIN r = 1 .. Len(q) + 1
  BY <1>1, InsertShape
<1>3. PICK e \in DOMAIN r, g \in [1 .. Len(q) + 1 -> 0 .. Len(q)] :
        /\ r[e] = f /\ g[e] = 0
        /\ \A j \in DOMAIN r : j # e => g[j] \in DOMAIN q /\ r[j] = q[g[j]]
        /\ \A j, k \in DOMAIN r : g[j] = g[k] => j = k
  <2>1. CASE f.type = "dir"
    <3> DEFINE g == [j \in 1 .. Len(q) + 1 |-> IF j = Len(q) + 1 THEN 0 ELSE j]
    <3>1. \A j \in 1 .. Len(q) + 1 : r[j] = IF j = Len(q) + 1 THEN f ELSE q[j]
      BY <2>1, InsertShape
    <3>2. Len(q) + 1 \in DOMAIN r /\ r[Len(q) + 1] = f /\ g[Len(q) + 1] = 0
      BY <1>1, <1>2, <3>1
    <3>3. \A j \in DOMAIN r : j # Len(q) + 1 => g[j] \in DOMAIN q /\ r[j] = q[g[j]]
      BY <1>1, <1>2, <3>1
    <3>4. g \in [1 .. Len(q) + 1 -> 0 .. Len(q)] /\ \A j, k \in DOMAIN r : g[j] = g[k] => j = k
      BY <1>1, <1>2
    <3> HIDE DEF g, r
    <3>5. QED
      BY <3>2, <3>3, <3>4
  <2>2. CASE f.type # "dir"
    <3> DEFINE g == [j \in 1 .. Len(q) + 1 |-> j - 1]
    <3>1. \A j \in 1 .. Len(q) + 1 : r[j] = IF j = 1 THEN f ELSE q[j - 1]
      BY <2>2, InsertShape
    <3>2. 1 \in DOMAIN r /\ r[1] = f /\ g[1] = 0
      BY <1>1, <1>2, <3>1
    <3>3. \A j \in DOMAIN r : j # 1 => g[j] \in DOMAIN q /\ r[j] = q[g[j]]
      BY <1>1, <1>2, <3>1
    <3>4. g \in [1 .. Len(q) + 1 -> 0 .. Len(q)] /\ \A j, k \in DOMAIN r : g[j] = g[k] => j = k
      BY <1>1, <1>2
    <3> HIDE DEF g, r
    <3>5. QED
      BY <3>2, <3>3, <3>4
  <2>3. QED
    BY <2>1, <2>2
<1>4. ASSUME NEW j \in DOMAIN r, NEW k \in DOMAIN r,
             r[j].st[side] # Absent, r[k].st[side] # Absent,
             r[j].st[side].filename = r[k].st[side].filename
      PROVE  j = k
  <2> HIDE DEF r
  <2>1. \A l \in DOMAIN q : l \in DOMAIN q \ {0}
    BY <1>1
  <2>2. CASE j = e /\ k # e
    BY <1>3, <1>4, <2>1, <2>2 DEF FreeBut
  <2>3. CASE k = e /\ j # e
    BY <1>3, <1>4, <2>1, <2>3 DEF FreeBut
  <2>4. CASE j # e /\ k # e
    BY <1>3, <1>4, <2>4 DEF UniqueOn
  <2>5. QED
    BY <2>2, <2>3, <2>4
<1>5. QED
  BY <1>4 DEF UniqueOn

\* file_delete keeps names unique.
LEMMA UniqueRemoved ==
  ASSUME NEW q \in Seq(Entry), NEW i \in 1 .. Len(q), NEW side, UniqueOn(q, side)
  PROVE  UniqueOn(Removed(q, i), side)
<1> DEFINE r == Removed(q, i)
<1>1. Len(q) \in Nat /\ DOMAIN q = 1 .. Len(q)
  OBVIOUS
<1>2. DOMAIN r = 1 .. Len(q) - 1
  BY <1>1, RemoveShape
<1>3. \A j \in DOMAIN r : r[j] = q[IF j < i THEN j ELSE j + 1]
  BY <1>1, <1>2, RemoveShape
<1>4. \A j \in DOMAIN r : (IF j < i THEN j ELSE j + 1) \in DOMAIN q
  BY <1>1, <1>2
<1>5. \A j, k \in DOMAIN r :
        (IF j < i THEN j ELSE j + 1) = (IF k < i THEN k ELSE k + 1) => j = k
  BY <1>1, <1>2
<1> HIDE DEF r
<1>6. UniqueOn(r, side)
  <2>1. SUFFICES ASSUME NEW j \in DOMAIN r, NEW k \in DOMAIN r,
                        r[j].st[side] # Absent, r[k].st[side] # Absent,
                        r[j].st[side].filename = r[k].st[side].filename
                 PROVE  j = k
    BY DEF UniqueOn
  <2>2. (IF j < i THEN j ELSE j + 1) = (IF k < i THEN k ELSE k + 1)
    BY <1>3, <1>4, <2>1 DEF UniqueOn
  <2>3. QED
    BY <1>5, <2>2
<1>7. QED
  BY <1>6 DEF r

\* Exchanging one entry keeps names unique when its new name is free.
LEMMA UniqueReplaced ==
  ASSUME NEW q, NEW i \in DOMAIN q, NEW f, NEW side, UniqueOn(q, side),
         f.st[side] # Absent => FreeBut(q, i, side, f.st[side].filename)
  PROVE  UniqueOn([q EXCEPT ![i] = f], side)
BY DEF UniqueOn, FreeBut

\* file_set keeps names unique on both sides when the name of the new state is
\* free: the state that is shoved aside moves, it is not duplicated.
LEMMA FileSetUnique ==
  ASSUME NEW s \in Site, \A x \in Sides : UniqueOn(s.files, x),
         NEW side \in Sides, NEW type \in FileTypes, NEW state \in FileState,
         FreeBut(s.files, 0, side, state.filename), NEW x \in Sides
  PROVE  UniqueOn(file_set(s, side, type, state).files, x)
<1> DEFINE r == file_set(s, side, type, state).files
<1>1. s.files \in Seq(Entry) /\ 0 \notin DOMAIN s.files
  BY DEF Site
<1>2. state # Absent /\ Absent # state
  BY ConstantsAssumption
<1>3. CASE \E ign \in BOOLEAN :
             /\ one_sided(type, side, state, ign) \in Entry
             /\ file_set(s, side, type, state) = add_entry(s, one_sided(type, side, state, ign))
  <2>1. PICK ign \in BOOLEAN :
          /\ one_sided(type, side, state, ign) \in Entry
          /\ file_set(s, side, type, state) = add_entry(s, one_sided(type, side, state, ign))
    BY <1>3
  <2> DEFINE f == one_sided(type, side, state, ign)
  <2>2. f \in Entry /\ f.st[x] = IF x = side THEN state ELSE Absent
    BY <2>1 DEF one_sided
  <2>3. r = Inserted(s.files, f)
    BY <2>1, <2>2, AddEntryFiles
  <2> HIDE DEF f, r
  <2>4. f.st[x] # Absent => FreeBut(s.files, 0, x, f.st[x].filename)
    BY <2>2
  <2>5. UniqueOn(r, x)
    BY <1>1, <2>2, <2>3, <2>4, UniqueInserted
  <2>6. QED
    BY <2>5 DEF r
<1>4. CASE \E i \in DOMAIN s.files, diff \in Diffs :
             /\ s.files[i].type = type
             /\ s.files[i].st[OtherSide(side)] # Absent
             /\ file_set(s, side, type, state) = overwrite_entry(s, side, i, state, diff)
  <2>1. PICK i \in DOMAIN s.files, diff \in Diffs :
          file_set(s, side, type, state) = overwrite_entry(s, side, i, state, diff)
    BY <1>4
  <2> DEFINE f  == Taken(s.files[i], side, state, diff)
             fs == [s.files EXCEPT ![i] = f]
             g  == Shoved(s.files[i], side)
  <2>2. s.files[i] \in Entry
    BY <1>1
  <2>3. f \in Entry /\ (s.files[i].st[side] # Absent => g \in Entry)
    BY <2>2, TakenType
  <2>4. fs \in Seq(Entry) /\ DOMAIN fs = DOMAIN s.files
    <3> HIDE DEF f
    <3>1. QED
      BY <1>1, <2>3
  <2>5. r = IF s.files[i].st[side] = Absent THEN fs ELSE Inserted(fs, g)
    BY <2>1, OverwriteShape
  <2>6. f.st[x] = IF x = side THEN state ELSE s.files[i].st[x]
    BY <2>2 DEF Taken, Entry
  <2>7. g.st[x] = IF x = side THEN s.files[i].st[side] ELSE Absent
    BY DEF Shoved, one_sided
  <2>8. \A j \in DOMAIN s.files : fs[j] = IF j = i THEN f ELSE s.files[j]
    OBVIOUS
  <2> HIDE DEF f, fs, g, r
  <2>9. f.st[x] # Absent => FreeBut(s.files, i, x, f.st[x].filename)
    <3>1. CASE x = side
      BY <1>1, <2>6, <3>1 DEF FreeBut
    <3>2. CASE x # side
      BY <2>6, <3>2 DEF UniqueOn, FreeBut
    <3>3. QED
      BY <3>1, <3>2
  <2>10. UniqueOn(fs, x)
    BY <2>9, UniqueReplaced DEF fs
  <2>11. ASSUME s.files[i].st[side] # Absent
         PROVE  g.st[x] # Absent => FreeBut(fs, 0, x, g.st[x].filename)
    <3>1. SUFFICES ASSUME x = side, NEW j \in DOMAIN fs, fs[j].st[x] # Absent
                   PROVE  fs[j].st[x].filename # s.files[i].st[side].filename
      BY <2>7 DEF FreeBut
    <3>2. CASE j = i
      <4>1. s.files[i].st[side].filename # state.filename
        BY <1>1, <2>11 DEF FreeBut
      <4>2. QED
        BY <2>4, <2>6, <2>8, <3>1, <3>2, <4>1
    <3>3. CASE j # i
      BY <2>4, <2>8, <2>11, <3>1, <3>3 DEF UniqueOn
    <3>4. QED
      BY <3>2, <3>3
  <2>12. UniqueOn(r, x)
    BY <2>3, <2>4, <2>5, <2>10, <2>11, UniqueInserted
  <2>13. QED
    BY <2>12 DEF r
<1>5. QED
  BY <1>3, <1>4, FileSetShape

\* site_destroy_stored on one entry gives no entry a name.
LEMMA DestroyStoredUnique ==
  ASSUME NEW s \in Site, NEW i \in DOMAIN s.files, NEW x \in Sides, UniqueOn(s.files, x)
  PROVE  UniqueOn(destroy_stored_entry(s, i).files, x)
<1>1. s.files \in Seq(Entry) /\ i \in 1 .. Len(s.files) /\ s.files[i] \in Entry
  BY DEF Site
<1>2. CASE Local(s.files[i]) = Absent
  <2>1. destroy_stored_entry(s, i).files = Removed(s.files, i)
    BY <1>2, DeleteFiles DEF destroy_stored_entry
  <2>2. QED
    BY <1>1, <2>1, UniqueRemoved
<1>3. CASE Local(s.files[i]) # Absent
  <2> DEFINE st == [s.files[i].st EXCEPT !["stored"] = Absent]
             r  == destroy_stored_entry(s, i).files
  <2>1. st[x] = s.files[i].st[x] \/ st[x] = Absent
    BY <1>1 DEF Entry, Sides
  <2>2. destroy_stored_entry(s, i) = set_states(s, i, st)
    BY <1>3 DEF destroy_stored_entry
  <2> HIDE DEF st
  <2>3. r = [s.files EXCEPT ![i] = r[i]] /\ r[i].st = st
    BY <2>2, SetStatesFiles
  <2> HIDE DEF r
  <2>4. r[i].st[x] # Absent => FreeBut(s.files, i, x, r[i].st[x].filename)
    BY <2>1, <2>3 DEF UniqueOn, FreeBut
  <2>5. UniqueOn(r, x)
    BY <2>3, <2>4, UniqueReplaced
  <2>6. QED
    BY <2>5 DEF r
<1>4. QED
  BY <1>2, <1>3

-----------------------------------------------------------------------------
(* The theorem                                                             *)

\* The inductive invariant.  The names need not be unique once entries are
\* uploaded: until site_destroy_stored is done, an entry that was uploaded over
\* a moved one has the same stored name as it.
IInv ==
  /\ Exact(site)
  /\ phase \in {"scan", "work", "clear"}
  /\ phase # "work" => \A side \in Sides : UniqueOn(files, side)

\* The empty list that ne_calloc leaves satisfies the invariant.
LEMMA InitIInv == Init => IInv
<1>1. SUFFICES ASSUME NEW o \in Options, site = EmptySite(o), phase = "scan"
               PROVE  IInv
  BY DEF Init
<1>2. EmptySite(o) \in Site /\ EmptySite(o).files = << >>
  BY DEF EmptySite, Site
<1>3. Counted(EmptySite(o))
  <2>1. \A k \in Counters : CountedBy(<< >>, k) = {} /\ EmptySite(o).num[k] = 0
    BY DEF CountedBy, EmptySite
  <2>2. QED
    BY <1>2, <2>1, FS_EmptySet DEF Counted
<1>4. QED
  BY <1>1, <1>2, <1>3 DEF IInv, Exact, SiteOK, UniqueOn, files

\* A state that is merged was not in the list on its side.
LEMMA NotSeenIsFree ==
  ASSUME NEW side, NEW name, NotSeen(side, name)
  PROVE  FreeBut(site.files, 0, side, name)
BY DEF NotSeen, FreeBut, files

\* Every operation keeps the entries and the counters exact.
LEMMA NextExact == IInv /\ [Next]_vars => Exact(site')
<1>1. SUFFICES ASSUME IInv, [Next]_vars
               PROVE  Exact(site')
  OBVIOUS
<1>2. Exact(site) /\ SiteOK(site)
  BY <1>1 DEF IInv, Exact
<1>3. ASSUME NEW type \in FileTypes, NEW s \in StatesOf(type),
             ReadLocal(type, s) \/ ReadStored(type, s)
      PROVE  Exact(site')
  <2>1. s \in FileState
    BY DEF StatesOf
  <2>2. Exact(file_set(site, "local", type, s)) /\ Exact(file_set(site, "stored", type, s))
    BY <1>2, <2>1, FileSetExact DEF Sides
  <2>3. QED
    BY <1>3, <2>2 DEF ReadLocal, ReadStored, file_set_local, file_set_stored
<1>4. CASE StartWork \/ FetchListing
  BY <1>2, <1>4 DEF StartWork, FetchListing
<1>5. ASSUME NEW i \in DOMAIN files,
             \/ Uploaded(i) \/ PermsSet(i) \/ Downloaded(i) \/ Deleted(i)
             \/ CatchUp(i) \/ DestroyStored(i)
      PROVE  Exact(site')
  <2>1. i \in DOMAIN site.files /\ EntryOK(site.files[i], site)
    BY <1>2 DEF files, SiteOK
  <2>2. CASE Uploaded(i)
    <3>1. Local(site.files[i]) # Absent
      BY <2>1, <2>2, DiffTellsStates DEF Uploaded, files
    <3>2. QED
      BY <1>2, <2>1, <2>2, <3>1, UploadedExact DEF Uploaded, file_uploaded
  <2>3. CASE PermsSet(i)
    <3>1. Local(site.files[i]) # Absent /\ Stored(site.files[i]) # Absent
      BY <2>3 DEF PermsSet, files, file_contents_changed
    <3>2. QED
      BY <1>2, <2>1, <2>3, <3>1, ChmodExact DEF PermsSet
  <2>4. CASE Downloaded(i)
    <3>1. Stored(site.files[i]) # Absent
      BY <2>1, <2>4, DiffTellsStates DEF Downloaded, files, EntryOK
    <3>2. QED
      BY <1>2, <2>1, <2>4, <3>1, DownloadedExact DEF Downloaded
  <2>5. CASE Deleted(i)
    BY <1>2, <2>1, <2>5, DeleteExact DEF Deleted
  <2>6. CASE CatchUp(i)
    <3>1. CASE site.files[i].diff = "deleted"
      BY <1>2, <2>1, <2>6, <3>1, DeleteExact DEF CatchUp, catchup_entry
    <3>2. CASE site.files[i].diff # "deleted"
      <4>1. Local(site.files[i]) # Absent
        BY <2>1, <3>2, DiffTellsStates
      <4>2. site' = set_states(site, i, [x \in Sides |-> Local(site.files[i])])
        BY <2>6, <3>2 DEF CatchUp, catchup_entry, files
      <4>3. QED
        BY <1>2, <2>1, <4>1, <4>2, UploadedExact
    <3>3. QED
      BY <3>1, <3>2
  <2>7. CASE DestroyStored(i)
    BY <1>2, <2>1, <2>7, DestroyStoredExact DEF DestroyStored
  <2>8. QED
    BY <1>5, <2>2, <2>3, <2>4, <2>5, <2>6, <2>7
<1>6. CASE UNCHANGED vars
  BY <1>2, <1>6 DEF vars
<1>7. QED
  BY <1>1, <1>3, <1>4, <1>5, <1>6 DEF Next, Merge

\* While states are merged, and while stored states are destroyed, every
\* operation keeps the names unique.
LEMMA NextUnique ==
  IInv /\ [Next]_vars /\ phase' # "work" => \A x \in Sides : UniqueOn(site'.files, x)
<1>1. SUFFICES ASSUME IInv, [Next]_vars, phase' # "work", NEW x \in Sides
               PROVE  UniqueOn(site'.files, x)
  OBVIOUS
<1>2. site \in Site /\ (phase # "work" => \A y \in Sides : UniqueOn(site.files, y))
  BY <1>1 DEF IInv, Exact, SiteOK, files
<1>3. ASSUME NEW type \in FileTypes, NEW s \in StatesOf(type),
             ReadLocal(type, s) \/ ReadStored(type, s)
      PROVE  UniqueOn(site'.files, x)
  <2>1. s \in FileState /\ "local" \in Sides /\ "stored" \in Sides
    BY DEF StatesOf, Sides
  <2>2. \A y \in Sides : UniqueOn(site.files, y)
    BY <1>2, <1>3 DEF ReadLocal, ReadStored
  <2>3. PICK side \in Sides : /\ NotSeen(side, s.filename)
                              /\ site' = file_set(site, side, type, s)
    BY <1>3, <2>1 DEF ReadLocal, ReadStored, file_set_local, file_set_stored
  <2>4. FreeBut(site.files, 0, side, s.filename)
    BY <2>3, NotSeenIsFree
  <2>5. QED
    BY <1>2, <2>1, <2>2, <2>3, <2>4, FileSetUnique
<1>4. CASE StartWork \/ FetchListing
  BY <1>1, <1>2, <1>4 DEF StartWork, FetchListing
<1>5. ASSUME NEW i \in DOMAIN files, DestroyStored(i)
      PROVE  UniqueOn(site'.files, x)
  BY <1>2, <1>5, DestroyStoredUnique DEF DestroyStored, files
<1>6. ASSUME NEW i \in DOMAIN files,
             Uploaded(i) \/ PermsSet(i) \/ Downloaded(i) \/ Deleted(i) \/ CatchUp(i)
      PROVE  FALSE
  BY <1>1, <1>6 DEF Uploaded, PermsSet, Downloaded, Deleted, CatchUp
<1>7. CASE UNCHANGED vars
  BY <1>1, <1>2, <1>7 DEF vars
<1>8. QED
  BY <1>1, <1>3, <1>4, <1>5, <1>6, <1>7 DEF Next, Merge

\* Every operation keeps the invariant.
LEMMA NextIInv == IInv /\ [Next]_vars => IInv'
<1>1. SUFFICES ASSUME IInv, [Next]_vars
               PROVE  IInv'
  OBVIOUS
<1>2. phase' \in {"scan", "work", "clear"}
  BY <1>1 DEF IInv, Next, vars, Merge, ReadLocal, ReadStored, StartWork, FetchListing,
              Uploaded, PermsSet, Downloaded, Deleted, CatchUp, DestroyStored
<1>3. Exact(site') /\ (phase' # "work" => \A x \in Sides : UniqueOn(site'.files, x))
  BY <1>1, NextExact, NextUnique
<1>4. QED
  BY <1>2, <1>3 DEF IInv, files

\* The invariant holds in every state.
LEMMA Invariance == Spec => []IInv
BY InitIInv, NextIInv, PTL DEF Spec

\* For every set of names, contents, modes and options, and every sequence of
\* operations on the list (sitefiles.c): the list has its type.
THEOREM ListTyped == Spec => []TypeOK
<1>1. IInv => TypeOK
  BY DEF IInv, Exact, SiteOK, TypeOK
<1>2. QED
  BY <1>1, Invariance, PTL

\* The diff that the loops of sites.c trust is what file_compare says of the
\* two states of the entry.
THEOREM ListCorrect == Spec => []DiffCorrect
<1>1. IInv => DiffCorrect
  BY DEF IInv, Exact, SiteOK, EntryOK, DiffCorrect, files
<1>2. QED
  BY <1>1, Invariance, PTL

\* No operation leaves an entry that stands for no file.
THEOREM NoEmptyEntry == Spec => []EveryEntryIsAFile
<1>1. IInv => EveryEntryIsAFile
  BY DEF IInv, Exact, SiteOK, EntryOK, EveryEntryIsAFile, files, Sides, Local, Stored
<1>2. QED
  BY <1>1, Invariance, PTL

\* The counters of struct site, adjusted around every change of one entry, are
\* at all times the numbers of the entries that they count.
THEOREM CountersCorrect == Spec => []CountersExact
<1>1. IInv => CountersExact
  BY DEF IInv, Exact, Counted, CountedBy, CountersExact, files
<1>2. QED
  BY <1>1, Invariance, PTL

\* The flags of site_stats_update say exactly whether there is anything to do:
\* act_on_site neither skips a site with changes nor updates one without.
THEOREM FlagsCorrect == Spec => []FlagsExact
<1>1. IInv => FlagsExact
  <2>1. SUFFICES ASSUME IInv PROVE FlagsExact
    OBVIOUS
  <2>2. site \in Site /\ Counted(site)
    BY <2>1 DEF IInv, Exact, SiteOK
  <2>3. QED
    BY <2>2, FlagsOfCounts DEF FlagsExact, files
<1>2. QED
  BY <1>1, Invariance, PTL

\* While states are merged, no name is in two entries of one side, however
\* often file_set shoves a state aside for a move or a rename.
THEOREM NamesUnique == Spec => []NoNameTwice
<1>1. IInv => NoNameTwice
  BY DEF IInv, UniqueOn, NoNameTwice, files
<1>2. QED
  BY <1>1, Invariance, PTL

-----------------------------------------------------------------------------
(* A merge loses nothing                                                   *)

\* Being in StatesIn, without the set.
LEMMA StatesInElement ==
  ASSUME NEW q, NEW side, NEW p
  PROVE  p \in StatesIn(q, side)
           <=> \E i \in DOMAIN q : q[i].st[side] # Absent /\ p = <<q[i].type, q[i].st[side]>>
BY DEF StatesIn

\* file_insert adds the state of the new entry and keeps the others.
LEMMA InsertedStates ==
  ASSUME NEW q \in Seq(Entry), NEW f \in Entry, NEW side
  PROVE  /\ StatesIn(q, side) \subseteq StatesIn(Inserted(q, f), side)
         /\ StatesIn(Inserted(q, f), side)
              \subseteq StatesIn(q, side) \cup {<<f.type, f.st[side]>>}
         /\ f.st[side] # Absent => <<f.type, f.st[side]>> \in StatesIn(Inserted(q, f), side)
         /\ f.st[side] = Absent => StatesIn(Inserted(q, f), side) \subseteq StatesIn(q, side)
<1> DEFINE r == Inserted(q, f)
<1>1. Len(q) \in Nat /\ DOMAIN q = 1 .. Len(q)
  OBVIOUS
<1>2. DOMAIN r = 1 .. Len(q) + 1
  BY <1>1, InsertShape
<1>3. /\ \A j \in DOMAIN q : \E k \in DOMAIN r : r[k] = q[j]
      /\ \A k \in DOMAIN r : r[k] = f \/ \E j \in DOMAIN q : r[k] = q[j]
      /\ \E k \in DOMAIN r : r[k] = f
  <2>1. CASE f.type = "dir"
    <3>1. \A j \in 1 .. Len(q) + 1 : r[j] = IF j = Len(q) + 1 THEN f ELSE q[j]
      BY <2>1, InsertShape
    <3> HIDE DEF r
    <3>2. \A j \in DOMAIN q : j \in DOMAIN r /\ r[j] = q[j]
      BY <1>1, <1>2, <3>1
    <3>3. \A k \in DOMAIN r : r[k] = f \/ (k \in DOMAIN q /\ r[k] = q[k])
      BY <1>1, <1>2, <3>1
    <3>4. Len(q) + 1 \in DOMAIN r /\ r[Len(q) + 1] = f
      BY <1>1, <1>2, <3>1
    <3>5. QED
      BY <3>2, <3>3, <3>4
  <2>2. CASE f.type # "dir"
    <3>1. \A j \in 1 .. Len(q) + 1 : r[j] = IF j = 1 THEN f ELSE q[j - 1]
      BY <2>2, InsertShape
    <3> HIDE DEF r
    <3>2. \A j \in DOMAIN q : j + 1 \in DOMAIN r /\ r[j + 1] = q[j]
      BY <1>1, <1>2, <3>1
    <3>3. \A k \in DOMAIN r : r[k] = f \/ (k - 1 \in DOMAIN q /\ r[k] = q[k - 1])
      BY <1>1, <1>2, <3>1
    <3>4. 1 \in DOMAIN r /\ r[1] = f
      BY <1>1, <1>2, <3>1
    <3>5. QED
      BY <3>2, <3>3, <3>4
  <2>3. QED
    BY <2>1, <2>2
<1> HIDE DEF r
<1>4. StatesIn(q, side) \subseteq StatesIn(r, side)
  BY <1>3, StatesInElement
<1>5. StatesIn(r, side) \subseteq StatesIn(q, side) \cup {<<f.type, f.st[side]>>}
  <2>1. SUFFICES ASSUME NEW p \in StatesIn(r, side), p # <<f.type, f.st[side]>>
                 PROVE  p \in StatesIn(q, side)
    OBVIOUS
  <2>2. QED
    BY <1>3, <2>1, StatesInElement
<1>6. f.st[side] # Absent => <<f.type, f.st[side]>> \in StatesIn(r, side)
  BY <1>3, StatesInElement
<1>7. f.st[side] = Absent => StatesIn(r, side) \subseteq StatesIn(q, side)
  BY <1>3, StatesInElement
<1>8. QED
  BY <1>4, <1>5, <1>6, <1>7 DEF r

\* file_set adds the new state on its side and nothing on the other, and keeps
\* every state, wherever it is shoved to.
LEMMA FileSetStates ==
  ASSUME NEW s \in Site, NEW side \in Sides, NEW type \in FileTypes,
         NEW state \in FileState, NEW x \in Sides
  PROVE  LET r == file_set(s, side, type, state).files
         IN  StatesIn(r, x) = StatesIn(s.files, x) \cup
                                (IF x = side THEN {<<type, state>>} ELSE {})
<1> DEFINE r == file_set(s, side, type, state).files
           added == IF x = side THEN {<<type, state>>} ELSE {}
<1>0. state # Absent
  BY ConstantsAssumption
<1>1. s.files \in Seq(Entry)
  BY DEF Site
<1>2. CASE \E ign \in BOOLEAN :
             /\ one_sided(type, side, state, ign) \in Entry
             /\ file_set(s, side, type, state) = add_entry(s, one_sided(type, side, state, ign))
  <2>1. PICK ign \in BOOLEAN :
          /\ one_sided(type, side, state, ign) \in Entry
          /\ file_set(s, side, type, state) = add_entry(s, one_sided(type, side, state, ign))
    BY <1>2
  <2> DEFINE f == one_sided(type, side, state, ign)
  <2>2. /\ f \in Entry /\ f.type = type
        /\ f.st[x] = IF x = side THEN state ELSE Absent
    BY <2>1 DEF one_sided
  <2>3. r = Inserted(s.files, f)
    BY <2>1, <2>2, AddEntryFiles
  <2> HIDE DEF f, r
  <2>4. /\ StatesIn(s.files, x) \subseteq StatesIn(r, x)
        /\ StatesIn(r, x) \subseteq StatesIn(s.files, x) \cup {<<f.type, f.st[x]>>}
        /\ f.st[x] # Absent => <<f.type, f.st[x]>> \in StatesIn(r, x)
        /\ f.st[x] = Absent => StatesIn(r, x) \subseteq StatesIn(s.files, x)
    BY <1>1, <2>2, <2>3, InsertedStates
  <2>5. StatesIn(r, x) = StatesIn(s.files, x) \cup added
    <3>1. CASE x = side
      BY <1>0, <2>2, <2>4, <3>1
    <3>2. CASE x # side
      BY <2>2, <2>4, <3>2
    <3>3. QED
      BY <3>1, <3>2
  <2>6. QED
    BY <2>5 DEF r
<1>3. CASE \E i \in DOMAIN s.files, diff \in Diffs :
             /\ s.files[i].type = type
             /\ s.files[i].st[OtherSide(side)] # Absent
             /\ file_set(s, side, type, state) = overwrite_entry(s, side, i, state, diff)
  <2>1. PICK i \in DOMAIN s.files, diff \in Diffs :
          /\ s.files[i].type = type
          /\ file_set(s, side, type, state) = overwrite_entry(s, side, i, state, diff)
    BY <1>3
  <2> DEFINE f  == Taken(s.files[i], side, state, diff)
             fs == [s.files EXCEPT ![i] = f]
             g  == Shoved(s.files[i], side)
             old == <<s.files[i].type, s.files[i].st[x]>>
  <2>2. s.files[i] \in Entry
    BY <1>1
  <2>3. f \in Entry /\ (s.files[i].st[side] # Absent => g \in Entry)
    BY <2>2, TakenType
  <2>4. fs \in Seq(Entry) /\ DOMAIN fs = DOMAIN s.files
    <3> HIDE DEF f
    <3>1. QED
      BY <1>1, <2>3
  <2>5. r = IF s.files[i].st[side] = Absent THEN fs ELSE Inserted(fs, g)
    BY <2>1, OverwriteShape
  <2>6. f.type = type /\ f.st[x] = IF x = side THEN state ELSE s.files[i].st[x]
    BY <2>1, <2>2 DEF Taken, Entry
  <2>7. g.type = type /\ g.st[x] = IF x = side THEN s.files[i].st[side] ELSE Absent
    BY <2>1 DEF Shoved, one_sided
  <2>8. \A j \in DOMAIN s.files : fs[j] = IF j = i THEN f ELSE s.files[j]
    OBVIOUS
  <2> HIDE DEF f, fs, g, r
  <2>9. StatesIn(fs, x) \subseteq StatesIn(s.files, x) \cup added
    <3>1. SUFFICES ASSUME NEW j \in DOMAIN fs, fs[j].st[x] # Absent
                   PROVE  <<fs[j].type, fs[j].st[x]>>
                            \in StatesIn(s.files, x) \cup added
      BY StatesInElement
    <3>2. CASE j = i /\ x = side
      BY <2>4, <2>6, <2>8, <3>2
    <3>3. CASE j = i /\ x # side
      <4>1. fs[j].type = s.files[i].type /\ fs[j].st[x] = s.files[i].st[x]
        BY <2>1, <2>4, <2>6, <2>8, <3>3
      <4>2. QED
        BY <3>1, <4>1, StatesInElement
    <3>4. CASE j # i
      <4>1. j \in DOMAIN s.files /\ fs[j] = s.files[j]
        BY <2>4, <2>8, <3>4
      <4>2. QED
        BY <3>1, <4>1, StatesInElement
    <3>5. QED
      BY <3>2, <3>3, <3>4
  <2>10. StatesIn(s.files, x) \ {old} \subseteq StatesIn(fs, x)
    <3>1. SUFFICES ASSUME NEW j \in DOMAIN s.files, s.files[j].st[x] # Absent, j # i
                   PROVE  <<s.files[j].type, s.files[j].st[x]>> \in StatesIn(fs, x)
      BY StatesInElement DEF old
    <3>2. j \in DOMAIN fs /\ fs[j] = s.files[j]
      BY <2>4, <2>8, <3>1
    <3>3. QED
      BY <3>1, <3>2, StatesInElement
  <2>11. old \in StatesIn(s.files, x) => old \in StatesIn(r, x)
    <3>1. SUFFICES ASSUME s.files[i].st[x] # Absent
                   PROVE  old \in StatesIn(r, x)
      <4>1. CASE s.files[i].st[x] = Absent
        <5>1. old \notin StatesIn(s.files, x)
          BY <4>1, StatesInElement DEF old
        <5>2. QED
          BY <5>1
      <4>2. QED
        BY <4>1
    <3>2. CASE x = side
      <4>1. r = Inserted(fs, g) /\ g \in Entry
        BY <2>3, <2>5, <3>1, <3>2
      <4>2. old = <<g.type, g.st[x]>> /\ g.st[x] # Absent
        BY <2>1, <2>7, <3>1, <3>2 DEF old
      <4>3. QED
        BY <2>4, <4>1, <4>2, InsertedStates
    <3>3. CASE x # side
      <4>1. i \in DOMAIN fs /\ old = <<fs[i].type, fs[i].st[x]>> /\ fs[i].st[x] # Absent
        BY <2>1, <2>4, <2>6, <2>8, <3>1, <3>3 DEF old
      <4>2. old \in StatesIn(fs, x)
        BY <4>1, StatesInElement
      <4>3. StatesIn(fs, x) \subseteq StatesIn(r, x)
        BY <2>3, <2>4, <2>5, InsertedStates
      <4>4. QED
        BY <4>2, <4>3
    <3>4. QED
      BY <3>2, <3>3
  <2>12. StatesIn(fs, x) \subseteq StatesIn(r, x)
    BY <2>3, <2>4, <2>5, InsertedStates
  <2>13. StatesIn(r, x) \subseteq StatesIn(s.files, x) \cup added
    <3>1. CASE s.files[i].st[side] = Absent
      BY <2>5, <2>9, <3>1
    <3>2. CASE s.files[i].st[side] # Absent
      <4>1. /\ StatesIn(r, x) \subseteq StatesIn(fs, x) \cup {<<g.type, g.st[x]>>}
            /\ g.st[x] = Absent => StatesIn(r, x) \subseteq StatesIn(fs, x)
        BY <2>3, <2>4, <2>5, <3>2, InsertedStates
      <4>2. CASE x = side
        <5>1. <<g.type, g.st[x]>> = <<s.files[i].type, s.files[i].st[x]>>
          BY <2>1, <2>7, <4>2
        <5>2. <<g.type, g.st[x]>> \in StatesIn(s.files, x)
          BY <3>2, <4>2, <5>1, StatesInElement
        <5>3. QED
          BY <2>9, <4>1, <5>2
      <4>3. CASE x # side
        BY <2>7, <2>9, <4>1, <4>3
      <4>4. QED
        BY <4>2, <4>3
    <3>3. QED
      BY <3>1, <3>2
  <2> HIDE DEF old
  <2>14. StatesIn(s.files, x) \subseteq StatesIn(r, x)
    BY <2>10, <2>11, <2>12
  <2>15. added \subseteq StatesIn(r, x)
    <3>1. SUFFICES ASSUME x = side
                   PROVE  <<type, state>> \in StatesIn(r, x)
      OBVIOUS
    <3>2. i \in DOMAIN fs /\ fs[i].st[x] # Absent /\ <<type, state>> = <<fs[i].type, fs[i].st[x]>>
      BY <1>0, <2>1, <2>4, <2>6, <2>8, <3>1
    <3>3. <<type, state>> \in StatesIn(fs, x)
      BY <3>2, StatesInElement
    <3>4. QED
      BY <2>12, <3>3
  <2>16. QED
    BY <2>13, <2>14, <2>15 DEF r
<1>4. QED
  BY <1>2, <1>3, FileSetShape

\* When no two entries have one name on a side, the states on it are a set.
LEMMA UniqueBag ==
  ASSUME NEW q \in Seq(Entry), NEW side \in Sides, UniqueOn(q, side)
  PROVE  StatesOn(q, side) = [p \in StatesIn(q, side) |-> 1]
<1>1. ASSUME NEW p \in StatesIn(q, side)
      PROVE  Cardinality({i \in DOMAIN q : q[i].st[side] # Absent
                                          /\ p = <<q[i].type, q[i].st[side]>>}) = 1
  <2>1. PICK i \in DOMAIN q : q[i].st[side] # Absent /\ p = <<q[i].type, q[i].st[side]>>
    BY StatesInElement
  <2>2. \A j \in DOMAIN q : q[j].st[side] # Absent /\ p = <<q[j].type, q[j].st[side]>> => j = i
    <3>1. SUFFICES ASSUME NEW j \in DOMAIN q, q[j].st[side] # Absent,
                          p = <<q[j].type, q[j].st[side]>>
                   PROVE  j = i
      OBVIOUS
    <3>2. q[j].st[side] = q[i].st[side]
      BY <2>1, <3>1
    <3>3. QED
      BY <2>1, <3>1, <3>2 DEF UniqueOn
  <2>3. {j \in DOMAIN q : q[j].st[side] # Absent /\ p = <<q[j].type, q[j].st[side]>>} = {i}
    BY <2>1, <2>2
  <2>4. QED
    BY <2>3, FS_Singleton, Zenon
<1>2. QED
  BY <1>1, Zenon DEF StatesOn

\* Reading one state, from disk, from the info file or from the server's
\* listing, adds that state to the list on its side, once, and changes nothing
\* of what else is known of either side, although file_set may move states from
\* entry to entry.
THEOREM MergeKeepsStates == Spec => []MergeLosesNothing
<1>1. IInv => MergeLosesNothing
  <2>1. SUFFICES ASSUME IInv, phase = "scan", NEW side \in Sides, NEW type \in FileTypes,
                        NEW state \in StatesOf(type), NotSeen(side, state.filename)
                 PROVE  LET new == file_set(site, side, type, state).files
                        IN  /\ StatesOn(new, side) = BagAdd(StatesOn(files, side), <<type, state>>)
                            /\ StatesOn(new, OtherSide(side)) = StatesOn(files, OtherSide(side))
    BY DEF MergeLosesNothing
  <2> DEFINE new == file_set(site, side, type, state).files
             other == OtherSide(side)
  <2>2. site \in Site /\ state \in FileState /\ (\A x \in Sides : UniqueOn(site.files, x))
    BY <2>1 DEF IInv, Exact, SiteOK, StatesOf, files
  <2>3. other \in Sides /\ other # side
    BY DEF OtherSide, Sides
  <2>4. FreeBut(site.files, 0, side, state.filename)
    BY <2>1, NotSeenIsFree
  <2>5. new \in Seq(Entry) /\ site.files \in Seq(Entry)
    <3>1. Exact(file_set(site, side, type, state))
      BY <2>1, <2>2, FileSetExact DEF IInv
    <3>2. QED
      BY <2>2, <3>1 DEF Exact, SiteOK, Site
  <2>6. \A x \in Sides : UniqueOn(new, x)
    BY <2>2, <2>4, FileSetUnique
  <2>7. /\ StatesIn(new, side) = StatesIn(site.files, side) \cup {<<type, state>>}
        /\ StatesIn(new, other) = StatesIn(site.files, other)
    <3>1. \A x \in Sides :
            StatesIn(new, x) = StatesIn(site.files, x) \cup (IF x = side THEN {<<type, state>>} ELSE {})
      BY <2>2, FileSetStates
    <3> HIDE DEF new, other
    <3>2. QED
      BY <2>3, <3>1
  <2> HIDE DEF new, other
  <2>8. /\ StatesOn(new, side) = [p \in StatesIn(new, side) |-> 1]
        /\ StatesOn(new, other) = [p \in StatesIn(new, other) |-> 1]
        /\ StatesOn(site.files, side) = [p \in StatesIn(site.files, side) |-> 1]
        /\ StatesOn(site.files, other) = [p \in StatesIn(site.files, other) |-> 1]
    BY <2>2, <2>3, <2>5, <2>6, UniqueBag
  <2>9. <<type, state>> \notin StatesIn(site.files, side)
    <3>1. SUFFICES ASSUME NEW i \in DOMAIN site.files, site.files[i].st[side] # Absent,
                          <<type, state>> = <<site.files[i].type, site.files[i].st[side]>>
                   PROVE  FALSE
      BY StatesInElement
    <3>2. 0 \notin DOMAIN site.files
      BY <2>5
    <3>3. QED
      BY <2>4, <3>1, <3>2 DEF FreeBut
  <2>10. StatesOn(new, side) = BagAdd(StatesOn(site.files, side), <<type, state>>)
    BY <2>7, <2>8, <2>9 DEF BagAdd
  <2>11. StatesOn(new, other) = StatesOn(site.files, other)
    BY <2>7, <2>8
  <2>12. QED
    BY <2>10, <2>11 DEF new, other, files
<1>2. QED
  BY <1>1, Invariance, PTL
=============================================================================
