--------------------------- MODULE FileList_lemmas ---------------------------
(***************************************************************************)
(* What the operators of the file list return, keep and bound, for every   *)
(* set of names, contents, modes and options.  The proofs about the        *)
(* modules that use the list cite these lemmas by name.                    *)
(***************************************************************************)
EXTENDS Storage, Folds_lemmas, SequenceTheorems, FiniteSetTheorems

-----------------------------------------------------------------------------
(* Every entry is exact                                                    *)

\* What the list promises of one entry.
EntryOK(f, s) ==
  /\ f \in Entry
  /\ f.diff = file_compare(f.type, Local(f), Stored(f), s)
  /\ Local(f) # Absent \/ Stored(f) # Absent

\* ... and of a whole site.
SiteOK(s) ==
  /\ s \in Site
  /\ \A i \in DOMAIN s.files : EntryOK(s.files[i], s)

\* Comparing two states (file_compare) reads nothing of the site but its options.
LEMMA CompareReadsOptions ==
  ASSUME NEW s, NEW t, s.opt = t.opt,
         NEW type, NEW a, NEW b
  PROVE  file_compare(type, a, b, s) = file_compare(type, a, b, t)
BY DEF file_compare, states_differ, perms_compared

\* file_compare returns one of the five values of enum file_diff.
LEMMA CompareType ==
  ASSUME NEW s, NEW type, NEW a, NEW b
  PROVE  file_compare(type, a, b, s) \in Diffs
BY DEF file_compare, Diffs

\* site_stats_increase and site_stats_decrease change nothing but the counters.
LEMMA CountEntry ==
  ASSUME NEW s \in Site, NEW f \in Entry, NEW sign \in Int
  PROVE  /\ count_entry(s, f, sign) \in Site
         /\ count_entry(s, f, sign).files = s.files
         /\ count_entry(s, f, sign).opt = s.opt
<1>1. StatKey(f) \in Counters
  BY DEF StatKey, Counters, Entry, Diffs
<1>2. LocalSize(f) \in Int
  BY ConstantsAssumption DEF LocalSize, Entry, Sides, FileState, Local
<1> DEFINE n == [s.num EXCEPT ![StatKey(f)] = @ + sign]
           t == [k \in {"new", "changed"} |->
                   IF k = StatKey(f) THEN s.total[k] + sign * LocalSize(f)
                   ELSE s.total[k]]
<1>3. n \in [Counters -> Int]
  BY <1>1 DEF Site
<1>4. t \in [{"new", "changed"} -> Int]
  <2>1. sign * LocalSize(f) \in Int
    BY <1>2
  <2>2. QED
    BY <2>1 DEF Site
<1>5. count_entry(s, f, sign) = [files |-> s.files, num |-> n, total |-> t, opt |-> s.opt]
  BY DEF count_entry
<1> HIDE DEF n, t
<1>6. QED
  BY <1>3, <1>4, <1>5 DEF Site

\* Counting an entry in or out disturbs no entry of the list.
LEMMA CountEntryOK ==
  ASSUME NEW s, SiteOK(s), NEW f \in Entry, NEW sign \in Int
  PROVE  SiteOK(count_entry(s, f, sign))
BY CountEntry, CompareReadsOptions DEF SiteOK, EntryOK

\* A list of good entries makes a good site.
LEMMA WithFiles ==
  ASSUME NEW s \in Site, NEW fs \in Seq(Entry),
         \A i \in DOMAIN fs : EntryOK(fs[i], s)
  PROVE  /\ SiteOK([s EXCEPT !.files = fs])
         /\ [s EXCEPT !.files = fs].files = fs
         /\ [s EXCEPT !.files = fs].opt = s.opt
<1> DEFINE t == [s EXCEPT !.files = fs]
<1>1. t \in Site /\ t.files = fs /\ t.opt = s.opt
  BY DEF Site
<1> HIDE DEF t
<1>2. SiteOK(t)
  BY <1>1, CompareReadsOptions DEF SiteOK, EntryOK
<1>3. QED
  BY <1>1, <1>2 DEF t

\* The list without entry i, as file_delete leaves it.
Removed(q, i) == SubSeq(q, 1, i - 1) \o SubSeq(q, i + 1, Len(q))

\* file_delete unlinks entry i and keeps the order of the others.
LEMMA RemoveShape ==
  ASSUME NEW S, NEW q \in Seq(S), NEW i \in 1 .. Len(q)
  PROVE  /\ Removed(q, i) \in Seq(S)
         /\ Len(Removed(q, i)) = Len(q) - 1
         /\ \A j \in 1 .. Len(q) - 1 :
               Removed(q, i)[j] = IF j < i THEN q[j] ELSE q[j + 1]
<1> DEFINE left  == SubSeq(q, 1, i - 1)
           right == SubSeq(q, i + 1, Len(q))
<1>1. /\ left \in Seq(S) /\ Len(left) = i - 1
      /\ \A j \in 1 .. i - 1 : left[j] = q[j]
  BY SubSeqProperties
<1>2. /\ right \in Seq(S) /\ Len(right) = Len(q) - i
      /\ \A j \in 1 .. Len(q) - i : right[j] = q[i + j]
  BY SubSeqProperties
<1> HIDE DEF left, right
<1> DEFINE both == left \o right
<1>3. /\ both \in Seq(S)
      /\ Len(both) = Len(left) + Len(right)
      /\ \A j \in 1 .. Len(left) + Len(right) :
           both[j] = IF j <= Len(left) THEN left[j] ELSE right[j - Len(left)]
  BY <1>1, <1>2, ConcatProperties, Zenon
<1>4. Removed(q, i) = both
  BY DEF left, right, Removed
<1> HIDE DEF both
<1>5. Len(q) \in Nat /\ i \in Nat /\ Len(left) + Len(right) = Len(q) - 1
  BY <1>1, <1>2
<1>6. ASSUME NEW j \in 1 .. Len(q) - 1
      PROVE  both[j] = IF j < i THEN q[j] ELSE q[j + 1]
  <2>1. both[j] = IF j <= i - 1 THEN left[j] ELSE right[j - (i - 1)]
    BY <1>1, <1>3, <1>5
  <2>2. CASE j < i
    BY <1>1, <1>5, <2>1, <2>2
  <2>3. CASE j >= i
    <3>1. j - (i - 1) \in 1 .. Len(q) - i /\ i + (j - (i - 1)) = j + 1
      BY <1>5, <2>3
    <3>2. right[j - (i - 1)] = q[j + 1]
      BY <1>2, <3>1
    <3>3. QED
      BY <1>5, <2>1, <2>3, <3>2
  <2>4. QED
    BY <1>5, <2>2, <2>3
<1>7. QED
  BY <1>3, <1>4, <1>5, <1>6

\* The list with a new entry: a directory at the tail, all else at the head.
Inserted(q, f) == IF f.type = "dir" THEN Append(q, f) ELSE <<f>> \o q

\* file_insert links the new entry in at one end and keeps the order of the others.
LEMMA InsertShape ==
  ASSUME NEW q \in Seq(Entry), NEW f \in Entry
  PROVE  /\ Inserted(q, f) \in Seq(Entry)
         /\ Len(Inserted(q, f)) = Len(q) + 1
         /\ f.type = "dir" => \A j \in 1 .. Len(q) + 1 :
               Inserted(q, f)[j] = IF j = Len(q) + 1 THEN f ELSE q[j]
         /\ f.type # "dir" => \A j \in 1 .. Len(q) + 1 :
               Inserted(q, f)[j] = IF j = 1 THEN f ELSE q[j - 1]
<1>1. CASE f.type = "dir"
  BY <1>1, AppendProperties DEF Inserted
<1>2. CASE f.type # "dir"
  BY <1>2, ConcatProperties DEF Inserted
<1>3. QED
  BY <1>1, <1>2

\* file_insert adds one good entry and keeps the others.
LEMMA InsertOK ==
  ASSUME NEW s, SiteOK(s), NEW f, EntryOK(f, s)
  PROVE  /\ SiteOK(file_insert(s, f))
         /\ file_insert(s, f).files = Inserted(s.files, f)
         /\ file_insert(s, f).opt = s.opt
<1>1. s \in Site /\ f \in Entry /\ s.files \in Seq(Entry)
  BY DEF SiteOK, EntryOK, Site
<1> DEFINE fs == Inserted(s.files, f)
<1>2. fs \in Seq(Entry) /\ \A j \in DOMAIN fs : EntryOK(fs[j], s)
  <2>1. /\ fs \in Seq(Entry)
        /\ Len(fs) = Len(s.files) + 1
        /\ f.type = "dir" => \A j \in 1 .. Len(s.files) + 1 :
              fs[j] = IF j = Len(s.files) + 1 THEN f ELSE s.files[j]
        /\ f.type # "dir" => \A j \in 1 .. Len(s.files) + 1 :
              fs[j] = IF j = 1 THEN f ELSE s.files[j - 1]
    BY <1>1, InsertShape
  <2> HIDE DEF fs
  <2>2. SUFFICES ASSUME NEW j \in 1 .. Len(s.files) + 1
                 PROVE  EntryOK(fs[j], s)
    BY <1>1, <2>1
  <2>3. CASE f.type = "dir"
    BY <1>1, <2>1, <2>3 DEF SiteOK
  <2>4. CASE f.type # "dir"
    BY <1>1, <2>1, <2>4 DEF SiteOK
  <2>5. QED
    BY <2>3, <2>4
<1>3. file_insert(s, f) = [s EXCEPT !.files = fs]
  BY DEF file_insert, Inserted
<1> HIDE DEF fs
<1>4. QED
  BY <1>1, <1>2, <1>3, WithFiles DEF fs

\* file_replace: entry i is exchanged, the others stay.
LEMMA ReplaceOK ==
  ASSUME NEW s \in Site, NEW i \in DOMAIN s.files, NEW f, EntryOK(f, s),
         \A j \in DOMAIN s.files : j # i => EntryOK(s.files[j], s)
  PROVE  /\ SiteOK(file_replace(s, i, f))
         /\ file_replace(s, i, f).opt = s.opt
<1> DEFINE fs == [s.files EXCEPT ![i] = f]
<1>1. fs \in Seq(Entry) /\ \A j \in DOMAIN fs : EntryOK(fs[j], s)
  BY ExceptSeq DEF Site, EntryOK
<1>2. QED
  BY <1>1, WithFiles DEF file_replace

\* file_delete removes entry i and nothing else.
LEMMA DeleteOK ==
  ASSUME NEW s, SiteOK(s), NEW i \in DOMAIN s.files
  PROVE  SiteOK(file_delete(s, i))
<1> DEFINE fs == Removed(s.files, i)
<1>1. s \in Site /\ s.files \in Seq(Entry) /\ i \in 1 .. Len(s.files)
  BY DEF SiteOK, Site
<1>2. fs \in Seq(Entry) /\ \A j \in DOMAIN fs : EntryOK(fs[j], s)
  <2>1. /\ fs \in Seq(Entry) /\ Len(fs) = Len(s.files) - 1
        /\ \A j \in 1 .. Len(s.files) - 1 :
              fs[j] = IF j < i THEN s.files[j] ELSE s.files[j + 1]
    BY <1>1, RemoveShape
  <2> HIDE DEF fs
  <2>2. QED
    BY <1>1, <2>1 DEF SiteOK
<1>3. file_delete(s, i) = count_entry([s EXCEPT !.files = fs], s.files[i], -1)
  BY DEF file_delete, site_stats_decrease, Removed
<1> HIDE DEF fs
<1>4. SiteOK([s EXCEPT !.files = fs]) /\ s.files[i] \in Entry
  BY <1>1, <1>2, WithFiles
<1>5. QED
  BY <1>3, <1>4, CountEntryOK

\* file_set_diff makes the diff of entry i exact again; it may be wrong before.
LEMMA SetDiffOK ==
  ASSUME NEW s \in Site, NEW i \in DOMAIN s.files,
         Local(s.files[i]) # Absent \/ Stored(s.files[i]) # Absent,
         \A j \in DOMAIN s.files : j # i => EntryOK(s.files[j], s)
  PROVE  SiteOK(file_set_diff(s, i))
<1> DEFINE f == s.files[i]
           g == [f EXCEPT !.diff = file_compare(f.type, Local(f), Stored(f), s)]
           t == count_entry(count_entry(s, f, -1), g, 1)
<1>1. f \in Entry
  BY DEF Site
<1>2. g \in Entry /\ EntryOK(g, s)
  BY <1>1, CompareType DEF Entry, EntryOK, Local, Stored
<1>3. t \in Site /\ t.files = s.files /\ t.opt = s.opt
  <2> HIDE DEF f, g
  <2>1. QED
    BY <1>1, <1>2, CountEntry
<1>4. file_set_diff(s, i) = file_replace(t, i, g)
  BY DEF file_set_diff, site_stats_increase, site_stats_decrease
<1> HIDE DEF f, g, t
<1>5. /\ EntryOK(g, t)
      /\ \A j \in DOMAIN t.files : j # i => EntryOK(t.files[j], t)
  BY <1>2, <1>3, CompareReadsOptions DEF EntryOK
<1>6. QED
  BY <1>3, <1>4, <1>5, ReplaceOK

\* An entry whose states are changed and then compared again is exact.
LEMMA SetStatesOK ==
  ASSUME NEW s, SiteOK(s), NEW i \in DOMAIN s.files,
         NEW st \in [Sides -> FileState \cup {Absent}],
         st["local"] # Absent \/ st["stored"] # Absent
  PROVE  SiteOK(set_states(s, i, st))
<1> DEFINE g == [s.files[i] EXCEPT !.st = st]
           fs == [s.files EXCEPT ![i] = g]
           t == [s EXCEPT !.files = fs]
<1>1. /\ s \in Site /\ s.files \in Seq(Entry) /\ s.files[i] \in Entry
      /\ i \in 1 .. Len(s.files)
  BY DEF SiteOK, Site
<1>2. g \in Entry /\ g.st = st
  BY <1>1 DEF Entry
<1> HIDE DEF g
<1>3. /\ fs \in Seq(Entry) /\ fs[i] = g /\ DOMAIN fs = DOMAIN s.files
      /\ \A j \in DOMAIN s.files : j # i => fs[j] = s.files[j]
  BY <1>1, <1>2, ExceptSeq
<1> HIDE DEF fs
<1>4. t \in Site /\ t.files = fs /\ t.opt = s.opt
  BY <1>1, <1>3 DEF Site
<1>5. set_states(s, i, st) = file_set_diff(t, i)
  BY DEF set_states, file_replace, fs, g
<1> HIDE DEF t
<1>6. /\ i \in DOMAIN t.files
      /\ Local(t.files[i]) # Absent \/ Stored(t.files[i]) # Absent
      /\ \A j \in DOMAIN t.files : j # i => EntryOK(t.files[j], t)
  BY <1>2, <1>3, <1>4, CompareReadsOptions DEF SiteOK, EntryOK, Local, Stored
<1>7. QED
  BY <1>4, <1>5, <1>6, SetDiffOK

-----------------------------------------------------------------------------
(* file_set                                                                *)

\* An entry made for one side only is new or deleted, as its diff says.
LEMMA OneSidedOK ==
  ASSUME NEW s, NEW type \in FileTypes, NEW side \in Sides,
         NEW state \in FileState, NEW ign \in BOOLEAN
  PROVE  EntryOK(one_sided(type, side, state, ign), s)
<1> DEFINE f == one_sided(type, side, state, ign)
<1>1. f \in Entry
  BY DEF one_sided, default_diff, Entry, Sides, Diffs
<1>2. CASE side = "local"
  BY <1>1, <1>2, ConstantsAssumption
     DEF EntryOK, one_sided, default_diff, file_compare, Local, Stored, Sides
<1>3. CASE side = "stored"
  BY <1>1, <1>3, ConstantsAssumption
     DEF EntryOK, one_sided, default_diff, file_compare, Local, Stored, Sides
<1>4. QED
  BY <1>2, <1>3 DEF Sides

\* add_entry: the entry is inserted and counted.
LEMMA AddEntryOK ==
  ASSUME NEW s, SiteOK(s), NEW f, EntryOK(f, s)
  PROVE  SiteOK(add_entry(s, f))
BY InsertOK, CountEntryOK DEF add_entry, site_stats_increase, EntryOK

\* When both states exist, file_compare does not depend on their order: the
\* local state may be merged after the stored one or before it.
LEMMA CompareSymmetric ==
  ASSUME NEW s, NEW type \in FileTypes, NEW a, NEW b, a # Absent, b # Absent
  PROVE  file_compare(type, a, b, s) = file_compare(type, b, a, s)
BY DEF file_compare, states_differ, perms_compared, FileTypes

\* overwrite_entry: a state that exists on the other side is compared with the
\* new one; a state that is shoved aside gets an entry of its own.
LEMMA OverwriteOK ==
  ASSUME NEW s, SiteOK(s), NEW i \in DOMAIN s.files, NEW side \in Sides,
         NEW state \in FileState,
         s.files[i].st[OtherSide(side)] # Absent,
         NEW diff,
         diff = file_compare(s.files[i].type, state, s.files[i].st[OtherSide(side)], s)
  PROVE  SiteOK(overwrite_entry(s, side, i, state, diff))
<1> DEFINE old  == s.files[i]
           new  == [type |-> old.type, diff |-> diff, ignore |-> old.ignore,
                    st |-> [old.st EXCEPT ![side] = state], server |-> old.server]
           t    == count_entry(s, old, -1)
           u    == file_replace(t, i, new)
           done == count_entry(u, new, 1)
           shov == one_sided(old.type, side, old.st[side], old.ignore)
<1>1. s \in Site /\ old \in Entry
  BY DEF SiteOK, Site
<1>2. new \in Entry
  BY <1>1, CompareType DEF Entry
<1>3. EntryOK(new, s)
  <2>1. state # Absent
    BY ConstantsAssumption
  <2>2. CASE side = "local"
    BY <1>1, <1>2, <2>1, <2>2 DEF EntryOK, Local, Stored, OtherSide, Sides, Entry
  <2>3. CASE side = "stored"
    <3>1. diff = file_compare(old.type, old.st["local"], state, s)
      BY <1>1, <2>1, <2>3, CompareSymmetric DEF OtherSide, Entry
    <3>2. QED
      BY <1>1, <1>2, <2>1, <2>3, <3>1 DEF EntryOK, Local, Stored, OtherSide, Sides, Entry
  <2>4. QED
    BY <2>2, <2>3 DEF Sides
<1>4. t \in Site /\ t.files = s.files /\ t.opt = s.opt
  BY <1>1, CountEntry
<1> HIDE DEF new, t
<1>5. /\ EntryOK(new, t)
      /\ \A j \in DOMAIN t.files : j # i => EntryOK(t.files[j], t)
  BY <1>3, <1>4, CompareReadsOptions DEF SiteOK, EntryOK
<1>6. SiteOK(u)
  BY <1>4, <1>5, ReplaceOK
<1> HIDE DEF u
<1>7. SiteOK(done)
  BY <1>2, <1>6, CountEntryOK
<1>8. overwrite_entry(s, side, i, state, diff)
        = IF old.st[side] = Absent THEN done ELSE add_entry(done, shov)
  BY DEF overwrite_entry, site_stats_increase, site_stats_decrease, new, t, u
<1> HIDE DEF done
<1>9. CASE old.st[side] = Absent
  BY <1>7, <1>8, <1>9
<1>10. CASE old.st[side] # Absent
  <2>1. old.type \in FileTypes /\ old.ignore \in BOOLEAN /\ old.st[side] \in FileState
    BY <1>1, <1>10 DEF Entry
  <2>2. EntryOK(shov, done)
    BY <2>1, OneSidedOK
  <2> HIDE DEF old, shov
  <2>3. QED
    BY <1>7, <1>8, <1>10, <2>2, AddEntryOK
<1>11. QED
  BY <1>9, <1>10

\* The result of a search of the list is an entry that matches, if there is one.
LEMMA FirstFound ==
  ASSUME NEW n \in Nat, NEW S \in SUBSET (1 .. n), S # {}
  PROVE  First(S) \in S /\ First(S) # 0
<1>1. S # {}
  OBVIOUS
<1>2. \E x \in S : \A y \in S : x =< y
  <2> DEFINE R == {ss \in Nat \X Nat : ss[1] < ss[2]}
  <2>1. IsWellFoundedOn(R, Nat)
    BY NatLessThanWellFounded, Zenon DEF OpToRel
  <2> HIDE DEF R
  <2>0. S \subseteq Nat
    OBVIOUS
  <2>2. PICK x \in S : \A y \in S : ~(<<y, x>> \in R)
    BY <1>1, <2>0, <2>1, WFMin, Zenon
  <2>3. ASSUME NEW y \in S PROVE x =< y
    <3>1. x \in Nat /\ y \in Nat
      BY <2>0
    <3>2. y < x => <<y, x>> \in R
      BY <3>1 DEF R
    <3>3. QED
      BY <2>2, <3>1, <3>2
  <2>4. QED
    BY <2>3
<1>3. First(S) \in S
  BY <1>1, <1>2 DEF First, Min
<1>4. QED
  BY <1>3

\* ... and none otherwise.
LEMMA FirstInSet ==
  ASSUME NEW n \in Nat, NEW S \in SUBSET (1 .. n), First(S) # 0
  PROVE  First(S) \in S
<1>1. S # {}
  BY DEF First
<1>2. QED
  BY <1>1, FirstFound

\* The direct match of file_set has the type of the new state, and a state on
\* the other side to compare it with.
LEMMA DirectMatch ==
  ASSUME NEW s \in Site, NEW side, NEW type, NEW state,
         direct_match(s, side, type, state) # 0
  PROVE  LET i == direct_match(s, side, type, state)
         IN  /\ i \in DOMAIN s.files
             /\ s.files[i].type = type
             /\ s.files[i].st[OtherSide(side)] # Absent
<1> DEFINE S == {i \in DOMAIN s.files :
                   /\ s.files[i].type = type
                   /\ s.files[i].st[OtherSide(side)] # Absent
                   /\ s.files[i].st[OtherSide(side)].filename = state.filename}
<1>1. direct_match(s, side, type, state) = First(S)
  BY DEF direct_match
<1>2. Len(s.files) \in Nat /\ S \in SUBSET (1 .. Len(s.files))
  BY DEF Site
<1>3. First(S) \in S
  <2> HIDE DEF S
  <2>1. QED
    BY <1>1, <1>2, FirstInSet
<1>4. QED
  BY <1>1, <1>3

\* The moved match of file_set is an entry of type file that the new state is a
\* moved copy of.
LEMMA MovedMatch ==
  ASSUME NEW s \in Site, NEW side, NEW type, NEW state,
         moved_match(s, side, type, state) # 0
  PROVE  LET i == moved_match(s, side, type, state)
         IN  /\ i \in DOMAIN s.files
             /\ type = "file" /\ s.files[i].type = "file"
             /\ file_compare("file", state, s.files[i].st[OtherSide(side)], s) = "moved"
<1> DEFINE C == move_candidates(s, side, type, state)
           E == {i \in C : BaseName[s.files[i].st[OtherSide(side)].filename]
                              = BaseName[state.filename]}
           m == moved_match(s, side, type, state)
<1>1. C \in SUBSET (1 .. Len(s.files)) /\ Len(s.files) \in Nat
  BY DEF Site, move_candidates
<1>2. m = IF E # {} THEN First(E) ELSE IF s.opt.checkrenames THEN First(C) ELSE 0
  BY DEF moved_match
<1>3. E \in SUBSET (1 .. Len(s.files))
  BY <1>1
<1>4. m \in C
  <2>1. CASE E # {}
    <3>1. First(E) \in E
      <4> HIDE DEF C, E, m
      <4>1. QED
        BY <1>1, <1>2, <1>3, <2>1, FirstInSet DEF m
    <3>2. QED
      BY <1>2, <2>1, <3>1
  <2>2. CASE E = {}
    <3> HIDE DEF C, E
    <3>1. QED
      BY <1>1, <1>2, <2>2, FirstInSet
  <2>3. QED
    BY <2>1, <2>2
<1>5. QED
  BY <1>4 DEF move_candidates

\* file_set keeps every entry exact, whichever of its cases it takes.
LEMMA FileSetOK ==
  ASSUME NEW s, SiteOK(s), NEW side \in Sides, NEW type \in FileTypes,
         NEW state \in FileState
  PROVE  SiteOK(file_set(s, side, type, state))
<1> DEFINE d   == direct_match(s, side, type, state)
           m   == moved_match(s, side, type, state)
           dd  == direct_diff(s, side, type, state, d)
           c   == chosen_entry(s, side, type, state)
           ign == type = "file" /\ file_isignored(state.filename)
<1>0. s \in Site /\ state # Absent
  BY ConstantsAssumption DEF SiteOK
<1>1. file_set(s, side, type, state) =
        IF c = 0 THEN add_entry(s, one_sided(type, side, state, ign))
        ELSE overwrite_entry(s, side, c, state, IF c = d THEN dd ELSE "moved")
  BY DEF file_set
<1>2. ign \in BOOLEAN
  BY DEF file_isignored
<1>3. m # 0 => /\ m \in DOMAIN s.files
               /\ type = "file" /\ s.files[m].type = "file"
               /\ file_compare("file", state, s.files[m].st[OtherSide(side)], s) = "moved"
  BY <1>0, MovedMatch
<1>4. d # 0 => /\ d \in DOMAIN s.files
               /\ s.files[d].type = type
               /\ s.files[d].st[OtherSide(side)] # Absent
  BY <1>0, DirectMatch
<1>5. d # 0 => dd = file_compare(type, state, s.files[d].st[OtherSide(side)], s)
  BY DEF direct_diff
<1>6. c # 0 => c = m \/ c = d
  BY DEF chosen_entry
<1> HIDE DEF d, m, dd, c, ign
<1>7. CASE c = 0
  <2>1. EntryOK(one_sided(type, side, state, ign), s)
    BY <1>2, OneSidedOK
  <2>2. QED
    BY <1>1, <1>7, <2>1, AddEntryOK
<1>8. CASE c # 0 /\ c = d
  <2>1. SiteOK(overwrite_entry(s, side, d, state, dd))
    BY <1>4, <1>5, <1>8, OverwriteOK
  <2>2. QED
    BY <1>1, <1>8, <2>1
<1>9. CASE c # 0 /\ c # d
  <2>1. c = m /\ m # 0
    BY <1>6, <1>9
  <2>2. s.files[m].st[OtherSide(side)] # Absent
    BY <1>0, <1>3, <2>1 DEF file_compare
  <2>3. SiteOK(overwrite_entry(s, side, m, state, "moved"))
    BY <1>3, <2>1, <2>2, OverwriteOK
  <2>4. QED
    BY <1>1, <1>9, <2>1, <2>3
<1>10. QED
  BY <1>7, <1>8, <1>9

-----------------------------------------------------------------------------
(* The counters are exact                                                  *)

\* The places of the entries that the counter k counts.
CountedBy(q, k) == {i \in DOMAIN q : StatKey(q[i]) = k}

\* What one entry contributes to the counter k.
One(f, k) == IF StatKey(f) = k THEN 1 ELSE 0

\* Every counter is the number of entries that it counts.
Counted(s) == \A k \in Counters : s.num[k] = Cardinality(CountedBy(s.files, k))

\* The entries that a counter counts can be counted.
LEMMA CountedByFinite ==
  ASSUME NEW q \in Seq(Entry), NEW k
  PROVE  /\ IsFiniteSet(CountedBy(q, k))
         /\ Cardinality(CountedBy(q, k)) \in Nat
<1>1. IsFiniteSet(1 .. Len(q)) /\ CountedBy(q, k) \subseteq 1 .. Len(q)
  BY FS_Interval DEF CountedBy
<1>2. IsFiniteSet(CountedBy(q, k))
  BY <1>1, FS_Subset
<1>3. QED
  BY <1>2, FS_CardinalityType

\* Exchanging one entry moves it from one counter to another.
LEMMA CountReplaced ==
  ASSUME NEW q \in Seq(Entry), NEW i \in DOMAIN q, NEW f \in Entry, NEW k
  PROVE  Cardinality(CountedBy([q EXCEPT ![i] = f], k))
           = Cardinality(CountedBy(q, k)) - One(q[i], k) + One(f, k)
<1> DEFINE r == [q EXCEPT ![i] = f]
           A == CountedBy(q, k)
           B == CountedBy(q, k) \ {i}
<1>1. r \in Seq(Entry) /\ DOMAIN r = DOMAIN q /\ r[i] = f
      /\ \A j \in DOMAIN q : j # i => r[j] = q[j]
  BY ExceptSeq
<1> HIDE DEF r
<1>2. IsFiniteSet(A) /\ Cardinality(A) \in Nat
  BY CountedByFinite
<1>3. Cardinality(B) = Cardinality(A) - One(q[i], k) /\ IsFiniteSet(B)
  <2>1. i \in A <=> StatKey(q[i]) = k
    BY DEF CountedBy
  <2> HIDE DEF A
  <2>2. QED
    BY <1>2, <2>1, FS_RemoveElement DEF One, A
<1>4. CASE StatKey(f) = k
  <2>1. CountedBy(r, k) = B \cup {i}
    BY <1>1, <1>4 DEF CountedBy
  <2>2. i \notin B
    OBVIOUS
  <2> HIDE DEF B
  <2>3. Cardinality(B \cup {i}) = Cardinality(B) + 1
    BY <1>3, <2>2, FS_AddElement
  <2>4. QED
    BY <1>2, <1>3, <1>4, <2>1, <2>3 DEF One, r
<1>5. CASE StatKey(f) # k
  <2>1. CountedBy(r, k) = B
    BY <1>1, <1>5 DEF CountedBy
  <2> HIDE DEF B
  <2>2. QED
    BY <1>2, <1>3, <1>5, <2>1 DEF One, r
<1>6. QED
  BY <1>4, <1>5

\* Two sets have the same size when every element of the one has its own
\* element of the other.
LEMMA SameSize ==
  ASSUME NEW S, NEW T, NEW g \in [S -> T], IsFiniteSet(S),
         \A a, b \in S : g[a] = g[b] => a = b,
         \A c \in T : \E a \in S : g[a] = c
  PROVE  Cardinality(T) = Cardinality(S) /\ IsFiniteSet(T)
<1>1. g \in Bijection(S, T)
  BY DEF Bijection, Injection, Surjection, IsInjective
<1>2. ExistsBijection(S, T)
  BY <1>1 DEF ExistsBijection
<1>3. QED
  BY <1>2, FS_Bijection

\* file_insert adds one entry to what its counter counts.
LEMMA CountInserted ==
  ASSUME NEW q \in Seq(Entry), NEW f \in Entry, NEW k
  PROVE  Cardinality(CountedBy(Inserted(q, f), k)) = Cardinality(CountedBy(q, k)) + One(f, k)
<1> DEFINE r == Inserted(q, f)
           A == CountedBy(q, k)
<1>0. Len(q) \in Nat
  OBVIOUS
<1>1. /\ r \in Seq(Entry) /\ Len(r) = Len(q) + 1
      /\ f.type = "dir" => \A j \in 1 .. Len(q) + 1 :
            r[j] = IF j = Len(q) + 1 THEN f ELSE q[j]
      /\ f.type # "dir" => \A j \in 1 .. Len(q) + 1 :
            r[j] = IF j = 1 THEN f ELSE q[j - 1]
  BY InsertShape, Zenon
<1> HIDE DEF r
<1>2. DOMAIN r = 1 .. Len(q) + 1 /\ DOMAIN q = 1 .. Len(q)
  BY <1>0, <1>1
<1>3. IsFiniteSet(A) /\ Cardinality(A) \in Nat
  BY CountedByFinite
<1>4. CASE f.type = "dir"
  <2>1. Len(q) + 1 \notin A
    BY <1>0, <1>2 DEF CountedBy
  <2>2. CountedBy(r, k) = IF StatKey(f) = k THEN A \cup {Len(q) + 1} ELSE A
    BY <1>0, <1>1, <1>2, <1>4 DEF CountedBy
  <2> HIDE DEF A
  <2>3. Cardinality(A \cup {Len(q) + 1}) = Cardinality(A) + 1
    BY <1>3, <2>1, FS_AddElement
  <2>4. QED
    BY <1>3, <2>2, <2>3 DEF One, A, r
<1>5. CASE f.type # "dir"
  <2> DEFINE B == {j \in 2 .. Len(q) + 1 : StatKey(q[j - 1]) = k}
             g == [j \in A |-> j + 1]
  <2>1. /\ g \in [A -> B]
        /\ \A a, b \in A : g[a] = g[b] => a = b
        /\ \A c \in B : \E a \in A : g[a] = c
    <3>1. A \subseteq 1 .. Len(q)
      BY <1>2 DEF CountedBy
    <3>2. \A j \in A : j + 1 \in B
      BY <1>0, <1>2 DEF CountedBy
    <3>3. \A c \in B : c - 1 \in A /\ (c - 1) + 1 = c
      BY <1>0, <1>2 DEF CountedBy
    <3> HIDE DEF A, B
    <3>4. g \in [A -> B] /\ \A a \in A : g[a] = a + 1
      BY <3>2
    <3> HIDE DEF g
    <3>5. \A a, b \in A : g[a] = g[b] => a = b
      BY <1>0, <3>1, <3>4
    <3>6. \A c \in B : g[c - 1] = c
      BY <3>3, <3>4
    <3>7. QED
      BY <3>3, <3>4, <3>5, <3>6
  <2> HIDE DEF g, A
  <2>2. IsFiniteSet(B) /\ Cardinality(B) = Cardinality(A)
    <3> HIDE DEF B
    <3>1. QED
      BY <1>3, <2>1, SameSize
  <2>3. CountedBy(r, k) = IF StatKey(f) = k THEN B \cup {1} ELSE B
    BY <1>0, <1>1, <1>2, <1>5 DEF CountedBy
  <2>4. 1 \notin B
    BY <1>0
  <2> HIDE DEF B
  <2>5. Cardinality(B \cup {1}) = Cardinality(B) + 1
    BY <2>2, <2>4, FS_AddElement
  <2>6. QED
    BY <1>3, <2>2, <2>3, <2>5 DEF One, A, r
<1>6. QED
  BY <1>4, <1>5

\* file_delete takes one entry out of what its counter counts.
LEMMA CountRemoved ==
  ASSUME NEW q \in Seq(Entry), NEW i \in 1 .. Len(q), NEW k
  PROVE  Cardinality(CountedBy(Removed(q, i), k)) = Cardinality(CountedBy(q, k)) - One(q[i], k)
<1> DEFINE r == Removed(q, i)
           A == CountedBy(q, k)
           B == A \ {i}
           C == CountedBy(r, k)
           g == [j \in C |-> IF j < i THEN j ELSE j + 1]
<1>1. /\ r \in Seq(Entry) /\ Len(r) = Len(q) - 1 /\ Len(q) \in Nat
      /\ \A j \in 1 .. Len(q) - 1 : r[j] = IF j < i THEN q[j] ELSE q[j + 1]
  BY RemoveShape
<1> HIDE DEF r
<1>2. DOMAIN r = 1 .. Len(q) - 1 /\ DOMAIN q = 1 .. Len(q)
  BY <1>1
<1>3. IsFiniteSet(A) /\ Cardinality(A) \in Nat /\ IsFiniteSet(C)
  BY <1>1, CountedByFinite
<1>4. C \subseteq 1 .. Len(q) - 1
  BY <1>2 DEF CountedBy
<1>5. \A j \in C : (IF j < i THEN j ELSE j + 1) \in B
  <2>1. SUFFICES ASSUME NEW j \in C PROVE (IF j < i THEN j ELSE j + 1) \in B
    OBVIOUS
  <2>2. StatKey(r[j]) = k /\ j \in 1 .. Len(q) - 1
    BY <1>4 DEF CountedBy
  <2>3. CASE j < i
    BY <1>1, <1>2, <2>2, <2>3 DEF CountedBy
  <2>4. CASE ~(j < i)
    <3>1. r[j] = q[j + 1] /\ j + 1 \in 1 .. Len(q) /\ j + 1 # i
      BY <1>1, <2>2, <2>4
    <3>2. j + 1 \in B
      BY <1>2, <2>2, <3>1 DEF CountedBy
    <3>3. QED
      BY <2>4, <3>2
  <2>5. QED
    BY <2>3, <2>4
<1>6. \A c \in B : \E a \in C : (IF a < i THEN a ELSE a + 1) = c
  <2>1. SUFFICES ASSUME NEW c \in B PROVE \E a \in C : (IF a < i THEN a ELSE a + 1) = c
    OBVIOUS
  <2>2. StatKey(q[c]) = k /\ c \in 1 .. Len(q) /\ c # i
    BY <1>2 DEF CountedBy
  <2>3. CASE c < i
    <3>1. c \in C
      BY <1>1, <1>2, <2>2, <2>3 DEF CountedBy
    <3>2. QED
      BY <2>3, <3>1
  <2>4. CASE c > i
    <3>1. c - 1 \in 1 .. Len(q) - 1 /\ ~(c - 1 < i) /\ (c - 1) + 1 = c
      BY <1>1, <2>2, <2>4
    <3>2. r[c - 1] = q[c]
      BY <1>1, <3>1
    <3>3. c - 1 \in C
      BY <1>2, <2>2, <3>1, <3>2 DEF CountedBy
    <3>4. QED
      BY <3>1, <3>3
  <2>5. QED
    BY <1>1, <2>2, <2>3, <2>4
<1> HIDE DEF A, C
<1>7. g \in [C -> B] /\ (\A a, b \in C : g[a] = g[b] => a = b) /\ \A c \in B : \E a \in C : g[a] = c
  <2> HIDE DEF B
  <2>1. g \in [C -> B] /\ \A a \in C : g[a] = IF a < i THEN a ELSE a + 1
    BY <1>5
  <2>2. \A a, b \in C : g[a] = g[b] => a = b
    BY <1>4, <2>1
  <2>3. QED
    BY <1>6, <2>1, <2>2
<1> HIDE DEF g
<1>8. Cardinality(B) = Cardinality(C)
  <2> HIDE DEF B
  <2>1. QED
    BY <1>3, <1>7, SameSize
<1>9. Cardinality(B) = Cardinality(A) - One(q[i], k)
  <2>1. i \in A <=> StatKey(q[i]) = k
    BY <1>2 DEF CountedBy, A
  <2>2. Cardinality(A \ {i}) = IF i \in A THEN Cardinality(A) - 1 ELSE Cardinality(A)
    BY <1>3, FS_RemoveElement
  <2>3. QED
    BY <1>3, <2>1, <2>2 DEF One
<1>10. QED
  BY <1>3, <1>8, <1>9 DEF r, A, C

\* site_stats_increase and site_stats_decrease adjust the counter of the entry.
LEMMA CountEntryNum ==
  ASSUME NEW s \in Site, NEW f \in Entry, NEW sign \in Int, NEW k \in Counters
  PROVE  count_entry(s, f, sign).num[k] = s.num[k] + sign * One(f, k)
<1>1. StatKey(f) \in Counters
  BY DEF StatKey, Counters, Entry, Diffs
<1>2. count_entry(s, f, sign).num = [s.num EXCEPT ![StatKey(f)] = @ + sign]
  BY DEF count_entry
<1>3. s.num \in [Counters -> Int]
  BY DEF Site
<1>4. CASE StatKey(f) = k
  BY <1>1, <1>2, <1>3, <1>4 DEF One
<1>5. CASE StatKey(f) # k
  BY <1>1, <1>2, <1>3, <1>5 DEF One
<1>6. QED
  BY <1>4, <1>5

\* When one entry is exchanged, and the counters are adjusted for both, the
\* counters stay exact: this is how file_set and file_set_diff go about it.
LEMMA RecountReplaced ==
  ASSUME NEW s \in Site, Counted(s), NEW i \in DOMAIN s.files, NEW f \in Entry,
         NEW t, t.files = [s.files EXCEPT ![i] = f],
         \A k \in Counters : t.num[k] = s.num[k] - One(s.files[i], k) + One(f, k)
  PROVE  Counted(t)
<1>1. s.files \in Seq(Entry)
  BY DEF Site
<1>2. SUFFICES ASSUME NEW k \in Counters
               PROVE  t.num[k] = Cardinality(CountedBy(t.files, k))
  BY DEF Counted
<1>3. Cardinality(CountedBy(t.files, k))
        = Cardinality(CountedBy(s.files, k)) - One(s.files[i], k) + One(f, k)
  BY <1>1, CountReplaced
<1>4. QED
  BY <1>3 DEF Counted

\* file_set_diff takes the entry out of one counter and puts it into another.
LEMMA SetDiffCounted ==
  ASSUME NEW s \in Site, Counted(s), NEW i \in DOMAIN s.files
  PROVE  Counted(file_set_diff(s, i))
<1> DEFINE f == s.files[i]
           g == [f EXCEPT !.diff = file_compare(f.type, Local(f), Stored(f), s)]
           u == count_entry(s, f, -1)
           v == count_entry(u, g, 1)
<1>1. f \in Entry
  BY DEF Site
<1>2. g \in Entry
  BY <1>1, CompareType DEF Entry
<1>3. file_set_diff(s, i) = file_replace(v, i, g)
  BY DEF file_set_diff, site_stats_increase, site_stats_decrease
<1> HIDE DEF g
<1>4. /\ u \in Site /\ u.files = s.files
      /\ \A k \in Counters : u.num[k] = s.num[k] + (-1) * One(f, k)
  BY <1>1, CountEntry, CountEntryNum
<1> HIDE DEF u
<1>5. /\ v \in Site /\ v.files = s.files
      /\ \A k \in Counters : v.num[k] = u.num[k] + 1 * One(g, k)
  BY <1>2, <1>4, CountEntry, CountEntryNum
<1> HIDE DEF v
<1>6. \A k \in Counters : v.num[k] = s.num[k] - One(f, k) + One(g, k)
  <2>1. \A k \in Counters : s.num[k] \in Int /\ One(f, k) \in Int /\ One(g, k) \in Int
    BY DEF Site, One
  <2>2. QED
    BY <1>4, <1>5, <2>1
<1>7. file_replace(v, i, g).files = [s.files EXCEPT ![i] = g] /\ file_replace(v, i, g).num = v.num
  BY <1>5 DEF file_replace, Site
<1>8. QED
  BY <1>2, <1>3, <1>6, <1>7, RecountReplaced

\* The states of an entry are not counted, so that changing them and comparing
\* them again keeps the counters exact.
LEMMA SetStatesCounted ==
  ASSUME NEW s \in Site, Counted(s), NEW i \in DOMAIN s.files,
         NEW st \in [Sides -> FileState \cup {Absent}]
  PROVE  Counted(set_states(s, i, st))
<1> DEFINE g == [s.files[i] EXCEPT !.st = st]
           t == file_replace(s, i, g)
<1>1. s.files \in Seq(Entry) /\ s.files[i] \in Entry
  BY DEF Site
<1>2. g \in Entry /\ StatKey(g) = StatKey(s.files[i])
  BY <1>1 DEF Entry, StatKey
<1> HIDE DEF g
<1> DEFINE fs == [s.files EXCEPT ![i] = g]
<1>0. fs \in Seq(Entry) /\ DOMAIN fs = DOMAIN s.files
  BY <1>1, <1>2, ExceptSeq
<1> HIDE DEF fs
<1>3. t.files = fs /\ t.num = s.num /\ t \in Site
  BY <1>0 DEF file_replace, Site, fs
<1>4. set_states(s, i, st) = file_set_diff(t, i)
  BY DEF set_states, g
<1> HIDE DEF t
<1>5. Counted(t)
  <2>1. \A k \in Counters : t.num[k] = s.num[k] - One(s.files[i], k) + One(g, k)
    BY <1>2, <1>3 DEF One, Site
  <2>2. QED
    BY <1>2, <1>3, <2>1, RecountReplaced DEF fs
<1>6. i \in DOMAIN t.files
  BY <1>0, <1>3
<1>7. QED
  BY <1>3, <1>4, <1>5, <1>6, SetDiffCounted

\* file_delete takes the entry out of the list and out of its counter.
LEMMA DeleteCounted ==
  ASSUME NEW s \in Site, Counted(s), NEW i \in DOMAIN s.files
  PROVE  Counted(file_delete(s, i))
<1> DEFINE fs == Removed(s.files, i)
           t == [s EXCEPT !.files = fs]
           f == s.files[i]
<1>1. s.files \in Seq(Entry) /\ i \in 1 .. Len(s.files) /\ f \in Entry
  BY DEF Site
<1>2. fs \in Seq(Entry)
  BY <1>1, RemoveShape
<1>3. file_delete(s, i) = count_entry(t, f, -1)
  BY DEF file_delete, site_stats_decrease, Removed
<1>4. \A k \in Counters : Cardinality(CountedBy(fs, k)) = Cardinality(CountedBy(s.files, k)) - One(f, k)
  BY <1>1, CountRemoved
<1> HIDE DEF fs
<1>5. t \in Site /\ t.files = fs /\ t.num = s.num
  BY <1>2 DEF Site
<1> HIDE DEF t
<1>6. count_entry(t, f, -1).files = fs
  BY <1>5 DEF count_entry
<1> HIDE DEF f
<1>7. ASSUME NEW k \in Counters
      PROVE  count_entry(t, f, -1).num[k] = Cardinality(CountedBy(fs, k))
  <2>1. count_entry(t, f, -1).num[k] = s.num[k] + (-1) * One(f, k)
    BY <1>1, <1>5, CountEntryNum
  <2>2. s.num[k] \in Int /\ One(f, k) \in Int
    BY DEF Site, One
  <2>3. QED
    BY <1>4, <2>1, <2>2 DEF Counted
<1>8. QED
  BY <1>3, <1>6, <1>7 DEF Counted

\* add_entry puts a new entry into the list and into its counter.
LEMMA AddEntryCounted ==
  ASSUME NEW s \in Site, Counted(s), NEW f \in Entry
  PROVE  Counted(add_entry(s, f))
<1> DEFINE fs == Inserted(s.files, f)
           t == [s EXCEPT !.files = fs]
<1>1. s.files \in Seq(Entry)
  BY DEF Site
<1>2. fs \in Seq(Entry)
  BY <1>1, InsertShape
<1>3. add_entry(s, f) = count_entry(t, f, 1)
  BY DEF add_entry, site_stats_increase, file_insert, Inserted
<1>4. \A k \in Counters : Cardinality(CountedBy(fs, k)) = Cardinality(CountedBy(s.files, k)) + One(f, k)
  BY <1>1, CountInserted
<1> HIDE DEF fs
<1>5. t \in Site /\ t.files = fs /\ t.num = s.num
  BY <1>2 DEF Site
<1> HIDE DEF t
<1>6. count_entry(t, f, 1).files = fs
  BY <1>5, CountEntry
<1>7. ASSUME NEW k \in Counters
      PROVE  count_entry(t, f, 1).num[k] = Cardinality(CountedBy(fs, k))
  <2>1. count_entry(t, f, 1).num[k] = s.num[k] + 1 * One(f, k)
    BY <1>5, CountEntryNum
  <2>2. s.num[k] \in Int /\ One(f, k) \in Int
    BY DEF Site, One
  <2>3. QED
    BY <1>4, <2>1, <2>2 DEF Counted
<1>8. QED
  BY <1>3, <1>6, <1>7 DEF Counted

\* The entry that takes a new state, and the one for the state it had.
Taken(f, side, state, diff) ==
  [type |-> f.type, diff |-> diff, ignore |-> f.ignore,
   st |-> [f.st EXCEPT ![side] = state], server |-> f.server]
Shoved(f, side) == one_sided(f.type, side, f.st[side], f.ignore)

\* Both are entries.
LEMMA TakenType ==
  ASSUME NEW f \in Entry, NEW side \in Sides, NEW state \in FileState, NEW diff \in Diffs
  PROVE  /\ Taken(f, side, state, diff) \in Entry
         /\ f.st[side] # Absent => Shoved(f, side) \in Entry
<1>1. Taken(f, side, state, diff) \in Entry
  BY DEF Taken, Entry
<1>2. ASSUME f.st[side] # Absent PROVE Shoved(f, side) \in Entry
  <2>1. f.type \in FileTypes /\ f.st[side] \in FileState /\ f.ignore \in BOOLEAN
    BY <1>2 DEF Entry
  <2>2. EntryOK(Shoved(f, side), [opt |-> 0])
    BY <2>1, OneSidedOK DEF Shoved
  <2>3. QED
    BY <2>2 DEF EntryOK
<1>3. QED
  BY <1>1, <1>2

\* overwrite_entry in one step: what it makes of the list, and exact counters.
LEMMA OverwriteShape ==
  ASSUME NEW s \in Site, NEW i \in DOMAIN s.files, NEW side \in Sides,
         NEW state \in FileState, NEW diff \in Diffs
  PROVE  LET fs == [s.files EXCEPT ![i] = Taken(s.files[i], side, state, diff)]
         IN  /\ overwrite_entry(s, side, i, state, diff).files
                  = IF s.files[i].st[side] = Absent THEN fs
                    ELSE Inserted(fs, Shoved(s.files[i], side))
             /\ Counted(s) => Counted(overwrite_entry(s, side, i, state, diff))
<1> DEFINE old  == s.files[i]
           new  == Taken(old, side, state, diff)
           fs   == [s.files EXCEPT ![i] = new]
           t    == count_entry(s, old, -1)
           u    == file_replace(t, i, new)
           done == count_entry(u, new, 1)
           shov == Shoved(old, side)
<1>1. old \in Entry /\ s.files \in Seq(Entry)
  BY DEF Site
<1>2. new \in Entry /\ (old.st[side] # Absent => shov \in Entry)
  BY <1>1, TakenType
<1>3. overwrite_entry(s, side, i, state, diff)
        = IF old.st[side] = Absent THEN done ELSE add_entry(done, shov)
  BY DEF overwrite_entry, site_stats_increase, site_stats_decrease, Taken, Shoved
<1> HIDE DEF new, shov
<1>4. fs \in Seq(Entry)
  BY <1>1, <1>2, ExceptSeq
<1> HIDE DEF fs, old
<1>5. /\ t \in Site /\ t.files = s.files
      /\ \A k \in Counters : t.num[k] = s.num[k] + (-1) * One(old, k)
  <2>1. -1 \in Int
    OBVIOUS
  <2>2. t \in Site /\ t.files = s.files
    BY <1>1, <2>1, CountEntry, Zenon
  <2>3. \A k \in Counters : t.num[k] = s.num[k] + (-1) * One(old, k)
    BY <1>1, <2>1, CountEntryNum, Zenon
  <2>4. QED
    BY <2>2, <2>3
<1> HIDE DEF t
<1>6. u \in Site /\ u.files = fs /\ u.num = t.num
  <2>1. u = [t EXCEPT !.files = fs]
    BY <1>5 DEF file_replace, fs
  <2> HIDE DEF u
  <2>2. QED
    BY <1>4, <1>5, <2>1 DEF Site
<1> HIDE DEF u
<1>7. /\ done \in Site /\ done.files = fs
      /\ \A k \in Counters : done.num[k] = u.num[k] + 1 * One(new, k)
  BY <1>2, <1>6, CountEntry, CountEntryNum
<1> HIDE DEF done
<1>8. Counted(s) => Counted(done)
  <2>1. \A k \in Counters : s.num[k] \in Int /\ One(old, k) \in Int /\ One(new, k) \in Int
    BY DEF Site, One
  <2>2. \A k \in Counters : done.num[k] = s.num[k] - One(old, k) + One(new, k)
    BY <1>5, <1>6, <1>7, <2>1
  <2>3. QED
    BY <1>2, <1>7, <2>2, RecountReplaced DEF old, fs
<1>9. add_entry(done, shov).files = Inserted(fs, shov)
  BY <1>7 DEF add_entry, site_stats_increase, count_entry, file_insert, Inserted, Site
<1>10. Counted(done) /\ old.st[side] # Absent => Counted(add_entry(done, shov))
  BY <1>2, <1>7, AddEntryCounted
<1>11. QED
  BY <1>3, <1>7, <1>8, <1>9, <1>10 DEF old, new, shov, fs

\* file_set in one step: a new entry, or an entry that has only a state on the
\* other side, or had one on this side too, takes the state.
LEMMA FileSetShape ==
  ASSUME NEW s \in Site, NEW side \in Sides, NEW type \in FileTypes, NEW state \in FileState
  PROVE  \/ \E ign \in BOOLEAN :
              /\ one_sided(type, side, state, ign) \in Entry
              /\ file_set(s, side, type, state) = add_entry(s, one_sided(type, side, state, ign))
         \/ \E i \in DOMAIN s.files, diff \in Diffs :
              /\ s.files[i].type = type
              /\ s.files[i].st[OtherSide(side)] # Absent
              /\ file_set(s, side, type, state) = overwrite_entry(s, side, i, state, diff)
<1> DEFINE d   == direct_match(s, side, type, state)
           m   == moved_match(s, side, type, state)
           dd  == direct_diff(s, side, type, state, d)
           c   == chosen_entry(s, side, type, state)
           ign == type = "file" /\ file_isignored(state.filename)
<1>0. state # Absent
  BY ConstantsAssumption
<1>1. file_set(s, side, type, state) =
        IF c = 0 THEN add_entry(s, one_sided(type, side, state, ign))
        ELSE overwrite_entry(s, side, c, state, IF c = d THEN dd ELSE "moved")
  BY DEF file_set
<1>2. ign \in BOOLEAN
  BY DEF file_isignored
<1>3. m # 0 => /\ m \in DOMAIN s.files
               /\ type = "file" /\ s.files[m].type = "file"
               /\ file_compare("file", state, s.files[m].st[OtherSide(side)], s) = "moved"
  BY MovedMatch
<1>4. d # 0 => /\ d \in DOMAIN s.files
               /\ s.files[d].type = type
               /\ s.files[d].st[OtherSide(side)] # Absent
  BY DirectMatch
<1>5. dd \in Diffs
  BY CompareType DEF direct_diff, default_diff, Diffs
<1>6. c # 0 => c = m \/ c = d
  BY DEF chosen_entry
<1> HIDE DEF d, m, dd, c, ign
<1>7. CASE c = 0
  <2>1. EntryOK(one_sided(type, side, state, ign), s)
    BY <1>2, OneSidedOK
  <2>2. QED
    BY <1>1, <1>2, <1>7, <2>1 DEF EntryOK
<1>8. CASE c # 0
  <2> DEFINE diff == IF c = d THEN dd ELSE "moved"
  <2>1. diff \in Diffs
    BY <1>5 DEF Diffs
  <2>2. c \in DOMAIN s.files /\ s.files[c].type = type
    BY <1>3, <1>4, <1>6, <1>8
  <2>3. s.files[c].st[OtherSide(side)] # Absent
    BY <1>0, <1>3, <1>4, <1>6, <1>8 DEF file_compare
  <2>4. file_set(s, side, type, state) = overwrite_entry(s, side, c, state, diff)
    BY <1>1, <1>8
  <2> HIDE DEF diff
  <2>5. QED
    BY <2>1, <2>2, <2>3, <2>4
<1>9. QED
  BY <1>7, <1>8

\* file_set keeps the counters exact.
LEMMA FileSetCounted ==
  ASSUME NEW s \in Site, Counted(s), NEW side \in Sides, NEW type \in FileTypes,
         NEW state \in FileState
  PROVE  Counted(file_set(s, side, type, state))
<1>1. CASE \E ign \in BOOLEAN :
             /\ one_sided(type, side, state, ign) \in Entry
             /\ file_set(s, side, type, state) = add_entry(s, one_sided(type, side, state, ign))
  BY <1>1, AddEntryCounted
<1>2. ASSUME NEW i \in DOMAIN s.files, NEW diff \in Diffs,
             file_set(s, side, type, state) = overwrite_entry(s, side, i, state, diff)
      PROVE  Counted(file_set(s, side, type, state))
  BY <1>2, OverwriteShape
<1>3. QED
  BY <1>1, <1>2, FileSetShape

-----------------------------------------------------------------------------
(* The operations on one entry                                             *)

\* add_entry puts the entry into the list and changes no other.
LEMMA AddEntryFiles ==
  ASSUME NEW s \in Site, NEW f \in Entry
  PROVE  /\ add_entry(s, f).files = Inserted(s.files, f)
         /\ add_entry(s, f).opt = s.opt
<1> DEFINE fs == Inserted(s.files, f)
           t == [s EXCEPT !.files = fs]
<1>1. fs \in Seq(Entry)
  BY InsertShape DEF Site
<1>2. add_entry(s, f) = count_entry(t, f, 1)
  BY DEF add_entry, site_stats_increase, file_insert, Inserted
<1> HIDE DEF fs
<1>3. t \in Site /\ t.files = fs /\ t.opt = s.opt
  BY <1>1 DEF Site
<1> HIDE DEF t
<1>4. QED
  BY <1>2, <1>3, CountEntry DEF fs

\* file_delete takes the entry out of the list and changes no other.
LEMMA DeleteFiles ==
  ASSUME NEW s \in Site, NEW i \in DOMAIN s.files
  PROVE  /\ file_delete(s, i).files = Removed(s.files, i)
         /\ file_delete(s, i).opt = s.opt
BY DEF file_delete, Removed, site_stats_decrease, count_entry, Site

\* set_states changes the states of one entry, and its diff accordingly.
LEMMA SetStatesFiles ==
  ASSUME NEW s \in Site, NEW i \in DOMAIN s.files, NEW st
  PROVE  LET r == set_states(s, i, st).files
         IN  /\ r = [s.files EXCEPT ![i] = r[i]]
             /\ r[i].st = st
             /\ r[i].type = s.files[i].type
             /\ r[i].diff = file_compare(s.files[i].type, st["local"], st["stored"], s)
             /\ set_states(s, i, st).opt = s.opt
<1> DEFINE f == [s.files[i] EXCEPT !.st = st]
           t == file_replace(s, i, f)
           d == file_compare(f.type, Local(f), Stored(f), t)
           g == [f EXCEPT !.diff = d]
<1>1. s.files \in Seq(Entry) /\ s.files[i] \in Entry /\ i \in 1 .. Len(s.files)
  BY DEF Site
<1>2. /\ f.st = st /\ f.type = s.files[i].type
      /\ g.st = st /\ g.type = s.files[i].type /\ g.diff = d
  BY <1>1 DEF Entry
<1>3. d = file_compare(s.files[i].type, st["local"], st["stored"], s)
  <2>1. t.opt = s.opt
    BY DEF file_replace, Site
  <2> HIDE DEF t
  <2>2. QED
    BY <1>2, <2>1, CompareReadsOptions DEF Local, Stored
<1>4. t.files = [s.files EXCEPT ![i] = f] /\ t.opt = s.opt
  BY DEF file_replace, Site
<1> HIDE DEF f
<1>5. t.files[i] = f
  BY <1>1, <1>4
<1>6. set_states(s, i, st) = file_set_diff(t, i)
  BY DEF set_states, f
<1> HIDE DEF t
<1>7. file_set_diff(t, i).files = [t.files EXCEPT ![i] = g] /\ file_set_diff(t, i).opt = t.opt
  BY <1>5 DEF file_set_diff, file_replace, site_stats_increase, site_stats_decrease, count_entry
<1> HIDE DEF g, d
<1>8. [t.files EXCEPT ![i] = g] = [s.files EXCEPT ![i] = g]
  BY <1>4
<1>9. [s.files EXCEPT ![i] = g][i] = g
  BY <1>1
<1>10. QED
  BY <1>2, <1>3, <1>4, <1>6, <1>7, <1>8, <1>9

\* Every entry and every counter is exact.
Exact(s) == SiteOK(s) /\ Counted(s)

\* An entry whose states are changed and then compared again is exact, and so
\* are the counters.
LEMMA SetStatesExact ==
  ASSUME NEW s, Exact(s), NEW i \in DOMAIN s.files,
         NEW st \in [Sides -> FileState \cup {Absent}],
         st["local"] # Absent \/ st["stored"] # Absent
  PROVE  Exact(set_states(s, i, st))
BY SetStatesOK, SetStatesCounted DEF Exact, SiteOK

\* file_delete keeps both exact.
LEMMA DeleteExact ==
  ASSUME NEW s, Exact(s), NEW i \in DOMAIN s.files
  PROVE  Exact(file_delete(s, i))
BY DeleteOK, DeleteCounted DEF Exact, SiteOK

\* file_set keeps both exact.
LEMMA FileSetExact ==
  ASSUME NEW s, Exact(s), NEW side \in Sides, NEW type \in FileTypes, NEW state \in FileState
  PROVE  Exact(file_set(s, side, type, state))
BY FileSetOK, FileSetCounted DEF Exact, SiteOK

\* The diff of an entry says which of its states exist.
LEMMA DiffTellsStates ==
  ASSUME NEW s, NEW f, EntryOK(f, s)
  PROVE  /\ f.diff = "deleted" <=> Local(f) = Absent
         /\ f.diff = "new" <=> Local(f) # Absent /\ Stored(f) = Absent
BY DEF EntryOK, file_compare

\* The two states of an entry have their types.
LEMMA EntryStates ==
  ASSUME NEW s, SiteOK(s), NEW i \in DOMAIN s.files
  PROVE  /\ s.files[i].st \in [Sides -> FileState \cup {Absent}]
         /\ Local(s.files[i]) \in FileState \cup {Absent}
         /\ Stored(s.files[i]) \in FileState \cup {Absent}
<1>1. s.files[i] \in Entry
  BY DEF SiteOK, EntryOK
<1>2. s.files[i].st \in [Sides -> FileState \cup {Absent}]
  BY <1>1 DEF Entry
<1>3. QED
  BY <1>2 DEF Local, Stored, Sides

\* file_uploaded: the entry exists locally.
LEMMA UploadedExact ==
  ASSUME NEW s, Exact(s), NEW i \in DOMAIN s.files, Local(s.files[i]) # Absent
  PROVE  Exact(set_states(s, i, [x \in Sides |-> Local(s.files[i])]))
<1> DEFINE st == [x \in Sides |-> Local(s.files[i])]
<1>1. st \in [Sides -> FileState \cup {Absent}] /\ st["local"] # Absent
  BY EntryStates DEF Sides, Exact
<1> HIDE DEF st
<1>2. QED
  BY <1>1, SetStatesExact DEF st

\* file_downloaded: the entry has a stored state.
LEMMA DownloadedExact ==
  ASSUME NEW s, Exact(s), NEW i \in DOMAIN s.files, Stored(s.files[i]) # Absent
  PROVE  Exact(file_downloaded(s, i))
<1> DEFINE st == [x \in Sides |-> Stored(s.files[i])]
<1>1. st \in [Sides -> FileState \cup {Absent}] /\ st["stored"] # Absent
  BY EntryStates DEF Sides, Exact
<1> HIDE DEF st
<1>2. QED
  BY <1>1, SetStatesExact DEF st, file_downloaded

\* file_chmod: the entry has both states.
LEMMA ChmodExact ==
  ASSUME NEW s, Exact(s), NEW i \in DOMAIN s.files,
         Local(s.files[i]) # Absent, Stored(s.files[i]) # Absent
  PROVE  Exact(chmod_done(s, i))
<1> DEFINE st == [s.files[i].st EXCEPT !["stored"] =
                    [Stored(s.files[i]) EXCEPT !.mode = Local(s.files[i]).mode]]
<1>0. /\ s.files[i].st \in [Sides -> FileState \cup {Absent}]
      /\ Local(s.files[i]) \in FileState /\ Stored(s.files[i]) \in FileState
  BY EntryStates DEF Exact
<1>1. [Stored(s.files[i]) EXCEPT !.mode = Local(s.files[i]).mode] \in FileState
  BY <1>0 DEF FileState
<1>2. st \in [Sides -> FileState \cup {Absent}] /\ st["local"] # Absent
  BY <1>0, <1>1 DEF Local, Sides
<1> HIDE DEF st
<1>3. QED
  BY <1>2, SetStatesExact DEF st, chmod_done

\* site_destroy_stored on one entry.
LEMMA DestroyStoredExact ==
  ASSUME NEW s, Exact(s), NEW i \in DOMAIN s.files
  PROVE  Exact(destroy_stored_entry(s, i))
<1> DEFINE st == [s.files[i].st EXCEPT !["stored"] = Absent]
<1>1. CASE Local(s.files[i]) = Absent
  BY <1>1, DeleteExact DEF destroy_stored_entry
<1>2. CASE Local(s.files[i]) # Absent
  <2>1. st \in [Sides -> FileState \cup {Absent}] /\ st["local"] # Absent
    BY <1>2, EntryStates DEF Local, Sides, Exact
  <2> HIDE DEF st
  <2>2. QED
    BY <1>2, <2>1, SetStatesExact DEF st, destroy_stored_entry
<1>3. QED
  BY <1>1, <1>2

\* A counter is above zero when it counts some entry.
LEMMA CounterCounts ==
  ASSUME NEW s \in Site, Counted(s), NEW k \in Counters
  PROVE  /\ s.num[k] \in Nat
         /\ s.num[k] > 0 <=> \E i \in DOMAIN s.files : StatKey(s.files[i]) = k
<1> DEFINE S == CountedBy(s.files, k)
<1>1. s.num[k] = Cardinality(S)
  BY DEF Counted
<1>2. IsFiniteSet(S) /\ Cardinality(S) \in Nat
  BY CountedByFinite DEF Site
<1>3. Cardinality(S) = 0 <=> S = {}
  BY <1>2, FS_EmptySet
<1>4. S # {} <=> \E i \in DOMAIN s.files : StatKey(s.files[i]) = k
  BY DEF CountedBy
<1> HIDE DEF S
<1>5. QED
  BY <1>1, <1>2, <1>3, <1>4

\* The two flags of site_stats_update say whether some entry is to be updated
\* and whether some entry is to be synchronized.
LEMMA FlagsOfCounts ==
  ASSUME NEW s \in Site, Counted(s)
  PROVE  /\ remote_is_different(s)
              <=> \E i \in DOMAIN s.files :
                     \/ s.files[i].diff \in {"new", "moved"}
                     \/ s.files[i].diff = "changed" /\ ~s.files[i].ignore
                     \/ s.files[i].diff = "deleted" /\ ~s.opt.nodelete
         /\ local_is_different(s)
              <=> \E i \in DOMAIN s.files : s.files[i].diff # "unchanged"
<1>1. s.files \in Seq(Entry) /\ s.opt \in Options
  BY DEF Site
<1>2. \A k \in Counters : /\ s.num[k] \in Nat
                          /\ s.num[k] > 0 <=> \E i \in DOMAIN s.files : StatKey(s.files[i]) = k
  BY CounterCounts
<1>3. \A i \in DOMAIN s.files : /\ s.files[i].diff \in Diffs /\ s.files[i].ignore \in BOOLEAN
  <2>1. SUFFICES ASSUME NEW i \in DOMAIN s.files
                 PROVE  s.files[i].diff \in Diffs /\ s.files[i].ignore \in BOOLEAN
    BY Zenon
  <2>2. s.files[i] \in Entry
    BY <1>1, <2>1
  <2>3. s.files[i].diff \in Diffs
    BY <2>2 DEF Entry
  <2>4. s.files[i].ignore \in BOOLEAN
    BY <2>2, Zenon DEF Entry
  <2>5. QED
    BY <2>3, <2>4
<1>4. s.opt.nodelete \in BOOLEAN
  BY <1>1, OptionsAssumption
<1>5. {"unchanged", "changed", "new", "deleted", "moved", "ignored"} = Counters
  BY DEF Counters, Diffs
<1>6. remote_is_different(s) <=> \/ s.num["moved"] > 0 \/ s.num["new"] > 0 \/ s.num["changed"] > 0
                                 \/ ~s.opt.nodelete /\ s.num["deleted"] > 0
  BY <1>2, <1>4, <1>5 DEF remote_is_different
<1>7. local_is_different(s) <=> \/ s.num["moved"] > 0 \/ s.num["new"] > 0 \/ s.num["changed"] > 0
                                \/ s.num["deleted"] > 0 \/ s.num["ignored"] > 0
  BY <1>2, <1>5 DEF local_is_different
<1>8. \A k \in {"moved", "new", "changed", "deleted", "ignored"} :
        s.num[k] > 0 <=> \E i \in DOMAIN s.files : StatKey(s.files[i]) = k
  BY <1>2, <1>5
<1>9. QED
  BY <1>3, <1>6, <1>7, <1>8 DEF StatKey, Diffs

-----------------------------------------------------------------------------
(* The names, when files are not checked for moves                         *)

\* Entry e has a state of the file `name' of this type on side x.
Stands(e, x, type, name) == e.type = type /\ e.st[x] # Absent /\ e.st[x].filename = name

\* So has some entry of the list.
HasKey(q, x, type, name) == \E i \in DOMAIN q : Stands(q[i], x, type, name)

\* An entry has one name, and no other entry of its type has it.
Keyed(q) ==
  \A i, j \in DOMAIN q : \A x, y \in Sides :
     q[i].st[x] # Absent /\ q[j].st[y] # Absent /\ q[i].type = q[j].type =>
       (q[i].st[x].filename = q[j].st[y].filename <=> i = j)

\* The list r is q with f at e; g says which entry of q is where.
InsertedAt(r, q, f, e, g) ==
  /\ r[e] = f /\ g[e] = 0
  /\ \A j \in DOMAIN r : j # e => g[j] \in DOMAIN q /\ r[j] = q[g[j]]
  /\ \A j, k \in DOMAIN r : g[j] = g[k] => j = k
  /\ \A l \in DOMAIN q : \E j \in DOMAIN r : j # e /\ g[j] = l

\* file_insert keeps every entry and adds one.
LEMMA InsertMap ==
  ASSUME NEW q \in Seq(Entry), NEW f \in Entry
  PROVE  \E e \in DOMAIN Inserted(q, f) : \E g : InsertedAt(Inserted(q, f), q, f, e, g)
<1> DEFINE r == Inserted(q, f)
<1>1. Len(q) \in Nat /\ DOMAIN q = 1 .. Len(q)
  OBVIOUS
<1>2. DOMAIN r = 1 .. Len(q) + 1
  BY <1>1, InsertShape
<1>3. CASE f.type = "dir"
  <2> DEFINE g == [j \in 1 .. Len(q) + 1 |-> IF j = Len(q) + 1 THEN 0 ELSE j]
  <2>1. \A j \in 1 .. Len(q) + 1 : r[j] = IF j = Len(q) + 1 THEN f ELSE q[j]
    BY <1>3, InsertShape
  <2>2. Len(q) + 1 \in DOMAIN r /\ r[Len(q) + 1] = f /\ g[Len(q) + 1] = 0
    BY <1>1, <1>2, <2>1
  <2>3. \A j \in DOMAIN r : j # Len(q) + 1 => g[j] \in DOMAIN q /\ r[j] = q[g[j]]
    BY <1>1, <1>2, <2>1
  <2>4. \A j, k \in DOMAIN r : g[j] = g[k] => j = k
    BY <1>1, <1>2
  <2>5. \A l \in DOMAIN q : l \in DOMAIN r /\ l # Len(q) + 1 /\ g[l] = l
    BY <1>1, <1>2
  <2> HIDE DEF g, r
  <2>6. InsertedAt(r, q, f, Len(q) + 1, g)
    BY <2>2, <2>3, <2>4, <2>5 DEF InsertedAt
  <2>7. QED
    BY <2>2, <2>6 DEF r
<1>4. CASE f.type # "dir"
  <2> DEFINE g == [j \in 1 .. Len(q) + 1 |-> j - 1]
  <2>1. \A j \in 1 .. Len(q) + 1 : r[j] = IF j = 1 THEN f ELSE q[j - 1]
    BY <1>4, InsertShape
  <2>2. 1 \in DOMAIN r /\ r[1] = f /\ g[1] = 0
    BY <1>1, <1>2, <2>1
  <2>3. \A j \in DOMAIN r : j # 1 => g[j] \in DOMAIN q /\ r[j] = q[g[j]]
    BY <1>1, <1>2, <2>1
  <2>4. \A j, k \in DOMAIN r : g[j] = g[k] => j = k
    BY <1>1, <1>2
  <2>5. \A l \in DOMAIN q : l + 1 \in DOMAIN r /\ l + 1 # 1 /\ g[l + 1] = l
    BY <1>1, <1>2
  <2> HIDE DEF g, r
  <2>6. InsertedAt(r, q, f, 1, g)
    BY <2>2, <2>3, <2>4, <2>5 DEF InsertedAt
  <2>7. QED
    BY <2>2, <2>6 DEF r
<1>5. QED
  BY <1>3, <1>4

\* A new entry with a name of its own.
LEMMA KeyedInserted ==
  ASSUME NEW q \in Seq(Entry), Keyed(q), NEW f \in Entry, NEW name,
         \A x \in Sides : f.st[x] # Absent => f.st[x].filename = name,
         \A x \in Sides : ~HasKey(q, x, f.type, name)
  PROVE  /\ Keyed(Inserted(q, f))
         /\ \A x \in Sides : \A t, n :
              HasKey(Inserted(q, f), x, t, n) <=> HasKey(q, x, t, n) \/ Stands(f, x, t, n)
<1> DEFINE r == Inserted(q, f)
<1>e. PICK e \in DOMAIN r : \E g : InsertedAt(r, q, f, e, g)
  BY InsertMap
<1>0. PICK g : InsertedAt(r, q, f, e, g)
  BY <1>e
<1> HIDE DEF r
<1>1. /\ r[e] = f /\ g[e] = 0
      /\ \A j \in DOMAIN r : j # e => g[j] \in DOMAIN q /\ r[j] = q[g[j]]
      /\ \A j, k \in DOMAIN r : g[j] = g[k] => j = k
      /\ \A l \in DOMAIN q : \E j \in DOMAIN r : j # e /\ g[j] = l
  BY <1>0 DEF InsertedAt
<1>2. \A l \in DOMAIN q : \A x \in Sides :
        q[l].type = f.type /\ q[l].st[x] # Absent => q[l].st[x].filename # name
  BY DEF HasKey, Stands
<1>3. Keyed(r)
  <2>1. SUFFICES ASSUME NEW i \in DOMAIN r, NEW j \in DOMAIN r, NEW x \in Sides, NEW y \in Sides,
                        r[i].st[x] # Absent, r[j].st[y] # Absent, r[i].type = r[j].type
                 PROVE  r[i].st[x].filename = r[j].st[y].filename <=> i = j
    BY DEF Keyed
  <2>2. CASE i = e /\ j = e
    BY <1>1, <2>1, <2>2
  <2>3. CASE i = e /\ j # e
    BY <1>1, <1>2, <2>1, <2>3
  <2>4. CASE i # e /\ j = e
    BY <1>1, <1>2, <2>1, <2>4
  <2>5. CASE i # e /\ j # e
    <3>1. g[i] \in DOMAIN q /\ g[j] \in DOMAIN q /\ r[i] = q[g[i]] /\ r[j] = q[g[j]]
          /\ (g[i] = g[j] <=> i = j)
      BY <1>1, <2>5
    <3>2. QED
      BY <2>1, <3>1 DEF Keyed
  <2>6. QED
    BY <2>2, <2>3, <2>4, <2>5
<1>4. ASSUME NEW x \in Sides, NEW t, NEW n
      PROVE  HasKey(r, x, t, n) <=> HasKey(q, x, t, n) \/ Stands(f, x, t, n)
  <2>1. \A l \in DOMAIN q : \E j \in DOMAIN r : r[j] = q[l]
    BY <1>1
  <2>2. \A j \in DOMAIN r : r[j] = f \/ \E l \in DOMAIN q : r[j] = q[l]
    BY <1>1
  <2>3. \E j \in DOMAIN r : r[j] = f
    BY <1>1
  <2>4. QED
    BY <2>1, <2>2, <2>3 DEF HasKey
<1>5. QED
  BY <1>3, <1>4 DEF r

\* An entry that keeps its name.
LEMMA KeyedReplaced ==
  ASSUME NEW q, Keyed(q), NEW i \in DOMAIN q, NEW f, f.type = q[i].type,
         \A x \in Sides : f.st[x] # Absent =>
           \E y \in Sides : q[i].st[y] # Absent /\ q[i].st[y].filename = f.st[x].filename
  PROVE  /\ Keyed([q EXCEPT ![i] = f])
         /\ \A x \in Sides : \A t, n :
              /\ HasKey([q EXCEPT ![i] = f], x, t, n) => HasKey(q, x, t, n) \/ Stands(f, x, t, n)
              /\ HasKey(q, x, t, n) =>
                   HasKey([q EXCEPT ![i] = f], x, t, n) \/ Stands(q[i], x, t, n)
              /\ Stands(f, x, t, n) => HasKey([q EXCEPT ![i] = f], x, t, n)
<1> DEFINE r == [q EXCEPT ![i] = f]
<1>1. DOMAIN r = DOMAIN q /\ r[i] = f /\ \A j \in DOMAIN q : j # i => r[j] = q[j]
  OBVIOUS
<1> HIDE DEF r
<1>2. \A j \in DOMAIN q : \A x \in Sides :
        /\ r[j].type = q[j].type
        /\ r[j].st[x] # Absent =>
             \E y \in Sides : q[j].st[y] # Absent /\ q[j].st[y].filename = r[j].st[x].filename
  BY <1>1
<1>3. Keyed(r)
  <2>1. SUFFICES ASSUME NEW j \in DOMAIN q, NEW k \in DOMAIN q, NEW x \in Sides, NEW y \in Sides,
                        r[j].st[x] # Absent, r[k].st[y] # Absent, r[j].type = r[k].type
                 PROVE  r[j].st[x].filename = r[k].st[y].filename <=> j = k
    BY <1>1 DEF Keyed
  <2>2. PICK x1 \in Sides : q[j].st[x1] # Absent /\ q[j].st[x1].filename = r[j].st[x].filename
    BY <1>2, <2>1
  <2>3. PICK y1 \in Sides : q[k].st[y1] # Absent /\ q[k].st[y1].filename = r[k].st[y].filename
    BY <1>2, <2>1
  <2>4. q[j].type = q[k].type
    BY <1>2, <2>1
  <2>5. QED
    BY <2>2, <2>3, <2>4 DEF Keyed
<1>4. ASSUME NEW x \in Sides, NEW t, NEW n
      PROVE  /\ HasKey(r, x, t, n) => HasKey(q, x, t, n) \/ Stands(f, x, t, n)
             /\ HasKey(q, x, t, n) => HasKey(r, x, t, n) \/ Stands(q[i], x, t, n)
             /\ Stands(f, x, t, n) => HasKey(r, x, t, n)
  BY <1>1 DEF HasKey
<1>5. QED
  BY <1>3, <1>4 DEF r

\* An entry less.
LEMMA KeyedRemoved ==
  ASSUME NEW q \in Seq(Entry), Keyed(q), NEW i \in 1 .. Len(q)
  PROVE  /\ Keyed(Removed(q, i))
         /\ \A x \in Sides : \A t, n :
              /\ HasKey(Removed(q, i), x, t, n) => HasKey(q, x, t, n)
              /\ HasKey(q, x, t, n) => HasKey(Removed(q, i), x, t, n) \/ Stands(q[i], x, t, n)
<1> DEFINE r == Removed(q, i)
           g(j) == IF j < i THEN j ELSE j + 1
<1>1. Len(q) \in Nat /\ DOMAIN q = 1 .. Len(q)
  OBVIOUS
<1>2. DOMAIN r = 1 .. Len(q) - 1
  BY <1>1, RemoveShape
<1>3. \A j \in DOMAIN r : r[j] = q[g(j)]
  BY <1>1, <1>2, RemoveShape
<1>4. \A j \in DOMAIN r : g(j) \in DOMAIN q
  BY <1>1, <1>2
<1>5. \A j, k \in DOMAIN r : g(j) = g(k) <=> j = k
  BY <1>1, <1>2
<1>6. \A l \in DOMAIN q : l # i => \E j \in DOMAIN r : g(j) = l
  <2>1. SUFFICES ASSUME NEW l \in DOMAIN q, l # i PROVE \E j \in DOMAIN r : g(j) = l
    OBVIOUS
  <2>2. CASE l < i
    BY <1>1, <1>2, <2>2
  <2>3. CASE l > i
    <3>1. l - 1 \in DOMAIN r /\ g(l - 1) = l
      BY <1>1, <1>2, <2>3
    <3>2. QED
      BY <3>1
  <2>4. QED
    BY <1>1, <2>1, <2>2, <2>3
<1> HIDE DEF r, g
<1>7. Keyed(r)
  <2>1. SUFFICES ASSUME NEW j \in DOMAIN r, NEW k \in DOMAIN r, NEW x \in Sides, NEW y \in Sides,
                        r[j].st[x] # Absent, r[k].st[y] # Absent, r[j].type = r[k].type
                 PROVE  r[j].st[x].filename = r[k].st[y].filename <=> j = k
    BY DEF Keyed
  <2>2. g(j) \in DOMAIN q /\ g(k) \in DOMAIN q /\ r[j] = q[g(j)] /\ r[k] = q[g(k)]
        /\ (g(j) = g(k) <=> j = k)
    BY <1>3, <1>4, <1>5
  <2>3. QED
    BY <2>1, <2>2 DEF Keyed
<1>8. ASSUME NEW x \in Sides, NEW t, NEW n
      PROVE  /\ HasKey(r, x, t, n) => HasKey(q, x, t, n)
             /\ HasKey(q, x, t, n) => HasKey(r, x, t, n) \/ Stands(q[i], x, t, n)
  <2>1. \A l \in DOMAIN q : l = i \/ \E j \in DOMAIN r : r[j] = q[l]
    BY <1>3, <1>6
  <2>2. \A j \in DOMAIN r : \E l \in DOMAIN q : r[j] = q[l]
    BY <1>3, <1>4
  <2>3. QED
    BY <2>1, <2>2 DEF HasKey
<1>9. QED
  BY <1>7, <1>8 DEF r

\* A direct match has the name of the state, and where there is none no entry
\* has it on the other side.
LEMMA DirectMatchName ==
  ASSUME NEW s \in Site, NEW side, NEW type, NEW state
  PROVE  LET d == direct_match(s, side, type, state)
         IN  /\ d = 0 => ~HasKey(s.files, OtherSide(side), type, state.filename)
             /\ d # 0 => /\ d \in DOMAIN s.files
                         /\ Stands(s.files[d], OtherSide(side), type, state.filename)
<1> DEFINE S == {i \in DOMAIN s.files :
                   /\ s.files[i].type = type
                   /\ s.files[i].st[OtherSide(side)] # Absent
                   /\ s.files[i].st[OtherSide(side)].filename = state.filename}
           d == direct_match(s, side, type, state)
<1>1. d = First(S)
  BY DEF direct_match
<1>2. Len(s.files) \in Nat /\ S \in SUBSET (1 .. Len(s.files))
  BY DEF Site
<1>3. \A i \in DOMAIN s.files : i \in S <=> Stands(s.files[i], OtherSide(side), type, state.filename)
  BY DEF Stands
<1>4. S = {} <=> ~HasKey(s.files, OtherSide(side), type, state.filename)
  BY <1>3 DEF HasKey
<1>5. S # {} => First(S) \in S /\ First(S) # 0
  <2> HIDE DEF S
  <2>1. QED
    BY <1>2, FirstFound
<1>6. S = {} => First(S) = 0
  BY DEF First
<1>7. \A i \in S : i \in DOMAIN s.files
  OBVIOUS
<1> HIDE DEF S, d
<1>8. QED
  BY <1>1, <1>3, <1>4, <1>5, <1>6, <1>7 DEF d

\* The list r has the names of q, still apart, and one state of a name besides.
KeyAdded(r, q, side, type, name) ==
  /\ Keyed(r)
  /\ \A x \in Sides : \A t, n :
       HasKey(r, x, t, n) <=> HasKey(q, x, t, n) \/ (x = side /\ t = type /\ n = name)

\* When files are not checked for moves, a state that is merged joins the entry
\* of its name on the other side, or gets one of its own.
LEMMA FileSetUnmoved ==
  ASSUME NEW s, SiteOK(s), ~s.opt.checkmoved, Keyed(s.files),
         NEW side \in Sides, NEW type \in FileTypes, NEW state \in FileState,
         ~HasKey(s.files, side, type, state.filename)
  PROVE  LET q == s.files
             r == file_set(s, side, type, state).files
             f == one_sided(type, side, state, type = "file" /\ file_isignored(state.filename))
         IN  \/ /\ f \in Entry /\ r = Inserted(q, f)
                /\ ~HasKey(q, OtherSide(side), type, state.filename)
             \/ \E d \in DOMAIN q, diff \in Diffs :
                  /\ Stands(q[d], OtherSide(side), type, state.filename)
                  /\ q[d].st[side] = Absent
                  /\ r = [q EXCEPT ![d] = Taken(q[d], side, state, diff)]
<1> DEFINE d   == direct_match(s, side, type, state)
           m   == moved_match(s, side, type, state)
           dd  == direct_diff(s, side, type, state, d)
           c   == chosen_entry(s, side, type, state)
           ign == type = "file" /\ file_isignored(state.filename)
           r   == file_set(s, side, type, state).files
           q   == s.files
<1>1. s \in Site /\ q \in Seq(Entry) /\ Keyed(q)
  BY DEF SiteOK, Site
<1>2. m = 0
  <2>1. move_candidates(s, side, type, state) = {}
    BY DEF move_candidates
  <2>2. First({}) = 0
    BY DEF First
  <2>3. QED
    BY <2>1, <2>2 DEF moved_match
<1>3. /\ d = 0 => ~HasKey(q, OtherSide(side), type, state.filename)
      /\ d # 0 => d \in DOMAIN q /\ Stands(q[d], OtherSide(side), type, state.filename)
  BY <1>1, DirectMatchName
<1>4. OtherSide(side) \in Sides /\ side # OtherSide(side)
  BY DEF Sides, OtherSide
<1>5. CASE d = 0
  <2> DEFINE f == one_sided(type, side, state, ign)
  <2>1. c = 0
    BY <1>2, <1>5 DEF chosen_entry
  <2>2. file_set(s, side, type, state) = add_entry(s, f)
    BY <2>1 DEF file_set
  <2>3. ign \in BOOLEAN
    BY DEF file_isignored
  <2>4. EntryOK(f, s)
    BY <2>3, OneSidedOK
  <2>5. f \in Entry
    BY <2>4 DEF EntryOK
  <2> HIDE DEF f
  <2>6. r = Inserted(q, f)
    BY <1>1, <2>2, <2>5, AddEntryFiles
  <2>7. QED
    BY <1>3, <1>5, <2>5, <2>6 DEF f
<1>6. CASE d # 0
  <2>1. d \in DOMAIN q /\ Stands(q[d], OtherSide(side), type, state.filename)
    BY <1>3, <1>6
  <2>2. q[d].diff # "moved"
    <3>1. EntryOK(q[d], s)
      BY <2>1 DEF SiteOK
    <3>2. QED
      BY <3>1 DEF EntryOK, file_compare
  <2>3. c = d
    BY <1>2, <1>6, <2>2 DEF chosen_entry
  <2>4. file_set(s, side, type, state) = overwrite_entry(s, side, d, state, dd)
    BY <1>6, <2>3 DEF file_set
  <2>5. q[d].st[side] = Absent
    <3>1. SUFFICES ASSUME q[d].st[side] # Absent PROVE FALSE
      OBVIOUS
    <3>2. q[d].st[side].filename = state.filename
      BY <1>1, <1>4, <2>1, <3>1 DEF Keyed, Stands
    <3>3. Stands(q[d], side, type, state.filename)
      BY <2>1, <3>1, <3>2 DEF Stands
    <3>4. QED
      BY <2>1, <3>3 DEF HasKey
  <2>6. dd \in Diffs
    BY CompareType DEF direct_diff, default_diff, Diffs
  <2>7. r = [q EXCEPT ![d] = Taken(q[d], side, state, dd)]
    BY <1>1, <2>1, <2>4, <2>5, <2>6, OverwriteShape
  <2> HIDE DEF d, dd, r
  <2>8. QED
    BY <2>1, <2>5, <2>6, <2>7 DEF r
<1>7. QED
  BY <1>5, <1>6

\* So the names stay apart, and there is one state of a name besides.
LEMMA FileSetKeyed ==
  ASSUME NEW s, SiteOK(s), ~s.opt.checkmoved, Keyed(s.files),
         NEW side \in Sides, NEW type \in FileTypes, NEW state \in FileState,
         ~HasKey(s.files, side, type, state.filename)
  PROVE  KeyAdded(file_set(s, side, type, state).files, s.files, side, type, state.filename)
<1> DEFINE ign == type = "file" /\ file_isignored(state.filename)
           f   == one_sided(type, side, state, ign)
           r   == file_set(s, side, type, state).files
           q   == s.files
<1> SUFFICES /\ Keyed(r)
             /\ \A x \in Sides : \A t, n :
                  HasKey(r, x, t, n) <=>
                    HasKey(q, x, t, n) \/ (x = side /\ t = type /\ n = state.filename)
  BY DEF KeyAdded
<1>1. s \in Site /\ q \in Seq(Entry) /\ DOMAIN q = 1 .. Len(q) /\ Keyed(q)
  BY DEF SiteOK, Site
<1>2. state # Absent
  BY ConstantsAssumption
<1>3. Sides = {side, OtherSide(side)} /\ side # OtherSide(side)
  BY DEF Sides, OtherSide
<1>4. \/ /\ f \in Entry /\ r = Inserted(q, f)
         /\ ~HasKey(q, OtherSide(side), type, state.filename)
      \/ \E d \in DOMAIN q, diff \in Diffs :
           /\ Stands(q[d], OtherSide(side), type, state.filename)
           /\ q[d].st[side] = Absent
           /\ r = [q EXCEPT ![d] = Taken(q[d], side, state, diff)]
  BY FileSetUnmoved
<1>5. f.type = type /\ \A x \in Sides : f.st[x] = IF x = side THEN state ELSE Absent
  BY DEF one_sided
<1> HIDE DEF f, r, q
<1>6. CASE /\ f \in Entry /\ r = Inserted(q, f)
           /\ ~HasKey(q, OtherSide(side), type, state.filename)
  <2>1. /\ \A x \in Sides : f.st[x] # Absent => f.st[x].filename = state.filename
        /\ \A x \in Sides : ~HasKey(q, x, f.type, state.filename)
    BY <1>3, <1>5, <1>6 DEF q
  <2>2. /\ Keyed(Inserted(q, f))
        /\ \A x \in Sides : \A t, n :
             HasKey(Inserted(q, f), x, t, n) <=> HasKey(q, x, t, n) \/ Stands(f, x, t, n)
    BY <1>1, <1>6, <2>1, KeyedInserted
  <2>3. \A x \in Sides : \A t, n : Stands(f, x, t, n) <=> (x = side /\ t = type /\ n = state.filename)
    BY <1>2, <1>5 DEF Stands
  <2>4. QED
    BY <1>6, <2>2, <2>3
<1>7. ASSUME NEW d \in DOMAIN q, NEW diff \in Diffs,
             Stands(q[d], OtherSide(side), type, state.filename), q[d].st[side] = Absent,
             r = [q EXCEPT ![d] = Taken(q[d], side, state, diff)]
      PROVE  /\ Keyed(r)
             /\ \A x \in Sides : \A t, n :
                  HasKey(r, x, t, n) <=>
                    HasKey(q, x, t, n) \/ (x = side /\ t = type /\ n = state.filename)
  <2> DEFINE g == Taken(q[d], side, state, diff)
  <2>1. q[d] \in Entry
    BY <1>1
  <2>2. g.type = q[d].type /\ \A x \in Sides : g.st[x] = IF x = side THEN state ELSE q[d].st[x]
    BY <2>1 DEF Taken, Entry
  <2>3. r = [q EXCEPT ![d] = g]
    BY <1>7
  <2> HIDE DEF g
  <2>4. \A x \in Sides : g.st[x] # Absent =>
          \E y \in Sides : q[d].st[y] # Absent /\ q[d].st[y].filename = g.st[x].filename
    BY <1>3, <1>7, <2>2 DEF Stands
  <2>5. /\ Keyed(r)
        /\ \A x \in Sides : \A t, n :
             /\ HasKey(r, x, t, n) => HasKey(q, x, t, n) \/ Stands(g, x, t, n)
             /\ HasKey(q, x, t, n) => HasKey(r, x, t, n) \/ Stands(q[d], x, t, n)
             /\ Stands(g, x, t, n) => HasKey(r, x, t, n)
    BY <1>1, <2>2, <2>3, <2>4, KeyedReplaced
  <2>6. ASSUME NEW x \in Sides, NEW t, NEW n
        PROVE  HasKey(r, x, t, n) <=> HasKey(q, x, t, n) \/ (x = side /\ t = type /\ n = state.filename)
    <3>1. Stands(q[d], x, t, n) => Stands(g, x, t, n) /\ HasKey(q, x, t, n)
      BY <1>7, <2>2 DEF Stands, HasKey
    <3>2. Stands(g, x, t, n) <=> Stands(q[d], x, t, n) \/ (x = side /\ t = type /\ n = state.filename)
      BY <1>2, <1>7, <2>2 DEF Stands
    <3>3. /\ HasKey(r, x, t, n) => HasKey(q, x, t, n) \/ Stands(g, x, t, n)
          /\ HasKey(q, x, t, n) => HasKey(r, x, t, n) \/ Stands(q[d], x, t, n)
          /\ Stands(g, x, t, n) => HasKey(r, x, t, n)
      BY <2>5
    <3>4. QED
      BY <3>1, <3>2, <3>3
  <2>7. QED
    BY <2>5, <2>6
<1>8. QED
  BY <1>4, <1>6, <1>7

\* An entry whose states change under the same name keeps its key; what is on
\* the local side is kept.
LEMMA SetStatesKeyed ==
  ASSUME NEW s \in Site, Keyed(s.files), NEW i \in DOMAIN s.files,
         NEW st \in [Sides -> FileState \cup {Absent}], st["local"] = Local(s.files[i]),
         \A x \in Sides : st[x] # Absent =>
           \E y \in Sides : s.files[i].st[y] # Absent /\ s.files[i].st[y].filename = st[x].filename
  PROVE  /\ Keyed(set_states(s, i, st).files)
         /\ \A t, n : HasKey(s.files, "local", t, n) => HasKey(set_states(s, i, st).files, "local", t, n)
<1> DEFINE r == set_states(s, i, st).files
           f == r[i]
           q == s.files
<1>1. r = [q EXCEPT ![i] = f] /\ f.st = st /\ f.type = q[i].type
  BY SetStatesFiles
<1> HIDE DEF f, r
<1>2. /\ Keyed(r)
      /\ \A x \in Sides : \A t, n :
           /\ HasKey(q, x, t, n) => HasKey(r, x, t, n) \/ Stands(q[i], x, t, n)
           /\ Stands(f, x, t, n) => HasKey(r, x, t, n)
  BY <1>1, KeyedReplaced
<1>3. \A t, n : Stands(q[i], "local", t, n) => Stands(f, "local", t, n)
  BY <1>1 DEF Stands, Local
<1>4. QED
  BY <1>2, <1>3 DEF r, Sides

\* What an entry that is ignored stands for matches an `ignore' pattern.
IgnoresNamed(q) ==
  \A i \in DOMAIN q : q[i].ignore =>
    \A x \in Sides : q[i].st[x] # Absent => q[i].st[x].filename \in Ignored

\* A state that is merged is ignored when its name is.
LEMMA FileSetIgnores ==
  ASSUME NEW s, SiteOK(s), ~s.opt.checkmoved, Keyed(s.files), IgnoresNamed(s.files),
         NEW side \in Sides, NEW type \in FileTypes, NEW state \in FileState,
         ~HasKey(s.files, side, type, state.filename)
  PROVE  IgnoresNamed(file_set(s, side, type, state).files)
<1> DEFINE ign == type = "file" /\ file_isignored(state.filename)
           f   == one_sided(type, side, state, ign)
           r   == file_set(s, side, type, state).files
           q   == s.files
<1>1. q \in Seq(Entry) /\ IgnoresNamed(q)
  BY DEF SiteOK, Site
<1>2. \/ f \in Entry /\ r = Inserted(q, f)
      \/ \E d \in DOMAIN q, diff \in Diffs :
           /\ Stands(q[d], OtherSide(side), type, state.filename)
           /\ q[d].st[side] = Absent
           /\ r = [q EXCEPT ![d] = Taken(q[d], side, state, diff)]
  BY FileSetUnmoved
<1>3. f.ignore => \A x \in Sides : f.st[x] # Absent => f.st[x].filename \in Ignored
  BY DEF one_sided, file_isignored
<1> HIDE DEF f, r, q
<1>4. CASE f \in Entry /\ r = Inserted(q, f)
  <2>1. PICK e \in DOMAIN Inserted(q, f) : \E g : InsertedAt(Inserted(q, f), q, f, e, g)
    BY <1>1, <1>4, InsertMap
  <2>2. \A j \in DOMAIN r : r[j] = f \/ \E l \in DOMAIN q : r[j] = q[l]
    BY <1>4, <2>1 DEF InsertedAt
  <2>3. QED
    BY <1>1, <1>3, <2>2 DEF IgnoresNamed, r
<1>5. ASSUME NEW d \in DOMAIN q, NEW diff \in Diffs,
             Stands(q[d], OtherSide(side), type, state.filename),
             r = [q EXCEPT ![d] = Taken(q[d], side, state, diff)]
      PROVE  IgnoresNamed(r)
  <2> DEFINE g == Taken(q[d], side, state, diff)
  <2>1. q[d] \in Entry /\ OtherSide(side) \in Sides
    BY <1>1 DEF OtherSide, Sides
  <2>2. g.ignore = q[d].ignore /\ \A x \in Sides : g.st[x] = IF x = side THEN state ELSE q[d].st[x]
    BY <2>1 DEF Taken, Entry
  <2>3. DOMAIN r = DOMAIN q /\ \A j \in DOMAIN q : r[j] = IF j = d THEN g ELSE q[j]
    BY <1>5
  <2> HIDE DEF g
  <2>4. q[d].ignore => state.filename \in Ignored
    BY <1>1, <1>5, <2>1 DEF IgnoresNamed, Stands
  <2>5. QED
    BY <1>1, <2>2, <2>3, <2>4 DEF IgnoresNamed
<1>6. QED
  BY <1>2, <1>4, <1>5 DEF r

\* set_states leaves the mark that an entry is ignored, and its server time.
LEMMA SetStatesIgnore ==
  ASSUME NEW s \in Site, NEW i \in DOMAIN s.files, NEW st
  PROVE  /\ set_states(s, i, st).files[i].ignore = s.files[i].ignore
         /\ set_states(s, i, st).files[i].server = s.files[i].server
<1> DEFINE f == [s.files[i] EXCEPT !.st = st]
           t == file_replace(s, i, f)
           g == [f EXCEPT !.diff = file_compare(f.type, Local(f), Stored(f), t)]
<1>1. s.files[i] \in Entry
  BY DEF Site
<1>2. g.ignore = s.files[i].ignore /\ g.server = s.files[i].server
  BY <1>1 DEF Entry
<1>3. t.files = [s.files EXCEPT ![i] = f] /\ i \in DOMAIN t.files
  BY DEF file_replace, Site
<1> HIDE DEF f
<1>4. t.files[i] = f
  BY <1>3
<1>5. set_states(s, i, st) = file_set_diff(t, i)
  BY DEF set_states, f
<1> HIDE DEF t
<1>6. file_set_diff(t, i).files = [t.files EXCEPT ![i] = g]
  BY <1>4 DEF file_set_diff, file_replace, site_stats_increase, site_stats_decrease, count_entry
<1> HIDE DEF g
<1>7. [t.files EXCEPT ![i] = g][i] = g
  BY <1>3
<1>8. QED
  BY <1>2, <1>5, <1>6, <1>7

-----------------------------------------------------------------------------
(* The info file                                                           *)

\* What the loop has written after entry k, when it had written q before it.
NextWritten(fs, k, q) == IF Stored(fs[k]) = Absent THEN q ELSE Append(q, item_of(fs[k]))

\* g is what the loop writes up to entry n.
WritesUpTo(fs, n, g) ==
  g = [k \in 0 .. n |-> IF k = 0 THEN << >> ELSE NextWritten(fs, k, g[k - 1])]

\* The loop of site_write_stored_state writes what its recursion says.
LEMMA WrittenEquation ==
  ASSUME NEW fs, Len(fs) \in Nat
  PROVE  WritesUpTo(fs, Len(fs), written(fs))
<1> DEFINE T == {n \in 0 .. Len(fs) : ~ \E g : WritesUpTo(fs, n, g)}
<1>1. T = {}
  <2>1. SUFFICES ASSUME T # {} PROVE FALSE
    OBVIOUS
  <2>2. T \in SUBSET Nat
    OBVIOUS
  <2>3. PICK n \in T : \A m \in T : n =< m
    BY <2>1, <2>2, LeastNumber
  <2>4. n \in Nat /\ n =< Len(fs)
    OBVIOUS
  <2>5. CASE n = 0
    <3>1. WritesUpTo(fs, 0, [k \in 0 .. 0 |-> << >>])
      BY DEF WritesUpTo
    <3>2. QED
      BY <2>5, <3>1
  <2>6. CASE n # 0
    <3>1. n - 1 \in 0 .. Len(fs) /\ ~(n =< n - 1)
      BY <2>4, <2>6
    <3>2. PICK g : WritesUpTo(fs, n - 1, g)
      BY <2>3, <3>1
    <3> DEFINE h == [k \in 0 .. n |-> IF k = n THEN NextWritten(fs, n, g[n - 1]) ELSE g[k]]
    <3>3. \A k \in 0 .. n - 1 : g[k] = IF k = 0 THEN << >> ELSE NextWritten(fs, k, g[k - 1])
      BY <3>2 DEF WritesUpTo
    <3>4. \A k \in 0 .. n : h[k] = IF k = n THEN NextWritten(fs, n, g[n - 1]) ELSE g[k]
      OBVIOUS
    <3>5. \A k \in 0 .. n : h[k] = IF k = 0 THEN << >> ELSE NextWritten(fs, k, h[k - 1])
      <4>1. SUFFICES ASSUME NEW k \in 0 .. n
                     PROVE  h[k] = IF k = 0 THEN << >> ELSE NextWritten(fs, k, h[k - 1])
        OBVIOUS
      <4>2. k # 0 => h[k - 1] = g[k - 1]
        BY <2>4, <2>6, <3>4
      <4> HIDE DEF h
      <4>3. CASE k = n
        BY <2>4, <2>6, <3>4, <4>2, <4>3
      <4>4. CASE k # n
        <5>1. k \in 0 .. n - 1
          BY <2>4, <4>4
        <5>2. QED
          BY <3>3, <3>4, <4>2, <4>4, <5>1
      <4>5. QED
        BY <4>3, <4>4
    <3>6. h = [k \in 0 .. n |-> h[k]]
      OBVIOUS
    <3> HIDE DEF h
    <3>7. WritesUpTo(fs, n, h)
      BY <3>5, <3>6 DEF WritesUpTo
    <3>8. QED
      BY <3>7
  <2>7. QED
    BY <2>5, <2>6
<1>2. Len(fs) \in 0 .. Len(fs)
  OBVIOUS
<1>3. \E g : WritesUpTo(fs, Len(fs), g)
  BY <1>1, <1>2
<1>4. written(fs) = CHOOSE g : WritesUpTo(fs, Len(fs), g)
  BY DEF written, WritesUpTo, NextWritten
<1>5. QED
  BY <1>3, <1>4

\* The items of the info file are items.
LEMMA ItemsTyped ==
  ASSUME NEW fs \in Seq(Entry)
  PROVE  items_of(fs) \in Seq(Item)
<1> DEFINE w == written(fs)
           T == {n \in 0 .. Len(fs) : w[n] \notin Seq(Item)}
<1>0. Len(fs) \in Nat /\ DOMAIN fs = 1 .. Len(fs)
  OBVIOUS
<1>1. \A n \in 0 .. Len(fs) : w[n] = IF n = 0 THEN << >> ELSE NextWritten(fs, n, w[n - 1])
  BY <1>0, WrittenEquation DEF WritesUpTo
<1> HIDE DEF w
<1>2. \A n \in 1 .. Len(fs) : \A q \in Seq(Item) : NextWritten(fs, n, q) \in Seq(Item)
  <2>1. SUFFICES ASSUME NEW n \in 1 .. Len(fs), NEW q \in Seq(Item)
                 PROVE  NextWritten(fs, n, q) \in Seq(Item)
    OBVIOUS
  <2>2. fs[n] \in Entry
    BY <1>0
  <2>3. Stored(fs[n]) \in FileState \cup {Absent} /\ fs[n].type \in FileTypes /\ fs[n].server \in Nat
    BY <2>2 DEF Entry, Stored, Sides
  <2>4. Stored(fs[n]) # Absent => item_of(fs[n]) \in Item
    BY <2>3 DEF item_of, Item
  <2>5. QED
    BY <2>4 DEF NextWritten
<1>3. T = {}
  <2>1. SUFFICES ASSUME T # {} PROVE FALSE
    OBVIOUS
  <2>2. T \in SUBSET Nat
    OBVIOUS
  <2>3. PICK n \in T : \A m \in T : n =< m
    BY <2>1, <2>2, LeastNumber
  <2>4. n \in 0 .. Len(fs) /\ w[n] \notin Seq(Item)
    OBVIOUS
  <2>5. n # 0
    <3>1. 0 \in 0 .. Len(fs) /\ << >> \in Seq(Item)
      BY <1>0
    <3>2. w[0] = << >>
      BY <1>1, <3>1
    <3>3. QED
      BY <2>4, <3>1, <3>2
  <2>6. n - 1 \in 0 .. Len(fs) /\ ~(n =< n - 1) /\ n \in 1 .. Len(fs)
    BY <1>0, <2>4, <2>5
  <2>7. w[n - 1] \in Seq(Item)
    BY <2>3, <2>6
  <2>8. QED
    BY <1>1, <1>2, <2>4, <2>5, <2>6, <2>7
<1>4. Len(fs) \in 0 .. Len(fs)
  BY <1>0
<1>5. QED
  BY <1>3, <1>4 DEF items_of, w

\* An item of a list is one of the items of its type.
LEMMA ItemAt ==
  ASSUME NEW items \in Seq(Item), NEW k \in Nat, k # 0, k =< Len(items)
  PROVE  /\ items[k] \in Item
         /\ items[k].type \in FileTypes /\ items[k].state \in FileState /\ items[k].server \in Nat
<1>1. items[k] \in Item
  OBVIOUS
<1>2. QED
  BY <1>1 DEF Item

\* file_set returns the entry that has the new state.
LEMMA SetIndex ==
  ASSUME NEW s \in Site, NEW side \in Sides, NEW type \in FileTypes, NEW state \in FileState
  PROVE  file_set_index(s, side, type, state) \in DOMAIN file_set(s, side, type, state).files
<1> DEFINE d   == direct_match(s, side, type, state)
           m   == moved_match(s, side, type, state)
           dd  == direct_diff(s, side, type, state, d)
           i   == chosen_entry(s, side, type, state)
           ign == type = "file" /\ file_isignored(state.filename)
           k   == file_set_index(s, side, type, state)
           r   == file_set(s, side, type, state)
<1>1. Len(s.files) \in Nat /\ DOMAIN s.files = 1 .. Len(s.files) /\ s.files \in Seq(Entry)
  BY DEF Site
<1>2. i = 0 \/ i = d \/ i = m
  BY DEF chosen_entry
<1>3. CASE i = 0
  <2>1. r = add_entry(s, one_sided(type, side, state, ign))
    BY <1>3 DEF file_set
  <2>2. k = IF type = "dir" THEN Len(s.files) + 1 ELSE 1
    BY <1>3 DEF file_set_index
  <2>3. one_sided(type, side, state, ign) \in Entry
    BY OneSidedOK DEF EntryOK
  <2> DEFINE e == one_sided(type, side, state, ign)
  <2> HIDE DEF r, k, i, ign, e
  <2>4. r.files \in Seq(Entry) /\ Len(r.files) = Len(s.files) + 1
    <3>1. r = add_entry(s, e) /\ e \in Entry
      BY <2>1, <2>3 DEF e
    <3>2. r.files = Inserted(s.files, e)
      BY <3>1, AddEntryFiles
    <3>3. QED
      BY <1>1, <3>1, <3>2, InsertShape
  <2>5. QED
    BY <1>1, <2>2, <2>4 DEF r, k
<1>4. CASE i # 0
  <2>1. i \in DOMAIN s.files
    <3>1. CASE i = d
      BY <1>4, <3>1, DirectMatch
    <3>2. CASE i = m
      BY <1>4, <3>2, MovedMatch
    <3>3. QED
      BY <1>2, <1>4, <3>1, <3>2
  <2> DEFINE diff == IF i = d THEN dd ELSE "moved"
  <2>2. diff \in Diffs
    BY CompareType DEF direct_diff, default_diff, Diffs
  <2>3. r = overwrite_entry(s, side, i, state, diff)
    BY <1>4 DEF file_set
  <2>4. k = IF type # "dir" /\ s.files[i].st[side] # Absent THEN i + 1 ELSE i
    BY <1>4 DEF file_set_index
  <2> HIDE DEF diff, i, r, k
  <2> DEFINE fs == [s.files EXCEPT ![i] = Taken(s.files[i], side, state, diff)]
  <2>5. r.files = IF s.files[i].st[side] = Absent THEN fs
                  ELSE Inserted(fs, Shoved(s.files[i], side))
    BY <2>1, <2>2, <2>3, OverwriteShape
  <2>6. /\ Taken(s.files[i], side, state, diff) \in Entry
        /\ s.files[i].st[side] # Absent => Shoved(s.files[i], side) \in Entry
    BY <1>1, <2>1, <2>2, TakenType
  <2>7. fs \in Seq(Entry) /\ Len(fs) = Len(s.files)
    BY <1>1, <2>1, <2>6
  <2> HIDE DEF fs
  <2>8. s.files[i].st[side] # Absent => Inserted(fs, Shoved(s.files[i], side)) \in Seq(Entry)
                                        /\ Len(Inserted(fs, Shoved(s.files[i], side))) = Len(fs) + 1
    BY <2>6, <2>7, InsertShape
  <2>9. CASE s.files[i].st[side] = Absent
    <3>1. k = i /\ DOMAIN r.files = 1 .. Len(s.files)
      BY <2>4, <2>5, <2>7, <2>9
    <3>2. QED
      BY <1>1, <2>1, <3>1 DEF r, k
  <2>10. CASE s.files[i].st[side] # Absent
    <3>1. k \in {i, i + 1} /\ DOMAIN r.files = 1 .. Len(s.files) + 1
      BY <2>4, <2>5, <2>7, <2>8, <2>10
    <3>2. QED
      BY <1>1, <2>1, <3>1 DEF r, k
  <2>11. QED
    BY <2>9, <2>10
<1>5. QED
  BY <1>3, <1>4

\* The options do not change when a state is merged.
LEMMA FileSetOpt ==
  ASSUME NEW s \in Site, NEW side \in Sides, NEW type \in FileTypes, NEW state \in FileState
  PROVE  file_set(s, side, type, state).opt = s.opt
BY DEF file_set, add_entry, overwrite_entry, site_stats_increase, site_stats_decrease, count_entry,
       file_insert, file_replace, Site

\* The server modification time has no part in what makes a list exact.
LEMMA ServerTimeExact ==
  ASSUME NEW s, Exact(s), NEW i \in DOMAIN s.files, NEW n \in Nat
  PROVE  /\ Exact(file_replace(s, i, [s.files[i] EXCEPT !.server = n]))
         /\ file_replace(s, i, [s.files[i] EXCEPT !.server = n]).opt = s.opt
         /\ file_replace(s, i, [s.files[i] EXCEPT !.server = n]).files
              = [s.files EXCEPT ![i] = [s.files[i] EXCEPT !.server = n]]
<1> DEFINE f == s.files[i]
           g == [f EXCEPT !.server = n]
           t == file_replace(s, i, g)
<1>1. s \in Site /\ Counted(s) /\ EntryOK(f, s) /\ f \in Entry
  BY DEF Exact, SiteOK, EntryOK
<1>2. /\ g \in Entry /\ g.type = f.type /\ g.diff = f.diff /\ g.ignore = f.ignore /\ g.st = f.st
  BY <1>1 DEF Entry
<1> HIDE DEF g
<1>3. EntryOK(g, s)
  BY <1>1, <1>2 DEF EntryOK, Local, Stored
<1>4. SiteOK(t) /\ t.opt = s.opt
  BY <1>1, <1>3, ReplaceOK DEF Exact, SiteOK
<1>5. t.files = [s.files EXCEPT ![i] = g] /\ t.num = s.num
  BY <1>1 DEF file_replace, Site
<1>6. \A k : One(g, k) = One(f, k)
  BY <1>2 DEF One, StatKey
<1>7. \A k \in Counters : t.num[k] = s.num[k] - One(f, k) + One(g, k)
  <2>1. SUFFICES ASSUME NEW k \in Counters
                 PROVE  t.num[k] = s.num[k] - One(f, k) + One(g, k)
    OBVIOUS
  <2>2. s.num[k] \in Int /\ One(f, k) \in Int
    BY <1>1 DEF Site, One
  <2>3. QED
    BY <1>5, <1>6, <2>2
<1> HIDE DEF t
<1>8. Counted(t)
  BY <1>1, <1>2, <1>5, <1>7, RecountReplaced
<1>9. QED
  BY <1>4, <1>5, <1>8 DEF Exact, t, g

\* One item merged into an exact list leaves an exact list.
LEMMA ReadItemExact ==
  ASSUME NEW s, Exact(s), NEW time \in Nat, NEW it \in Item
  PROVE  LET read == read_item([site |-> s, doc |-> time], it)
         IN  Exact(read.site) /\ read.site.opt = s.opt /\ read.doc \in Nat
<1> DEFINE t == server_modtime(time, it)
           u == file_set_stored(s, it.type, it.state)
           k == file_set_index(s, "stored", it.type, it.state)
           read == read_item([site |-> s, doc |-> time], it)
<1>1. it.type \in FileTypes /\ it.state \in FileState /\ it.server \in Nat
  BY DEF Item
<1>2. t \in Nat
  BY <1>1 DEF server_modtime
<1>3. s \in Site
  BY DEF Exact, SiteOK
<1>4. Exact(u) /\ u.opt = s.opt /\ k \in DOMAIN u.files
  BY <1>1, <1>3, FileSetExact, FileSetOpt, SetIndex DEF file_set_stored, Sides
<1>5. read.doc = t /\ read.site = IF t = 0 THEN u ELSE file_replace(u, k, [u.files[k] EXCEPT !.server = t])
  BY DEF read_item
<1> HIDE DEF read, t, u, k
<1>6. Exact(read.site) /\ read.site.opt = s.opt /\ read.doc \in Nat
  <2>1. CASE t = 0
    BY <1>2, <1>4, <1>5, <2>1
  <2>2. CASE t # 0
    <3> DEFINE v == file_replace(u, k, [u.files[k] EXCEPT !.server = t])
    <3>1. Exact(v) /\ v.opt = u.opt
      BY <1>2, <1>4, ServerTimeExact
    <3>2. read.site = v
      BY <1>5, <2>2
    <3> HIDE DEF v
    <3>3. QED
      BY <1>2, <1>4, <1>5, <3>1, <3>2
  <2>3. QED
    BY <2>1, <2>2
<1>7. QED
  BY <1>6 DEF read

\* The empty list is exact.
LEMMA EmptySiteExact ==
  ASSUME NEW o \in Options
  PROVE  Exact(EmptySite(o)) /\ EmptySite(o).opt = o
<1> DEFINE s == EmptySite(o)
<1>1. s \in Site /\ s.files = << >> /\ s.opt = o /\ \A k \in Counters : s.num[k] = 0
  BY DEF EmptySite, Site, Counters, Diffs
<1> HIDE DEF s
<1>2. SiteOK(s)
  BY <1>1 DEF SiteOK
<1>3. \A k \in Counters : CountedBy(s.files, k) = {}
  BY <1>1 DEF CountedBy
<1>4. Counted(s)
  BY <1>1, <1>3, FS_EmptySet DEF Counted
<1>5. QED
  BY <1>1, <1>2, <1>4 DEF Exact, s

\* No two items stand for the same file.
KeyedItems(q) ==
  \A k, l \in DOMAIN q :
     q[k].type = q[l].type /\ q[k].state.filename = q[l].state.filename => k = l

\* The items q were written for those of the first n entries that have a stored
\* state, one for each.
WrittenFor(q, fs, n, g) ==
  /\ \A k \in DOMAIN q : /\ g[k] \in 1 .. n
                         /\ Stored(fs[g[k]]) # Absent /\ q[k] = item_of(fs[g[k]])
  /\ \A k, l \in DOMAIN q : g[k] = g[l] => k = l
  /\ \A i \in 1 .. n : Stored(fs[i]) # Absent => \E k \in DOMAIN q : g[k] = i

\* Every item of the info file was written for an entry of its own.
LEMMA ItemsOfEntries ==
  ASSUME NEW fs \in Seq(Entry)
  PROVE  \E g : WrittenFor(items_of(fs), fs, Len(fs), g)
<1> DEFINE w == written(fs)
           T == {n \in 0 .. Len(fs) : w[n] \notin Seq(Item) \/ ~ \E g : WrittenFor(w[n], fs, n, g)}
<1>0. Len(fs) \in Nat /\ DOMAIN fs = 1 .. Len(fs)
  OBVIOUS
<1>1. \A n \in 0 .. Len(fs) : w[n] = IF n = 0 THEN << >> ELSE NextWritten(fs, n, w[n - 1])
  BY <1>0, WrittenEquation DEF WritesUpTo
<1> HIDE DEF w
<1>2. T = {}
  <2>1. SUFFICES ASSUME T # {} PROVE FALSE
    OBVIOUS
  <2>2. T \in SUBSET Nat
    OBVIOUS
  <2>3. PICK n \in T : \A m \in T : n =< m
    BY <2>1, <2>2, LeastNumber
  <2>4. n \in 0 .. Len(fs) /\ (w[n] \notin Seq(Item) \/ ~ \E g : WrittenFor(w[n], fs, n, g))
    OBVIOUS
  <2>5. n # 0
    <3>1. 0 \in 0 .. Len(fs) /\ << >> \in Seq(Item) /\ DOMAIN << >> = {}
      BY <1>0
    <3>2. w[0] = << >>
      BY <1>1, <3>1
    <3>3. WrittenFor(<< >>, fs, 0, << >>)
      BY <3>1 DEF WrittenFor
    <3>4. QED
      BY <2>4, <3>1, <3>2, <3>3
  <2>6. n - 1 \in 0 .. Len(fs) /\ ~(n =< n - 1) /\ n \in 1 .. Len(fs)
    BY <1>0, <2>4, <2>5
  <2> DEFINE q == w[n - 1]
  <2>7. q \in Seq(Item) /\ \E g : WrittenFor(q, fs, n - 1, g)
    BY <2>3, <2>6
  <2>8. PICK g : WrittenFor(q, fs, n - 1, g)
    BY <2>7
  <2>9. w[n] = NextWritten(fs, n, q)
    BY <1>1, <2>4, <2>5
  <2> HIDE DEF q, T
  <2>10. CASE Stored(fs[n]) = Absent
    <3>1. w[n] = q
      BY <2>9, <2>10 DEF NextWritten
    <3>2. WrittenFor(q, fs, n, g)
      <4>1. \A i \in 1 .. n : i = n \/ i \in 1 .. n - 1
        BY <2>6
      <4>2. \A k \in 1 .. n - 1 : k \in 1 .. n
        BY <2>6
      <4>3. QED
        BY <2>8, <2>10, <4>1, <4>2 DEF WrittenFor
    <3>3. QED
      BY <2>4, <2>7, <3>1, <3>2
  <2>11. CASE Stored(fs[n]) # Absent
    <3> DEFINE it == item_of(fs[n])
               r  == Append(q, it)
               h  == [k \in 1 .. Len(q) + 1 |-> IF k = Len(q) + 1 THEN n ELSE g[k]]
    <3>1. w[n] = r
      BY <2>9, <2>11 DEF NextWritten
    <3>2. it \in Item
      <4>1. fs[n] \in Entry
        BY <1>0, <2>6
      <4>2. Stored(fs[n]) \in FileState /\ fs[n].type \in FileTypes /\ fs[n].server \in Nat
        BY <2>11, <4>1 DEF Entry, Stored, Sides
      <4>3. QED
        BY <4>2 DEF item_of, Item
    <3> HIDE DEF it
    <3>3. /\ r \in Seq(Item) /\ DOMAIN r = 1 .. Len(q) + 1 /\ Len(q) \in Nat /\ DOMAIN q = 1 .. Len(q)
          /\ \A k \in 1 .. Len(q) + 1 : r[k] = IF k = Len(q) + 1 THEN it ELSE q[k]
      BY <2>7, <3>2
    <3>4. \A k \in 1 .. Len(q) + 1 : h[k] = IF k = Len(q) + 1 THEN n ELSE g[k]
      OBVIOUS
    <3> HIDE DEF h, r
    <3>5. \A k \in 1 .. Len(q) + 1 : k # Len(q) + 1 => k \in DOMAIN q /\ g[k] \in 1 .. n - 1
      BY <2>8, <3>3 DEF WrittenFor
    <3>6. \A k \in DOMAIN r : h[k] \in 1 .. n /\ Stored(fs[h[k]]) # Absent /\ r[k] = item_of(fs[h[k]])
      <4>1. SUFFICES ASSUME NEW k \in 1 .. Len(q) + 1
                     PROVE  h[k] \in 1 .. n /\ Stored(fs[h[k]]) # Absent /\ r[k] = item_of(fs[h[k]])
        BY <3>3
      <4>2. CASE k = Len(q) + 1
        BY <2>6, <2>11, <3>3, <3>4, <4>2 DEF it
      <4>3. CASE k # Len(q) + 1
        <5>1. k \in DOMAIN q /\ g[k] \in 1 .. n - 1 /\ h[k] = g[k] /\ r[k] = q[k]
          BY <3>3, <3>4, <3>5, <4>3
        <5>2. Stored(fs[g[k]]) # Absent /\ q[k] = item_of(fs[g[k]])
          BY <2>8, <5>1 DEF WrittenFor
        <5>3. QED
          BY <2>6, <5>1, <5>2
      <4>4. QED
        BY <4>2, <4>3
    <3>7. \A k, l \in DOMAIN r : h[k] = h[l] => k = l
      <4>1. SUFFICES ASSUME NEW k \in 1 .. Len(q) + 1, NEW l \in 1 .. Len(q) + 1, h[k] = h[l]
                     PROVE  k = l
        BY <3>3
      <4>2. \A j \in 1 .. Len(q) + 1 : j # Len(q) + 1 => h[j] # n
        BY <2>6, <3>4, <3>5
      <4>3. CASE k # Len(q) + 1 /\ l # Len(q) + 1
        BY <2>8, <3>4, <3>5, <4>1, <4>3 DEF WrittenFor
      <4>4. CASE k = Len(q) + 1 \/ l = Len(q) + 1
        BY <3>4, <4>1, <4>2, <4>4
      <4>5. QED
        BY <4>3, <4>4
    <3>8. ASSUME NEW i \in 1 .. n, Stored(fs[i]) # Absent
          PROVE  \E k \in DOMAIN r : h[k] = i
      <4>1. CASE i = n
        <5>1. Len(q) + 1 \in DOMAIN r /\ h[Len(q) + 1] = n
          BY <3>3, <3>4
        <5>2. QED
          BY <4>1, <5>1
      <4>2. CASE i # n
        <5>1. i \in 1 .. n - 1
          BY <2>6, <4>2
        <5>2. PICK k \in DOMAIN q : g[k] = i
          BY <2>8, <3>8, <5>1 DEF WrittenFor
        <5>3. k \in DOMAIN r /\ h[k] = g[k]
          BY <3>3, <3>4
        <5>4. QED
          BY <5>2, <5>3
      <4>3. QED
        BY <4>1, <4>2
    <3>9. WrittenFor(r, fs, n, h)
      BY <3>6, <3>7, <3>8 DEF WrittenFor
    <3>10. QED
      BY <2>4, <3>1, <3>3, <3>9
  <2>12. QED
    BY <2>10, <2>11
<1>3. Len(fs) \in 0 .. Len(fs)
  BY <1>0
<1>4. QED
  BY <1>2, <1>3 DEF items_of, w

\* A list in which every file has one entry is written with one item for each.
LEMMA ItemsKeyed ==
  ASSUME NEW fs \in Seq(Entry), Keyed(fs)
  PROVE  KeyedItems(items_of(fs))
<1> DEFINE q == items_of(fs)
<1>1. PICK g : WrittenFor(q, fs, Len(fs), g)
  BY ItemsOfEntries
<1> HIDE DEF q
<1>2. SUFFICES ASSUME NEW k \in DOMAIN q, NEW l \in DOMAIN q,
                      q[k].type = q[l].type, q[k].state.filename = q[l].state.filename
               PROVE  k = l
  BY DEF KeyedItems, q
<1>3. /\ g[k] \in DOMAIN fs /\ Stored(fs[g[k]]) # Absent /\ q[k] = item_of(fs[g[k]])
      /\ g[l] \in DOMAIN fs /\ Stored(fs[g[l]]) # Absent /\ q[l] = item_of(fs[g[l]])
      /\ (g[k] = g[l] => k = l)
  BY <1>1 DEF WrittenFor
<1>4. fs[g[k]].type = fs[g[l]].type /\ Stored(fs[g[k]]).filename = Stored(fs[g[l]]).filename
  BY <1>2, <1>3 DEF item_of
<1>5. g[k] = g[l]
  BY <1>3, <1>4 DEF Keyed, Stored, Sides
<1>6. QED
  BY <1>3, <1>5

\* The server modification time has no part in the names.
LEMMA ServerTimeKeyed ==
  ASSUME NEW s, Exact(s), Keyed(s.files), NEW i \in DOMAIN s.files, NEW n \in Nat
  PROVE  LET r == file_replace(s, i, [s.files[i] EXCEPT !.server = n]).files
         IN  Keyed(r) /\ \A x \in Sides : \A t, m : HasKey(r, x, t, m) <=> HasKey(s.files, x, t, m)
<1> DEFINE q == s.files
           f == [q[i] EXCEPT !.server = n]
           r == file_replace(s, i, f).files
<1>1. r = [q EXCEPT ![i] = f]
  BY ServerTimeExact
<1>2. f.type = q[i].type /\ f.st = q[i].st
  <2>1. q[i] \in Entry
    BY DEF Exact, SiteOK, EntryOK
  <2>2. QED
    BY <2>1 DEF Entry
<1>3. i \in DOMAIN q /\ Keyed(q)
  OBVIOUS
<1> HIDE DEF f, q, r
<1>4. \A x \in Sides : f.st[x] # Absent =>
        \E y \in Sides : q[i].st[y] # Absent /\ q[i].st[y].filename = f.st[x].filename
  BY <1>2
<1>5. /\ Keyed(r)
      /\ \A x \in Sides : \A t, m :
           /\ HasKey(r, x, t, m) => HasKey(q, x, t, m) \/ Stands(f, x, t, m)
           /\ HasKey(q, x, t, m) => HasKey(r, x, t, m) \/ Stands(q[i], x, t, m)
           /\ Stands(f, x, t, m) => HasKey(r, x, t, m)
  BY <1>1, <1>2, <1>3, <1>4, KeyedReplaced
<1>6. \A x, t, m : Stands(f, x, t, m) <=> Stands(q[i], x, t, m)
  BY <1>2 DEF Stands
<1>7. \A x, t, m : Stands(q[i], x, t, m) => HasKey(q, x, t, m)
  BY <1>3 DEF HasKey
<1>8. QED
  BY <1>5, <1>6, <1>7 DEF q, r, f

-----------------------------------------------------------------------------
(* What the states of a list have in common                                *)

\* Every state of the list is in Q, with its side and the type of its entry.
StatesAmong(q, Q) ==
  \A i \in DOMAIN q : \A x \in Sides : q[i].st[x] # Absent => <<x, q[i].type, q[i].st[x]>> \in Q

\* So are the states of one entry.
EntryIn(f, Q) == \A x \in Sides : f.st[x] # Absent => <<x, f.type, f.st[x]>> \in Q

\* What is left when an entry is removed was there before.
LEMMA RemovedFrom ==
  ASSUME NEW q \in Seq(Entry), NEW i \in DOMAIN q
  PROVE  \A j \in DOMAIN Removed(q, i) : \E l \in DOMAIN q : Removed(q, i)[j] = q[l]
<1> DEFINE r == Removed(q, i)
<1>1. i \in 1 .. Len(q) /\ DOMAIN q = 1 .. Len(q) /\ Len(q) \in Nat
  OBVIOUS
<1>2. DOMAIN r = 1 .. Len(q) - 1 /\ \A j \in 1 .. Len(q) - 1 : r[j] = IF j < i THEN q[j] ELSE q[j + 1]
  BY <1>1, RemoveShape
<1> HIDE DEF r
<1>3. SUFFICES ASSUME NEW j \in 1 .. Len(q) - 1 PROVE \E l \in DOMAIN q : r[j] = q[l]
  BY <1>2 DEF r
<1>4. j \in DOMAIN q /\ j + 1 \in DOMAIN q
  BY <1>1
<1>5. QED
  BY <1>2, <1>4

\* An entry more, another entry in its place, and an entry less.
LEMMA ListStatesIn ==
  ASSUME NEW Q, NEW q \in Seq(Entry), StatesAmong(q, Q)
  PROVE  /\ \A f \in Entry : EntryIn(f, Q) => StatesAmong(Inserted(q, f), Q)
         /\ \A i \in DOMAIN q : \A f \in Entry : EntryIn(f, Q) => StatesAmong([q EXCEPT ![i] = f], Q)
         /\ \A i \in DOMAIN q : StatesAmong(Removed(q, i), Q)
<1>1. ASSUME NEW f \in Entry, EntryIn(f, Q) PROVE StatesAmong(Inserted(q, f), Q)
  <2> DEFINE r == Inserted(q, f)
  <2>1. PICK e \in DOMAIN r : \E g : InsertedAt(r, q, f, e, g)
    BY InsertMap
  <2>2. PICK g : InsertedAt(r, q, f, e, g)
    BY <2>1
  <2> HIDE DEF r
  <2>3. \A j \in DOMAIN r : r[j] = f \/ \E l \in DOMAIN q : r[j] = q[l]
    BY <2>2 DEF InsertedAt
  <2>4. QED
    BY <1>1, <2>3 DEF StatesAmong, EntryIn, r
<1>2. ASSUME NEW i \in DOMAIN q, NEW f \in Entry, EntryIn(f, Q) PROVE StatesAmong([q EXCEPT ![i] = f], Q)
  <2>1. \A j \in DOMAIN q : [q EXCEPT ![i] = f][j] = IF j = i THEN f ELSE q[j]
    OBVIOUS
  <2>2. QED
    BY <1>2, <2>1 DEF StatesAmong, EntryIn
<1>3. ASSUME NEW i \in DOMAIN q PROVE StatesAmong(Removed(q, i), Q)
  BY RemovedFrom DEF StatesAmong
<1>4. QED
  BY <1>1, <1>2, <1>3

\* A state that is merged is the only one that is new to the list.
LEMMA FileSetStatesIn ==
  ASSUME NEW s \in Site, NEW Q, StatesAmong(s.files, Q),
         NEW side \in Sides, NEW type \in FileTypes, NEW state \in FileState,
         <<side, type, state>> \in Q
  PROVE  StatesAmong(file_set(s, side, type, state).files, Q)
<1> DEFINE r == file_set(s, side, type, state)
<1>0. s.files \in Seq(Entry)
  BY DEF Site
<1>1. ASSUME NEW ign \in BOOLEAN, one_sided(type, side, state, ign) \in Entry,
             r = add_entry(s, one_sided(type, side, state, ign))
      PROVE  StatesAmong(r.files, Q)
  <2> DEFINE f == one_sided(type, side, state, ign)
  <2>1. EntryIn(f, Q)
    BY DEF EntryIn, one_sided
  <2>2. f \in Entry /\ r.files = Inserted(s.files, f)
    BY <1>1, AddEntryFiles
  <2> HIDE DEF f, r
  <2>3. QED
    BY <1>0, <2>1, <2>2, ListStatesIn
<1>2. ASSUME NEW i \in DOMAIN s.files, NEW diff \in Diffs, s.files[i].type = type,
             r = overwrite_entry(s, side, i, state, diff)
      PROVE  StatesAmong(r.files, Q)
  <2> DEFINE old == s.files[i]
             f   == Taken(old, side, state, diff)
             fs  == [s.files EXCEPT ![i] = f]
             sh  == Shoved(old, side)
  <2>1. r.files = IF old.st[side] = Absent THEN fs ELSE Inserted(fs, sh)
    BY <1>2, OverwriteShape
  <2>2. old \in Entry /\ f \in Entry /\ (old.st[side] # Absent => sh \in Entry)
    BY <1>0, TakenType
  <2>3. EntryIn(f, Q)
    BY <1>2, <2>2 DEF EntryIn, StatesAmong, Taken, Entry
  <2>4. EntryIn(sh, Q)
    BY <2>2 DEF EntryIn, StatesAmong, Shoved, one_sided
  <2> HIDE DEF f, sh, r
  <2>5. StatesAmong(fs, Q) /\ fs \in Seq(Entry)
    BY <1>0, <2>2, <2>3, ListStatesIn
  <2> HIDE DEF fs, old
  <2>6. QED
    BY <2>1, <2>2, <2>4, <2>5, ListStatesIn
<1> HIDE DEF r
<1>3. QED
  BY <1>1, <1>2, FileSetShape DEF r

\* States that are set are the only ones that are new to the list.
LEMMA SetStatesIn ==
  ASSUME NEW s, SiteOK(s), NEW Q, StatesAmong(s.files, Q), NEW i \in DOMAIN s.files,
         NEW st \in [Sides -> FileState \cup {Absent}],
         \A x \in Sides : st[x] # Absent => <<x, s.files[i].type, st[x]>> \in Q
  PROVE  StatesAmong(set_states(s, i, st).files, Q)
<1> DEFINE r == set_states(s, i, st).files
<1>0. s \in Site /\ s.files \in Seq(Entry) /\ s.files[i] \in Entry
  BY DEF SiteOK, Site
<1>1. r = [s.files EXCEPT ![i] = r[i]] /\ r[i].st = st /\ r[i].type = s.files[i].type
  BY <1>0, SetStatesFiles
<1> HIDE DEF r
<1>2. \A j \in DOMAIN s.files : j # i => r[j] = s.files[j]
  BY <1>1
<1>3. DOMAIN r = DOMAIN s.files
  BY <1>1
<1>4. QED
  BY <1>1, <1>2, <1>3 DEF StatesAmong, r

\* The server modification time is no part of a state.
LEMMA ServerTimeStatesIn ==
  ASSUME NEW s, Exact(s), NEW Q, StatesAmong(s.files, Q), NEW i \in DOMAIN s.files, NEW n \in Nat
  PROVE  StatesAmong(file_replace(s, i, [s.files[i] EXCEPT !.server = n]).files, Q)
<1>1. s.files \in Seq(Entry) /\ s.files[i] \in Entry
  BY DEF Exact, SiteOK, Site
<1> DEFINE f == [s.files[i] EXCEPT !.server = n]
<1>2. f \in Entry /\ f.type = s.files[i].type /\ f.st = s.files[i].st
  BY <1>1 DEF Entry
<1>3. EntryIn(f, Q)
  BY <1>2 DEF EntryIn, StatesAmong
<1>4. file_replace(s, i, f).files = [s.files EXCEPT ![i] = f]
  BY ServerTimeExact
<1> HIDE DEF f
<1>5. QED
  BY <1>1, <1>2, <1>3, <1>4, ListStatesIn DEF f

\* file_set returns the entry that has the new state.
LEMMA SetIndexState ==
  ASSUME NEW s \in Site, NEW side \in Sides, NEW type \in FileTypes, NEW state \in FileState
  PROVE  LET f == file_set(s, side, type, state).files[file_set_index(s, side, type, state)]
         IN  f.type = type /\ f.st[side] = state
<1> DEFINE d   == direct_match(s, side, type, state)
           m   == moved_match(s, side, type, state)
           dd  == direct_diff(s, side, type, state, d)
           i   == chosen_entry(s, side, type, state)
           ign == type = "file" /\ file_isignored(state.filename)
           k   == file_set_index(s, side, type, state)
           r   == file_set(s, side, type, state)
<1>1. Len(s.files) \in Nat /\ DOMAIN s.files = 1 .. Len(s.files) /\ s.files \in Seq(Entry)
  BY DEF Site
<1>2. i = 0 \/ i = d \/ i = m
  BY DEF chosen_entry
<1>3. CASE i = 0
  <2> DEFINE e == one_sided(type, side, state, ign)
  <2>1. r = add_entry(s, e)
    BY <1>3 DEF file_set
  <2>2. k = IF type = "dir" THEN Len(s.files) + 1 ELSE 1
    BY <1>3 DEF file_set_index
  <2>3. e \in Entry
    BY OneSidedOK DEF EntryOK
  <2>4. e.type = type /\ e.st[side] = state
    BY DEF one_sided
  <2> HIDE DEF r, k, i, ign, e
  <2>5. r.files = Inserted(s.files, e)
    BY <2>1, <2>3, AddEntryFiles
  <2>6. r.files[k] = e
    BY <1>1, <2>2, <2>3, <2>4, <2>5 DEF Inserted
  <2>7. QED
    BY <2>4, <2>6 DEF r, k
<1>4. CASE i # 0
  <2>1. i \in DOMAIN s.files /\ s.files[i].type = type
    <3>1. CASE i = d
      BY <1>4, <3>1, DirectMatch
    <3>2. CASE i = m
      BY <1>4, <3>2, MovedMatch
    <3>3. QED
      BY <1>2, <1>4, <3>1, <3>2
  <2> DEFINE diff == IF i = d THEN dd ELSE "moved"
  <2>2. diff \in Diffs
    BY CompareType DEF direct_diff, default_diff, Diffs
  <2>3. r = overwrite_entry(s, side, i, state, diff)
    BY <1>4 DEF file_set
  <2>4. k = IF type # "dir" /\ s.files[i].st[side] # Absent THEN i + 1 ELSE i
    BY <1>4 DEF file_set_index
  <2> HIDE DEF diff, i, r, k
  <2> DEFINE f  == Taken(s.files[i], side, state, diff)
             fs == [s.files EXCEPT ![i] = f]
             sh == Shoved(s.files[i], side)
  <2>5. r.files = IF s.files[i].st[side] = Absent THEN fs ELSE Inserted(fs, sh)
    BY <2>1, <2>2, <2>3, OverwriteShape
  <2>6. f \in Entry /\ (s.files[i].st[side] # Absent => sh \in Entry)
    BY <1>1, <2>1, <2>2, TakenType
  <2>7. f.type = type /\ f.st[side] = state
    <3>1. s.files[i] \in Entry
      BY <1>1, <2>1
    <3>2. s.files[i].st \in [Sides -> FileState \cup {Absent}]
      BY <3>1 DEF Entry
    <3>3. QED
      BY <2>1, <3>2 DEF Taken
  <2>8. sh.type = type
    BY <2>1 DEF Shoved, one_sided
  <2> HIDE DEF f, sh
  <2>9. fs \in Seq(Entry) /\ Len(fs) = Len(s.files) /\ fs[i] = f
    BY <1>1, <2>1, <2>6
  <2> HIDE DEF fs
  <2>10. r.files[k] = f
    <3>1. CASE s.files[i].st[side] = Absent
      BY <2>4, <2>5, <2>9, <3>1
    <3>2. CASE s.files[i].st[side] # Absent
      <4>1. Inserted(fs, sh)[k] = fs[i]
        BY <1>1, <2>1, <2>4, <2>6, <2>8, <2>9, <3>2 DEF Inserted
      <4>2. QED
        BY <2>5, <2>9, <3>2, <4>1
    <3>3. QED
      BY <3>1, <3>2
  <2>11. QED
    BY <2>7, <2>10 DEF r, k
<1>5. QED
  BY <1>3, <1>4

\* The value after the loop of site_read_stored_state over q.
ReadAll(b, q) == FoldLeft(read_item, b, q)

\* h is the fold of site_read_stored_state, by sets of positions.
ReadFold(h, b, q) ==
  h = [S \in SUBSET (DOMAIN q) |->
         IF S = {} THEN b ELSE read_item(h[S \ {Max(S)}], q[Max(S)])]

\* e has the values of that loop.
ReadTurns(X, b, q, e) ==
  /\ e \in [0 .. Len(q) -> X] /\ e[0] = b /\ e[Len(q)] = ReadAll(b, q)
  /\ \A k \in 1 .. Len(q) : e[k] = read_item(e[k - 1], q[k])

\* The loop of site_read_stored_state goes through its values one after the other.
LEMMA ReadTrace ==
  ASSUME NEW X, NEW b \in X, NEW E, NEW q \in Seq(E),
         \A x \in X : \A k \in 1 .. Len(q) : read_item(x, q[k]) \in X
  PROVE  \E e : ReadTurns(X, b, q, e)
<1> DEFINE n == Len(q)
           G == [p \in X \X (1 .. n) |-> read_item(p[1], q[p[2]])]
           f == CHOOSE f : ReadFold(f, b, q)
<1>1. n \in Nat /\ DOMAIN q = 1 .. n
  OBVIOUS
<1>2. PICK g : g = G
  OBVIOUS
<1>3. g \in [X \X (1 .. n) -> X] /\ \A x \in X : \A k \in 1 .. n : g[<<x, k>>] = read_item(x, q[k])
  BY <1>2
<1>4. PICK h : h = f
  OBVIOUS
<1> HIDE DEF n, G
<1>5. ReadFold(h, b, q)
  <2>1. PICK t \in [SUBSET (1 .. n) -> X] : Turns(n, b, g, t)
    BY <1>1, <1>3, FoldExists
  <2>2. ASSUME NEW S \in SUBSET (1 .. n), S # {}
        PROVE  g[<<t[S \ {Max(S)}], Max(S)>>] = read_item(t[S \ {Max(S)}], q[Max(S)])
    <3>1. Max(S) \in S /\ S \ {Max(S)} \in SUBSET (1 .. n)
      BY <1>1, <2>2, MaxInSet
    <3>2. Max(S) \in 1 .. n /\ t[S \ {Max(S)}] \in X
      BY <2>1, <3>1
    <3>3. QED
      BY <1>3, <3>2
  <2>3. ReadFold(t, b, q)
    BY <1>1, <2>1, <2>2 DEF Turns, ReadFold
  <2>4. QED
    BY <1>4, <2>3
<1>6. ReadAll(b, q) = h[1 .. n]
  BY <1>1, <1>4 DEF ReadAll, FoldLeft, MapThenFoldSet, ReadFold
<1> HIDE DEF f
<1>7. h[{}] = b /\ \A k \in 1 .. n : h[1 .. k] = read_item(h[1 .. (k - 1)], q[k])
  <2>1. h[{}] = b
    BY <1>5 DEF ReadFold
  <2>2. ASSUME NEW k \in 1 .. n PROVE h[1 .. k] = read_item(h[1 .. (k - 1)], q[k])
    <3>1. /\ 1 .. k \in SUBSET (1 .. n) /\ 1 .. k # {} /\ Max(1 .. k) = k
          /\ (1 .. k) \ {k} = 1 .. (k - 1)
      BY <1>1, Segments
    <3>2. QED
      BY <1>1, <1>5, <3>1 DEF ReadFold
  <2>3. QED
    BY <2>1, <2>2
<1>8. \A k \in 1 .. n : h[1 .. (k - 1)] \in X => h[1 .. k] = g[<<h[1 .. (k - 1)], k>>]
  BY <1>3, <1>7
<1>9. PICK e : GoneThrough(X, b, n, g, h, e)
  <2>1. GoesAs(X, b, n, g, h)
    BY <1>7, <1>8 DEF GoesAs
  <2>2. QED
    BY <1>1, <1>3, <2>1, FoldTrace
<1>10. \A k \in 1 .. n : e[k - 1] \in X /\ e[k] = g[<<e[k - 1], k>>]
  <2>1. \A k \in 1 .. n : k - 1 \in 0 .. n
    BY <1>1
  <2>2. e \in [0 .. n -> X] /\ \A k \in 1 .. n : e[k] = g[<<e[k - 1], k>>]
    BY <1>9 DEF GoneThrough, AfterTurns
  <2>3. QED
    BY <2>1, <2>2
<1>11. \A k \in 1 .. n : e[k] = read_item(e[k - 1], q[k])
  BY <1>3, <1>10
<1>12. QED
  BY <1>6, <1>9, <1>11 DEF n, GoneThrough, AfterTurns, ReadTurns

\* The state of every item is in Q.
ItemsIn(items, Q) == \A k \in DOMAIN items : <<"stored", items[k].type, items[k].state>> \in Q

\* The items that are written are in what the stored states of the list are in.
LEMMA WrittenIn ==
  ASSUME NEW fs \in Seq(Entry), NEW Q, StatesAmong(fs, Q)
  PROVE  ItemsIn(items_of(fs), Q)
<1> DEFINE q == items_of(fs)
<1>1. PICK g : WrittenFor(q, fs, Len(fs), g)
  BY ItemsOfEntries
<1> HIDE DEF q
<1>2. SUFFICES ASSUME NEW k \in DOMAIN q PROVE <<"stored", q[k].type, q[k].state>> \in Q
  BY DEF ItemsIn, q
<1>3. g[k] \in 1 .. Len(fs) /\ Stored(fs[g[k]]) # Absent /\ q[k] = item_of(fs[g[k]])
  BY <1>1 DEF WrittenFor
<1>4. g[k] \in DOMAIN fs
  BY <1>3
<1>5. q[k].type = fs[g[k]].type /\ q[k].state = fs[g[k]].st["stored"]
  BY <1>3 DEF Stored, item_of
<1>6. \A x \in Sides : fs[g[k]].st[x] # Absent => <<x, fs[g[k]].type, fs[g[k]].st[x]>> \in Q
  BY <1>4 DEF StatesAmong
<1>7. fs[g[k]].st["stored"] # Absent /\ "stored" \in Sides
  BY <1>3 DEF Stored, Sides
<1>8. QED
  BY <1>5, <1>6, <1>7

\* The whole info file merged into an exact list leaves an exact list, with the
\* states of both; if they have their names apart, so has the result.
LEMMA StoredStateRead ==
  ASSUME NEW s, Exact(s), NEW info, info.items \in Seq(Item),
         NEW Q, StatesAmong(s.files, Q), ItemsIn(info.items, Q)
  PROVE  LET r == site_read_stored_state(s, info)
         IN  /\ Exact(r) /\ r.opt = s.opt /\ StatesAmong(r.files, Q)
             /\ info.items = << >> => r = s
             /\ ~s.opt.checkmoved /\ Keyed(s.files) /\ KeyedItems(info.items)
                  /\ (\A t, n : ~HasKey(s.files, "stored", t, n))
                  => Keyed(r.files)
<1> DEFINE items == info.items
           b  == [site |-> s, doc |-> 0]
           X  == {r \in [site : Site, doc : Nat] :
                    Exact(r.site) /\ r.site.opt = s.opt /\ StatesAmong(r.site.files, Q)}
           n  == Len(items)
<1>1. n \in Nat /\ DOMAIN items = 1 .. n /\ \A k \in 1 .. n : items[k] \in Item
  OBVIOUS
<1>2. s \in Site /\ b \in X
  BY DEF Exact, SiteOK
<1>3. ASSUME NEW r \in X, NEW it \in Item, <<"stored", it.type, it.state>> \in Q
      PROVE  /\ read_item(r, it) \in X
             /\ ~s.opt.checkmoved /\ Keyed(r.site.files)
                  /\ ~HasKey(r.site.files, "stored", it.type, it.state.filename)
                => KeyAdded(read_item(r, it).site.files, r.site.files, "stored", it.type, it.state.filename)
  <2> DEFINE t == server_modtime(r.doc, it)
             u == file_set_stored(r.site, it.type, it.state)
             k == file_set_index(r.site, "stored", it.type, it.state)
             v == file_replace(u, k, [u.files[k] EXCEPT !.server = t])
             w == read_item(r, it)
  <2>1. it.type \in FileTypes /\ it.state \in FileState /\ it.server \in Nat
    BY DEF Item
  <2>2. r.site \in Site /\ Exact(r.site) /\ SiteOK(r.site) /\ r.doc \in Nat /\ r.site.opt = s.opt /\ StatesAmong(r.site.files, Q)
    BY DEF Exact
  <2>3. t \in Nat
    BY <2>1, <2>2 DEF server_modtime
  <2>4. Exact(u) /\ u.opt = s.opt /\ k \in DOMAIN u.files /\ StatesAmong(u.files, Q)
    BY <1>3, <2>1, <2>2, FileSetExact, FileSetOpt, SetIndex, FileSetStatesIn DEF file_set_stored, Sides
  <2>5. ~s.opt.checkmoved /\ Keyed(r.site.files)
          /\ ~HasKey(r.site.files, "stored", it.type, it.state.filename)
        => KeyAdded(u.files, r.site.files, "stored", it.type, it.state.filename)
    BY <2>1, <2>2, FileSetKeyed DEF file_set_stored, Sides
  <2>6. w = [doc |-> t, site |-> IF t = 0 THEN u ELSE v]
    BY DEF read_item
  <2> HIDE DEF u, k, t
  <2>7. Exact(v) /\ v.opt = u.opt /\ StatesAmong(v.files, Q)
    <3>1. Exact(v) /\ v.opt = u.opt
      BY <2>3, <2>4, ServerTimeExact, Zenon
    <3>2. StatesAmong(v.files, Q)
      BY <2>3, <2>4, ServerTimeStatesIn
    <3>3. QED
      BY <3>1, <3>2
  <2>8. Keyed(u.files) => Keyed(v.files) /\ \A x \in Sides : \A y, m : HasKey(v.files, x, y, m) <=> HasKey(u.files, x, y, m)
    BY <2>3, <2>4, ServerTimeKeyed
  <2> HIDE DEF v, w
  <2>9. w \in X
    BY <2>3, <2>4, <2>6, <2>7 DEF Exact, SiteOK
  <2>10. ASSUME KeyAdded(u.files, r.site.files, "stored", it.type, it.state.filename)
         PROVE  KeyAdded(w.site.files, r.site.files, "stored", it.type, it.state.filename)
    <3>1. CASE t = 0
      BY <2>6, <2>10, <3>1
    <3>2. CASE t # 0
      BY <2>6, <2>8, <2>10, <3>2 DEF KeyAdded
    <3>3. QED
      BY <3>1, <3>2
  <2>11. QED
    BY <2>5, <2>9, <2>10 DEF w
<1>4. \A k \in 1 .. n : <<"stored", items[k].type, items[k].state>> \in Q
  BY <1>1 DEF ItemsIn
<1>5. PICK Y : Y = X
  OBVIOUS
<1>6. b \in Y /\ \A r \in Y : \A k \in 1 .. Len(items) : read_item(r, items[k]) \in Y
  BY <1>1, <1>2, <1>3, <1>4, <1>5
<1>7. PICK e \in [0 .. n -> Y] :
        /\ e[0] = b /\ e[n] = ReadAll(b, items)
        /\ \A k \in 1 .. n : e[k] = read_item(e[k - 1], items[k])
  <2>1. PICK q : q = items
    OBVIOUS
  <2>2. PICK c : c = b
    OBVIOUS
  <2>3. q \in Seq(Item) /\ c \in Y /\ \A r \in Y : \A k \in 1 .. Len(q) : read_item(r, q[k]) \in Y
    BY <1>6, <2>1, <2>2
  <2> HIDE DEF X, b, items, n
  <2>4. \E e : ReadTurns(Y, c, q, e)
    BY <2>3, ReadTrace
  <2>5. QED
    BY <2>1, <2>2, <2>4 DEF n, ReadTurns
<1>8. site_read_stored_state(s, info) = e[n].site
  BY <1>7 DEF site_read_stored_state, ReadAll
<1>9. e[n] \in X
  BY <1>1, <1>5, <1>7
<1>10. items = << >> => e[n].site = s
  BY <1>7
<1>11. ASSUME ~s.opt.checkmoved, Keyed(s.files), KeyedItems(items), \A t, m : ~HasKey(s.files, "stored", t, m)
       PROVE  Keyed(e[n].site.files)
  <2> DEFINE Apart(k) ==
               /\ Keyed(e[k].site.files)
               /\ \A l \in 1 .. n : l > k =>
                    ~HasKey(e[k].site.files, "stored", items[l].type, items[l].state.filename)
             T == {k \in 0 .. n : Apart(k)}
  <2>1. 0 \in T
    BY <1>1, <1>7, <1>11
  <2>2. ASSUME NEW k \in 1 .. n, k - 1 \in T PROVE k \in T
    <3>0. k - 1 \in 0 .. n /\ k > k - 1
      BY <1>1
    <3>1. e[k - 1] \in X /\ e[k] = read_item(e[k - 1], items[k]) /\ Apart(k - 1)
      BY <1>5, <1>7, <2>2, <3>0
    <3> HIDE DEF X, T
    <3>2. KeyAdded(e[k].site.files, e[k - 1].site.files, "stored", items[k].type, items[k].state.filename)
      BY <1>1, <1>3, <1>4, <1>11, <3>0, <3>1
    <3>3. Keyed(e[k].site.files)
      BY <3>2 DEF KeyAdded
    <3>4. ASSUME NEW l \in 1 .. n, l > k
          PROVE  ~HasKey(e[k].site.files, "stored", items[l].type, items[l].state.filename)
      <4>1. l > k - 1 /\ l # k
        BY <1>1, <3>4
      <4>2. ~(items[l].type = items[k].type /\ items[l].state.filename = items[k].state.filename)
        BY <1>1, <1>11, <4>1 DEF KeyedItems
      <4>3. ~HasKey(e[k - 1].site.files, "stored", items[l].type, items[l].state.filename)
        BY <3>1, <4>1
      <4>4. QED
        BY <3>2, <4>2, <4>3 DEF KeyAdded, Sides
    <3>5. QED
      BY <3>3, <3>4 DEF T
  <2> HIDE DEF T
  <2>3. n \in T
    BY <1>1, <2>1, <2>2, CountUp
  <2>4. QED
    BY <2>3 DEF T
<1>12. QED
  BY <1>8, <1>9, <1>10, <1>11
=============================================================================
