-------------------------- MODULE SiteCopy_proofs --------------------------
(***************************************************************************)
(* A local copy that is kept with `sitecopy --fetch' and `--synch' has its *)
(* types and an exact file list, is only downloaded to with a connection,  *)
(* loses no file to an empty stored state, never takes a broken download   *)
(* for a file, and keeps what is excluded or unchanged: for every site,    *)
(* every tree of files on either side, every set of options, and any       *)
(* number of commands, changes, faults and signals.                        *)
(***************************************************************************)
EXTENDS SiteCopy, FileList_lemmas

-----------------------------------------------------------------------------
(* The loops, turn by turn                                                 *)

\* One turn of the loop of OnlyIn.
KeptIf(kept, x, S) == IF x \in S THEN Append(kept, x) ELSE kept

\* The value after that loop over q, begun with b.
Kept(b, q, S) == FoldLeft(LAMBDA kept, x : IF x \in S THEN Append(kept, x) ELSE kept, b, q)

\* After the loop of site_read_local_state.
LocalRead(b, q) == FoldLeft(LAMBDA t, n : file_set_local(t, disk[n].type, local_state(n)), b, q)

\* After that of parse_permissions.
BitsRead(b, q) == FoldLeft(LAMBDA m, bit : 2 * m + bit, b, q)

\* After that of ftp_fetch and rsh_fetch.
ListedAll(b, q) == FoldLeft(ls_pflist_add, b, q)

\* After the one that pushes the directories of a listing.
PushedAll(b, q) == FoldLeft(pushed, b, q)

\* After the one that adds the files that were found.
AddedAll(b, q) == FoldLeft(fetch_add_file, b, q)

\* h is the fold of OnlyIn, by sets of positions.
KeptFold(h, b, q, T) ==
  h = [S \in SUBSET (DOMAIN q) |->
         IF S = {} THEN b ELSE KeptIf(h[S \ {Max(S)}], q[Max(S)], T)]

\* e has the values of that loop.
KeptTurns(X, b, q, T, e) ==
  /\ e \in [0 .. Len(q) -> X] /\ e[0] = b /\ e[Len(q)] = Kept(b, q, T)
  /\ \A k \in 1 .. Len(q) : e[k] = KeptIf(e[k - 1], q[k], T)

\* The loop of OnlyIn goes through its values one after the other.
LEMMA KeptTrace ==
  ASSUME NEW X, NEW b \in X, NEW E, NEW q \in Seq(E), NEW T,
         \A x \in X : \A k \in 1 .. Len(q) : KeptIf(x, q[k], T) \in X
  PROVE  \E e : KeptTurns(X, b, q, T, e)
<1> DEFINE n == Len(q)
           G == [p \in X \X (1 .. n) |-> KeptIf(p[1], q[p[2]], T)]
           f == CHOOSE f : KeptFold(f, b, q, T)
<1>1. n \in Nat /\ DOMAIN q = 1 .. n
  OBVIOUS
<1>2. PICK g : g = G
  OBVIOUS
<1>3. g \in [X \X (1 .. n) -> X] /\ \A x \in X : \A k \in 1 .. n : g[<<x, k>>] = KeptIf(x, q[k], T)
  BY <1>2
<1>4. PICK h : h = f
  OBVIOUS
<1> HIDE DEF n, G
<1>5. KeptFold(h, b, q, T)
  <2>1. PICK t \in [SUBSET (1 .. n) -> X] : Turns(n, b, g, t)
    BY <1>1, <1>3, FoldExists
  <2>2. ASSUME NEW S \in SUBSET (1 .. n), S # {}
        PROVE  g[<<t[S \ {Max(S)}], Max(S)>>] = KeptIf(t[S \ {Max(S)}], q[Max(S)], T)
    <3>1. Max(S) \in S /\ S \ {Max(S)} \in SUBSET (1 .. n)
      BY <1>1, <2>2, MaxInSet
    <3>2. Max(S) \in 1 .. n /\ t[S \ {Max(S)}] \in X
      BY <2>1, <3>1
    <3>3. QED
      BY <1>3, <3>2
  <2>3. KeptFold(t, b, q, T)
    BY <1>1, <2>1, <2>2 DEF Turns, KeptFold
  <2>4. QED
    BY <1>4, <2>3
<1>6. Kept(b, q, T) = h[1 .. n]
  BY <1>1, <1>4 DEF Kept, KeptIf, FoldLeft, MapThenFoldSet, KeptFold
<1> HIDE DEF f
<1>7. h[{}] = b /\ \A k \in 1 .. n : h[1 .. k] = KeptIf(h[1 .. (k - 1)], q[k], T)
  <2>1. h[{}] = b
    BY <1>5 DEF KeptFold
  <2>2. ASSUME NEW k \in 1 .. n PROVE h[1 .. k] = KeptIf(h[1 .. (k - 1)], q[k], T)
    <3>1. /\ 1 .. k \in SUBSET (1 .. n) /\ 1 .. k # {} /\ Max(1 .. k) = k
          /\ (1 .. k) \ {k} = 1 .. (k - 1)
      BY <1>1, Segments
    <3>2. QED
      BY <1>1, <1>5, <3>1 DEF KeptFold
  <2>3. QED
    BY <2>1, <2>2
<1>8. \A k \in 1 .. n : h[1 .. (k - 1)] \in X => h[1 .. k] = g[<<h[1 .. (k - 1)], k>>]
  BY <1>3, <1>7
<1>9. PICK e : GoneThrough(X, b, n, g, h, e)
  <2>1. GoesAs(X, b, n, g, h)
    BY <1>7, <1>8 DEF GoesAs
  <2>2. QED
    BY <1>1, <1>3, <2>1, FoldTrace
<1>10. \A k \in 1 .. n : e[k - 1] \in X /\ e[k] = g[<<e[k - 1], k>>]
  <2>1. \A k \in 1 .. n : k - 1 \in 0 .. n
    BY <1>1
  <2>2. e \in [0 .. n -> X] /\ \A k \in 1 .. n : e[k] = g[<<e[k - 1], k>>]
    BY <1>9 DEF GoneThrough, AfterTurns
  <2>3. QED
    BY <2>1, <2>2
<1>11. \A k \in 1 .. n : e[k] = KeptIf(e[k - 1], q[k], T)
  BY <1>3, <1>10
<1>12. QED
  BY <1>6, <1>9, <1>11 DEF n, GoneThrough, AfterTurns, KeptTurns

\* h is the fold of site_read_local_state, by sets of positions.
LocalReadFold(h, b, q) ==
  h = [S \in SUBSET (DOMAIN q) |->
         IF S = {} THEN b ELSE file_set_local(h[S \ {Max(S)}], disk[q[Max(S)]].type, local_state(q[Max(S)]))]

\* e has the values of that loop.
LocalReadTurns(X, b, q, e) ==
  /\ e \in [0 .. Len(q) -> X] /\ e[0] = b /\ e[Len(q)] = LocalRead(b, q)
  /\ \A k \in 1 .. Len(q) : e[k] = file_set_local(e[k - 1], disk[q[k]].type, local_state(q[k]))

\* The loop of site_read_local_state goes through its values one after the other.
LEMMA LocalReadTrace ==
  ASSUME NEW X, NEW b \in X, NEW E, NEW q \in Seq(E),
         \A x \in X : \A k \in 1 .. Len(q) : file_set_local(x, disk[q[k]].type, local_state(q[k])) \in X
  PROVE  \E e : LocalReadTurns(X, b, q, e)
<1> DEFINE n == Len(q)
           G == [p \in X \X (1 .. n) |-> file_set_local(p[1], disk[q[p[2]]].type, local_state(q[p[2]]))]
           f == CHOOSE f : LocalReadFold(f, b, q)
<1>1. n \in Nat /\ DOMAIN q = 1 .. n
  OBVIOUS
<1>2. PICK g : g = G
  OBVIOUS
<1>3. g \in [X \X (1 .. n) -> X] /\ \A x \in X : \A k \in 1 .. n : g[<<x, k>>] = file_set_local(x, disk[q[k]].type, local_state(q[k]))
  BY <1>2
<1>4. PICK h : h = f
  OBVIOUS
<1> HIDE DEF n, G
<1>5. LocalReadFold(h, b, q)
  <2>1. PICK t \in [SUBSET (1 .. n) -> X] : Turns(n, b, g, t)
    BY <1>1, <1>3, FoldExists
  <2>2. ASSUME NEW S \in SUBSET (1 .. n), S # {}
        PROVE  g[<<t[S \ {Max(S)}], Max(S)>>] = file_set_local(t[S \ {Max(S)}], disk[q[Max(S)]].type, local_state(q[Max(S)]))
    <3>1. Max(S) \in S /\ S \ {Max(S)} \in SUBSET (1 .. n)
      BY <1>1, <2>2, MaxInSet
    <3>2. Max(S) \in 1 .. n /\ t[S \ {Max(S)}] \in X
      BY <2>1, <3>1
    <3>3. QED
      BY <1>3, <3>2
  <2>3. LocalReadFold(t, b, q)
    BY <1>1, <2>1, <2>2 DEF Turns, LocalReadFold
  <2>4. QED
    BY <1>4, <2>3
<1>6. LocalRead(b, q) = h[1 .. n]
  BY <1>1, <1>4 DEF LocalRead, FoldLeft, MapThenFoldSet, LocalReadFold
<1> HIDE DEF f
<1>7. h[{}] = b /\ \A k \in 1 .. n : h[1 .. k] = file_set_local(h[1 .. (k - 1)], disk[q[k]].type, local_state(q[k]))
  <2>1. h[{}] = b
    BY <1>5 DEF LocalReadFold
  <2>2. ASSUME NEW k \in 1 .. n PROVE h[1 .. k] = file_set_local(h[1 .. (k - 1)], disk[q[k]].type, local_state(q[k]))
    <3>1. /\ 1 .. k \in SUBSET (1 .. n) /\ 1 .. k # {} /\ Max(1 .. k) = k
          /\ (1 .. k) \ {k} = 1 .. (k - 1)
      BY <1>1, Segments
    <3>2. QED
      BY <1>1, <1>5, <3>1 DEF LocalReadFold
  <2>3. QED
    BY <2>1, <2>2
<1>8. \A k \in 1 .. n : h[1 .. (k - 1)] \in X => h[1 .. k] = g[<<h[1 .. (k - 1)], k>>]
  BY <1>3, <1>7
<1>9. PICK e : GoneThrough(X, b, n, g, h, e)
  <2>1. GoesAs(X, b, n, g, h)
    BY <1>7, <1>8 DEF GoesAs
  <2>2. QED
    BY <1>1, <1>3, <2>1, FoldTrace
<1>10. \A k \in 1 .. n : e[k - 1] \in X /\ e[k] = g[<<e[k - 1], k>>]
  <2>1. \A k \in 1 .. n : k - 1 \in 0 .. n
    BY <1>1
  <2>2. e \in [0 .. n -> X] /\ \A k \in 1 .. n : e[k] = g[<<e[k - 1], k>>]
    BY <1>9 DEF GoneThrough, AfterTurns
  <2>3. QED
    BY <2>1, <2>2
<1>11. \A k \in 1 .. n : e[k] = file_set_local(e[k - 1], disk[q[k]].type, local_state(q[k]))
  BY <1>3, <1>10
<1>12. QED
  BY <1>6, <1>9, <1>11 DEF n, GoneThrough, AfterTurns, LocalReadTurns

\* h is the fold of parse_permissions, by sets of positions.
BitsReadFold(h, b, q) ==
  h = [S \in SUBSET (DOMAIN q) |->
         IF S = {} THEN b ELSE 2 * h[S \ {Max(S)}] + q[Max(S)]]

\* e has the values of that loop.
BitsReadTurns(X, b, q, e) ==
  /\ e \in [0 .. Len(q) -> X] /\ e[0] = b /\ e[Len(q)] = BitsRead(b, q)
  /\ \A k \in 1 .. Len(q) : e[k] = 2 * e[k - 1] + q[k]

\* The loop of parse_permissions goes through its values one after the other.
LEMMA BitsReadTrace ==
  ASSUME NEW X, NEW b \in X, NEW E, NEW q \in Seq(E),
         \A x \in X : \A k \in 1 .. Len(q) : 2 * x + q[k] \in X
  PROVE  \E e : BitsReadTurns(X, b, q, e)
<1> DEFINE n == Len(q)
           G == [p \in X \X (1 .. n) |-> 2 * p[1] + q[p[2]]]
           f == CHOOSE f : BitsReadFold(f, b, q)
<1>1. n \in Nat /\ DOMAIN q = 1 .. n
  OBVIOUS
<1>2. PICK g : g = G
  OBVIOUS
<1>3. g \in [X \X (1 .. n) -> X] /\ \A x \in X : \A k \in 1 .. n : g[<<x, k>>] = 2 * x + q[k]
  BY <1>2
<1>4. PICK h : h = f
  OBVIOUS
<1> HIDE DEF n, G
<1>5. BitsReadFold(h, b, q)
  <2>1. PICK t \in [SUBSET (1 .. n) -> X] : Turns(n, b, g, t)
    BY <1>1, <1>3, FoldExists
  <2>2. ASSUME NEW S \in SUBSET (1 .. n), S # {}
        PROVE  g[<<t[S \ {Max(S)}], Max(S)>>] = 2 * t[S \ {Max(S)}] + q[Max(S)]
    <3>1. Max(S) \in S /\ S \ {Max(S)} \in SUBSET (1 .. n)
      BY <1>1, <2>2, MaxInSet
    <3>2. Max(S) \in 1 .. n /\ t[S \ {Max(S)}] \in X
      BY <2>1, <3>1
    <3>3. QED
      BY <1>3, <3>2
  <2>3. BitsReadFold(t, b, q)
    BY <1>1, <2>1, <2>2 DEF Turns, BitsReadFold
  <2>4. QED
    BY <1>4, <2>3
<1>6. BitsRead(b, q) = h[1 .. n]
  BY <1>1, <1>4 DEF BitsRead, FoldLeft, MapThenFoldSet, BitsReadFold
<1> HIDE DEF f
<1>7. h[{}] = b /\ \A k \in 1 .. n : h[1 .. k] = 2 * h[1 .. (k - 1)] + q[k]
  <2>1. h[{}] = b
    BY <1>5 DEF BitsReadFold
  <2>2. ASSUME NEW k \in 1 .. n PROVE h[1 .. k] = 2 * h[1 .. (k - 1)] + q[k]
    <3>1. /\ 1 .. k \in SUBSET (1 .. n) /\ 1 .. k # {} /\ Max(1 .. k) = k
          /\ (1 .. k) \ {k} = 1 .. (k - 1)
      BY <1>1, Segments
    <3>2. QED
      BY <1>1, <1>5, <3>1 DEF BitsReadFold
  <2>3. QED
    BY <2>1, <2>2
<1>8. \A k \in 1 .. n : h[1 .. (k - 1)] \in X => h[1 .. k] = g[<<h[1 .. (k - 1)], k>>]
  BY <1>3, <1>7
<1>9. PICK e : GoneThrough(X, b, n, g, h, e)
  <2>1. GoesAs(X, b, n, g, h)
    BY <1>7, <1>8 DEF GoesAs
  <2>2. QED
    BY <1>1, <1>3, <2>1, FoldTrace
<1>10. \A k \in 1 .. n : e[k - 1] \in X /\ e[k] = g[<<e[k - 1], k>>]
  <2>1. \A k \in 1 .. n : k - 1 \in 0 .. n
    BY <1>1
  <2>2. e \in [0 .. n -> X] /\ \A k \in 1 .. n : e[k] = g[<<e[k - 1], k>>]
    BY <1>9 DEF GoneThrough, AfterTurns
  <2>3. QED
    BY <2>1, <2>2
<1>11. \A k \in 1 .. n : e[k] = 2 * e[k - 1] + q[k]
  BY <1>3, <1>10
<1>12. QED
  BY <1>6, <1>9, <1>11 DEF n, GoneThrough, AfterTurns, BitsReadTurns

\* h is the fold of ftp_fetch, by sets of positions.
ListedAllFold(h, b, q) ==
  h = [S \in SUBSET (DOMAIN q) |->
         IF S = {} THEN b ELSE ls_pflist_add(h[S \ {Max(S)}], q[Max(S)])]

\* e has the values of that loop.
ListedAllTurns(X, b, q, e) ==
  /\ e \in [0 .. Len(q) -> X] /\ e[0] = b /\ e[Len(q)] = ListedAll(b, q)
  /\ \A k \in 1 .. Len(q) : e[k] = ls_pflist_add(e[k - 1], q[k])

\* The loop of ftp_fetch goes through its values one after the other.
LEMMA ListedAllTrace ==
  ASSUME NEW X, NEW b \in X, NEW E, NEW q \in Seq(E),
         \A x \in X : \A k \in 1 .. Len(q) : ls_pflist_add(x, q[k]) \in X
  PROVE  \E e : ListedAllTurns(X, b, q, e)
<1> DEFINE n == Len(q)
           G == [p \in X \X (1 .. n) |-> ls_pflist_add(p[1], q[p[2]])]
           f == CHOOSE f : ListedAllFold(f, b, q)
<1>1. n \in Nat /\ DOMAIN q = 1 .. n
  OBVIOUS
<1>2. PICK g : g = G
  OBVIOUS
<1>3. g \in [X \X (1 .. n) -> X] /\ \A x \in X : \A k \in 1 .. n : g[<<x, k>>] = ls_pflist_add(x, q[k])
  BY <1>2
<1>4. PICK h : h = f
  OBVIOUS
<1> HIDE DEF n, G
<1>5. ListedAllFold(h, b, q)
  <2>1. PICK t \in [SUBSET (1 .. n) -> X] : Turns(n, b, g, t)
    BY <1>1, <1>3, FoldExists
  <2>2. ASSUME NEW S \in SUBSET (1 .. n), S # {}
        PROVE  g[<<t[S \ {Max(S)}], Max(S)>>] = ls_pflist_add(t[S \ {Max(S)}], q[Max(S)])
    <3>1. Max(S) \in S /\ S \ {Max(S)} \in SUBSET (1 .. n)
      BY <1>1, <2>2, MaxInSet
    <3>2. Max(S) \in 1 .. n /\ t[S \ {Max(S)}] \in X
      BY <2>1, <3>1
    <3>3. QED
      BY <1>3, <3>2
  <2>3. ListedAllFold(t, b, q)
    BY <1>1, <2>1, <2>2 DEF Turns, ListedAllFold
  <2>4. QED
    BY <1>4, <2>3
<1>6. ListedAll(b, q) = h[1 .. n]
  BY <1>1, <1>4 DEF ListedAll, FoldLeft, MapThenFoldSet, ListedAllFold
<1> HIDE DEF f
<1>7. h[{}] = b /\ \A k \in 1 .. n : h[1 .. k] = ls_pflist_add(h[1 .. (k - 1)], q[k])
  <2>1. h[{}] = b
    BY <1>5 DEF ListedAllFold
  <2>2. ASSUME NEW k \in 1 .. n PROVE h[1 .. k] = ls_pflist_add(h[1 .. (k - 1)], q[k])
    <3>1. /\ 1 .. k \in SUBSET (1 .. n) /\ 1 .. k # {} /\ Max(1 .. k) = k
          /\ (1 .. k) \ {k} = 1 .. (k - 1)
      BY <1>1, Segments
    <3>2. QED
      BY <1>1, <1>5, <3>1 DEF ListedAllFold
  <2>3. QED
    BY <2>1, <2>2
<1>8. \A k \in 1 .. n : h[1 .. (k - 1)] \in X => h[1 .. k] = g[<<h[1 .. (k - 1)], k>>]
  BY <1>3, <1>7
<1>9. PICK e : GoneThrough(X, b, n, g, h, e)
  <2>1. GoesAs(X, b, n, g, h)
    BY <1>7, <1>8 DEF GoesAs
  <2>2. QED
    BY <1>1, <1>3, <2>1, FoldTrace
<1>10. \A k \in 1 .. n : e[k - 1] \in X /\ e[k] = g[<<e[k - 1], k>>]
  <2>1. \A k \in 1 .. n : k - 1 \in 0 .. n
    BY <1>1
  <2>2. e \in [0 .. n -> X] /\ \A k \in 1 .. n : e[k] = g[<<e[k - 1], k>>]
    BY <1>9 DEF GoneThrough, AfterTurns
  <2>3. QED
    BY <2>1, <2>2
<1>11. \A k \in 1 .. n : e[k] = ls_pflist_add(e[k - 1], q[k])
  BY <1>3, <1>10
<1>12. QED
  BY <1>6, <1>9, <1>11 DEF n, GoneThrough, AfterTurns, ListedAllTurns

\* h is the fold of pushing, by sets of positions.
PushedAllFold(h, b, q) ==
  h = [S \in SUBSET (DOMAIN q) |->
         IF S = {} THEN b ELSE pushed(h[S \ {Max(S)}], q[Max(S)])]

\* e has the values of that loop.
PushedAllTurns(X, b, q, e) ==
  /\ e \in [0 .. Len(q) -> X] /\ e[0] = b /\ e[Len(q)] = PushedAll(b, q)
  /\ \A k \in 1 .. Len(q) : e[k] = pushed(e[k - 1], q[k])

\* The loop of pushing goes through its values one after the other.
LEMMA PushedAllTrace ==
  ASSUME NEW X, NEW b \in X, NEW E, NEW q \in Seq(E),
         \A x \in X : \A k \in 1 .. Len(q) : pushed(x, q[k]) \in X
  PROVE  \E e : PushedAllTurns(X, b, q, e)
<1> DEFINE n == Len(q)
           G == [p \in X \X (1 .. n) |-> pushed(p[1], q[p[2]])]
           f == CHOOSE f : PushedAllFold(f, b, q)
<1>1. n \in Nat /\ DOMAIN q = 1 .. n
  OBVIOUS
<1>2. PICK g : g = G
  OBVIOUS
<1>3. g \in [X \X (1 .. n) -> X] /\ \A x \in X : \A k \in 1 .. n : g[<<x, k>>] = pushed(x, q[k])
  BY <1>2
<1>4. PICK h : h = f
  OBVIOUS
<1> HIDE DEF n, G
<1>5. PushedAllFold(h, b, q)
  <2>1. PICK t \in [SUBSET (1 .. n) -> X] : Turns(n, b, g, t)
    BY <1>1, <1>3, FoldExists
  <2>2. ASSUME NEW S \in SUBSET (1 .. n), S # {}
        PROVE  g[<<t[S \ {Max(S)}], Max(S)>>] = pushed(t[S \ {Max(S)}], q[Max(S)])
    <3>1. Max(S) \in S /\ S \ {Max(S)} \in SUBSET (1 .. n)
      BY <1>1, <2>2, MaxInSet
    <3>2. Max(S) \in 1 .. n /\ t[S \ {Max(S)}] \in X
      BY <2>1, <3>1
    <3>3. QED
      BY <1>3, <3>2
  <2>3. PushedAllFold(t, b, q)
    BY <1>1, <2>1, <2>2 DEF Turns, PushedAllFold
  <2>4. QED
    BY <1>4, <2>3
<1>6. PushedAll(b, q) = h[1 .. n]
  BY <1>1, <1>4 DEF PushedAll, FoldLeft, MapThenFoldSet, PushedAllFold
<1> HIDE DEF f
<1>7. h[{}] = b /\ \A k \in 1 .. n : h[1 .. k] = pushed(h[1 .. (k - 1)], q[k])
  <2>1. h[{}] = b
    BY <1>5 DEF PushedAllFold
  <2>2. ASSUME NEW k \in 1 .. n PROVE h[1 .. k] = pushed(h[1 .. (k - 1)], q[k])
    <3>1. /\ 1 .. k \in SUBSET (1 .. n) /\ 1 .. k # {} /\ Max(1 .. k) = k
          /\ (1 .. k) \ {k} = 1 .. (k - 1)
      BY <1>1, Segments
    <3>2. QED
      BY <1>1, <1>5, <3>1 DEF PushedAllFold
  <2>3. QED
    BY <2>1, <2>2
<1>8. \A k \in 1 .. n : h[1 .. (k - 1)] \in X => h[1 .. k] = g[<<h[1 .. (k - 1)], k>>]
  BY <1>3, <1>7
<1>9. PICK e : GoneThrough(X, b, n, g, h, e)
  <2>1. GoesAs(X, b, n, g, h)
    BY <1>7, <1>8 DEF GoesAs
  <2>2. QED
    BY <1>1, <1>3, <2>1, FoldTrace
<1>10. \A k \in 1 .. n : e[k - 1] \in X /\ e[k] = g[<<e[k - 1], k>>]
  <2>1. \A k \in 1 .. n : k - 1 \in 0 .. n
    BY <1>1
  <2>2. e \in [0 .. n -> X] /\ \A k \in 1 .. n : e[k] = g[<<e[k - 1], k>>]
    BY <1>9 DEF GoneThrough, AfterTurns
  <2>3. QED
    BY <2>1, <2>2
<1>11. \A k \in 1 .. n : e[k] = pushed(e[k - 1], q[k])
  BY <1>3, <1>10
<1>12. QED
  BY <1>6, <1>9, <1>11 DEF n, GoneThrough, AfterTurns, PushedAllTurns

\* h is the fold of adding, by sets of positions.
AddedAllFold(h, b, q) ==
  h = [S \in SUBSET (DOMAIN q) |->
         IF S = {} THEN b ELSE fetch_add_file(h[S \ {Max(S)}], q[Max(S)])]

\* e has the values of that loop.
AddedAllTurns(X, b, q, e) ==
  /\ e \in [0 .. Len(q) -> X] /\ e[0] = b /\ e[Len(q)] = AddedAll(b, q)
  /\ \A k \in 1 .. Len(q) : e[k] = fetch_add_file(e[k - 1], q[k])

\* The loop of adding goes through its values one after the other.
LEMMA AddedAllTrace ==
  ASSUME NEW X, NEW b \in X, NEW E, NEW q \in Seq(E),
         \A x \in X : \A k \in 1 .. Len(q) : fetch_add_file(x, q[k]) \in X
  PROVE  \E e : AddedAllTurns(X, b, q, e)
<1> DEFINE n == Len(q)
           G == [p \in X \X (1 .. n) |-> fetch_add_file(p[1], q[p[2]])]
           f == CHOOSE f : AddedAllFold(f, b, q)
<1>1. n \in Nat /\ DOMAIN q = 1 .. n
  OBVIOUS
<1>2. PICK g : g = G
  OBVIOUS
<1>3. g \in [X \X (1 .. n) -> X] /\ \A x \in X : \A k \in 1 .. n : g[<<x, k>>] = fetch_add_file(x, q[k])
  BY <1>2
<1>4. PICK h : h = f
  OBVIOUS
<1> HIDE DEF n, G
<1>5. AddedAllFold(h, b, q)
  <2>1. PICK t \in [SUBSET (1 .. n) -> X] : Turns(n, b, g, t)
    BY <1>1, <1>3, FoldExists
  <2>2. ASSUME NEW S \in SUBSET (1 .. n), S # {}
        PROVE  g[<<t[S \ {Max(S)}], Max(S)>>] = fetch_add_file(t[S \ {Max(S)}], q[Max(S)])
    <3>1. Max(S) \in S /\ S \ {Max(S)} \in SUBSET (1 .. n)
      BY <1>1, <2>2, MaxInSet
    <3>2. Max(S) \in 1 .. n /\ t[S \ {Max(S)}] \in X
      BY <2>1, <3>1
    <3>3. QED
      BY <1>3, <3>2
  <2>3. AddedAllFold(t, b, q)
    BY <1>1, <2>1, <2>2 DEF Turns, AddedAllFold
  <2>4. QED
    BY <1>4, <2>3
<1>6. AddedAll(b, q) = h[1 .. n]
  BY <1>1, <1>4 DEF AddedAll, FoldLeft, MapThenFoldSet, AddedAllFold
<1> HIDE DEF f
<1>7. h[{}] = b /\ \A k \in 1 .. n : h[1 .. k] = fetch_add_file(h[1 .. (k - 1)], q[k])
  <2>1. h[{}] = b
    BY <1>5 DEF AddedAllFold
  <2>2. ASSUME NEW k \in 1 .. n PROVE h[1 .. k] = fetch_add_file(h[1 .. (k - 1)], q[k])
    <3>1. /\ 1 .. k \in SUBSET (1 .. n) /\ 1 .. k # {} /\ Max(1 .. k) = k
          /\ (1 .. k) \ {k} = 1 .. (k - 1)
      BY <1>1, Segments
    <3>2. QED
      BY <1>1, <1>5, <3>1 DEF AddedAllFold
  <2>3. QED
    BY <2>1, <2>2
<1>8. \A k \in 1 .. n : h[1 .. (k - 1)] \in X => h[1 .. k] = g[<<h[1 .. (k - 1)], k>>]
  BY <1>3, <1>7
<1>9. PICK e : GoneThrough(X, b, n, g, h, e)
  <2>1. GoesAs(X, b, n, g, h)
    BY <1>7, <1>8 DEF GoesAs
  <2>2. QED
    BY <1>1, <1>3, <2>1, FoldTrace
<1>10. \A k \in 1 .. n : e[k - 1] \in X /\ e[k] = g[<<e[k - 1], k>>]
  <2>1. \A k \in 1 .. n : k - 1 \in 0 .. n
    BY <1>1
  <2>2. e \in [0 .. n -> X] /\ \A k \in 1 .. n : e[k] = g[<<e[k - 1], k>>]
    BY <1>9 DEF GoneThrough, AfterTurns
  <2>3. QED
    BY <2>1, <2>2
<1>11. \A k \in 1 .. n : e[k] = fetch_add_file(e[k - 1], q[k])
  BY <1>3, <1>10
<1>12. QED
  BY <1>6, <1>9, <1>11 DEF n, GoneThrough, AfterTurns, AddedAllTurns

-----------------------------------------------------------------------------
(* Elements of a sequence, in another one                                  *)

\* The elements of r are different ones of the first n of q; g says which.
Drawn(r, q, n, g) ==
  /\ \A k \in DOMAIN r : g[k] \in 1 .. n /\ r[k] = q[g[k]]
  /\ \A k, l \in DOMAIN r : g[k] = g[l] => k = l

\* One more of them, at the end or in front, or none.
LEMMA DrawnOneMore ==
  ASSUME NEW E, NEW r \in Seq(E), NEW q \in Seq(E), NEW n \in 1 .. Len(q),
         NEW g, Drawn(r, q, n - 1, g)
  PROVE  /\ Drawn(r, q, n, g)
         /\ \E h : Drawn(Append(r, q[n]), q, n, h)
         /\ \E h : Drawn(<<q[n]>> \o r, q, n, h)
<1>1. DOMAIN r = 1 .. Len(r) /\ Len(r) \in Nat /\ n \in Nat /\ q[n] \in E
  OBVIOUS
<1>2. \A k \in 1 .. Len(r) : g[k] \in 1 .. n - 1 /\ r[k] = q[g[k]]
  BY <1>1 DEF Drawn
<1>3. \A k, l \in 1 .. Len(r) : g[k] = g[l] => k = l
  BY <1>1 DEF Drawn
<1>4. Drawn(r, q, n, g)
  BY <1>1, <1>2, <1>3 DEF Drawn
<1>5. \E h : Drawn(Append(r, q[n]), q, n, h)
  <2>1. PICK h : h = [k \in 1 .. Len(r) + 1 |-> IF k = Len(r) + 1 THEN n ELSE g[k]]
    OBVIOUS
  <2>2. PICK p : p = Append(r, q[n])
    OBVIOUS
  <2>3. /\ DOMAIN p = 1 .. Len(r) + 1 /\ p[Len(r) + 1] = q[n]
        /\ \A k \in 1 .. Len(r) : p[k] = r[k]
    BY <1>1, <2>2
  <2>4. \A k \in DOMAIN p : h[k] \in 1 .. n /\ p[k] = q[h[k]]
    BY <1>1, <1>2, <2>1, <2>3
  <2>5. \A k, l \in DOMAIN p : h[k] = h[l] => k = l
    BY <1>1, <1>2, <1>3, <2>1, <2>3
  <2>6. Drawn(p, q, n, h)
    BY <2>4, <2>5 DEF Drawn
  <2>7. QED
    BY <2>2, <2>6
<1>6. \E h : Drawn(<<q[n]>> \o r, q, n, h)
  <2>1. PICK h : h = [k \in 1 .. Len(r) + 1 |-> IF k = 1 THEN n ELSE g[k - 1]]
    OBVIOUS
  <2>2. PICK p : p = <<q[n]>> \o r
    OBVIOUS
  <2>3. /\ DOMAIN p = 1 .. Len(r) + 1 /\ p[1] = q[n]
        /\ \A k \in 2 .. Len(r) + 1 : p[k] = r[k - 1]
    <3>1. <<q[n]>> \in Seq(E) /\ Len(<<q[n]>>) = 1 /\ <<q[n]>>[1] = q[n]
      BY <1>1
    <3>2. QED
      BY <1>1, <2>2, <3>1, ConcatProperties
  <2>4. \A k \in DOMAIN p : h[k] \in 1 .. n /\ p[k] = q[h[k]]
    <3>1. ASSUME NEW k \in 2 .. Len(r) + 1 PROVE h[k] \in 1 .. n /\ p[k] = q[h[k]]
      BY <1>1, <1>2, <2>1, <2>3
    <3>2. h[1] = n /\ n \in 1 .. n
      BY <1>1, <2>1
    <3>3. QED
      BY <1>1, <2>3, <3>1, <3>2
  <2>5. ASSUME NEW k \in DOMAIN p, NEW l \in DOMAIN p, h[k] = h[l] PROVE k = l
    <3>1. \A i \in 2 .. Len(r) + 1 : i - 1 \in 1 .. Len(r) /\ h[i] = g[i - 1] /\ h[i] # n
      BY <1>1, <1>2, <2>1
    <3>2. h[1] = n
      BY <1>1, <2>1
    <3>3. k \in 1 .. Len(r) + 1 /\ l \in 1 .. Len(r) + 1
      BY <2>3
    <3>4. CASE k = 1 \/ l = 1
      <4>1. k = 1 /\ l = 1
        BY <1>1, <2>5, <3>1, <3>2, <3>3, <3>4
      <4>2. QED
        BY <4>1
    <3>5. CASE k # 1 /\ l # 1
      <4>1. k \in 2 .. Len(r) + 1 /\ l \in 2 .. Len(r) + 1
        BY <1>1, <3>3, <3>5
      <4>2. k - 1 = l - 1
        BY <1>3, <2>5, <3>1, <4>1
      <4>3. QED
        BY <1>1, <3>3, <4>2
    <3>6. QED
      BY <3>4, <3>5
  <2>6. Drawn(p, q, n, h)
    BY <2>4, <2>5 DEF Drawn
  <2>7. QED
    BY <2>2, <2>6
<1>7. QED
  BY <1>4, <1>5, <1>6

\* OnlyIn draws the elements that are in the set.
LEMMA OnlyInDraws ==
  ASSUME NEW E, NEW q \in Seq(E), NEW T
  PROVE  OnlyIn(q, T) \in Seq(E \cap T) /\ \E g : Drawn(OnlyIn(q, T), q, Len(q), g)
<1> DEFINE n == Len(q)
           X == Seq(E \cap T)
<1>1. n \in Nat /\ \A k \in 1 .. n : q[k] \in E
  OBVIOUS
<1>2. PICK b : b = << >>
  OBVIOUS
<1>3. b \in X
  BY <1>2
<1>4. \A x \in X : \A k \in 1 .. n : KeptIf(x, q[k], T) \in X
  BY <1>1 DEF KeptIf
<1>5. \A x \in X : x \in Seq(E)
  OBVIOUS
<1> HIDE DEF X
<1>6. PICK e \in [0 .. n -> X] :
        /\ e[0] = b /\ e[n] = Kept(b, q, T)
        /\ \A k \in 1 .. n : e[k] = KeptIf(e[k - 1], q[k], T)
  <2>1. \E e : KeptTurns(X, b, q, T, e)
    BY <1>3, <1>4, KeptTrace
  <2>2. QED
    BY <2>1 DEF KeptTurns
<1>7. OnlyIn(q, T) = e[n]
  <2>1. OnlyIn(q, T) = Kept(<< >>, q, T)
    BY Zenon DEF OnlyIn, Kept
  <2>2. QED
    BY <1>2, <1>6, <2>1
<1> DEFINE Y == {k \in 0 .. n : \E g : Drawn(e[k], q, k, g)}
<1>8. 0 \in Y
  <2>1. Drawn(e[0], q, 0, << >>)
    BY <1>2, <1>6 DEF Drawn
  <2>2. QED
    BY <1>1, <2>1
<1>9. ASSUME NEW k \in 1 .. n, k - 1 \in Y PROVE k \in Y
  <2>1. PICK g : Drawn(e[k - 1], q, k - 1, g)
    BY <1>9
  <2>2. e[k - 1] \in Seq(E)
    BY <1>1, <1>5, <1>6
  <2>3. /\ Drawn(e[k - 1], q, k, g)
        /\ \E h : Drawn(Append(e[k - 1], q[k]), q, k, h)
    BY <2>1, <2>2, DrawnOneMore
  <2>4. e[k] = e[k - 1] \/ e[k] = Append(e[k - 1], q[k])
    BY <1>6 DEF KeptIf
  <2>5. \E h : Drawn(e[k], q, k, h)
    BY <2>3, <2>4
  <2>6. QED
    BY <1>1, <2>5
<1> HIDE DEF Y
<1>10. n \in Y
  BY <1>1, <1>8, <1>9, CountUp
<1>11. \E g : Drawn(e[n], q, n, g)
  BY <1>10 DEF Y
<1>12. QED
  BY <1>1, <1>6, <1>7, <1>11 DEF X

\* What it draws from different elements are different ones.
LEMMA OnlyInApart ==
  ASSUME NEW E, NEW q \in Seq(E), IsInjective(q), NEW T
  PROVE  IsInjective(OnlyIn(q, T))
<1>1. PICK r : r = OnlyIn(q, T)
  OBVIOUS
<1>2. PICK g : Drawn(r, q, Len(q), g)
  BY <1>1, OnlyInDraws
<1>3. \A k \in DOMAIN r : g[k] \in DOMAIN q /\ r[k] = q[g[k]]
  BY <1>2 DEF Drawn
<1>4. \A k, l \in DOMAIN r : r[k] = r[l] => k = l
  BY <1>2, <1>3 DEF Drawn, IsInjective
<1>5. QED
  BY <1>1, <1>4 DEF IsInjective

-----------------------------------------------------------------------------
(* A listing                                                               *)

\* A mode goes through `ls -la' and parse_permissions and stays a mode.
LEMMA ParsedMode ==
  ASSUME NEW letter, NEW mode \in Modes, NEW size, NEW name
  PROVE  parse_permissions(EntryLine(letter, mode, size, name)) \in Modes
<1> DEFINE line  == EntryLine(letter, mode, size, name)
           first == IF letter = "-" THEN 0 ELSE 1
<1>1. PICK q : q = perms_of(mode)
  OBVIOUS
<1>2. mode \in Nat
  BY FetchAssumption
<1>3. \A k \in 1 .. 9 : PermBits[k] \in Nat \ {0}
  BY DEF PermBits
<1>4. \A k \in 1 .. 9 : (mode \div PermBits[k]) % 2 \in Nat
  <2>1. \A v \in Nat \ {0} : (mode \div v) \in Int
    BY <1>2
  <2>2. \A v \in Int : v % 2 \in Nat
    OBVIOUS
  <2>3. QED
    BY <1>3, <2>1, <2>2
<1>5. q \in Seq(Nat)
  BY <1>1, <1>4 DEF perms_of
<1>6. PICK b \in Nat : b = first
  OBVIOUS
<1>7. \A x \in Nat : \A k \in 1 .. Len(q) : 2 * x + q[k] \in Nat
  BY <1>5
<1>8. \E e : BitsReadTurns(Nat, b, q, e)
  BY <1>5, <1>7, BitsReadTrace
<1>9. BitsRead(b, q) \in Nat
  BY <1>5, <1>8 DEF BitsReadTurns
<1>10. line.letter = letter /\ line.perms = q
  BY <1>1 DEF EntryLine
<1>11. parse_permissions(line) = BitsRead(IF line.letter = "-" THEN 0 ELSE 1, line.perms) % 512
  BY Zenon DEF parse_permissions, BitsRead
<1>12. parse_permissions(line) = BitsRead(b, q) % 512
  BY <1>6, <1>10, <1>11
<1>13. \A m \in Nat : m % 512 \in 0 .. 511
  OBVIOUS
<1>14. BitsRead(b, q) % 512 \in 0 .. 511
  BY <1>9, <1>13, Zenon
<1>15. Modes = 0 .. 511
  BY FetchAssumption, Zenon
<1>16. QED
  BY <1>12, <1>14, <1>15, Zenon

\* What the tree of the server has at a name, when it has something there.
At(n) == server[<<n, "real">>]

\* The server has only whole files.
ServerGood == \A n \in Names : At(n) # Absent /\ At(n).type = "file" => At(n).content \in Bytes \ {Part}

\* The line that was printed for n is read as what is at n, or not at all.
ReadAs(r, n) ==
  r.result \in {"file", "directory"} =>
    /\ r.file.name = n /\ r.file.mode \in Modes /\ r.file.size \in Nat
    /\ r.result = "directory" <=> At(n).type = "dir"
    /\ r.result = "file" => r.file.size = ByteSize[At(n).content]

\* What is at a name has its type.
LEMMA ServerFile ==
  ASSUME server \in Tree, NEW n \in Names, At(n) # Absent
  PROVE  At(n) \in RemoteFile /\ At(n).type \in {"file", "dir"} /\ At(n).mode \in Modes /\ At(n).time \in Nat
<1>1. <<n, "real">> \in Places
  BY DEF Places
<1>2. At(n) \in RemoteFile
  BY <1>1 DEF At, Tree
<1>3. QED
  BY <1>2 DEF RemoteFile

\* ls_parse and the lines of a listing.
LEMMA ParsedEntry ==
  ASSUME server \in Tree, ServerGood, NEW n \in Names, At(n) # Absent
  PROVE  ReadAs(ls_parse(entry_line(n)), n)
<1> DEFINE f == At(n)
           letter == IF f.type = "dir" THEN "d" ELSE "-"
           size == IF f.type = "dir" THEN 0 ELSE ByteSize[f.content]
           line == EntryLine(letter, f.mode, size, n)
           r == ls_parse(line)
<1>1. f.type \in {"file", "dir"} /\ f.mode \in Modes
  BY ServerFile
<1>2. entry_line(n) = line
  BY DEF entry_line, At
<1>3. size \in Nat
  BY <1>1, CopyAssumption DEF ServerGood
<1>4. line.kind = "entry" /\ line.letter = letter /\ line.size = size /\ line.name = n
  BY DEF EntryLine
<1>5. parse_permissions(line) \in Modes
  BY <1>1, ParsedMode
<1>6. r = parse_file(line)
  BY <1>4 DEF ls_parse
<1>7. PICK p : p = Parsed(line)
  OBVIOUS
<1>8. p.name = n /\ p.mode \in Modes /\ p.size = size /\ p = [name |-> p.name, mode |-> p.mode, size |-> p.size]
  BY <1>4, <1>5, <1>7 DEF Parsed
<1> HIDE DEF line, size
<1>9. CASE f.type = "dir"
  <2>1. letter = "d"
    BY <1>9
  <2>2. r = [result |-> "directory", file |-> [p EXCEPT !.size = 0]] \/ r = Nothing
    BY <1>4, <1>6, <1>7, <2>1 DEF parse_file
  <2>3. CASE r = Nothing
    BY <1>2, <2>3 DEF Nothing, ReadAs
  <2>4. CASE r = [result |-> "directory", file |-> [p EXCEPT !.size = 0]]
    <3>1. r.result = "directory" /\ r.file.name = n /\ r.file.mode \in Modes /\ r.file.size = 0
      BY <1>8, <2>4
    <3>2. QED
      BY <1>2, <1>9, <3>1 DEF ReadAs
  <2>5. QED
    BY <2>2, <2>3, <2>4
<1>10. CASE f.type # "dir"
  <2>1. letter = "-" /\ size = ByteSize[f.content]
    BY <1>10 DEF size
  <2>2. r = [result |-> "file", file |-> p]
    BY <1>4, <1>6, <1>7, <2>1 DEF parse_file
  <2>3. r.result = "file" /\ r.file.name = n /\ r.file.mode \in Modes /\ r.file.size = size
    BY <1>8, <2>2
  <2>4. QED
    BY <1>2, <1>3, <1>10, <2>1, <2>3 DEF ReadAs
<1>11. QED
  BY <1>9, <1>10

\* The other lines are read as nothing.
LEMMA ParsedOther ==
  /\ \A line \in OtherLine : ls_parse(line).result \notin {"file", "directory"}
  /\ \A name \in {Here, HereUp} : \A mode : ls_parse(EntryLine("d", mode, 0, name)).result \notin {"file", "directory"}
<1>1. ASSUME NEW line \in OtherLine PROVE ls_parse(line).result \notin {"file", "directory"}
  <2>1. line.kind \in {"blank", "total", "garbled", "heading"}
    BY DEF OtherLine
  <2>2. parse_file(line) = Failure
    BY <2>1 DEF parse_file
  <2>3. ls_parse(line) \in {Nothing, Failure}
    BY <2>2 DEF ls_parse
  <2>4. QED
    BY <2>3 DEF Nothing, Failure
<1>2. ASSUME NEW name \in {Here, HereUp}, NEW mode
      PROVE  ls_parse(EntryLine("d", mode, 0, name)).result \notin {"file", "directory"}
  <2>1. PICK line : line = EntryLine("d", mode, 0, name)
    OBVIOUS
  <2>2. line.kind = "entry" /\ line.letter = "d" /\ line.name = name
    BY <2>1 DEF EntryLine
  <2>3. ls_parse(line) = Nothing
    BY <2>2 DEF ls_parse, parse_file
  <2>4. QED
    BY <2>1, <2>3 DEF Nothing
<1>3. QED
  BY <1>1, <1>2

\* The list of files has what was parsed as a file or a directory.
LEMMA ListDraws ==
  ASSUME NEW E, NEW q \in Seq(E)
  PROVE  LET r == ListedAll(<< >>, q)
         IN  /\ r \in Seq(E) /\ \E g : Drawn(r, q, Len(q), g)
             /\ \A k \in DOMAIN r : r[k].result \in {"file", "directory"}
<1> DEFINE n == Len(q)
           F == {x \in E : x.result \in {"file", "directory"}}
           X == Seq(F)
<1>1. n \in Nat /\ \A k \in 1 .. n : q[k] \in E
  OBVIOUS
<1>2. PICK b : b = << >>
  OBVIOUS
<1>3. b \in X
  BY <1>2
<1>4. \A x \in X : \A k \in 1 .. n : ls_pflist_add(x, q[k]) \in X
  <2>1. SUFFICES ASSUME NEW x \in X, NEW k \in 1 .. n PROVE ls_pflist_add(x, q[k]) \in X
    OBVIOUS
  <2>2. q[k].result \in {"file", "directory"} => q[k] \in F
    BY <1>1
  <2> HIDE DEF F
  <2>3. \A y \in F : <<y>> \o x \in Seq(F) /\ Append(x, y) \in Seq(F)
    BY <2>1
  <2>4. QED
    BY <2>1, <2>2, <2>3 DEF ls_pflist_add
<1>5. \A x \in X : x \in Seq(E)
  OBVIOUS
<1> HIDE DEF X
<1>6. PICK e \in [0 .. n -> X] :
        /\ e[0] = b /\ e[n] = ListedAll(b, q)
        /\ \A k \in 1 .. n : e[k] = ls_pflist_add(e[k - 1], q[k])
  <2>1. \E e : ListedAllTurns(X, b, q, e)
    BY <1>3, <1>4, ListedAllTrace
  <2>2. QED
    BY <2>1 DEF ListedAllTurns
<1> DEFINE Y == {k \in 0 .. n : \E g : Drawn(e[k], q, k, g)}
<1>7. 0 \in Y
  <2>1. Drawn(e[0], q, 0, << >>)
    BY <1>2, <1>6 DEF Drawn
  <2>2. QED
    BY <1>1, <2>1
<1>8. ASSUME NEW k \in 1 .. n, k - 1 \in Y PROVE k \in Y
  <2>1. PICK g : Drawn(e[k - 1], q, k - 1, g)
    BY <1>8
  <2>2. e[k - 1] \in Seq(E)
    BY <1>1, <1>5, <1>6
  <2>3. /\ Drawn(e[k - 1], q, k, g)
        /\ \E h : Drawn(Append(e[k - 1], q[k]), q, k, h)
        /\ \E h : Drawn(<<q[k]>> \o e[k - 1], q, k, h)
    BY <2>1, <2>2, DrawnOneMore
  <2>4. e[k] = e[k - 1] \/ e[k] = Append(e[k - 1], q[k]) \/ e[k] = <<q[k]>> \o e[k - 1]
    BY <1>6 DEF ls_pflist_add
  <2>5. \E h : Drawn(e[k], q, k, h)
    BY <2>3, <2>4
  <2>6. QED
    BY <1>1, <2>5
<1> HIDE DEF Y
<1>9. n \in Y
  BY <1>1, <1>7, <1>8, CountUp
<1>10. \E g : Drawn(e[n], q, n, g)
  BY <1>9 DEF Y
<1>11. e[n] \in X /\ e[n] = ListedAll(<< >>, q)
  BY <1>1, <1>2, <1>6
<1>12. QED
  BY <1>5, <1>10, <1>11 DEF X

\* What is read from the lines of a listing are different files of the
\* directory.
LEMMA ParsedListing ==
  ASSUME server \in Tree, ServerGood, NEW dir, NEW order \in Orders, NEW noise \in ListNoise
  PROVE  LET lines == listing(dir, order, noise)
             r     == [k \in DOMAIN lines |-> ls_parse(lines[k])]
         IN  /\ Len(lines) \in Nat /\ DOMAIN lines = 1 .. Len(lines)
             /\ \A k \in DOMAIN lines : r[k].result \in {"file", "directory"} =>
                  r[k].file.name \in Children(dir) /\ ReadAs(r[k], r[k].file.name)
             /\ \A k, l \in DOMAIN lines :
                  /\ r[k].result \in {"file", "directory"} /\ r[l].result \in {"file", "directory"}
                  /\ r[k].file.name = r[l].file.name
                  => k = l
<1>1. PICK here : here = OnlyIn(order, Children(dir))
  OBVIOUS
<1>2. order \in Seq(Names) /\ IsInjective(order)
  BY CopyAssumption
<1>3. here \in Seq(Names \cap Children(dir))
  BY <1>1, <1>2, OnlyInDraws
<1>4. \A k, l \in DOMAIN here : here[k] = here[l] => k = l
  <2>1. IsInjective(here)
    BY <1>1, <1>2, OnlyInApart
  <2>2. QED
    BY <2>1 DEF IsInjective
<1>5. \A k \in DOMAIN here : here[k] \in Names /\ here[k] \in Children(dir) /\ At(here[k]) # Absent
  BY <1>3 DEF Children, At
<1>6. PICK two : two = <<EntryLine("d", DefaultMode, 0, Here), EntryLine("d", DefaultMode, 0, HereUp)>>
  OBVIOUS
<1>7. PICK ents : ents = [k \in DOMAIN here |-> entry_line(here[k])]
  OBVIOUS
<1>8. PICK lines : lines = listing(dir, order, noise)
  OBVIOUS
<1>9. lines = noise \o two \o ents
  BY <1>1, <1>6, <1>7, <1>8 DEF listing
<1>10. PICK a \in Nat : a = Len(noise) /\ DOMAIN noise = 1 .. a /\ \A k \in 1 .. a : noise[k] \in OtherLine
  BY FetchAssumption
<1>11. PICK c \in Nat : c = Len(here) /\ DOMAIN here = 1 .. c
  BY <1>3
<1>12. /\ DOMAIN lines = 1 .. a + 2 + c /\ Len(lines) = a + 2 + c
       /\ \A k \in 1 .. a : lines[k] = noise[k]
       /\ lines[a + 1] = two[1] /\ lines[a + 2] = two[2]
       /\ \A k \in 1 .. c : lines[a + 2 + k] = entry_line(here[k])
  <2> DEFINE L == OtherLine \cup {two[1], two[2]} \cup {entry_line(n) : n \in Names}
  <2>1. noise \in Seq(L)
    BY <1>10, FetchAssumption
  <2>2. two \in Seq(L) /\ Len(two) = 2
    BY <1>6
  <2>3. ents \in Seq(L) /\ Len(ents) = c
    BY <1>5, <1>7, <1>11
  <2> HIDE DEF L
  <2>4. PICK p : p = noise \o two
    OBVIOUS
  <2>5. p \in Seq(L) /\ Len(p) = a + 2 /\ \A k \in 1 .. a + 2 : p[k] = IF k =< a THEN noise[k] ELSE two[k - a]
    <3>1. /\ noise \o two \in Seq(L) /\ Len(noise \o two) = Len(noise) + Len(two)
          /\ \A i \in 1 .. Len(noise) + Len(two) :
                (noise \o two)[i] = IF i =< Len(noise) THEN noise[i] ELSE two[i - Len(noise)]
      BY <2>1, <2>2, ConcatProperties, Zenon
    <3>2. QED
      BY <1>10, <2>2, <2>4, <3>1, Zenon
  <2>6. lines = p \o ents
    BY <1>9, <2>4
  <2>7. /\ lines \in Seq(L) /\ Len(lines) = a + 2 + c
        /\ \A k \in 1 .. a + 2 + c : lines[k] = IF k =< a + 2 THEN p[k] ELSE ents[k - (a + 2)]
    <3>1. /\ p \o ents \in Seq(L) /\ Len(p \o ents) = Len(p) + Len(ents)
          /\ \A i \in 1 .. Len(p) + Len(ents) :
                (p \o ents)[i] = IF i =< Len(p) THEN p[i] ELSE ents[i - Len(p)]
      BY <2>3, <2>5, ConcatProperties, Zenon
    <3>2. QED
      BY <2>3, <2>5, <2>6, <3>1, Zenon
  <2>8. \A k \in 1 .. c : ents[k] = entry_line(here[k])
    BY <1>7, <1>11
  <2>9. DOMAIN lines = 1 .. a + 2 + c
    BY <2>7
  <2>10. \A k \in 1 .. a : lines[k] = noise[k]
    BY <1>10, <1>11, <2>5, <2>7
  <2>11. lines[a + 1] = two[1] /\ lines[a + 2] = two[2]
    BY <1>10, <1>11, <2>5, <2>7
  <2>12. ASSUME NEW k \in 1 .. c PROVE lines[a + 2 + k] = entry_line(here[k])
    <3>1. a + 2 + k \in 1 .. a + 2 + c /\ ~(a + 2 + k =< a + 2) /\ (a + 2 + k) - (a + 2) = k
      BY <1>10, <1>11
    <3>2. QED
      BY <2>7, <2>8, <3>1
  <2>13. QED
    BY <2>7, <2>9, <2>10, <2>11, <2>12
<1> DEFINE Read(k) == ls_parse(lines[k]).result \in {"file", "directory"}
<1>13. \A k \in 1 .. a + 2 : ~Read(k)
  <2>1. \A k \in 1 .. a : ~Read(k)
    BY <1>10, <1>12, ParsedOther
  <2>2. two[1] = EntryLine("d", DefaultMode, 0, Here) /\ two[2] = EntryLine("d", DefaultMode, 0, HereUp)
    BY <1>6
  <2>3. ~Read(a + 1) /\ ~Read(a + 2)
    BY <1>12, <2>2, ParsedOther
  <2>4. \A k \in 1 .. a + 2 : k \in 1 .. a \/ k = a + 1 \/ k = a + 2
    BY <1>10
  <2>5. QED
    BY <2>1, <2>3, <2>4
<1>14. ASSUME NEW k \in 1 .. a + 2 + c, Read(k)
       PROVE  \E j \in 1 .. c : k = a + 2 + j /\ ReadAs(ls_parse(lines[k]), here[j])
  <2>1. k - (a + 2) \in 1 .. c /\ k = a + 2 + (k - (a + 2))
    BY <1>10, <1>11, <1>13, <1>14
  <2>2. PICK j \in 1 .. c : k = a + 2 + j
    BY <2>1
  <2>3. lines[k] = entry_line(here[j]) /\ here[j] \in Names /\ At(here[j]) # Absent
    BY <1>5, <1>11, <1>12, <2>2
  <2>4. QED
    BY <2>2, <2>3, ParsedEntry
<1>15. ASSUME NEW k \in 1 .. a + 2 + c, Read(k)
       PROVE  \E j \in 1 .. c : k = a + 2 + j /\ ls_parse(lines[k]).file.name = here[j]
                                /\ ReadAs(ls_parse(lines[k]), here[j])
  BY <1>14, <1>15 DEF ReadAs
<1>16. \A k \in 1 .. a + 2 + c : Read(k) =>
         ls_parse(lines[k]).file.name \in Children(dir) /\ ReadAs(ls_parse(lines[k]), ls_parse(lines[k]).file.name)
  BY <1>5, <1>11, <1>15
<1>17. ASSUME NEW k \in 1 .. a + 2 + c, NEW l \in 1 .. a + 2 + c, Read(k), Read(l),
              ls_parse(lines[k]).file.name = ls_parse(lines[l]).file.name
       PROVE  k = l
  <2>1. PICK i \in 1 .. c : k = a + 2 + i /\ ls_parse(lines[k]).file.name = here[i]
    BY <1>15, <1>17
  <2>2. PICK j \in 1 .. c : l = a + 2 + j /\ ls_parse(lines[l]).file.name = here[j]
    BY <1>15, <1>17
  <2>3. i = j
    BY <1>4, <1>11, <1>17, <2>1, <2>2
  <2>4. QED
    BY <2>1, <2>2, <2>3
<1>18. PICK r : r = [k \in DOMAIN lines |-> ls_parse(lines[k])]
  OBVIOUS
<1>19. \A k \in 1 .. a + 2 + c : r[k] = ls_parse(lines[k])
  BY <1>12, <1>18
<1>20. /\ Len(lines) \in Nat /\ DOMAIN lines = 1 .. Len(lines)
       /\ \A k \in DOMAIN lines : r[k].result \in {"file", "directory"} =>
            r[k].file.name \in Children(dir) /\ ReadAs(r[k], r[k].file.name)
       /\ \A k, l \in DOMAIN lines :
            /\ r[k].result \in {"file", "directory"} /\ r[l].result \in {"file", "directory"}
            /\ r[k].file.name = r[l].file.name
            => k = l
  BY <1>10, <1>11, <1>12, <1>16, <1>17, <1>19
<1>21. QED
  BY <1>8, <1>18, <1>20

\* A file that a fetch has found: what is known of it is that of a whole file.
FoundFile ==
  {f \in ProtoFile :
     f.type = "file" => f.size \in {ByteSize[b] : b \in Bytes \ {Part}} /\ f.sum \in (Bytes \ {Part}) \cup {NoSum}}

\* The list is one of different files of the directory.
Listed(q, dir) ==
  /\ \A k \in DOMAIN q : q[k].name \in Children(dir) /\ q[k].type = At(q[k].name).type
  /\ \A k, l \in DOMAIN q : q[k].name = q[l].name => k = l

\* proto_file makes a file that was found of what was parsed.
LEMMA ProtoFileFound ==
  ASSUME server \in Tree, ServerGood, NEW p, p.result \in {"file", "directory"}, ReadAs(p, p.file.name),
         p.file.name \in Names, At(p.file.name) # Absent
  PROVE  /\ proto_file(p) \in FoundFile
         /\ proto_file(p).name = p.file.name /\ proto_file(p).type = At(p.file.name).type
<1>1. PICK f : f = At(p.file.name)
  OBVIOUS
<1>2. f.type \in {"file", "dir"}
  BY <1>1, ServerFile
<1>3. /\ p.file.mode \in Modes /\ p.file.size \in Nat
      /\ p.result = "directory" <=> f.type = "dir"
      /\ p.result = "file" => p.file.size = ByteSize[f.content]
  BY <1>1 DEF ReadAs
<1>4. f.type = "file" => f.content \in Bytes \ {Part}
  BY <1>1 DEF ServerGood
<1>5. PICK type : type = IF p.result = "directory" THEN "dir" ELSE "file"
  OBVIOUS
<1>6. type = f.type
  BY <1>2, <1>3, <1>5
<1>7. proto_file(p) = [name |-> p.file.name, mode |-> p.file.mode, size |-> p.file.size,
                       type |-> type, time |-> 0, sum |-> NoSum]
  BY <1>5 DEF proto_file
<1>8. type = "file" => p.file.size \in {ByteSize[b] : b \in Bytes \ {Part}}
  BY <1>2, <1>3, <1>4, <1>6
<1>9. proto_file(p) \in ProtoFile
  BY <1>2, <1>3, <1>6, <1>7 DEF ProtoFile
<1>10. QED
  BY <1>1, <1>6, <1>7, <1>8, <1>9 DEF FoundFile

\* The output of ls gives such files.
LEMMA LsListGood ==
  ASSUME server \in Tree, ServerGood, NEW dir, NEW order \in Orders, NEW noise \in ListNoise
  PROVE  LET l == ls_list(dir, order, noise)
         IN  l.fault \in Nat /\ l.list \in Seq(FoundFile) /\ Listed(l.list, dir)
<1>1. PICK lines : lines = listing(dir, order, noise)
  OBVIOUS
<1>2. PICK r : r = [k \in DOMAIN lines |-> ls_parse(lines[k])]
  OBVIOUS
<1>3. /\ Len(lines) \in Nat /\ DOMAIN lines = 1 .. Len(lines)
      /\ \A k \in DOMAIN lines : r[k].result \in {"file", "directory"} =>
           r[k].file.name \in Children(dir) /\ ReadAs(r[k], r[k].file.name)
      /\ \A k, l \in DOMAIN lines :
           /\ r[k].result \in {"file", "directory"} /\ r[l].result \in {"file", "directory"}
           /\ r[k].file.name = r[l].file.name
           => k = l
  BY <1>1, <1>2, ParsedListing
<1>4. PICK E : E = {r[k] : k \in DOMAIN lines}
  OBVIOUS
<1>5. r \in Seq(E) /\ Len(r) = Len(lines)
  BY <1>2, <1>3, <1>4
<1>6. PICK q : q = ListedAll(<< >>, r)
  OBVIOUS
<1>7. /\ q \in Seq(E) /\ \E g : Drawn(q, r, Len(r), g)
      /\ \A k \in DOMAIN q : q[k].result \in {"file", "directory"}
  BY <1>5, <1>6, ListDraws
<1>8. PICK g : Drawn(q, r, Len(r), g)
  BY <1>7
<1>9. \A k \in DOMAIN q : g[k] \in DOMAIN lines /\ q[k] = r[g[k]]
  BY <1>3, <1>5, <1>8 DEF Drawn
<1>10. \A k \in DOMAIN q : /\ q[k].result \in {"file", "directory"} /\ ReadAs(q[k], q[k].file.name)
                           /\ q[k].file.name \in Children(dir)
  BY <1>3, <1>7, <1>9
<1>11. ASSUME NEW k \in DOMAIN q, NEW l \in DOMAIN q, q[k].file.name = q[l].file.name PROVE k = l
  <2>1. /\ g[k] \in DOMAIN lines /\ g[l] \in DOMAIN lines
        /\ r[g[k]].result \in {"file", "directory"} /\ r[g[l]].result \in {"file", "directory"}
        /\ r[g[k]].file.name = r[g[l]].file.name
    BY <1>9, <1>10, <1>11
  <2>2. g[k] = g[l]
    BY <1>3, <2>1
  <2>3. QED
    BY <1>8, <2>2 DEF Drawn
<1>12. PICK v : v = [k \in DOMAIN q |-> proto_file(q[k])]
  OBVIOUS
<1>13. ls_list(dir, order, noise).list = v /\ ls_list(dir, order, noise).fault \in Nat
  <2>1. ftp_fetch(lines).list = ListedAll(<< >>, [k \in DOMAIN lines |-> ls_parse(lines[k])])
    BY Zenon DEF ftp_fetch, ListedAll
  <2>2. rsh_fetch(lines).list = ListedAll(<< >>, [k \in DOMAIN lines |-> ls_parse(lines[k])])
    BY Zenon DEF rsh_fetch, ListedAll
  <2>3. PICK t : t = IF opt.protocol = "ftp" THEN ftp_fetch(lines) ELSE rsh_fetch(lines)
    OBVIOUS
  <2>4. t.list = q
    BY <1>2, <1>6, <2>1, <2>2, <2>3
  <2>5. ls_list(dir, order, noise)
          = [failed |-> t.failed, fault |-> IF t.failed THEN 1 ELSE 0,
             list   |-> [k \in DOMAIN t.list |-> proto_file(t.list[k])]]
    BY <1>1, <2>3 DEF ls_list
  <2>6. QED
    BY <1>12, <2>4, <2>5
<1>14. DOMAIN v = DOMAIN q /\ \A k \in DOMAIN q : v[k] = proto_file(q[k])
  BY <1>12
<1>15. ASSUME NEW k \in DOMAIN q
       PROVE  v[k] \in FoundFile /\ v[k].name = q[k].file.name /\ v[k].type = At(q[k].file.name).type
  <2>1. q[k].file.name \in Names /\ At(q[k].file.name) # Absent
    BY <1>10 DEF Children, At
  <2>2. PICK p : p = q[k]
    OBVIOUS
  <2>3. p.result \in {"file", "directory"} /\ ReadAs(p, p.file.name)
    BY <1>10, <2>2
  <2>4. /\ proto_file(p) \in FoundFile
        /\ proto_file(p).name = p.file.name /\ proto_file(p).type = At(p.file.name).type
    BY <2>1, <2>2, <2>3, ProtoFileFound
  <2>5. QED
    BY <1>14, <2>2, <2>4
<1>16. v \in Seq(FoundFile)
  <2>1. v = [k \in DOMAIN q |-> v[k]]
    BY <1>12
  <2>2. DOMAIN q = 1 .. Len(q) /\ Len(q) \in Nat
    BY <1>7
  <2>3. QED
    BY <1>15, <2>1, <2>2
<1>17. Listed(v, dir)
  BY <1>10, <1>11, <1>14, <1>15 DEF Listed
<1>18. QED
  BY <1>13, <1>16, <1>17

\* So does the answer of a WebDAV server.
LEMMA PfindListGood ==
  ASSUME server \in Tree, ServerGood, NEW dir, NEW order \in Orders, NEW untold
  PROVE  LET l == pfind_list(dir, order, untold)
         IN  l.list \in Seq(FoundFile) /\ Listed(l.list, dir)
<1>1. PICK here : here = OnlyIn(order, Children(dir) \ untold)
  OBVIOUS
<1>2. order \in Seq(Names) /\ IsInjective(order)
  BY CopyAssumption
<1>3. here \in Seq(Names \cap (Children(dir) \ untold))
  BY <1>1, <1>2, OnlyInDraws
<1>4. \A k, l \in DOMAIN here : here[k] = here[l] => k = l
  <2>1. IsInjective(here)
    BY <1>1, <1>2, OnlyInApart
  <2>2. QED
    BY <2>1 DEF IsInjective
<1>5. DOMAIN here = 1 .. Len(here) /\ Len(here) \in Nat
  BY <1>3
<1>6. \A k \in DOMAIN here : here[k] \in Names /\ here[k] \in Children(dir) /\ At(here[k]) # Absent
  BY <1>3 DEF Children, At
<1>7. PICK q : q = pfind_list(dir, order, untold).list
  OBVIOUS
<1>8. DOMAIN q = DOMAIN here
  BY <1>1, <1>7 DEF pfind_list
<1>9. ASSUME NEW k \in DOMAIN here
      PROVE  LET f == At(here[k])
             IN  q[k] = IF f.type = "dir"
                        THEN [name |-> here[k], type |-> "dir", mode |-> 0, size |-> 0, time |-> 0, sum |-> NoSum]
                        ELSE [name |-> here[k], type |-> "file", size |-> ByteSize[f.content], time |-> f.time,
                              mode |-> IF f.mode \in ExecModes THEN 493 ELSE 420, sum |-> NoSum]
  BY <1>1, <1>7 DEF pfind_list, At
<1>10. ASSUME NEW k \in DOMAIN here
       PROVE  q[k] \in FoundFile /\ q[k].name = here[k] /\ q[k].type = At(here[k]).type
  <2>1. PICK f : f = At(here[k])
    OBVIOUS
  <2>2. f.type \in {"file", "dir"} /\ f.time \in Nat /\ (f.type = "file" => f.content \in Bytes \ {Part})
    BY <1>6, <2>1, ServerFile DEF ServerGood
  <2>3. 0 \in Modes /\ 493 \in Modes /\ 420 \in Modes
    BY FetchAssumption
  <2>4. CASE f.type = "dir"
    <3>1. q[k] = [name |-> here[k], type |-> "dir", mode |-> 0, size |-> 0, time |-> 0, sum |-> NoSum]
      BY <1>9, <2>1, <2>4
    <3>2. QED
      BY <1>6, <2>1, <2>3, <2>4, <3>1 DEF FoundFile, ProtoFile
  <2>5. CASE f.type = "file"
    <3>1. PICK mode \in Modes : mode = IF f.mode \in ExecModes THEN 493 ELSE 420
      BY <2>3
    <3>2. q[k] = [name |-> here[k], type |-> "file", size |-> ByteSize[f.content], time |-> f.time,
                  mode |-> mode, sum |-> NoSum]
      BY <1>9, <2>1, <2>5, <3>1
    <3>3. ByteSize[f.content] \in {ByteSize[b] : b \in Bytes \ {Part}} /\ ByteSize[f.content] \in Nat
      BY <2>2, <2>5, CopyAssumption
    <3>4. q[k] \in ProtoFile
      BY <1>6, <2>2, <3>2, <3>3 DEF ProtoFile
    <3>5. QED
      BY <2>1, <2>5, <3>2, <3>3, <3>4 DEF FoundFile
  <2>6. QED
    BY <2>2, <2>4, <2>5
<1>11. q \in Seq(FoundFile)
  <2>1. q = [k \in DOMAIN here |-> q[k]]
    BY <1>1, <1>7 DEF pfind_list
  <2>2. QED
    BY <1>5, <1>10, <2>1
<1>12. Listed(q, dir)
  BY <1>4, <1>6, <1>8, <1>10 DEF Listed
<1>13. QED
  BY <1>7, <1>11, <1>12

\* Every listing of a directory that succeeds.
LEMMA FetchListGood ==
  ASSUME server \in Tree, ServerGood, NEW dir, NEW l \in fetch_list(dir)
  PROVE  l.fault \in Nat /\ l.list \in Seq(FoundFile) /\ Listed(l.list, dir)
<1> DEFINE F == [failed |-> TRUE, list |-> << >>, fault |-> 1]
           D == {pfind_list(dir, order, untold) :
                   order \in Orders, untold \in {{}} \cup {{n} : n \in {m \in Children(dir) :
                                              TypeAt(server, <<m, "real">>) = "file"}}}
           L == {ls_list(dir, order, noise) : order \in Orders, noise \in ListNoise}
<1>0. l = F \/ l \in D \/ l \in L
  <2>1. fetch_list(dir) = {F} \cup IF opt.protocol = "dav" THEN D ELSE L
    BY DEF fetch_list
  <2> HIDE DEF F, D, L
  <2>2. QED
    BY <2>1
<1>1. CASE l = F
  BY <1>1 DEF Listed
<1>2. CASE l \in L
  BY <1>2, LsListGood
<1>3. CASE l \in D
  <2>1. PICK order \in Orders, untold \in {{}} \cup {{n} : n \in {m \in Children(dir) :
                                            TypeAt(server, <<m, "real">>) = "file"}} :
             l = pfind_list(dir, order, untold)
    BY <1>3
  <2>2. Cardinality(untold) \in Nat
    <3>1. CASE untold = {}
      BY <3>1, FS_EmptySet
    <3>2. CASE untold # {}
      <4>1. PICK n : untold = {n}
        BY <3>2
      <4>2. Cardinality({n}) = 1
        BY FS_Singleton
      <4>3. QED
        BY <4>1, <4>2
    <3>3. QED
      BY <3>1, <3>2
  <2>3. l.fault = Cardinality(untold)
    BY <2>1 DEF pfind_list
  <2>4. QED
    BY <2>1, <2>2, <2>3, PfindListGood
<1> HIDE DEF F, D, L
<1>4. QED
  BY <1>0, <1>1, <1>2, <1>3

-----------------------------------------------------------------------------
(* Walking through the directories                                         *)

\* The directories on the stack are different ones, the root or found earlier;
\* of what was found, the directories have been taken from the stack.
Walked(stack, N) ==
  /\ IsInjective(stack)
  /\ \A i \in DOMAIN stack : stack[i] \in {Root} \cup N
  /\ \A n \in N : Parent[n] \in {Root} \cup N /\ \A i \in DOMAIN stack : stack[i] # Parent[n]

\* All but the last element of a sequence.
LEMMA FrontShape ==
  ASSUME NEW E, NEW q \in Seq(E), q # << >>
  PROVE  /\ Len(q) \in Nat \ {0} /\ Last(q) = q[Len(q)] /\ Last(q) \in E
         /\ Front(q) \in Seq(E) /\ DOMAIN Front(q) = 1 .. Len(q) - 1 /\ Len(Front(q)) = Len(q) - 1
         /\ \A i \in 1 .. Len(q) - 1 : Front(q)[i] = q[i]
<1>1. Len(q) \in Nat \ {0} /\ DOMAIN q = 1 .. Len(q)
  OBVIOUS
<1>2. PICK m \in Nat : m = Len(q) - 1
  <2>1. Len(q) - 1 \in Nat
    BY <1>1
  <2>2. QED
    BY <2>1, Zenon
<1>3. \A i \in 1 .. m : q[i] \in E
  BY <1>1, <1>2
<1>4. PICK r : r = SubSeq(q, 1, m)
  OBVIOUS
<1>5. /\ r \in Seq(E) /\ Len(r) = IF 1 =< m THEN m - 1 + 1 ELSE 0
      /\ \A i \in 1 .. m - 1 + 1 : r[i] = q[1 + i - 1]
  BY <1>2, <1>3, <1>4, SubSeqProperties
<1>6. Len(r) = m /\ DOMAIN r = 1 .. m /\ \A i \in 1 .. m : r[i] = q[i]
  BY <1>2, <1>5
<1>7. Front(q) = r
  BY <1>2, <1>4 DEF Front
<1>8. Last(q) = q[Len(q)] /\ Last(q) \in E
  BY <1>1 DEF Last
<1>9. r \in Seq(E) /\ DOMAIN r = 1 .. Len(q) - 1 /\ Len(r) = Len(q) - 1 /\ \A i \in 1 .. Len(q) - 1 : r[i] = q[i]
  BY <1>2, <1>5, <1>6
<1>10. QED
  BY <1>1, <1>7, <1>8, <1>9, Zenon

\* K is new, and walking may go on with what is left of the stack and with K.
WalksOn(f, N, K) ==
  /\ \A n \in K : n \notin N
  /\ IsInjective(f) /\ \A i \in DOMAIN f : f[i] \notin K
  /\ \A q : /\ IsInjective(q)
            /\ \A i \in DOMAIN q : q[i] \in K \/ \E j \in DOMAIN f : q[i] = f[j]
            => Walked(q, N \cup K)

\* The directory on the top of the stack is taken, what it has is found, and
\* some of that is pushed: nothing is found twice.
LEMMA WalkOn ==
  ASSUME NEW stack \in Seq(Names \cup {Root}), stack # << >>, NEW N \in SUBSET Names, Walked(stack, N),
         NEW K \in SUBSET Names, \A n \in K : Parent[n] = Last(stack)
  PROVE  WalksOn(Front(stack), N, K)
<1> DEFINE n == Len(stack)
           dir == Last(stack)
<1>1. n \in Nat \ {0} /\ DOMAIN stack = 1 .. n /\ dir = stack[n]
  <2>1. stack \in Seq(Names \cup {Root}) /\ stack # << >>
    OBVIOUS
  <2>2. Len(stack) \in Nat \ {0} /\ Last(stack) = stack[Len(stack)]
    BY <2>1, FrontShape, Zenon
  <2>3. QED
    BY <2>2
<1>2. PICK f : f = Front(stack)
  OBVIOUS
<1>3. DOMAIN f = 1 .. n - 1 /\ \A i \in 1 .. n - 1 : f[i] = stack[i] /\ i \in 1 .. n /\ i # n
  <2>1. stack \in Seq(Names \cup {Root}) /\ stack # << >>
    OBVIOUS
  <2>2. /\ DOMAIN Front(stack) = 1 .. Len(stack) - 1
        /\ \A i \in 1 .. Len(stack) - 1 : Front(stack)[i] = stack[i]
    BY <2>1, FrontShape, Zenon
  <2>3. \A i \in 1 .. n - 1 : i \in 1 .. n /\ i # n
    <3>1. n \in Nat
      BY <1>1
    <3> HIDE DEF n
    <3>2. QED
      BY <3>1
  <2>4. QED
    BY <1>2, <2>2, <2>3, Zenon
<1>4. dir \in {Root} \cup N /\ \A m \in N : Parent[m] # dir
  BY <1>1 DEF Walked
<1>5. \A m \in K : m \notin N
  BY <1>4
<1> HIDE DEF n, dir
<1>6. IsInjective(f)
  <2>1. \A i, j \in 1 .. n : stack[i] = stack[j] => i = j
    BY <1>1 DEF Walked, IsInjective
  <2>2. QED
    BY <1>3, <2>1 DEF IsInjective
<1>7. \A i \in 1 .. n - 1 : f[i] # dir /\ f[i] \in {Root} \cup N
  <2>1. \A i, j \in 1 .. n : stack[i] = stack[j] => i = j
    BY <1>1 DEF Walked, IsInjective
  <2>2. n \in 1 .. n /\ \A i \in 1 .. n : stack[i] \in {Root} \cup N
    BY <1>1 DEF Walked
  <2>3. QED
    BY <1>1, <1>3, <2>1, <2>2
<1>8. Root \notin Names
  BY ServerAssumption
<1>9. \A i \in DOMAIN f : f[i] \notin K
  BY <1>3, <1>5, <1>7, <1>8
<1>10. ASSUME NEW q, IsInjective(q),
              \A i \in DOMAIN q : q[i] \in K \/ \E j \in DOMAIN f : q[i] = f[j]
       PROVE  Walked(q, N \cup K)
  <2>1. \A i \in DOMAIN q : q[i] \in {Root} \cup (N \cup K)
    BY <1>3, <1>7, <1>10
  <2>2. ASSUME NEW m \in N
        PROVE  Parent[m] \in {Root} \cup N /\ \A i \in DOMAIN q : q[i] # Parent[m]
    <3>1. Parent[m] \in {Root} \cup N /\ \A i \in DOMAIN stack : stack[i] # Parent[m]
      BY DEF Walked
    <3>2. Parent[m] \notin K
      BY <1>5, <1>8, <3>1
    <3>3. \A j \in DOMAIN f : f[j] # Parent[m]
      <4>1. ASSUME NEW j \in 1 .. n - 1 PROVE f[j] # Parent[m]
        <5>1. j \in DOMAIN stack /\ f[j] = stack[j]
          BY <1>1, <1>3
        <5>2. QED
          BY <3>1, <5>1
      <4>2. QED
        BY <1>3, <4>1
    <3>4. QED
      BY <1>10, <3>1, <3>2, <3>3
  <2>3. ASSUME NEW m \in K
        PROVE  Parent[m] \in {Root} \cup N /\ \A i \in DOMAIN q : q[i] # Parent[m]
    <3>1. dir \notin K
      BY <1>4, <1>5, <1>8
    <3>2. Parent[m] = dir
      BY DEF dir
    <3>3. \A j \in DOMAIN f : f[j] # dir
      BY <1>3, <1>7
    <3>4. \A i \in DOMAIN q : q[i] # dir
      BY <1>10, <3>1, <3>3
    <3>5. QED
      BY <1>4, <3>2, <3>4
  <2>4. QED
    BY <1>10, <2>1, <2>2, <2>3 DEF Walked
<1>11. QED
  BY <1>2, <1>5, <1>6, <1>9, <1>10 DEF WalksOn

\* Two sequences have no element in common.
Apart(p, q) == \A i \in DOMAIN p : \A j \in DOMAIN q : p[i] # q[j]

\* r has the elements of both, each once.
Joins(r, p, q) ==
  /\ IsInjective(r)
  /\ \A k \in DOMAIN r : (\E i \in DOMAIN p : r[k] = p[i]) \/ (\E j \in DOMAIN q : r[k] = q[j])
  /\ \A i \in DOMAIN p : \E k \in DOMAIN r : r[k] = p[i]
  /\ \A j \in DOMAIN q : \E k \in DOMAIN r : r[k] = q[j]

\* One sequence behind the other, when they have no element in common.
LEMMA JoinedApart ==
  ASSUME NEW E, NEW p \in Seq(E), NEW q \in Seq(E), IsInjective(p), IsInjective(q), Apart(p, q)
  PROVE  p \o q \in Seq(E) /\ Joins(p \o q, p, q)
<1>1. PICK a \in Nat : a = Len(p) /\ DOMAIN p = 1 .. a
  OBVIOUS
<1>2. PICK c \in Nat : c = Len(q) /\ DOMAIN q = 1 .. c
  OBVIOUS
<1>3. PICK r : r = p \o q
  OBVIOUS
<1>4. /\ r \in Seq(E) /\ Len(r) = a + c
      /\ \A k \in 1 .. a + c : r[k] = IF k =< a THEN p[k] ELSE q[k - a]
  <2>1. /\ p \o q \in Seq(E) /\ Len(p \o q) = Len(p) + Len(q)
        /\ \A k \in 1 .. Len(p) + Len(q) : (p \o q)[k] = IF k =< Len(p) THEN p[k] ELSE q[k - Len(p)]
    BY ConcatProperties, Zenon
  <2>2. QED
    BY <1>1, <1>2, <1>3, <2>1, Zenon
<1>5. DOMAIN r = 1 .. a + c
  BY <1>4
<1>6. \A k \in 1 .. a + c : \/ k \in 1 .. a /\ r[k] = p[k]
                            \/ k \notin 1 .. a /\ k - a \in 1 .. c /\ r[k] = q[k - a]
  BY <1>4
<1>7. \A i \in 1 .. a : i \in 1 .. a + c /\ r[i] = p[i]
  BY <1>4
<1>8. \A j \in 1 .. c : a + j \in 1 .. a + c /\ r[a + j] = q[j]
  <2>1. ASSUME NEW j \in 1 .. c PROVE a + j \in 1 .. a + c /\ ~(a + j =< a) /\ (a + j) - a = j
    OBVIOUS
  <2>2. QED
    BY <1>4, <2>1
<1>9. ASSUME NEW k \in 1 .. a + c, NEW l \in 1 .. a + c, r[k] = r[l] PROVE k = l
  <2>1. CASE k \in 1 .. a
    <3>1. l \in 1 .. a
      BY <1>1, <1>2, <1>6, <1>9, <2>1 DEF Apart
    <3>2. QED
      BY <1>1, <1>7, <1>9, <2>1, <3>1 DEF IsInjective
  <2>2. CASE k \notin 1 .. a
    <3>1. l \notin 1 .. a
      BY <1>1, <1>2, <1>6, <1>9, <2>2 DEF Apart
    <3>2. k - a \in 1 .. c /\ l - a \in 1 .. c /\ q[k - a] = q[l - a]
      BY <1>6, <1>9, <2>2, <3>1
    <3>3. k - a = l - a
      BY <1>2, <3>2 DEF IsInjective
    <3>4. QED
      BY <3>3
  <2>3. QED
    BY <2>1, <2>2
<1>10. IsInjective(r)
  BY <1>5, <1>9 DEF IsInjective
<1>11. ASSUME NEW k \in DOMAIN r PROVE (\E i \in DOMAIN p : r[k] = p[i]) \/ (\E j \in DOMAIN q : r[k] = q[j])
  BY <1>1, <1>2, <1>5, <1>6
<1>12. \A i \in DOMAIN p : \E k \in DOMAIN r : r[k] = p[i]
  BY <1>1, <1>5, <1>7
<1>13. \A j \in DOMAIN q : \E k \in DOMAIN r : r[k] = q[j]
  BY <1>2, <1>5, <1>8
<1>14. r \in Seq(E)
  BY <1>4
<1>15. Joins(r, p, q)
  BY <1>10, <1>11, <1>12, <1>13 DEF Joins
<1>16. QED
  BY <1>3, <1>14, <1>15

-----------------------------------------------------------------------------
(* Reading the local files                                                 *)

\* What a step of the loop over the stack keeps: every name was found once.
DirectoriesRead(r) ==
  /\ r \in [stack : Seq(Names \cup {Root}), names : Seq({n \in Names \ Excluded : disk[n] # Absent})]
  /\ IsInjective(r.names) /\ Walked(r.stack, ToSet(r.names))

\* One directory more.
LEMMA DirectoryRead ==
  ASSUME NEW order \in Orders, NEW r, DirectoriesRead(r)
  PROVE  DirectoriesRead(read_directory(r, order, Excluded))
<1> DEFINE V   == {n \in Names \ Excluded : disk[n] # Absent}
           W   == Names \cup {Root}
           N   == ToSet(r.names)
           dir == Last(r.stack)
           in  == In_directory(dir, order)
           D   == {n \in Names : DiskType(n) = "dir"}
           H   == {n \in Names : Parent[n] = dir /\ disk[n] # Absent}
<1>1. CASE r.stack = << >>
  BY <1>1 DEF read_directory
<1>2. CASE r.stack # << >>
  <2>1. order \in Seq(Names) /\ IsInjective(order)
    BY CopyAssumption
  <2>2. in = OnlyIn(order, H)
    BY DEF In_directory
  <2>3. in \in Seq(Names \cap H) /\ IsInjective(in)
    <3> HIDE DEF in, H
    <3>1. OnlyIn(order, H) \in Seq(Names \cap H)
      BY <2>1, OnlyInDraws
    <3>2. IsInjective(OnlyIn(order, H))
      BY <2>1, OnlyInApart
    <3>3. QED
      BY <2>2, <3>1, <3>2
  <2>4. PICK kids : kids = OnlyIn(in, Names \ Excluded)
    OBVIOUS
  <2>5. kids \in Seq((Names \cap H) \cap (Names \ Excluded)) /\ IsInjective(kids)
    <3> HIDE DEF in, H
    <3>1. OnlyIn(in, Names \ Excluded) \in Seq((Names \cap H) \cap (Names \ Excluded))
      BY <2>3, OnlyInDraws, Zenon
    <3>2. IsInjective(OnlyIn(in, Names \ Excluded))
      BY <2>3, OnlyInApart, Zenon
    <3>3. QED
      BY <2>4, <3>1, <3>2
  <2>6. PICK push : push = OnlyIn(kids, D)
    OBVIOUS
  <2>7. push \in Seq(((Names \cap H) \cap (Names \ Excluded)) \cap D) /\ IsInjective(push)
        /\ \E g : Drawn(push, kids, Len(kids), g)
    <3> HIDE DEF H, D
    <3>1. /\ OnlyIn(kids, D) \in Seq(((Names \cap H) \cap (Names \ Excluded)) \cap D)
          /\ \E g : Drawn(OnlyIn(kids, D), kids, Len(kids), g)
      BY <2>5, OnlyInDraws, Zenon
    <3>2. IsInjective(OnlyIn(kids, D))
      BY <2>5, OnlyInApart, Zenon
    <3>3. QED
      BY <2>6, <3>1, <3>2
  <2>8. \A i \in DOMAIN push : \E j \in DOMAIN kids : push[i] = kids[j]
    BY <2>5, <2>7 DEF Drawn
  <2>9. PICK K : K = ToSet(kids)
    OBVIOUS
  <2>10. K \in SUBSET Names /\ (\A n \in K : Parent[n] = dir) /\ kids \in Seq(V) /\ push \in Seq(W)
    BY <2>5, <2>7, <2>9 DEF ToSet
  <2>11. r.stack \in Seq(W) /\ r.names \in Seq(V) /\ IsInjective(r.names) /\ Walked(r.stack, N)
    BY DEF DirectoriesRead
  <2>12. N \in SUBSET Names
    BY <2>11 DEF ToSet
  <2>13. PICK f : f = Front(r.stack)
    OBVIOUS
  <2>14. /\ \A n \in K : n \notin N
         /\ IsInjective(f) /\ \A i \in DOMAIN f : f[i] \notin K
         /\ \A q : /\ IsInjective(q)
                   /\ \A i \in DOMAIN q : q[i] \in K \/ \E j \in DOMAIN f : q[i] = f[j]
                   => Walked(q, N \cup K)
    <3> HIDE DEF N, dir
    <3>1. \A n \in K : Parent[n] = Last(r.stack)
      BY <2>10 DEF dir
    <3>2. PICK stack : stack = r.stack
      OBVIOUS
    <3>3. /\ stack \in Seq(Names \cup {Root}) /\ stack # << >> /\ Walked(stack, N)
          /\ \A n \in K : Parent[n] = Last(stack)
      BY <1>2, <2>11, <3>1, <3>2 DEF W
    <3>4. N \in SUBSET Names /\ K \in SUBSET Names
      BY <2>10, <2>12
    <3>5. WalksOn(Front(stack), N, K)
      BY <3>3, <3>4, WalkOn
    <3>6. QED
      BY <2>13, <3>2, <3>5 DEF WalksOn
  <2>15. f \in Seq(W)
    BY <1>2, <2>11, <2>13, FrontShape
  <2> HIDE DEF V, W, N, dir, in, D, H
  <2>16. \A i \in DOMAIN push : push[i] \in K
    BY <2>8, <2>9 DEF ToSet
  <2>17. PICK s : s = f \o push
    OBVIOUS
  <2>18. /\ s \in Seq(W) /\ IsInjective(s)
         /\ \A k \in DOMAIN s : (\E i \in DOMAIN f : s[k] = f[i]) \/ (\E j \in DOMAIN push : s[k] = push[j])
    <3>1. Apart(f, push)
      BY <2>14, <2>16 DEF Apart
    <3>2. f \o push \in Seq(W) /\ Joins(f \o push, f, push)
      BY <2>7, <2>10, <2>14, <2>15, <3>1, JoinedApart
    <3>3. QED
      BY <2>17, <3>2 DEF Joins
  <2>19. Walked(s, N \cup K)
    BY <2>14, <2>16, <2>18
  <2>20. PICK m : m = r.names \o kids
    OBVIOUS
  <2>21. /\ m \in Seq(V) /\ IsInjective(m)
         /\ \A k \in DOMAIN m : (\E i \in DOMAIN r.names : m[k] = r.names[i]) \/ (\E j \in DOMAIN kids : m[k] = kids[j])
         /\ \A i \in DOMAIN r.names : \E k \in DOMAIN m : m[k] = r.names[i]
         /\ \A j \in DOMAIN kids : \E k \in DOMAIN m : m[k] = kids[j]
    <3>1. PICK p : p = r.names
      OBVIOUS
    <3>2. Apart(p, kids)
      BY <2>9, <2>14, <3>1 DEF ToSet, N, Apart
    <3>3. p \in Seq(V) /\ IsInjective(p) /\ kids \in Seq(V) /\ IsInjective(kids)
      BY <2>5, <2>10, <2>11, <3>1
    <3>4. p \o kids \in Seq(V) /\ Joins(p \o kids, p, kids)
      BY <3>2, <3>3, JoinedApart
    <3>5. QED
      BY <2>20, <3>1, <3>4 DEF Joins
  <2>22. ToSet(m) = N \cup K
    BY <2>9, <2>21 DEF ToSet, N
  <2>23. read_directory(r, order, Excluded) = [stack |-> s, names |-> m]
    BY <1>2, <2>4, <2>6, <2>13, <2>17, <2>20 DEF read_directory, dir, in, D
  <2>24. PICK t : t = [stack |-> s, names |-> m]
    OBVIOUS
  <2>25. t.stack = s /\ t.names = m /\ t \in [stack : Seq(W), names : Seq(V)]
    BY <2>18, <2>21, <2>24
  <2>26. DirectoriesRead(t)
    BY <2>19, <2>21, <2>22, <2>25 DEF DirectoriesRead, V, W
  <2>27. QED
    BY <2>23, <2>24, <2>26
<1>3. QED
  BY <1>1, <1>2

\* t goes through the turns of the loop over the stack.
ReadsDirectories(t, n, order) ==
  t = [k \in 0 .. n |-> IF k = 0 THEN [stack |-> <<Root>>, names |-> << >>]
                        ELSE read_directory(t[k - 1], order, Excluded)]

\* The scan finds every name once, and only what is there and is not excluded.
LEMMA ScanFinds ==
  ASSUME NEW order \in Orders
  PROVE  /\ scan(order) \in Seq({n \in Names \ Excluded : disk[n] # Absent})
         /\ IsInjective(scan(order))
<1> DEFINE n == Len(order) + 1
           b == [stack |-> <<Root>>, names |-> << >>]
           X == {r \in [stack : Seq(Names \cup {Root}), names : Seq({m \in Names \ Excluded : disk[m] # Absent})] :
                   DirectoriesRead(r)}
           G == [p \in X \X (1 .. n) |-> read_directory(p[1], order, Excluded)]
           t == CHOOSE t : ReadsDirectories(t, n, order)
<1>1. n \in Nat
  BY CopyAssumption
<1>2. \A r \in X : read_directory(r, order, Excluded) \in X
  BY DirectoryRead DEF DirectoriesRead
<1>3. DirectoriesRead(b) /\ b \in X
  <2>1. b.stack = <<Root>> /\ b.names = << >>
    OBVIOUS
  <2>2. b \in [stack : Seq(Names \cup {Root}), names : Seq({m \in Names \ Excluded : disk[m] # Absent})]
    OBVIOUS
  <2>3. Walked(<<Root>>, ToSet(<< >>)) /\ IsInjective(<< >>)
    BY DEF Walked, ToSet, IsInjective
  <2>4. DirectoriesRead(b)
    BY <2>1, <2>2, <2>3 DEF DirectoriesRead
  <2>5. QED
    BY <2>2, <2>4
<1>4. PICK g : g = G
  OBVIOUS
<1>5. g \in [X \X (1 .. n) -> X] /\ \A r \in X : \A k \in 1 .. n : g[<<r, k>>] = read_directory(r, order, Excluded)
  BY <1>2, <1>4
<1> HIDE DEF G, X, b
<1>6. PICK e \in [0 .. n -> X] : AfterTurns(n, b, g, e)
  <2> HIDE DEF n
  <2> QED BY <1>1, <1>3, <1>5, TurnsExist
<1>7. e[0] = b /\ \A k \in 1 .. n : e[k - 1] \in X /\ e[k] = read_directory(e[k - 1], order, Excluded)
  <2> HIDE DEF n
  <2>1. \A k \in 1 .. n : k - 1 \in 0 .. n
    BY <1>1
  <2>2. \A k \in 1 .. n : e[k - 1] \in X
    BY <1>6, <2>1
  <2>3. e[0] = b /\ \A k \in 1 .. n : e[k] = g[<<e[k - 1], k>>]
    BY <1>6 DEF AfterTurns
  <2>4. QED
    BY <1>5, <2>2, <2>3
<1>8. ReadsDirectories(e, n, order)
  <2> HIDE DEF n
  <2>1. \A k \in 0 .. n : k = 0 \/ k \in 1 .. n
    BY <1>1
  <2>2. \A k \in 0 .. n : e[k] = IF k = 0 THEN b ELSE read_directory(e[k - 1], order, Excluded)
    BY <1>1, <1>7, <2>1
  <2>3. e = [k \in 0 .. n |-> IF k = 0 THEN b ELSE read_directory(e[k - 1], order, Excluded)]
    BY <1>6, <2>2
  <2>4. QED
    BY <2>3 DEF ReadsDirectories, b
<1>9. ReadsDirectories(t, n, order)
  BY <1>8
<1>10. read_directories(order, Excluded) = t[n]
  BY DEF read_directories, ReadsDirectories
<1>11. PICK u : u = t
  OBVIOUS
<1> HIDE DEF t
<1>12. u[0] = b /\ \A k \in 1 .. n : u[k] = read_directory(u[k - 1], order, Excluded)
  <2> HIDE DEF n
  <2>1. \A k \in 1 .. n : k \in 0 .. n /\ k # 0
    BY <1>1
  <2>2. 0 \in 0 .. n
    BY <1>1
  <2>3. QED
    BY <1>9, <1>11, <2>1, <2>2 DEF ReadsDirectories, b
<1> DEFINE Y == {k \in 0 .. n : u[k] \in X}
<1>13. 0 \in Y
  BY <1>1, <1>3, <1>12
<1>14. ASSUME NEW k \in 1 .. n, k - 1 \in Y PROVE k \in Y
  <2>1. u[k - 1] \in X
    BY <1>14
  <2>2. read_directory(u[k - 1], order, Excluded) \in X
    BY <1>2, <2>1 DEF X
  <2>3. k \in 0 .. n
    BY <1>1
  <2>4. QED
    BY <1>12, <2>2, <2>3
<1> HIDE DEF Y, n
<1>15. n \in Y
  BY <1>1, <1>13, <1>14, CountUp
<1>16. u[n] \in X
  BY <1>15 DEF Y
<1>17. DirectoriesRead(u[n])
  BY <1>16 DEF X
<1>18. scan(order) = u[n].names
  BY <1>10, <1>11 DEF scan
<1>19. QED
  BY <1>17, <1>18 DEF DirectoriesRead

-----------------------------------------------------------------------------
(* What a list may hold                                                    *)

\* A file system keeps any time that it is given.
EveryTime == Times = Nat

\* The contents of files other than a broken download.
Whole == Bytes \ {Part}

\* What the state of a file that holds one of B has for its content.
Held(o, B) ==
  IF o.checksum THEN B \cup {NoSum} ELSE {<<t, ByteSize[b]>> : t \in Times, b \in B}

\* The states that a list may hold: nothing that is excluded, and in the stored
\* state nothing of a broken download.
Good(o) ==
  {s \in Sides \X {"file", "dir"} \X FileState :
     /\ s[3].filename \notin Excluded
     /\ s[2] = "file" => s[3].content \in Held(o, IF s[1] = "stored" THEN Whole ELSE Bytes)}

\* An exact list of such states.
ListGood(s) == Exact(s) /\ StatesAmong(s.files, Good(s.opt))

\* How a state is one of them.
LEMMA GoodState ==
  ASSUME NEW o, NEW x \in Sides, NEW type \in {"file", "dir"}, NEW state \in FileState
  PROVE  <<x, type, state>> \in Good(o)
           <=> /\ state.filename \notin Excluded
               /\ type = "file" => state.content \in Held(o, IF x = "stored" THEN Whole ELSE Bytes)
<1>1. PICK s : s = <<x, type, state>>
  OBVIOUS
<1>2. s \in Sides \X {"file", "dir"} \X FileState /\ s[1] = x /\ s[2] = type /\ s[3] = state
  BY <1>1
<1>3. QED
  BY <1>1, <1>2 DEF Good

\* What a good state is.
LEMMA GoodHas ==
  ASSUME NEW o, NEW x, NEW type, NEW state, <<x, type, state>> \in Good(o)
  PROVE  /\ x \in Sides /\ type \in {"file", "dir"} /\ state \in FileState
         /\ state.filename \notin Excluded
         /\ type = "file" => state.content \in Held(o, IF x = "stored" THEN Whole ELSE Bytes)
<1>1. PICK s : s = <<x, type, state>>
  OBVIOUS
<1>2. s \in Sides \X {"file", "dir"} \X FileState
  BY <1>1 DEF Good
<1>3. s[1] = x /\ s[2] = type /\ s[3] = state
  BY <1>1
<1>4. x \in Sides /\ type \in {"file", "dir"} /\ state \in FileState
  BY <1>2, <1>3
<1>5. QED
  BY <1>4, GoodState

\* A good stored state is a good local state too.
LEMMA GoodOnBothSides ==
  ASSUME NEW o, NEW type, NEW state, <<"stored", type, state>> \in Good(o)
  PROVE  <<"local", type, state>> \in Good(o)
<1>1. /\ type \in {"file", "dir"} /\ state \in FileState /\ state.filename \notin Excluded
      /\ type = "file" => state.content \in Held(o, Whole)
  BY GoodHas
<1>2. Held(o, Whole) \subseteq Held(o, Bytes)
  BY DEF Held, Whole
<1>3. QED
  BY <1>1, <1>2, GoodState DEF Sides

\* What is on the disk has its type.
LEMMA DiskFileAt ==
  ASSUME disk \in Disk, NEW n \in Names, disk[n] # Absent
  PROVE  /\ disk[n] \in DiskFile /\ disk[n].type \in {"file", "dir"}
         /\ disk[n].mode \in Modes /\ disk[n].time \in Times
         /\ disk[n].type = "file" => disk[n].bytes \in Bytes
<1>1. disk[n] \in DiskFile
  BY DEF Disk
<1>2. QED
  BY <1>1 DEF DiskFile

\* The state of a local file.
LEMMA LocalStateGood ==
  ASSUME disk \in Disk, NEW n \in Names \ Excluded, disk[n] # Absent
  PROVE  /\ disk[n].type \in {"file", "dir"} /\ local_state(n) \in FileState
         /\ local_state(n).filename = n
         /\ disk[n].type = "file" => local_state(n).content \in Held(opt, Bytes)
         /\ <<"local", disk[n].type, local_state(n)>> \in Good(opt)
<1>1. PICK d : d = disk[n]
  OBVIOUS
<1>2. /\ d.type \in {"file", "dir"} /\ d.mode \in Modes /\ d.time \in Times
      /\ d.type = "file" => d.bytes \in Bytes
  BY <1>1, DiskFileAt
<1>3. PICK c : c = CASE d.type = "dir" -> NoData
                     [] d.type = "file" /\ timesize -> <<d.time, ByteSize[d.bytes]>>
                     [] OTHER -> d.bytes
  OBVIOUS
<1>4. local_state(n) = [filename |-> n, mode |-> d.mode, content |-> c]
  BY <1>1, <1>3 DEF local_state
<1>5. d.type = "dir" => c = NoData
  BY <1>3
<1>6. d.type = "file" => c = IF timesize THEN <<d.time, ByteSize[d.bytes]>> ELSE d.bytes
  BY <1>3
<1>7. d.type = "file" => c \in Held(opt, Bytes)
  BY <1>2, <1>6 DEF Held, timesize
<1>8. c \in Contents
  BY <1>2, <1>5, <1>6, CopyAssumption, ConstantsAssumption
<1>9. PICK s : s = [filename |-> n, mode |-> d.mode, content |-> c]
  OBVIOUS
<1>10. s \in FileState /\ s.filename = n /\ s.content = c
  BY <1>2, <1>8, <1>9 DEF FileState
<1>11. <<"local", d.type, s>> \in Good(opt)
  BY <1>2, <1>7, <1>10, GoodState DEF Sides
<1>12. QED
  BY <1>1, <1>2, <1>4, <1>7, <1>9, <1>10, <1>11

-----------------------------------------------------------------------------
(* The lists that verify_sites reads                                       *)

\* The first k names have been read: each is the name of one entry.
ReadSoFar(q, k, fs) ==
  /\ Keyed(fs)
  /\ \A x \in Sides : \A t, m : HasKey(fs, x, t, m) => \E j \in 1 .. k : q[j] = m

\* The list of the local files is exact and has their states, each file once.
LEMMA LocalReadStates ==
  ASSUME opt \in Options, disk \in Disk, NEW order \in Orders, NEW Q,
         \A n \in Names \ Excluded : disk[n] # Absent => <<"local", disk[n].type, local_state(n)>> \in Q
  PROVE  LET r == site_read_local_state(EmptySite(opt), order)
         IN  /\ Exact(r) /\ r.opt = opt /\ StatesAmong(r.files, Q)
             /\ ~opt.checkmoved => Keyed(r.files)
<1> DEFINE V == {n \in Names \ Excluded : disk[n] # Absent}
           X == {s \in Site : Exact(s) /\ s.opt = opt /\ StatesAmong(s.files, Q)}
<1>1. PICK q : q = scan(order)
  OBVIOUS
<1>2. q \in Seq(V) /\ IsInjective(q)
  BY <1>1, ScanFinds
<1>3. PICK b : b = EmptySite(opt)
  OBVIOUS
<1>4. Exact(b) /\ b.opt = opt /\ b.files = << >>
  BY <1>3, EmptySiteExact DEF EmptySite
<1>5. b \in X
  BY <1>4 DEF StatesAmong, Exact, SiteOK
<1>6. PICK n \in Nat : n = Len(q) /\ DOMAIN q = 1 .. n
  BY <1>2
<1>7. \A k \in 1 .. n : q[k] \in V
  BY <1>2, <1>6
<1>8. \A k \in 1 .. n : /\ disk[q[k]].type \in FileTypes /\ local_state(q[k]) \in FileState
                        /\ local_state(q[k]).filename = q[k]
                        /\ <<"local", disk[q[k]].type, local_state(q[k])>> \in Q
  BY <1>7, LocalStateGood DEF FileTypes
<1>9. ASSUME NEW s \in X, NEW k \in 1 .. n
      PROVE  file_set_local(s, disk[q[k]].type, local_state(q[k])) \in X
  <2>1. Exact(s) /\ s \in Site /\ s.opt = opt /\ StatesAmong(s.files, Q)
    OBVIOUS
  <2>2. PICK t : t = file_set(s, "local", disk[q[k]].type, local_state(q[k]))
    OBVIOUS
  <2>3. "local" \in Sides
    BY DEF Sides
  <2>4. Exact(t)
    BY <1>8, <2>1, <2>2, <2>3, FileSetExact
  <2>5. t.opt = opt
    BY <1>8, <2>1, <2>2, <2>3, FileSetOpt
  <2>6. StatesAmong(t.files, Q)
    BY <1>8, <2>1, <2>2, <2>3, FileSetStatesIn
  <2>7. t \in X
    BY <2>4, <2>5, <2>6 DEF Exact, SiteOK
  <2>8. QED
    BY <2>2, <2>7 DEF file_set_local
<1> HIDE DEF V
<1>10. \E e : LocalReadTurns(X, b, q, e)
  <2> HIDE DEF X
  <2> QED BY <1>2, <1>5, <1>6, <1>9, LocalReadTrace
<1>11. PICK e : LocalReadTurns(X, b, q, e)
  BY <1>10
<1>12. /\ e \in [0 .. n -> X] /\ e[0] = b /\ e[n] = LocalRead(b, q)
       /\ \A k \in 1 .. n : e[k] = file_set_local(e[k - 1], disk[q[k]].type, local_state(q[k]))
  BY <1>6, <1>11 DEF LocalReadTurns
<1>13. site_read_local_state(EmptySite(opt), order) = e[n]
  <2>1. site_read_local_state(b, order) = LocalRead(b, scan(order))
    BY Zenon DEF site_read_local_state, LocalRead
  <2>2. QED
    BY <1>1, <1>3, <1>12, <2>1
<1>14. \A k \in 0 .. n : Exact(e[k]) /\ e[k].opt = opt /\ StatesAmong(e[k].files, Q)
  BY <1>12
<1> HIDE DEF X
<1> DEFINE Y == {k \in 0 .. n : ReadSoFar(q, k, e[k].files)}
<1>15. ASSUME ~opt.checkmoved PROVE n \in Y
  <2>1. 0 \in Y
    <3>1. ReadSoFar(q, 0, e[0].files)
      BY <1>4, <1>12 DEF ReadSoFar, Keyed, HasKey
    <3>2. QED
      BY <3>1
  <2>2. ASSUME NEW k \in 1 .. n, k - 1 \in Y PROVE k \in Y
    <3>1. PICK s : s = e[k - 1]
      OBVIOUS
    <3>2. k - 1 \in 0 .. n /\ k \in 0 .. n
      BY <1>6
    <3>3. Exact(s) /\ s.opt = opt /\ ReadSoFar(q, k - 1, s.files)
      BY <1>14, <2>2, <3>1, <3>2
    <3>4. PICK state : state = local_state(q[k])
      OBVIOUS
    <3>5. PICK type : type = disk[q[k]].type
      OBVIOUS
    <3>6. type \in FileTypes /\ state \in FileState /\ state.filename = q[k] /\ "local" \in Sides
      BY <1>8, <3>4, <3>5 DEF Sides
    <3>7. \A j \in 1 .. (k - 1) : j \in 1 .. n /\ j # k
      BY <1>6
    <3>8. \A j \in 1 .. (k - 1) : q[j] # q[k]
      BY <1>2, <1>6, <3>7 DEF IsInjective
    <3>9. ~HasKey(s.files, "local", type, state.filename)
      BY <3>3, <3>6, <3>8 DEF ReadSoFar
    <3>10. PICK r : r = file_set(s, "local", type, state)
      OBVIOUS
    <3>11. KeyAdded(r.files, s.files, "local", type, state.filename)
      <4>1. SiteOK(s) /\ ~s.opt.checkmoved /\ Keyed(s.files)
        BY <1>15, <3>3 DEF Exact, ReadSoFar
      <4>2. QED
        BY <3>6, <3>9, <3>10, <4>1, FileSetKeyed
    <3>12. \A j \in 1 .. (k - 1) : j \in 1 .. k
      BY <1>6
    <3>13. k \in 1 .. k
      BY <1>6
    <3>14. ReadSoFar(q, k, r.files)
      <4>1. Keyed(r.files)
        BY <3>11 DEF KeyAdded
      <4>2. ASSUME NEW x \in Sides, NEW t, NEW m, HasKey(r.files, x, t, m)
            PROVE  \E j \in 1 .. k : q[j] = m
        <5>1. HasKey(s.files, x, t, m) \/ m = q[k]
          BY <3>6, <3>11, <4>2 DEF KeyAdded
        <5>2. CASE m = q[k]
          BY <3>13, <5>2
        <5>3. CASE HasKey(s.files, x, t, m)
          BY <3>3, <3>12, <5>3 DEF ReadSoFar
        <5>4. QED
          BY <5>1, <5>2, <5>3
      <4>3. QED
        BY <4>1, <4>2 DEF ReadSoFar
    <3>15. e[k] = r
      BY <1>12, <3>1, <3>4, <3>5, <3>10 DEF file_set_local
    <3>16. QED
      BY <3>2, <3>14, <3>15
  <2> HIDE DEF Y
  <2>3. QED
    BY <1>6, <2>1, <2>2, CountUp
<1>16. ~opt.checkmoved => Keyed(e[n].files)
  BY <1>15 DEF ReadSoFar
<1>17. n \in 0 .. n
  BY <1>6
<1>18. QED
  BY <1>13, <1>14, <1>16, <1>17

-----------------------------------------------------------------------------
(* The stored state is replaced                                            *)

\* After k turns of the loop of site_destroy_stored over the list of s.
Stripped(s, Q, k, t) ==
  /\ Exact(t) /\ t.opt = s.opt /\ StatesAmong(t.files, Q)
  /\ Len(t.files) \in Nat /\ Len(t.files) >= Len(s.files) - k
  /\ \A j \in DOMAIN t.files : j > Len(s.files) - k => Stored(t.files[j]) = Absent
  /\ Keyed(s.files) => Keyed(t.files)

\* One turn.
LEMMA StrippedOnce ==
  ASSUME NEW s, NEW Q, NEW n \in Nat, n = Len(s.files), NEW k \in 1 .. n,
         NEW t, Stripped(s, Q, k - 1, t)
  PROVE  n + 1 - k \in DOMAIN t.files /\ Stripped(s, Q, k, destroy_stored_entry(t, n + 1 - k))
<1>1. PICK i \in Nat : i = n + 1 - k /\ i >= 1
  <2>1. n + 1 - k \in Nat /\ n + 1 - k >= 1
    OBVIOUS
  <2>2. QED
    BY <2>1
<1>2. Exact(t) /\ t.opt = s.opt /\ StatesAmong(t.files, Q) /\ t \in Site /\ t.files \in Seq(Entry)
  BY DEF Stripped, Exact, SiteOK, Site
<1>3. PICK c \in Nat : c = Len(t.files) /\ DOMAIN t.files = 1 .. c
  BY <1>2
<1>4. c >= i /\ \A j \in 1 .. c : j > i => Stored(t.files[j]) = Absent
  <2>1. n - (k - 1) = i
    BY <1>1
  <2>2. QED
    BY <1>3, <2>1 DEF Stripped
<1>5. i \in DOMAIN t.files
  BY <1>1, <1>3, <1>4
<1>6. n - k = i - 1
  BY <1>1
<1>7. PICK r : r = destroy_stored_entry(t, i)
  OBVIOUS
<1>8. Exact(r)
  BY <1>2, <1>5, <1>7, DestroyStoredExact
<1>9. CASE Local(t.files[i]) = Absent
  <2>1. r = file_delete(t, i)
    BY <1>7, <1>9 DEF destroy_stored_entry
  <2>2. r.files = Removed(t.files, i) /\ r.opt = s.opt
    BY <1>2, <1>5, <2>1, DeleteFiles
  <2>3. StatesAmong(r.files, Q)
    BY <1>2, <1>5, <2>2, ListStatesIn
  <2>4. /\ Len(r.files) = c - 1 /\ r.files \in Seq(Entry)
        /\ \A j \in 1 .. c - 1 : r.files[j] = IF j < i THEN t.files[j] ELSE t.files[j + 1]
    <3>1. i \in 1 .. Len(t.files)
      BY <1>3, <1>5
    <3>2. /\ Removed(t.files, i) \in Seq(Entry)
          /\ Len(Removed(t.files, i)) = Len(t.files) - 1
          /\ \A j \in 1 .. Len(t.files) - 1 :
                Removed(t.files, i)[j] = IF j < i THEN t.files[j] ELSE t.files[j + 1]
      BY <1>2, <3>1, RemoveShape, Zenon
    <3>3. QED
      BY <1>3, <2>2, <3>2, Zenon
  <2>5. DOMAIN r.files = 1 .. c - 1
    BY <2>4
  <2>6. Len(r.files) \in Nat /\ Len(r.files) >= i - 1
    BY <1>1, <1>3, <1>4, <2>4
  <2>7. ASSUME NEW j \in 1 .. c - 1, j > i - 1 PROVE Stored(r.files[j]) = Absent
    <3>1. \A a, b \in Nat : \A l \in 1 .. b - 1 : l > a - 1 => ~(l < a) /\ l + 1 \in 1 .. b /\ l + 1 > a
      OBVIOUS
    <3>2. ~(j < i) /\ j + 1 \in 1 .. c /\ j + 1 > i
      BY <2>7, <3>1
    <3>3. QED
      BY <1>4, <2>4, <3>2
  <2>8. Keyed(s.files) => Keyed(r.files)
    BY <1>2, <1>3, <1>5, <2>2, KeyedRemoved DEF Stripped
  <2>9. Stripped(s, Q, k, r)
    BY <1>6, <1>8, <2>2, <2>3, <2>5, <2>6, <2>7, <2>8 DEF Stripped
  <2>10. QED
    BY <1>1, <1>5, <1>7, <2>9
<1>10. CASE Local(t.files[i]) # Absent
  <2>1. PICK st : st = [t.files[i].st EXCEPT !["stored"] = Absent]
    OBVIOUS
  <2>2. r = set_states(t, i, st)
    BY <1>7, <1>10, <2>1 DEF destroy_stored_entry
  <2>3. t.files[i].st \in [Sides -> FileState \cup {Absent}]
    BY <1>2, <1>5, EntryStates DEF Exact
  <2>4. /\ st \in [Sides -> FileState \cup {Absent}]
        /\ st["local"] = Local(t.files[i]) /\ st["stored"] = Absent
    BY <2>1, <2>3 DEF Sides, Local
  <2>5. /\ r.files = [t.files EXCEPT ![i] = r.files[i]] /\ r.files[i].st = st /\ r.opt = s.opt
    BY <1>2, <1>5, <2>2, SetStatesFiles
  <2>6. DOMAIN r.files = 1 .. c /\ Len(r.files) = c /\ \A j \in 1 .. c : j # i => r.files[j] = t.files[j]
    BY <1>2, <1>3, <1>5, <2>5
  <2>7. \A x \in Sides : st[x] # Absent => x = "local" /\ st[x] = t.files[i].st["local"] /\ t.files[i].st["local"] # Absent
    BY <1>10, <2>4 DEF Sides, Local
  <2>8. StatesAmong(r.files, Q)
    <3>1. \A x \in Sides : st[x] # Absent => <<x, t.files[i].type, st[x]>> \in Q
      BY <1>2, <1>5, <2>7 DEF StatesAmong
    <3>2. SiteOK(t)
      BY <1>2 DEF Exact
    <3>3. QED
      BY <1>2, <1>5, <2>2, <2>4, <3>1, <3>2, SetStatesIn
  <2>9. ASSUME NEW j \in 1 .. c, j > i - 1 PROVE Stored(r.files[j]) = Absent
    <3>1. CASE j = i
      BY <2>4, <2>5, <3>1 DEF Stored
    <3>2. CASE j # i
      <4>1. \A a, b \in Nat : \A l \in 1 .. b : l > a - 1 /\ l # a => l > a
        OBVIOUS
      <4>2. j > i
        BY <2>9, <3>2, <4>1
      <4>3. QED
        BY <1>4, <2>6, <3>2, <4>2
    <3>3. QED
      BY <3>1, <3>2
  <2>10. Keyed(s.files) => Keyed(r.files)
    <3>1. ASSUME NEW x \in Sides, st[x] # Absent
          PROVE  \E y \in Sides : t.files[i].st[y] # Absent /\ t.files[i].st[y].filename = st[x].filename
      BY <2>7, <3>1
    <3>2. ASSUME Keyed(t.files) PROVE Keyed(set_states(t, i, st).files)
      BY <1>2, <1>5, <2>4, <3>1, <3>2, SetStatesKeyed
    <3>3. QED
      BY <2>2, <3>2 DEF Stripped
  <2>11. Len(r.files) \in Nat /\ Len(r.files) >= i - 1
    BY <1>1, <1>3, <1>4, <2>6
  <2>12. Stripped(s, Q, k, r)
    BY <1>6, <1>8, <2>5, <2>6, <2>8, <2>9, <2>10, <2>11 DEF Stripped
  <2>13. QED
    BY <1>1, <1>5, <1>7, <2>12
<1>11. QED
  BY <1>9, <1>10

\* t goes through the turns of the loop of site_destroy_stored.
Destroys(t, s, n) ==
  t = [k \in 0 .. n |-> IF k = 0 THEN s ELSE destroy_stored_entry(t[k - 1], n + 1 - k)]

\* The entries that are left have no stored state.
LEMMA StoredDestroyed ==
  ASSUME NEW s, Exact(s), NEW Q, StatesAmong(s.files, Q)
  PROVE  LET r == site_destroy_stored(s)
         IN  /\ Exact(r) /\ r.opt = s.opt /\ StatesAmong(r.files, Q)
             /\ \A j \in DOMAIN r.files : Stored(r.files[j]) = Absent
             /\ Keyed(s.files) => Keyed(r.files)
<1>1. s.files \in Seq(Entry)
  BY DEF Exact, SiteOK, Site
<1>2. PICK n \in Nat : n = Len(s.files) /\ DOMAIN s.files = 1 .. n
  BY <1>1
<1> DEFINE Turn(x, k) == IF n + 1 - k \in DOMAIN x.files THEN destroy_stored_entry(x, n + 1 - k) ELSE x
           X == {x \in Site : Exact(x)}
           G == [p \in X \X (1 .. n) |-> Turn(p[1], p[2])]
           t == CHOOSE t : Destroys(t, s, n)
<1>3. s \in X
  BY DEF Exact, SiteOK
<1>4. \A x \in X : \A k \in 1 .. n : Turn(x, k) \in X
  <2>1. SUFFICES ASSUME NEW x \in X, NEW k \in 1 .. n PROVE Turn(x, k) \in X
    OBVIOUS
  <2>2. n + 1 - k \in DOMAIN x.files => Exact(destroy_stored_entry(x, n + 1 - k))
    BY DestroyStoredExact
  <2>3. QED
    BY <2>2 DEF Exact, SiteOK
<1>5. PICK g : g = G
  OBVIOUS
<1>6. g \in [X \X (1 .. n) -> X] /\ \A x \in X : \A k \in 1 .. n : g[<<x, k>>] = Turn(x, k)
  <2> HIDE DEF X, Turn
  <2> QED BY <1>4, <1>5
<1> HIDE DEF G, X
<1>7. PICK e \in [0 .. n -> X] : AfterTurns(n, s, g, e)
  BY <1>2, <1>3, <1>6, TurnsExist
<1>8. e[0] = s /\ \A k \in 1 .. n : e[k] = Turn(e[k - 1], k)
  <2>1. \A k \in 1 .. n : k - 1 \in 0 .. n
    BY <1>2
  <2>2. \A k \in 1 .. n : e[k - 1] \in X
    BY <1>7, <2>1
  <2> HIDE DEF Turn
  <2>3. QED
    BY <1>6, <1>7, <2>2 DEF AfterTurns
<1>9. Stripped(s, Q, 0, s)
  <2>1. Len(s.files) \in Nat /\ Len(s.files) >= Len(s.files) - 0
        /\ \A j \in DOMAIN s.files : ~(j > Len(s.files) - 0)
    BY <1>2
  <2>2. QED
    BY <2>1 DEF Stripped
<1>10. \A k \in 1 .. n : \A x : Stripped(s, Q, k - 1, x) =>
         n + 1 - k \in DOMAIN x.files /\ Stripped(s, Q, k, destroy_stored_entry(x, n + 1 - k))
  BY <1>2, StrippedOnce
<1> DEFINE Y == {k \in 0 .. n : Stripped(s, Q, k, e[k])}
<1>11. 0 \in Y
  BY <1>2, <1>8, <1>9
<1>12. \A k \in 1 .. n : k - 1 \in Y => k \in Y
  <2>1. SUFFICES ASSUME NEW k \in 1 .. n, k - 1 \in Y PROVE k \in Y
    OBVIOUS
  <2>2. Stripped(s, Q, k - 1, e[k - 1])
    BY <2>1
  <2>3. Stripped(s, Q, k, e[k])
    BY <1>8, <1>10, <2>2
  <2>4. k \in 0 .. n
    BY <1>2
  <2>5. QED
    BY <2>3, <2>4
<1> HIDE DEF Y
<1>13. \A k \in 0 .. n : Stripped(s, Q, k, e[k])
  <2>1. ASSUME NEW k \in 0 .. n PROVE k \in Y
    <3>1. PICK m \in Nat : m = k /\ m =< n
      BY <1>2
    <3>2. \A l \in 1 .. m : l - 1 \in Y => l \in Y
      BY <1>2, <1>12, <3>1
    <3>3. QED
      BY <1>11, <3>1, <3>2, CountUp
  <2>2. QED
    BY <2>1 DEF Y
<1>14. \A k \in 1 .. n : e[k] = destroy_stored_entry(e[k - 1], n + 1 - k)
  <2>1. \A k \in 1 .. n : k - 1 \in 0 .. n
    BY <1>2
  <2>2. \A k \in 1 .. n : n + 1 - k \in DOMAIN e[k - 1].files
    BY <1>10, <1>13, <2>1
  <2>3. QED
    BY <1>8, <2>2
<1> HIDE DEF Turn
<1>15. Destroys(e, s, n)
  <2>1. \A k \in 0 .. n : k = 0 \/ k \in 1 .. n
    BY <1>2
  <2>2. \A k \in 0 .. n : e[k] = IF k = 0 THEN s ELSE destroy_stored_entry(e[k - 1], n + 1 - k)
    BY <1>2, <1>8, <1>14, <2>1
  <2>3. e = [k \in 0 .. n |-> IF k = 0 THEN s ELSE destroy_stored_entry(e[k - 1], n + 1 - k)]
    BY <1>7, <2>2
  <2>4. QED
    BY <2>3 DEF Destroys
<1>16. Destroys(t, s, n)
  BY <1>15
<1>17. site_destroy_stored(s) = t[n]
  BY <1>2 DEF site_destroy_stored, Destroys
<1>18. PICK u : u = t
  OBVIOUS
<1> HIDE DEF t
<1>19. u[0] = s /\ \A k \in 1 .. n : u[k] = destroy_stored_entry(u[k - 1], n + 1 - k)
  <2>1. \A k \in 1 .. n : k \in 0 .. n /\ k # 0
    BY <1>2
  <2>2. 0 \in 0 .. n
    BY <1>2
  <2>3. QED
    BY <1>16, <1>18, <2>1, <2>2 DEF Destroys
<1> DEFINE Z == {k \in 0 .. n : u[k] = e[k]}
<1>20. 0 \in Z
  BY <1>2, <1>8, <1>19
<1>21. \A k \in 1 .. n : k - 1 \in Z => k \in Z
  <2>1. \A k \in 1 .. n : k \in 0 .. n
    BY <1>2
  <2>2. QED
    BY <1>14, <1>19, <2>1
<1> HIDE DEF Z
<1>22. n \in Z
  BY <1>2, <1>20, <1>21, CountUp
<1>23. u[n] = e[n]
  BY <1>22 DEF Z
<1>24. PICK r : r = site_destroy_stored(s)
  OBVIOUS
<1>25. Stripped(s, Q, n, r)
  <2>1. n \in 0 .. n
    BY <1>2
  <2>2. QED
    BY <1>13, <1>17, <1>18, <1>23, <1>24, <2>1
<1>26. \A j \in DOMAIN r.files : Stored(r.files[j]) = Absent
  <2>1. DOMAIN r.files = 1 .. Len(r.files)
    BY <1>25 DEF Stripped, Exact, SiteOK, Site
  <2>2. ASSUME NEW j \in 1 .. Len(r.files) PROVE j > n - n
    BY <1>2
  <2>3. QED
    BY <1>2, <1>25, <2>1, <2>2 DEF Stripped
<1>27. QED
  BY <1>24, <1>25, <1>26 DEF Stripped

-----------------------------------------------------------------------------
(* The files that were found are added                                     *)

\* The state of a file that was found.
LEMMA FetchedStateGood ==
  ASSUME EveryTime, NEW pf \in FoundFile, pf.name \notin Excluded
  PROVE  /\ fetched_state(pf) \in FileState /\ fetched_state(pf).filename = pf.name
         /\ pf.type \in {"file", "dir"} /\ pf.time \in Nat
         /\ <<"stored", pf.type, fetched_state(pf)>> \in Good(opt)
<1>1. pf \in ProtoFile
  BY DEF FoundFile
<1>2. pf.name \in Names /\ pf.type \in {"file", "dir"} /\ pf.mode \in Modes /\ pf.time \in Nat
  BY <1>1 DEF ProtoFile
<1>3. pf.type = "file" => pf.size \in {ByteSize[b] : b \in Whole} /\ pf.sum \in Whole \cup {NoSum}
  BY DEF FoundFile, Whole
<1>4. PICK c : c = CASE pf.type = "dir" -> NoData
                     [] pf.type = "file" /\ timesize -> <<pf.time, pf.size>>
                     [] OTHER -> pf.sum
  OBVIOUS
<1>5. fetched_state(pf) = [filename |-> pf.name, mode |-> pf.mode, content |-> c]
  BY <1>4 DEF fetched_state
<1>6. pf.type = "dir" => c = NoData
  BY <1>4
<1>7. pf.type = "file" => c = IF timesize THEN <<pf.time, pf.size>> ELSE pf.sum
  BY <1>4
<1>8. pf.type = "file" => c \in Held(opt, Whole)
  BY <1>2, <1>3, <1>7 DEF Held, timesize, EveryTime
<1>9. c \in Contents
  <2>1. NoData \in Contents /\ NoSum \in Contents /\ Bytes \subseteq Contents
    BY CopyAssumption, ConstantsAssumption
  <2>2. \A t \in Nat, b \in Bytes : <<t, ByteSize[b]>> \in Contents
    BY CopyAssumption DEF EveryTime
  <2>3. QED
    BY <1>2, <1>3, <1>6, <1>7, <2>1, <2>2 DEF Whole
<1>10. PICK s : s = [filename |-> pf.name, mode |-> pf.mode, content |-> c]
  OBVIOUS
<1>11. s \in FileState /\ s.filename = pf.name /\ s.content = c
  BY <1>2, <1>9, <1>10 DEF FileState
<1>12. <<"stored", pf.type, s>> \in Good(opt)
  BY <1>2, <1>8, <1>11, GoodState DEF Sides
<1>13. QED
  BY <1>2, <1>5, <1>10, <1>11, <1>12

\* The entries have the same types, and states of the same names.
SameKeys(q, r) ==
  /\ DOMAIN r = DOMAIN q
  /\ \A j \in DOMAIN q : \A x \in Sides : \A t, m : Stands(r[j], x, t, m) <=> Stands(q[j], x, t, m)

\* Then the names are apart in both or in neither.
LEMMA SameKeysKept ==
  ASSUME NEW q, NEW r, SameKeys(q, r)
  PROVE  /\ Keyed(q) => Keyed(r)
         /\ \A x \in Sides : \A t, m : HasKey(r, x, t, m) <=> HasKey(q, x, t, m)
<1>1. \A x \in Sides : \A t, m : HasKey(r, x, t, m) <=> HasKey(q, x, t, m)
  BY DEF SameKeys, HasKey
<1>2. ASSUME Keyed(q), NEW i \in DOMAIN r, NEW j \in DOMAIN r, NEW x \in Sides, NEW y \in Sides,
             r[i].st[x] # Absent, r[j].st[y] # Absent, r[i].type = r[j].type
      PROVE  r[i].st[x].filename = r[j].st[y].filename <=> i = j
  <2>1. i \in DOMAIN q /\ j \in DOMAIN q
    BY DEF SameKeys
  <2>2. Stands(r[i], x, r[i].type, r[i].st[x].filename) /\ Stands(r[j], y, r[j].type, r[j].st[y].filename)
    BY <1>2 DEF Stands
  <2>3. Stands(q[i], x, r[i].type, r[i].st[x].filename) /\ Stands(q[j], y, r[j].type, r[j].st[y].filename)
    BY <2>1, <2>2 DEF SameKeys
  <2>4. QED
    BY <1>2, <2>1, <2>3 DEF Stands, Keyed
<1>3. QED
  BY <1>1, <1>2 DEF Keyed

\* munge_modtime changes the time in one stored state.
LEMMA MungeGood ==
  ASSUME EveryTime, NEW s, ListGood(s), s.opt = opt, NEW k \in DOMAIN s.files, Stored(s.files[k]) # Absent,
         NEW time \in Nat
  PROVE  LET t == munge_modtime(s, k, time)
         IN  ListGood(t) /\ t.opt = opt /\ SameKeys(s.files, t.files)
<1>1. PICK t : t = munge_modtime(s, k, time)
  OBVIOUS
<1>2. Exact(s) /\ SiteOK(s) /\ StatesAmong(s.files, Good(opt)) /\ s \in Site
  BY DEF ListGood, Exact, SiteOK
<1>3. PICK f : f = s.files[k]
  OBVIOUS
<1>4. CASE ~(f.type = "file" /\ timesize)
  <2>1. t = s
    BY <1>1, <1>3, <1>4 DEF munge_modtime
  <2>2. QED
    BY <1>1, <2>1 DEF SameKeys
<1>5. CASE f.type = "file" /\ timesize
  <2>1. f.st \in [Sides -> FileState \cup {Absent}] /\ Stored(f) \in FileState /\ Local(f) \in FileState \cup {Absent}
    BY <1>2, <1>3, EntryStates
  <2>2. <<"stored", "file", Stored(f)>> \in Good(opt)
    BY <1>2, <1>3, <1>5 DEF StatesAmong, Sides, Stored
  <2>3. Stored(f).filename \notin Excluded /\ Stored(f).content \in Held(opt, Whole)
    BY <2>2, GoodHas
  <2>4. PICK b \in Whole : Stored(f).content[2] = ByteSize[b]
    BY <1>5, <2>3 DEF Held, timesize
  <2>5. ASSUME Local(f) # Absent PROVE Local(f).content[1] \in Nat
    <3>1. <<"local", "file", Local(f)>> \in Good(opt)
      BY <1>2, <1>3, <1>5, <2>5 DEF StatesAmong, Sides, Local
    <3>2. Local(f).content \in Held(opt, Bytes)
      BY <3>1, GoodHas
    <3>3. QED
      BY <1>5, <3>2 DEF Held, timesize, EveryTime
  <2>6. munged_time(f, time) \in Nat
    <3>1. Now \in Nat
      BY CopyAssumption DEF EveryTime
    <3>2. CASE Local(f) = Absent
      BY <3>1, <3>2 DEF munged_time
    <3>3. CASE Local(f) # Absent
      <4>1. PICK l \in Nat : l = Local(f).content[1]
        BY <2>5, <3>3
      <4>2. munged_time(f, time) = l + 1 \/ munged_time(f, time) = l
        BY <3>3, <4>1 DEF munged_time
      <4>3. QED
        BY <4>2
    <3>4. QED
      BY <3>2, <3>3
  <2>7. PICK c : c = munged(f, time)
    OBVIOUS
  <2>8. c \in Held(opt, Whole) /\ c \in Contents
    <3>1. c = <<munged_time(f, time), ByteSize[b]>>
      BY <2>4, <2>7 DEF munged
    <3>2. c \in Held(opt, Whole)
      BY <1>5, <2>6, <3>1 DEF Held, timesize, EveryTime
    <3>3. \A n \in Nat, y \in Bytes : <<n, ByteSize[y]>> \in Contents
      BY CopyAssumption DEF EveryTime
    <3>4. QED
      BY <2>6, <3>1, <3>2, <3>3 DEF Whole
  <2>9. PICK new : new = [Stored(f) EXCEPT !.content = c]
    OBVIOUS
  <2>10. new \in FileState /\ new.filename = Stored(f).filename /\ new.content = c
    BY <2>1, <2>8, <2>9 DEF FileState
  <2>11. PICK st : st = [f.st EXCEPT !["stored"] = new]
    OBVIOUS
  <2>12. /\ st \in [Sides -> FileState \cup {Absent}] /\ st["stored"] = new /\ st["local"] = f.st["local"]
         /\ st["stored"] # Absent
    <3>1. new # Absent
      BY <2>10, ConstantsAssumption
    <3>2. QED
      BY <2>1, <2>10, <2>11, <3>1 DEF Sides
  <2>13. t = set_states(s, k, st)
    <3>1. st = [f.st EXCEPT !["stored"].content = munged(f, time)]
      BY <2>7, <2>9, <2>11 DEF Stored
    <3>2. QED
      BY <1>1, <1>3, <1>5, <3>1 DEF munge_modtime
  <2>14. Exact(t)
    BY <1>2, <2>12, <2>13, SetStatesExact
  <2>15. /\ t.files = [s.files EXCEPT ![k] = t.files[k]] /\ t.files[k].st = st
         /\ t.files[k].type = "file" /\ t.opt = opt
    BY <1>2, <1>3, <1>5, <2>13, SetStatesFiles
  <2>16. StatesAmong(t.files, Good(opt))
    <3>1. <<"stored", "file", new>> \in Good(opt)
      BY <2>3, <2>8, <2>10, GoodState DEF Sides
    <3>2. \A x \in Sides : st[x] # Absent => <<x, s.files[k].type, st[x]>> \in Good(opt)
      BY <1>2, <1>3, <1>5, <2>12, <3>1 DEF StatesAmong, Sides
    <3>3. QED
      BY <1>2, <2>12, <2>13, <3>2, SetStatesIn
  <2>17. SameKeys(s.files, t.files)
    <3>1. DOMAIN t.files = DOMAIN s.files /\ \A j \in DOMAIN s.files : j # k => t.files[j] = s.files[j]
      BY <2>15
    <3>2. \A x \in Sides : \A ty, m : Stands(t.files[k], x, ty, m) <=> Stands(s.files[k], x, ty, m)
      BY <1>3, <1>5, <2>10, <2>12, <2>15 DEF Stands, Sides, Stored
    <3>3. QED
      BY <3>1, <3>2 DEF SameKeys
  <2>18. QED
    BY <1>1, <2>14, <2>15, <2>16, <2>17 DEF ListGood
<1>6. QED
  BY <1>4, <1>5

\* One file that was found.
LEMMA FetchAddGood ==
  ASSUME EveryTime, NEW s, ListGood(s), s.opt = opt, NEW pf \in FoundFile, pf.name \notin Excluded
  PROVE  LET t == fetch_add_file(s, pf)
         IN  /\ ListGood(t) /\ t.opt = opt
             /\ /\ ~opt.checkmoved /\ Keyed(s.files)
                /\ ~HasKey(s.files, "stored", pf.type, pf.name)
                => KeyAdded(t.files, s.files, "stored", pf.type, pf.name)
<1>1. PICK state : state = fetched_state(pf)
  OBVIOUS
<1>2. /\ state \in FileState /\ state.filename = pf.name
      /\ pf.type \in {"file", "dir"} /\ pf.time \in Nat
      /\ <<"stored", pf.type, state>> \in Good(opt)
  BY <1>1, FetchedStateGood
<1>3. PICK type : type = pf.type
  OBVIOUS
<1>4. type \in FileTypes /\ "stored" \in Sides /\ state # Absent
  BY <1>2, <1>3, ConstantsAssumption DEF FileTypes, Sides
<1>5. Exact(s) /\ SiteOK(s) /\ s \in Site /\ StatesAmong(s.files, Good(opt))
  BY DEF ListGood, Exact, SiteOK
<1>6. PICK r : r = file_set(s, "stored", type, state)
  OBVIOUS
<1>7. Exact(r) /\ r.opt = opt /\ StatesAmong(r.files, Good(opt))
  <2>1. Exact(r)
    BY <1>2, <1>4, <1>5, <1>6, FileSetExact
  <2>2. r.opt = opt
    BY <1>2, <1>4, <1>5, <1>6, FileSetOpt
  <2>3. StatesAmong(r.files, Good(opt))
    BY <1>2, <1>3, <1>4, <1>5, <1>6, FileSetStatesIn
  <2>4. QED
    BY <2>1, <2>2, <2>3
<1>8. PICK k : k = file_set_index(s, "stored", type, state)
  OBVIOUS
<1>9. k \in DOMAIN r.files
  BY <1>2, <1>4, <1>5, <1>6, <1>8, SetIndex
<1>10. Stored(r.files[k]) = state
  BY <1>2, <1>4, <1>5, <1>6, <1>8, SetIndexState DEF Stored
<1>11. PICK t : t = munge_modtime(r, k, pf.time)
  OBVIOUS
<1>12. ListGood(t) /\ t.opt = opt /\ SameKeys(r.files, t.files)
  <2>1. ListGood(r)
    BY <1>7 DEF ListGood
  <2>2. Stored(r.files[k]) # Absent
    BY <1>4, <1>10
  <2>3. QED
    BY <1>2, <1>7, <1>9, <1>11, <2>1, <2>2, MungeGood
<1>13. PICK u : u = file_replace(t, k, [t.files[k] EXCEPT !.server = pf.time])
  OBVIOUS
<1>14. /\ ListGood(u) /\ u.opt = opt
       /\ Keyed(t.files) => Keyed(u.files) /\ \A x \in Sides : \A y, m : HasKey(u.files, x, y, m) <=> HasKey(t.files, x, y, m)
  <2>1. k \in DOMAIN t.files /\ Exact(t) /\ StatesAmong(t.files, Good(opt))
    BY <1>9, <1>12 DEF SameKeys, ListGood
  <2>2. Exact(u) /\ u.opt = opt
    BY <1>2, <1>12, <1>13, <2>1, ServerTimeExact
  <2>3. StatesAmong(u.files, Good(opt))
    BY <1>2, <1>13, <2>1, ServerTimeStatesIn
  <2>4. ASSUME Keyed(t.files)
        PROVE  Keyed(u.files) /\ \A x \in Sides : \A y, m : HasKey(u.files, x, y, m) <=> HasKey(t.files, x, y, m)
    BY <1>2, <1>13, <2>1, <2>4, ServerTimeKeyed
  <2>5. QED
    BY <2>2, <2>3, <2>4 DEF ListGood
<1>15. PICK v : v = fetch_add_file(s, pf)
  OBVIOUS
<1>16. v = IF opt.safemode THEN u ELSE t
  BY <1>1, <1>3, <1>6, <1>8, <1>11, <1>13, <1>15 DEF fetch_add_file, file_set_stored
<1>17. ListGood(v) /\ v.opt = opt
  BY <1>12, <1>14, <1>16
<1>18. ASSUME ~opt.checkmoved, Keyed(s.files), ~HasKey(s.files, "stored", type, state.filename)
       PROVE  KeyAdded(v.files, s.files, "stored", type, state.filename)
  <2>1. KeyAdded(r.files, s.files, "stored", type, state.filename)
    BY <1>2, <1>4, <1>5, <1>6, <1>18, FileSetKeyed
  <2>2. Keyed(t.files) /\ \A x \in Sides : \A y, m : HasKey(t.files, x, y, m) <=> HasKey(r.files, x, y, m)
    BY <1>12, <2>1, SameKeysKept DEF KeyAdded
  <2>3. Keyed(v.files) /\ \A x \in Sides : \A y, m : HasKey(v.files, x, y, m) <=> HasKey(r.files, x, y, m)
    BY <1>14, <1>16, <2>2
  <2>4. QED
    BY <2>1, <2>3 DEF KeyAdded
<1>19. QED
  BY <1>2, <1>3, <1>15, <1>17, <1>18

\* The first k files have been added.
AddedSoFar(q, k, fs) ==
  /\ Keyed(fs)
  /\ \A t, m : HasKey(fs, "stored", t, m) => \E j \in 1 .. k : q[j].name = m

\* All the files that were found.
LEMMA FoundAdded ==
  ASSUME EveryTime, NEW s, ListGood(s), s.opt = opt,
         NEW q \in Seq({f \in FoundFile : f.name \notin Excluded})
  PROVE  LET r == AddedAll(s, q)
         IN  /\ ListGood(r) /\ r.opt = opt
             /\ /\ ~opt.checkmoved /\ Keyed(s.files)
                /\ \A j \in DOMAIN s.files : Stored(s.files[j]) = Absent
                /\ \A i, j \in DOMAIN q : q[i].name = q[j].name => i = j
                => Keyed(r.files)
<1> DEFINE F == {f \in FoundFile : f.name \notin Excluded}
           X == {t \in Site : ListGood(t) /\ t.opt = opt}
<1>1. PICK n \in Nat : n = Len(q) /\ DOMAIN q = 1 .. n
  OBVIOUS
<1>2. \A k \in 1 .. n : q[k] \in FoundFile /\ q[k].name \notin Excluded
  BY <1>1
<1>3. s \in X
  BY DEF ListGood, Exact, SiteOK
<1>4. \A t \in X : ListGood(t) /\ t.opt = opt
  OBVIOUS
<1>5. \A t : ListGood(t) /\ t.opt = opt => t \in X
  BY DEF ListGood, Exact, SiteOK
<1> HIDE DEF X
<1>6. \A t \in X : \A k \in 1 .. n : fetch_add_file(t, q[k]) \in X
  <2>1. SUFFICES ASSUME NEW t \in X, NEW k \in 1 .. n PROVE fetch_add_file(t, q[k]) \in X
    OBVIOUS
  <2>2. ListGood(fetch_add_file(t, q[k])) /\ fetch_add_file(t, q[k]).opt = opt
    BY <1>2, <1>4, FetchAddGood
  <2>3. QED
    BY <1>5, <2>2
<1>7. PICK e : AddedAllTurns(X, s, q, e)
  <2> HIDE DEF F
  <2> QED BY <1>1, <1>3, <1>6, AddedAllTrace DEF F
<1>8. /\ e \in [0 .. n -> X] /\ e[0] = s /\ e[n] = AddedAll(s, q)
      /\ \A k \in 1 .. n : e[k] = fetch_add_file(e[k - 1], q[k])
  BY <1>1, <1>7 DEF AddedAllTurns
<1>9. \A k \in 0 .. n : ListGood(e[k]) /\ e[k].opt = opt
  BY <1>4, <1>8
<1> DEFINE Y == {k \in 0 .. n : AddedSoFar(q, k, e[k].files)}
<1>10. ASSUME ~opt.checkmoved, Keyed(s.files),
              \A j \in DOMAIN s.files : Stored(s.files[j]) = Absent,
              \A i, j \in DOMAIN q : q[i].name = q[j].name => i = j
       PROVE  n \in Y
  <2>1. 0 \in Y
    <3>1. AddedSoFar(q, 0, e[0].files)
      BY <1>8, <1>10 DEF AddedSoFar, HasKey, Stands, Stored
    <3>2. QED
      BY <3>1
  <2>2. ASSUME NEW k \in 1 .. n, k - 1 \in Y PROVE k \in Y
    <3>1. PICK t : t = e[k - 1]
      OBVIOUS
    <3>2. k - 1 \in 0 .. n /\ k \in 0 .. n
      BY <1>1
    <3>3. ListGood(t) /\ t.opt = opt /\ AddedSoFar(q, k - 1, t.files)
      BY <1>9, <2>2, <3>1, <3>2
    <3>4. PICK pf : pf = q[k]
      OBVIOUS
    <3>5. pf \in FoundFile /\ pf.name \notin Excluded
      BY <1>2, <3>4
    <3>6. \A j \in 1 .. (k - 1) : j \in 1 .. n /\ j # k
      BY <1>1
    <3>7. \A j \in 1 .. (k - 1) : q[j].name # pf.name
      BY <1>1, <1>10, <3>4, <3>6
    <3>8. ~HasKey(t.files, "stored", pf.type, pf.name)
      BY <3>3, <3>7 DEF AddedSoFar
    <3>9. PICK r : r = fetch_add_file(t, pf)
      OBVIOUS
    <3>10. KeyAdded(r.files, t.files, "stored", pf.type, pf.name)
      <4>1. Keyed(t.files)
        BY <3>3 DEF AddedSoFar
      <4>2. QED
        BY <1>10, <3>3, <3>5, <3>8, <3>9, <4>1, FetchAddGood
    <3>11. (\A j \in 1 .. (k - 1) : j \in 1 .. k) /\ k \in 1 .. k
      BY <1>1
    <3>12. AddedSoFar(q, k, r.files)
      <4>1. Keyed(r.files)
        BY <3>10 DEF KeyAdded
      <4>2. ASSUME NEW ty, NEW m, HasKey(r.files, "stored", ty, m)
            PROVE  \E j \in 1 .. k : q[j].name = m
        <5>1. "stored" \in Sides
          BY DEF Sides
        <5>2. HasKey(t.files, "stored", ty, m) \/ m = pf.name
          BY <3>10, <4>2, <5>1 DEF KeyAdded
        <5>3. CASE m = pf.name
          BY <3>4, <3>11, <5>3
        <5>4. CASE HasKey(t.files, "stored", ty, m)
          BY <3>3, <3>11, <5>4 DEF AddedSoFar
        <5>5. QED
          BY <5>2, <5>3, <5>4
      <4>3. QED
        BY <4>1, <4>2 DEF AddedSoFar
    <3>13. e[k] = r
      BY <1>8, <3>1, <3>4, <3>9
    <3>14. QED
      BY <3>2, <3>12, <3>13
  <2> HIDE DEF Y
  <2>3. QED
    BY <1>1, <2>1, <2>2, CountUp
<1>11. n \in 0 .. n
  BY <1>1
<1>12. PICK r : r = AddedAll(s, q)
  OBVIOUS
<1>13. ListGood(r) /\ r.opt = opt
  BY <1>8, <1>9, <1>11, <1>12
<1>14. ASSUME ~opt.checkmoved, Keyed(s.files),
              \A j \in DOMAIN s.files : Stored(s.files[j]) = Absent,
              \A i, j \in DOMAIN q : q[i].name = q[j].name => i = j
       PROVE  Keyed(r.files)
  <2>1. AddedSoFar(q, n, e[n].files)
    BY <1>10, <1>14
  <2>2. QED
    BY <1>8, <1>12, <2>1 DEF AddedSoFar
<1>15. QED
  BY <1>12, <1>13, <1>14

-----------------------------------------------------------------------------
(* A directory is listed                                                   *)

\* After the first k files: the stack has what it had, and directories of these.
PushedSoFar(stack, q, k, r) ==
  /\ \A i \in DOMAIN r : (\E j \in DOMAIN stack : r[i] = stack[j]) \/ (\E j \in 1 .. k : r[i] = q[j].name)
  /\ /\ IsInjective(stack) /\ \A i \in DOMAIN stack, j \in DOMAIN q : stack[i] # q[j].name
     /\ \A i, j \in DOMAIN q : q[i].name = q[j].name => i = j
     => IsInjective(r)

\* The directories of a listing are pushed as long as there is room.
LEMMA DirectoriesPushed ==
  ASSUME NEW stack \in Seq(Names \cup {Root}), Len(stack) =< DirStackSize, NEW q \in Seq(FoundFile)
  PROVE  LET r == PushedAll(stack, q)
         IN  /\ r \in Seq(Names \cup {Root}) /\ Len(r) =< DirStackSize
             /\ PushedSoFar(stack, q, Len(q), r)
<1> DEFINE W == Names \cup {Root}
           X == {r \in Seq(W) : Len(r) =< DirStackSize}
<1>1. PICK n \in Nat : n = Len(q) /\ DOMAIN q = 1 .. n
  OBVIOUS
<1>2. \A k \in 1 .. n : q[k].name \in W
  BY <1>1 DEF FoundFile, ProtoFile
<1>3. DirStackSize \in Nat
  BY FetchAssumption
<1> HIDE DEF W
<1>4. \A x \in X : \A k \in 1 .. n : pushed(x, q[k]) \in X
  <2>1. SUFFICES ASSUME NEW x \in X, NEW k \in 1 .. n PROVE pushed(x, q[k]) \in X
    OBVIOUS
  <2>2. pushed(x, q[k]) = x \/ (pushed(x, q[k]) = Append(x, q[k].name) /\ Len(x) < DirStackSize)
    BY DEF pushed
  <2>3. CASE pushed(x, q[k]) = x
    BY <2>3
  <2>4. CASE pushed(x, q[k]) = Append(x, q[k].name) /\ Len(x) < DirStackSize
    <3>1. Append(x, q[k].name) \in Seq(W) /\ Len(Append(x, q[k].name)) = Len(x) + 1 /\ Len(x) \in Nat
      BY <1>2
    <3>2. QED
      BY <1>3, <2>4, <3>1
  <2>5. QED
    BY <2>2, <2>3, <2>4
<1>5. stack \in X
  BY DEF W
<1>6. \A x \in X : x \in Seq(W) /\ Len(x) =< DirStackSize
  OBVIOUS
<1> HIDE DEF X
<1>7. PICK e : PushedAllTurns(X, stack, q, e)
  BY <1>1, <1>4, <1>5, PushedAllTrace
<1>8. /\ e \in [0 .. n -> X] /\ e[0] = stack /\ e[n] = PushedAll(stack, q)
      /\ \A k \in 1 .. n : e[k] = pushed(e[k - 1], q[k])
  BY <1>1, <1>7 DEF PushedAllTurns
<1> DEFINE Y == {k \in 0 .. n : PushedSoFar(stack, q, k, e[k])}
<1>9. 0 \in Y
  <2>1. PushedSoFar(stack, q, 0, stack)
    BY DEF PushedSoFar
  <2>2. QED
    BY <1>1, <1>8, <2>1
<1>10. ASSUME NEW k \in 1 .. n, k - 1 \in Y PROVE k \in Y
  <2>1. PICK x : x = e[k - 1]
    OBVIOUS
  <2>2. k - 1 \in 0 .. n /\ k \in 0 .. n /\ k \in 1 .. k
    BY <1>1
  <2>3. x \in Seq(W) /\ PushedSoFar(stack, q, k - 1, x)
    BY <1>6, <1>8, <1>10, <2>1, <2>2
  <2>4. \A j \in 1 .. (k - 1) : j \in 1 .. k /\ j \in 1 .. n /\ j # k
    BY <1>1
  <2>5. PICK m \in Nat : m = Len(x) /\ DOMAIN x = 1 .. m
    BY <2>3
  <2>6. PICK r : r = Append(x, q[k].name)
    OBVIOUS
  <2>7. DOMAIN r = 1 .. m + 1 /\ r[m + 1] = q[k].name /\ \A i \in 1 .. m : r[i] = x[i]
    <3>1. PICK name \in W : name = q[k].name
      BY <1>2
    <3>2. /\ Append(x, name) \in Seq(W) /\ Len(Append(x, name)) = Len(x) + 1
          /\ Append(x, name)[Len(x) + 1] = name
          /\ \A i \in 1 .. Len(x) : Append(x, name)[i] = x[i]
      BY <2>3, <3>1
    <3>3. Len(r) = m + 1 /\ r \in Seq(W)
      BY <2>5, <2>6, <3>1, <3>2
    <3>4. QED
      BY <2>5, <2>6, <3>1, <3>2, <3>3
  <2>8. \A i \in DOMAIN r : i = m + 1 \/ i \in 1 .. m
    BY <2>5, <2>7
  <2>9. CASE e[k] = x
    BY <2>2, <2>3, <2>4, <2>9 DEF PushedSoFar
  <2>10. CASE e[k] = r
    <3>1. ASSUME NEW i \in DOMAIN r
          PROVE  (\E j \in DOMAIN stack : r[i] = stack[j]) \/ (\E j \in 1 .. k : r[i] = q[j].name)
      <4>1. CASE i = m + 1
        BY <2>2, <2>7, <4>1
      <4>2. CASE i \in 1 .. m
        <5>1. r[i] = x[i] /\ i \in DOMAIN x
          BY <2>5, <2>7, <4>2
        <5>2. QED
          BY <2>3, <2>4, <5>1 DEF PushedSoFar
      <4>3. QED
        BY <2>8, <4>1, <4>2
    <3>2. ASSUME IsInjective(stack), \A i \in DOMAIN stack, j \in DOMAIN q : stack[i] # q[j].name,
                 \A i, j \in DOMAIN q : q[i].name = q[j].name => i = j
          PROVE  IsInjective(r)
      <4>1. IsInjective(x)
        BY <2>3, <3>2 DEF PushedSoFar
      <4>2. ASSUME NEW i \in 1 .. m PROVE x[i] # q[k].name
        <5>1. (\E j \in DOMAIN stack : x[i] = stack[j]) \/ (\E j \in 1 .. (k - 1) : x[i] = q[j].name)
          BY <2>3, <2>5 DEF PushedSoFar
        <5>2. \A j \in DOMAIN stack : stack[j] # q[k].name
          BY <1>1, <3>2
        <5>3. \A j \in 1 .. (k - 1) : q[j].name # q[k].name
          BY <1>1, <2>4, <3>2
        <5>4. QED
          BY <5>1, <5>2, <5>3
      <4>3. ASSUME NEW i \in DOMAIN r, NEW j \in DOMAIN r, r[i] = r[j] PROVE i = j
        <5>1. CASE i = m + 1 \/ j = m + 1
          BY <2>7, <2>8, <4>2, <4>3, <5>1
        <5>2. CASE i \in 1 .. m /\ j \in 1 .. m
          BY <2>5, <2>7, <4>1, <4>3, <5>2 DEF IsInjective
        <5>3. QED
          BY <2>8, <5>1, <5>2
      <4>4. QED
        BY <4>3 DEF IsInjective
    <3>3. PushedSoFar(stack, q, k, r)
      BY <3>1, <3>2 DEF PushedSoFar
    <3>4. QED
      BY <2>2, <2>10, <3>3
  <2>11. e[k] = x \/ e[k] = r
    BY <1>8, <2>1, <2>6 DEF pushed
  <2>12. QED
    BY <2>9, <2>10, <2>11
<1> HIDE DEF Y
<1>11. n \in Y
  BY <1>1, <1>9, <1>10, CountUp
<1>12. PushedSoFar(stack, q, n, e[n])
  BY <1>11 DEF Y
<1>13. e[n] \in X
  BY <1>1, <1>8
<1>14. QED
  BY <1>1, <1>6, <1>8, <1>12, <1>13 DEF W

\* The names of the files that were found.
NamesOf(fs) == {fs[i].name : i \in DOMAIN fs}

\* The fetch has found every name once, and has not got to one again.
WalkedSoFar(stack, fs) ==
  /\ Walked(stack, NamesOf(fs))
  /\ \A i, j \in DOMAIN fs : fs[i].name = fs[j].name => i = j

\* The requests of q are for files of the list fs.
DueOn(q, fs) ==
  /\ q \in Seq(Request)
  /\ \A k \in DOMAIN q : q[k].at \in DOMAIN fs /\ fs[q[k].at].type = "file"

\* The requests for some files of a listing are for files of it.
LEMMA AskedGood ==
  ASSUME NEW list \in Seq(FoundFile), NEW what \in {"time", "sum"}, NEW P,
         \A k \in P : k \in DOMAIN list /\ list[k].type = "file"
  PROVE  DueOn(asked(what, list, P), list)
<1>1. PICK n \in Nat : n = Len(list) /\ DOMAIN list = 1 .. n
  OBVIOUS
<1>2. PICK ids : ids = [k \in DOMAIN list |-> k]
  OBVIOUS
<1>3. PICK E : E = Nat \ {0}
  OBVIOUS
<1>4. ids \in Seq(E)
  BY <1>1, <1>2, <1>3
<1>5. PICK here : here = OnlyIn(ids, P)
  OBVIOUS
<1>6. here \in Seq(E \cap P)
  BY <1>4, <1>5, OnlyInDraws
<1>7. PICK q : q = [i \in DOMAIN here |-> [about |-> what, at |-> here[i]]]
  OBVIOUS
<1>8. asked(what, list, P) = q
  BY <1>2, <1>5, <1>7 DEF asked
<1>9. DOMAIN here = 1 .. Len(here) /\ Len(here) \in Nat /\ \A i \in DOMAIN here : here[i] \in E \cap P
  BY <1>6
<1>10. \A i \in DOMAIN here : q[i] \in Request /\ q[i].at \in P
  BY <1>3, <1>7, <1>9 DEF Request
<1>11. q \in Seq(Request) /\ DOMAIN q = DOMAIN here
  BY <1>7, <1>9, <1>10
<1>12. QED
  BY <1>8, <1>10, <1>11 DEF DueOn

\* A listing that is put before a list keeps its positions.
LEMMA RequestsGood ==
  ASSUME NEW list \in Seq(FoundFile), NEW fs \in Seq(FoundFile)
  PROVE  DueOn(requests(list), joined(list, fs))
<1>1. PICK F : F = {k \in DOMAIN list : list[k].type = "file"}
  OBVIOUS
<1>2. PICK T : T = IF opt.protocol = "ftp" /\ need_modtimes THEN F ELSE {}
  OBVIOUS
<1>3. PICK S : S = IF opt.checksum THEN {k \in F : list[k].name \notin Excluded} ELSE {}
  OBVIOUS
<1>4. PICK a : a = asked("time", list, T)
  OBVIOUS
<1>5. PICK c : c = asked("sum", list, S)
  OBVIOUS
<1>6. DueOn(a, list)
  <2>1. \A k \in T : k \in DOMAIN list /\ list[k].type = "file"
    BY <1>1, <1>2
  <2>2. QED
    BY <1>4, <2>1, AskedGood
<1>7. DueOn(c, list)
  <2>1. \A k \in S : k \in DOMAIN list /\ list[k].type = "file"
    BY <1>1, <1>3
  <2>2. QED
    BY <1>5, <2>1, AskedGood
<1>8. requests(list) = a \o c
  BY <1>1, <1>2, <1>3, <1>4, <1>5 DEF requests
<1>9. /\ a \o c \in Seq(Request) /\ Len(a \o c) = Len(a) + Len(c)
      /\ \A k \in 1 .. Len(a) + Len(c) : (a \o c)[k] = IF k =< Len(a) THEN a[k] ELSE c[k - Len(a)]
  BY <1>6, <1>7, ConcatProperties DEF DueOn
<1>10. /\ list \o fs \in Seq(FoundFile) /\ Len(list \o fs) = Len(list) + Len(fs)
       /\ \A k \in 1 .. Len(list) + Len(fs) : (list \o fs)[k] = IF k =< Len(list) THEN list[k] ELSE fs[k - Len(list)]
  BY ConcatProperties
<1>11. PICK r : r = list \o fs
  OBVIOUS
<1>12. \A k \in DOMAIN list : k \in DOMAIN r /\ r[k] = list[k]
  <2>1. PICK m \in Nat, n \in Nat : m = Len(list) /\ n = Len(fs) /\ DOMAIN list = 1 .. m
    OBVIOUS
  <2>2. DOMAIN r = 1 .. m + n
    BY <1>10, <1>11, <2>1
  <2>3. QED
    BY <1>10, <1>11, <2>1, <2>2
<1>13. ASSUME NEW k \in DOMAIN (a \o c)
       PROVE  (a \o c)[k].at \in DOMAIN list /\ list[(a \o c)[k].at].type = "file"
  <2>1. PICK m \in Nat, n \in Nat : m = Len(a) /\ n = Len(c) /\ DOMAIN a = 1 .. m /\ DOMAIN c = 1 .. n
    BY <1>6, <1>7 DEF DueOn
  <2>2. k \in 1 .. m + n
    BY <1>9, <1>13, <2>1
  <2>3. CASE k =< m
    <3>1. k \in DOMAIN a /\ (a \o c)[k] = a[k]
      BY <1>9, <2>1, <2>2, <2>3
    <3>2. QED
      BY <1>6, <3>1 DEF DueOn
  <2>4. CASE ~(k =< m)
    <3>1. k - m \in DOMAIN c /\ (a \o c)[k] = c[k - m]
      BY <1>9, <2>1, <2>2, <2>4
    <3>2. QED
      BY <1>7, <3>1 DEF DueOn
  <2>5. QED
    BY <2>3, <2>4
<1>14. PICK q : q = a \o c
  OBVIOUS
<1>15. DueOn(q, r)
  BY <1>9, <1>12, <1>13, <1>14 DEF DueOn
<1>16. QED
  BY <1>8, <1>11, <1>14, <1>15 DEF joined

\* What the server tells of a file leaves its name and type alone.
LEMMA ToldGood ==
  ASSUME server \in Tree, ServerGood, NEW f \in FoundFile, f.type = "file",
         TypeAt(server, <<f.name, "real">>) = "file", NEW about \in {"time", "sum"}
  PROVE  told(f, about) \in FoundFile /\ told(f, about).name = f.name /\ told(f, about).type = f.type
<1>1. f \in ProtoFile
  BY DEF FoundFile
<1>2. f.name \in Names
  BY <1>1 DEF ProtoFile
<1>3. PICK x : x = At(f.name)
  OBVIOUS
<1>4. x # Absent /\ x.type = "file"
  BY <1>3 DEF TypeAt, At
<1>5. x.time \in Nat
  BY <1>2, <1>3, <1>4, ServerFile
<1>6. x.content \in Bytes \ {Part}
  BY <1>2, <1>3, <1>4 DEF ServerGood
<1>7. CASE about = "time"
  <2>1. PICK g : g = [f EXCEPT !.time = x.time]
    OBVIOUS
  <2>2. g \in ProtoFile /\ g.name = f.name /\ g.type = f.type /\ g.size = f.size /\ g.sum = f.sum
    BY <1>1, <1>5, <2>1 DEF ProtoFile
  <2>3. g \in FoundFile
    BY <2>2 DEF FoundFile
  <2>4. told(f, about) = g
    BY <1>3, <1>7, <2>1 DEF told, At
  <2>5. QED
    BY <2>2, <2>3, <2>4
<1>8. CASE about = "sum"
  <2>1. PICK g : g = [f EXCEPT !.sum = x.content]
    OBVIOUS
  <2>2. g \in ProtoFile /\ g.name = f.name /\ g.type = f.type /\ g.size = f.size /\ g.sum = x.content
    BY <1>1, <1>6, <2>1 DEF ProtoFile
  <2>3. g \in FoundFile
    BY <1>6, <2>2 DEF FoundFile
  <2>4. told(f, about) = g
    BY <1>3, <1>8, <2>1 DEF told, At
  <2>5. QED
    BY <2>2, <2>3, <2>4
<1>9. QED
  BY <1>7, <1>8

\* One directory more.
LEMMA DirectoryListed ==
  ASSUME server \in Tree, ServerGood, NEW stack \in Seq(Names \cup {Root}), stack # << >>,
         Len(stack) =< DirStackSize, NEW fs \in Seq(FoundFile),
         NEW l \in fetch_list(Last(stack))
  PROVE  LET st == PushedAll(Front(stack), l.list)
             nf == joined(l.list, fs)
         IN  /\ DueOn(requests(l.list), nf)
             /\ st \in Seq(Names \cup {Root}) /\ Len(st) =< DirStackSize /\ nf \in Seq(FoundFile)
             /\ WalkedSoFar(stack, fs) => WalkedSoFar(st, nf)
<1>1. PICK q : q = l.list
  OBVIOUS
<1>2. PICK dir : dir = Last(stack)
  OBVIOUS
<1>3. q \in Seq(FoundFile) /\ Listed(q, dir)
  BY <1>1, <1>2, FetchListGood
<1>4. PICK r : r = q
  OBVIOUS
<1>5. /\ r \in Seq(FoundFile) /\ DOMAIN r = DOMAIN q
      /\ \A k \in DOMAIN q : r[k].name = q[k].name /\ r[k].type = q[k].type
  BY <1>3, <1>4
<1>6. PICK f : f = Front(stack)
  OBVIOUS
<1>7. f \in Seq(Names \cup {Root}) /\ Len(f) =< DirStackSize
  <2>1. PICK c \in Nat : c = Len(stack)
    OBVIOUS
  <2>2. f \in Seq(Names \cup {Root}) /\ Len(f) = c - 1
    BY <1>6, <2>1, FrontShape
  <2>3. DirStackSize \in Nat
    BY FetchAssumption
  <2>4. QED
    BY <2>1, <2>2, <2>3
<1>8. PICK st : st = PushedAll(f, q)
  OBVIOUS
<1>9. /\ st \in Seq(Names \cup {Root}) /\ Len(st) =< DirStackSize
      /\ PushedSoFar(f, q, Len(q), st)
  BY <1>3, <1>7, <1>8, DirectoriesPushed
<1>10. PICK nf : nf = r \o fs
  OBVIOUS
<1>11. nf \in Seq(FoundFile)
  BY <1>5, <1>10
<1>12. ASSUME WalkedSoFar(stack, fs) PROVE WalkedSoFar(st, nf)
  <2>1. PICK N : N = NamesOf(fs)
    OBVIOUS
  <2>2. PICK K : K = NamesOf(q)
    OBVIOUS
  <2>3. N \in SUBSET Names
    BY <2>1 DEF NamesOf, FoundFile, ProtoFile
  <2>4. K \in SUBSET Names /\ \A n \in K : Parent[n] = Last(stack)
    BY <1>2, <1>3, <2>2 DEF NamesOf, Listed, Children
  <2>5. Walked(stack, N)
    BY <1>12, <2>1 DEF WalkedSoFar
  <2>6. WalksOn(f, N, K)
    BY <1>6, <2>3, <2>4, <2>5, WalkOn
  <2>7. \A i, j \in DOMAIN q : q[i].name = q[j].name => i = j
    BY <1>3 DEF Listed
  <2>8. \A i \in DOMAIN f, j \in DOMAIN q : f[i] # q[j].name
    BY <2>2, <2>6 DEF WalksOn, NamesOf
  <2>9. IsInjective(st)
    BY <1>9, <2>6, <2>7, <2>8 DEF PushedSoFar, WalksOn
  <2>10. DOMAIN q = 1 .. Len(q)
    BY <1>3
  <2>11. \A i \in DOMAIN st : st[i] \in K \/ \E j \in DOMAIN f : st[i] = f[j]
    BY <1>9, <2>2, <2>10 DEF PushedSoFar, NamesOf
  <2>12. Walked(st, N \cup K)
    BY <2>6, <2>9, <2>11 DEF WalksOn
  <2>13. PICK a \in Nat : a = Len(r) /\ DOMAIN r = 1 .. a
    BY <1>5
  <2>14. PICK c \in Nat : c = Len(fs) /\ DOMAIN fs = 1 .. c
    OBVIOUS
  <2>15. DOMAIN nf = 1 .. a + c /\ \A k \in 1 .. a + c : nf[k] = IF k =< a THEN r[k] ELSE fs[k - a]
    <3>1. /\ r \o fs \in Seq(FoundFile) /\ Len(r \o fs) = Len(r) + Len(fs)
          /\ \A k \in 1 .. Len(r) + Len(fs) : (r \o fs)[k] = IF k =< Len(r) THEN r[k] ELSE fs[k - Len(r)]
      BY <1>5, ConcatProperties, Zenon
    <3>2. Len(nf) = a + c
      BY <1>10, <2>13, <2>14, <3>1, Zenon
    <3>3. DOMAIN nf = 1 .. Len(nf)
      BY <1>11
    <3>4. QED
      BY <1>10, <2>13, <2>14, <3>1, <3>2, <3>3, Zenon
  <2>16. \A k \in 1 .. a + c : \/ k \in 1 .. a /\ nf[k] = r[k]
                               \/ k \notin 1 .. a /\ k - a \in 1 .. c /\ nf[k] = fs[k - a]
    BY <2>15
  <2>17. \A k \in 1 .. a : r[k].name \in K
    BY <1>5, <2>2, <2>13 DEF NamesOf
  <2>18. \A k \in 1 .. c : fs[k].name \in N
    BY <2>1, <2>14 DEF NamesOf
  <2>19. \A n \in K : n \notin N
    BY <2>6 DEF WalksOn
  <2>20. NamesOf(nf) = N \cup K
    <3>1. \A k \in 1 .. a + c : nf[k].name \in N \cup K
      BY <2>16, <2>17, <2>18
    <3>2. ASSUME NEW n \in K PROVE n \in NamesOf(nf)
      <4>1. PICK k \in 1 .. a : n = r[k].name
        BY <1>5, <2>2, <2>13 DEF NamesOf
      <4>2. k \in 1 .. a + c /\ nf[k] = r[k]
        BY <2>15
      <4>3. QED
        BY <2>15, <4>1, <4>2 DEF NamesOf
    <3>3. ASSUME NEW n \in N PROVE n \in NamesOf(nf)
      <4>1. PICK k \in 1 .. c : n = fs[k].name
        BY <2>1, <2>14 DEF NamesOf
      <4>2. a + k \in 1 .. a + c /\ ~(a + k =< a) /\ (a + k) - a = k
        OBVIOUS
      <4>3. nf[a + k] = fs[k]
        BY <2>15, <4>2
      <4>4. QED
        BY <2>15, <4>1, <4>2, <4>3 DEF NamesOf
    <3>4. QED
      BY <2>15, <3>1, <3>2, <3>3 DEF NamesOf
  <2>21. ASSUME NEW i \in 1 .. a + c, NEW j \in 1 .. a + c, nf[i].name = nf[j].name PROVE i = j
    <3>1. CASE i \in 1 .. a
      <4>1. j \in 1 .. a
        BY <2>16, <2>17, <2>18, <2>19, <2>21, <3>1
      <4>2. r[i].name = r[j].name
        BY <2>16, <2>21, <3>1, <4>1
      <4>3. QED
        BY <1>5, <2>7, <2>13, <3>1, <4>1, <4>2
    <3>2. CASE i \notin 1 .. a
      <4>1. j \notin 1 .. a
        BY <2>16, <2>17, <2>18, <2>19, <2>21, <3>2
      <4>2. i - a \in 1 .. c /\ j - a \in 1 .. c /\ fs[i - a].name = fs[j - a].name
        BY <2>16, <2>21, <3>2, <4>1
      <4>3. i - a = j - a
        BY <1>12, <2>14, <4>2 DEF WalkedSoFar
      <4>4. QED
        BY <4>3
    <3>3. QED
      BY <3>1, <3>2
  <2>22. QED
    BY <2>12, <2>15, <2>20, <2>21 DEF WalkedSoFar
<1>13. st = PushedAll(Front(stack), l.list)
  BY <1>1, <1>6, <1>8
<1>14. nf = joined(l.list, fs)
  BY <1>1, <1>4, <1>10 DEF joined
<1>15. DueOn(requests(l.list), nf)
  BY <1>1, <1>3, <1>14, RequestsGood
<1>16. QED
  BY <1>9, <1>11, <1>12, <1>13, <1>14, <1>15

-----------------------------------------------------------------------------
(* The local system calls                                                  *)

\* d is the disk, but for the names in S.
OnlyChanges(d, S) == \A m \in Names \ S : d[m] = disk[m]

\* d has directories only where the disk has them.
NoNewDir(d) == \A m \in Names : d[m] # Absent /\ d[m].type = "dir" => disk[m] # Absent /\ disk[m].type = "dir"

\* A disk with another file at one name, or none.
Put(d, n, x) == [d EXCEPT ![n] = x]

\* It is a disk, and the same one elsewhere.
LEMMA DiskReplaced ==
  ASSUME NEW d \in Disk, NEW n \in Names, NEW x \in DiskFile \cup {Absent}
  PROVE  Put(d, n, x) \in Disk /\ Put(d, n, x)[n] = x /\ \A m \in Names \ {n} : Put(d, n, x)[m] = d[m]
BY DEF Disk, Put

\* What a call answers.
LEMMA CallAnswers ==
  ASSUME NEW possible, NEW d, NEW a \in Call(possible, d)
  PROVE  \/ possible /\ a.ok /\ a.disk = d /\ a.fault = 0
         \/ ~a.ok /\ a.disk = disk /\ a.fault \in {0, 1}
<1>1. Done(d).ok /\ Done(d).disk = d /\ Done(d).fault = 0
  BY DEF Done
<1>2. ~Refused.ok /\ Refused.disk = disk /\ Refused.fault = 1
  BY DEF Refused
<1>3. ~Impossible.ok /\ Impossible.disk = disk /\ Impossible.fault = 0
  BY DEF Impossible
<1>4. CASE possible
  <2>1. a = Done(d) \/ a = Refused
    BY <1>4 DEF Call
  <2>2. QED
    BY <1>1, <1>2, <1>4, <2>1
<1>5. CASE ~possible
  <2>1. a = Impossible
    BY <1>5 DEF Call
  <2>2. QED
    BY <1>3, <2>1
<1>6. QED
  BY <1>4, <1>5

\* mkdir makes a directory where there was nothing.
LEMMA MkdirGood ==
  ASSUME disk \in Disk, NEW n \in Names, NEW a \in mkdir(n)
  PROVE  /\ a.disk \in Disk /\ a.fault \in {0, 1}
         /\ OnlyChanges(a.disk, {m \in {n} : DiskType(n) = "none"})
<1>1. PICK x : x = [type |-> "dir", bytes |-> NoData, time |-> Now, mode |-> DirMode]
  OBVIOUS
<1>2. x \in DiskFile
  BY <1>1, CopyAssumption, FetchAssumption DEF DiskFile, DirMode
<1>3. PICK d : d = [disk EXCEPT ![n] = x]
  OBVIOUS
<1>4. d \in Disk /\ \A m \in Names \ {n} : d[m] = disk[m]
  <2>1. Put(disk, n, x) \in Disk /\ \A m \in Names \ {n} : Put(disk, n, x)[m] = disk[m]
    BY <1>2, DiskReplaced
  <2>2. QED
    BY <1>3, <2>1 DEF Put
<1>5. a \in Call(DiskType(n) = "none" /\ HasDirectory(n), d)
  BY <1>1, <1>3 DEF mkdir
<1>6. \/ DiskType(n) = "none" /\ a.disk = d /\ a.fault = 0
      \/ a.disk = disk /\ a.fault \in {0, 1}
  BY <1>5, CallAnswers
<1>7. QED
  BY <1>4, <1>6 DEF OnlyChanges

\* unlink and rmdir remove what there is.
LEMMA RemovalGood ==
  ASSUME disk \in Disk, NEW n \in Names
  PROVE  /\ \A a \in unlink(n) : /\ a.disk \in Disk /\ a.fault \in {0, 1} /\ NoNewDir(a.disk)
                                 /\ OnlyChanges(a.disk, {m \in {n} : DiskType(n) = "file"})
         /\ \A a \in rmdir(n) : /\ a.disk \in Disk /\ a.fault \in {0, 1}
                                /\ OnlyChanges(a.disk, {m \in {n} : DiskType(n) = "dir"})
<1>1. PICK d : d = [disk EXCEPT ![n] = Absent]
  OBVIOUS
<1>2. d \in Disk /\ d[n] = Absent /\ \A m \in Names \ {n} : d[m] = disk[m]
  <2>1. /\ Put(disk, n, Absent) \in Disk /\ Put(disk, n, Absent)[n] = Absent
        /\ \A m \in Names \ {n} : Put(disk, n, Absent)[m] = disk[m]
    BY DiskReplaced
  <2>2. QED
    BY <1>1, <2>1 DEF Put
<1>3. ASSUME NEW a \in unlink(n)
      PROVE  /\ a.disk \in Disk /\ a.fault \in {0, 1} /\ NoNewDir(a.disk)
             /\ OnlyChanges(a.disk, {m \in {n} : DiskType(n) = "file"})
  <2>1. a \in Call(DiskType(n) = "file", d)
    BY <1>1 DEF unlink
  <2>2. \/ DiskType(n) = "file" /\ a.disk = d /\ a.fault = 0
        \/ a.disk = disk /\ a.fault \in {0, 1}
    BY <2>1, CallAnswers
  <2>3. QED
    BY <1>2, <2>2 DEF OnlyChanges, NoNewDir
<1>4. ASSUME NEW a \in rmdir(n)
      PROVE  /\ a.disk \in Disk /\ a.fault \in {0, 1}
             /\ OnlyChanges(a.disk, {m \in {n} : DiskType(n) = "dir"})
  <2>1. a \in Call(DiskType(n) = "dir" /\ IsEmptyLocally(n), d)
    BY <1>1 DEF rmdir
  <2>2. \/ DiskType(n) = "dir" /\ a.disk = d /\ a.fault = 0
        \/ a.disk = disk /\ a.fault \in {0, 1}
    BY <2>1, CallAnswers
  <2>3. QED
    BY <1>2, <2>2 DEF OnlyChanges
<1>5. QED
  BY <1>3, <1>4

\* rename moves a file, and may replace one.
LEMMA RenameGood ==
  ASSUME disk \in Disk, NEW from \in Names, NEW to \in Names, NEW a \in rename(from, to)
  PROVE  /\ a.disk \in Disk /\ a.fault \in {0, 1} /\ NoNewDir(a.disk)
         /\ OnlyChanges(a.disk, {m \in {from, to} : DiskType(m) # "dir"})
<1>1. PICK d : d = [n \in Names |-> IF n = to THEN disk[from] ELSE IF n = from THEN Absent ELSE disk[n]]
  OBVIOUS
<1>2. d \in Disk /\ \A m \in Names \ {from, to} : d[m] = disk[m]
  <2>1. \A n \in Names : disk[n] \in DiskFile \cup {Absent}
    BY DEF Disk
  <2>2. \A n \in Names : d[n] \in DiskFile \cup {Absent}
    BY <1>1, <2>1
  <2>3. QED
    BY <1>1, <2>2 DEF Disk
<1>3. PICK possible : possible = (DiskType(from) = "file" /\ DiskType(to) # "dir" /\ HasDirectory(to))
  OBVIOUS
<1>4. a \in Call(possible, d)
  BY <1>1, <1>3 DEF rename
<1>5. \/ DiskType(from) = "file" /\ DiskType(to) # "dir" /\ a.disk = d /\ a.fault = 0
      \/ a.disk = disk /\ a.fault \in {0, 1}
  BY <1>3, <1>4, CallAnswers
<1>6. DiskType(from) = "file" => NoNewDir(d)
  <2>1. from # Root
    BY ServerAssumption
  <2>2. DiskType(from) = "file" => disk[from] # Absent /\ disk[from].type = "file"
    BY <2>1 DEF DiskType
  <2>3. \A n \in Names : d[n] \in {disk[from], Absent, disk[n]}
    BY <1>1
  <2>4. ASSUME DiskType(from) = "file", NEW m \in Names, d[m] # Absent, d[m].type = "dir"
        PROVE  disk[m] # Absent /\ disk[m].type = "dir"
    <3>1. d[m] # disk[from]
      BY <2>2, <2>4
    <3>2. d[m] = disk[m]
      BY <2>3, <2>4, <3>1
    <3>3. QED
      BY <2>4, <3>2
  <2>5. QED
    BY <2>4 DEF NoNewDir
<1>7. NoNewDir(disk)
  BY DEF NoNewDir
<1>8. QED
  BY <1>2, <1>5, <1>6, <1>7 DEF OnlyChanges

\* A file's mode or time is set.
ModeSet(d, n, mode) == [d EXCEPT ![n].mode = mode]
TimeSet(d, n, time) == [d EXCEPT ![n].time = time]

\* e is the disk d, but for a file of this type at n.
StillThere(e, d, n, type) ==
  e \in Disk /\ e[n] # Absent /\ e[n].type = type /\ \A m \in Names \ {n} : e[m] = d[m]

\* Nothing else changes.
LEMMA DiskSet ==
  ASSUME NEW d \in Disk, NEW n \in Names, d[n] # Absent
  PROVE  /\ \A mode \in Modes : StillThere(ModeSet(d, n, mode), d, n, d[n].type)
         /\ \A time \in Times : StillThere(TimeSet(d, n, time), d, n, d[n].type)
<1>1. PICK x : x = d[n]
  OBVIOUS
<1>2. x \in DiskFile
  BY <1>1 DEF Disk
<1>3. ASSUME NEW mode \in Modes PROVE StillThere(ModeSet(d, n, mode), d, n, d[n].type)
  <2>1. PICK y : y = [x EXCEPT !.mode = mode]
    OBVIOUS
  <2>2. y \in DiskFile
    BY <1>2, <2>1 DEF DiskFile
  <2>3. y.type = x.type
    BY <1>2, <2>1 DEF DiskFile
  <2>4. ModeSet(d, n, mode) = Put(d, n, y)
    BY <1>1, <2>1 DEF ModeSet, Put
  <2>5. y # Absent
    BY <2>2, DiskAssumption
  <2>6. QED
    BY <1>1, <2>2, <2>3, <2>4, <2>5, DiskReplaced DEF StillThere
<1>4. ASSUME NEW time \in Times PROVE StillThere(TimeSet(d, n, time), d, n, d[n].type)
  <2>1. PICK y : y = [x EXCEPT !.time = time]
    OBVIOUS
  <2>2. y \in DiskFile
    BY <1>2, <2>1 DEF DiskFile
  <2>3. y.type = x.type
    BY <1>2, <2>1 DEF DiskFile
  <2>4. TimeSet(d, n, time) = Put(d, n, y)
    BY <1>1, <2>1 DEF TimeSet, Put
  <2>5. y # Absent
    BY <2>2, DiskAssumption
  <2>6. QED
    BY <1>1, <2>2, <2>3, <2>4, <2>5, DiskReplaced DEF StillThere
<1>5. QED
  BY <1>3, <1>4

\* chmod changes what there is.
LEMMA ChmodGood ==
  ASSUME disk \in Disk, NEW n \in Names, NEW mode \in Modes, NEW a \in chmod(n, mode)
  PROVE  /\ a.disk \in Disk /\ a.fault \in {0, 1} /\ OnlyChanges(a.disk, {n})
         /\ \/ a.disk = disk
            \/ disk[n] # Absent /\ StillThere(a.disk, disk, n, disk[n].type)
<1>1. PICK d : d = ModeSet(disk, n, mode)
  OBVIOUS
<1>2. disk[n] # Absent => StillThere(d, disk, n, disk[n].type)
  BY <1>1, DiskSet
<1>3. a \in Call(disk[n] # Absent, d)
  BY <1>1 DEF chmod, ModeSet
<1>4. \/ disk[n] # Absent /\ a.disk = d /\ a.fault = 0
      \/ a.disk = disk /\ a.fault \in {0, 1}
  BY <1>3, CallAnswers
<1>5. QED
  BY <1>2, <1>4 DEF OnlyChanges, StillThere

\* A download writes the local file, or what a broken one leaves of it.
LEMMA WrittenGood ==
  ASSUME disk \in Disk, NEW n \in Names, NEW bytes \in Bytes
  PROVE  StillThere(Written(n, bytes), disk, n, "file")
<1>1. PICK mode : mode = IF disk[n] = Absent THEN DefaultMode ELSE disk[n].mode
  OBVIOUS
<1>2. mode \in Modes
  <2>1. disk[n] # Absent => disk[n].mode \in Modes
    BY DiskFileAt
  <2>2. DefaultMode \in Modes
    BY ServerAssumption
  <2>3. QED
    BY <1>1, <2>1, <2>2
<1>3. PICK x : x = [type |-> "file", bytes |-> bytes, time |-> Now, mode |-> mode]
  OBVIOUS
<1>4. x \in DiskFile
  BY <1>2, <1>3, CopyAssumption DEF DiskFile
<1>5. Written(n, bytes) = Put(disk, n, x)
  BY <1>1, <1>3 DEF Written, Put
<1>6. x # Absent /\ x.type = "file"
  BY <1>3, <1>4, DiskAssumption
<1>7. QED
  BY <1>4, <1>5, <1>6, DiskReplaced DEF StillThere

\* It does so only when the local file can be opened.
LEMMA DownloadGood ==
  ASSUME disk \in Disk, server \in Tree, ServerGood, NEW n \in Names, NEW a \in file_download(n)
  PROVE  /\ a.fault \in {0, 1}
         /\ a.ok => a.fault = 0 /\ StillThere(a.disk, disk, n, "file")
         /\ a.disk \in Disk
         /\ OnlyChanges(a.disk, {m \in {n} : DiskType(n) # "dir"})
         /\ a.disk = disk \/ StillThere(a.disk, disk, n, "file")
<1>1. PICK m \in Names : m = RemoteName[n]
  BY ServerAssumption
<1>2. TypeAt(server, <<m, "real">>) = "file" => At(m).content \in Bytes
  BY DEF TypeAt, At, ServerGood
<1>3. Part \in Bytes
  BY CopyAssumption
<1>4. StillThere(Written(n, Part), disk, n, "file")
  BY <1>3, WrittenGood
<1>5. PICK openable : openable = (DiskType(n) # "dir" /\ HasDirectory(n))
  OBVIOUS
<1>6. ~Refused.ok /\ Refused.disk = disk /\ Refused.fault = 1
  BY DEF Refused
<1>7. ~Impossible.ok /\ Impossible.disk = disk /\ Impossible.fault = 0
  BY DEF Impossible
<1>8. CASE a = Refused \/ a = Impossible
  BY <1>6, <1>7, <1>8 DEF OnlyChanges
<1>9. CASE openable /\ (a = [ok |-> FALSE, disk |-> Written(n, Part), fault |-> 0]
                        \/ a = [ok |-> FALSE, disk |-> Written(n, Part), fault |-> 1])
  <2>1. ~a.ok /\ a.disk = Written(n, Part) /\ a.fault \in {0, 1}
    BY <1>9
  <2>2. QED
    BY <1>4, <1>5, <1>9, <2>1 DEF OnlyChanges, StillThere
<1>10. CASE openable /\ TypeAt(server, <<m, "real">>) = "file" /\ a = Done(Written(n, At(m).content))
  <2>1. a.disk = Written(n, At(m).content) /\ a.fault = 0
    BY <1>10 DEF Done
  <2>2. StillThere(a.disk, disk, n, "file")
    BY <1>2, <1>10, <2>1, WrittenGood
  <2>3. QED
    BY <1>5, <1>10, <2>1, <2>2 DEF OnlyChanges, StillThere
<1>11. \/ a = Impossible
       \/ openable /\ a \in {[ok |-> FALSE, disk |-> Written(n, Part), fault |-> 0], Refused}
       \/ openable /\ TypeAt(server, <<m, "real">>) = "file"
          /\ a \in {Done(Written(n, At(m).content)), Refused,
                    [ok |-> FALSE, disk |-> Written(n, Part), fault |-> 1]}
  <2>1. CASE opt.protocol = "rsh" \/ ~openable
    BY <1>1, <1>5, <2>1 DEF file_download
  <2>2. CASE opt.protocol # "rsh" /\ openable /\ TypeAt(server, <<m, "real">>) # "file"
    BY <1>1, <1>5, <2>2 DEF file_download
  <2>3. CASE opt.protocol # "rsh" /\ openable /\ TypeAt(server, <<m, "real">>) = "file"
    BY <1>1, <1>5, <2>3 DEF file_download, At
  <2>4. QED
    BY <2>1, <2>2, <2>3
<1>12. QED
  BY <1>8, <1>9, <1>10, <1>11

\* What a stored state of a file says of the time.
LEMMA StoredTime ==
  ASSUME NEW f, <<"stored", "file", Stored(f)>> \in Good(opt), timesize
  PROVE  Stored(f).content[1] \in Times
<1>1. Stored(f).content \in Held(opt, Whole)
  BY GoodHas
<1>2. QED
  BY <1>1 DEF Held, timesize

\* utime and chmod after a download.
LEMMA TouchedGood ==
  ASSUME NEW f, <<"stored", "file", Stored(f)>> \in Good(opt), NEW d \in Disk, NEW n \in Names,
         n = Stored(f).filename, d[n] # Absent, d[n].type = "file"
  PROVE  /\ \A t \in Touched(d, f) : t.fault \in {0, 1} /\ StillThere(t.disk, d, n, "file")
         /\ \A c \in Chmodded(d, f) : c.fault \in {0, 1} /\ StillThere(c.disk, d, n, "file")
<1>1. Stored(f) \in FileState
  BY GoodHas
<1>2. Stored(f).mode \in Modes
  BY <1>1 DEF FileState
<1>3. StillThere(d, d, n, "file")
  BY DEF StillThere
<1>4. ASSUME NEW t \in Touched(d, f) PROVE t.fault \in {0, 1} /\ StillThere(t.disk, d, n, "file")
  <2>1. CASE t = [disk |-> d, fault |-> 1] \/ t = [disk |-> d, fault |-> 0]
    <3>1. t.disk = d /\ t.fault \in {0, 1}
      BY <2>1
    <3>2. QED
      BY <1>3, <3>1
  <2>2. CASE timesize /\ t = [disk |-> TimeSet(d, n, Stored(f).content[1]), fault |-> 0]
    <3>1. t.disk = TimeSet(d, n, Stored(f).content[1]) /\ t.fault = 0
      BY <2>2
    <3>2. Stored(f).content[1] \in Times
      BY <2>2, StoredTime
    <3>3. QED
      BY <3>1, <3>2, DiskSet
  <2>3. QED
    BY <2>1, <2>2 DEF Touched, TimeSet
<1>5. ASSUME NEW c \in Chmodded(d, f) PROVE c.fault \in {0, 1} /\ StillThere(c.disk, d, n, "file")
  <2>1. CASE c = [disk |-> d, fault |-> 1] \/ c = [disk |-> d, fault |-> 0]
    <3>1. c.disk = d /\ c.fault \in {0, 1}
      BY <2>1
    <3>2. QED
      BY <1>3, <3>1
  <2>2. CASE c = [disk |-> ModeSet(d, n, Stored(f).mode), fault |-> 0]
    <3>1. c.disk = ModeSet(d, n, Stored(f).mode) /\ c.fault = 0
      BY <2>2
    <3>2. QED
      BY <1>2, <3>1, DiskSet
  <2>3. QED
    BY <2>1, <2>2 DEF Chmodded, ModeSet
<1>6. QED
  BY <1>4, <1>5

\* The entry that a loop has come to.
LEMMA CurrentEntry ==
  ASSUME site \in Site, current # 0
  PROVE  /\ current \in DOMAIN files /\ handles(loop, files[current])
         /\ loop # "delete_directories" => current >= next
<1>1. files \in Seq(Entry)
  BY DEF Site, files
<1>2. PICK n \in Nat : n = Len(files) /\ DOMAIN files = 1 .. n
  BY <1>1
<1>3. PICK rest : rest = {i \in DOMAIN files :
                 /\ handles(loop, files[i])
                 /\ IF loop = "delete_directories" THEN i =< next ELSE i >= next}
  OBVIOUS
<1>4. current = IF rest = {} THEN 0 ELSE IF loop = "delete_directories" THEN Max(rest) ELSE Min(rest)
  BY <1>3 DEF current
<1>5. rest \in SUBSET (1 .. n) /\ rest # {}
  BY <1>2, <1>3, <1>4
<1>6. Max(rest) \in rest /\ Min(rest) \in rest
  BY <1>2, <1>5, MaxInSet, MinInSet
<1>7. current \in rest
  BY <1>4, <1>5, <1>6
<1>8. QED
  BY <1>3, <1>7

-----------------------------------------------------------------------------
(* The inductive invariant                                                 *)

ListInv   == ListGood(site)
ServerInv == server \in Tree /\ ServerGood
FetchInv  == /\ dirstack \in Seq(Names \cup {Root}) /\ Len(dirstack) =< DirStackSize
             /\ found \in Seq(FoundFile) /\ DueOn(due, found)
InfoInv   == info.status \in {"valid", "missing", "corrupt"} /\ info.items \in Seq(Item) /\ ItemsIn(info.items, Good(opt))

\* Where the program is, and what that says of the session and of the loops.
ControlInv ==
  /\ faults \in 0 .. MaxFaults /\ session \in {"none", "open"} /\ ret \in {0, 1}
  /\ loop \in Loops \cup {"none"} /\ next \in Nat
  /\ pc \in Pcs /\ edits \in 0 .. MaxEdits /\ fresh \in BOOLEAN
  /\ session = "open" => pc \in {"fetching", "synching"}
  /\ loop # "none" => pc = "synching"

CopyInv ==
  ListInv /\ disk \in Disk /\ ServerInv /\ FetchInv /\ InfoInv /\ ControlInv

\* A list that is good has its type, and options of the site.
LEMMA GoodListType ==
  ASSUME NEW s, ListGood(s)
  PROVE  s \in Site /\ SiteOK(s) /\ Exact(s) /\ s.files \in Seq(Entry) /\ s.opt \in Options
         /\ StatesAmong(s.files, Good(s.opt))
BY DEF ListGood, Exact, SiteOK, Site

\* The empty list is good.
LEMMA EmptyListGood ==
  ASSUME NEW o \in Options
  PROVE  ListGood(EmptySite(o)) /\ EmptySite(o).opt = o
<1>1. PICK s : s = EmptySite(o)
  OBVIOUS
<1>2. Exact(s) /\ s.opt = o /\ s.files = << >>
  BY <1>1, EmptySiteExact DEF EmptySite
<1>3. QED
  BY <1>1, <1>2 DEF ListGood, StatesAmong

\* Nothing is asked about an empty list.
LEMMA NothingDue ==
  DueOn(<< >>, << >>)
BY DEF DueOn

\* What does not change stays as it is.
LEMMA Frames ==
  ASSUME CopyInv
  PROVE  /\ UNCHANGED site => ListInv'
         /\ UNCHANGED disk => disk' \in Disk
         /\ UNCHANGED server => ServerInv'
         /\ UNCHANGED fetchVars => FetchInv'
         /\ UNCHANGED <<info, opt>> => InfoInv'
         /\ UNCHANGED site => UNCHANGED opt
<1>1. UNCHANGED site => ListInv'
  BY DEF CopyInv, ListInv
<1>2. UNCHANGED server => ServerInv'
  BY DEF CopyInv, ServerInv, ServerGood, At
<1>3. UNCHANGED fetchVars => FetchInv'
  BY DEF CopyInv, FetchInv, fetchVars
<1>4. UNCHANGED <<info, opt>> => InfoInv'
  BY DEF CopyInv, InfoInv
<1>5. QED
  BY <1>1, <1>2, <1>3, <1>4 DEF CopyInv, opt

\* The program has not begun.
LEMMA InitCopy ==
  ASSUME Init
  PROVE  CopyInv
<1>1. PICK o \in Options : site = EmptySite(o)
  BY DEF Init
<1>2. ListInv
  BY <1>1, EmptyListGood DEF ListInv
<1>3. disk \in Disk
  BY WorldAssumption DEF Init
<1>4. ServerInv
  <2>1. server \in FirstServers
    BY DEF Init
  <2>2. server \in Tree /\ \A p \in Places : TypeAt(server, p) = "file" => server[p].content \in Bytes \ {Part}
    BY <2>1, WorldAssumption
  <2>3. \A n \in Names : <<n, "real">> \in Places
    BY DEF Places
  <2>4. QED
    BY <2>2, <2>3 DEF ServerInv, ServerGood, At, TypeAt
<1>5. FetchInv
  BY FetchAssumption, NothingDue DEF Init, FetchInv
<1>6. InfoInv
  BY DEF Init, InfoInv, ItemsIn
<1>7. ControlInv
  <2>1. /\ faults = 0 /\ session = "none" /\ ret = 0 /\ loop = "none" /\ next = 1
        /\ pc = "idle" /\ edits = 0 /\ fresh = FALSE
    BY DEF Init
  <2>2. MaxFaults \in Nat /\ MaxEdits \in Nat
    BY CopyAssumption, WorldAssumption
  <2>3. 0 \in 0 .. MaxFaults /\ 0 \in 0 .. MaxEdits
    BY <2>2
  <2>4. QED
    BY <2>1, <2>3 DEF ControlInv, Pcs
<1>8. QED
  BY <1>2, <1>3, <1>4, <1>5, <1>6, <1>7 DEF CopyInv

\* The user changes a file.
LEMMA EditCopy ==
  ASSUME EveryTime, CopyInv, Edit
  PROVE  CopyInv'
<1>1. PICK n \in Names :
        \/ /\ DiskType(n) # "dir" /\ HasDirectory(n)
           /\ \E v \in Versions :
                disk' = [disk EXCEPT ![n] =
                           [type |-> "file", bytes |-> v[1], mode |-> v[2], time |-> EditTime]]
        \/ \E a \in unlink(n) \cup rmdir(n) : a.ok /\ disk' = a.disk
        \/ \E m \in Names : disk[m] = Absent /\ \E a \in rename(n, m) : a.ok /\ disk' = a.disk
  BY Zenon DEF Edit
<1>2. disk \in Disk
  BY DEF CopyInv
<1>3. edits \in Nat /\ MaxEdits \in Nat /\ edits < MaxEdits /\ edits' = edits + 1
  BY WorldAssumption DEF CopyInv, ControlInv, Edit
<1>4. disk' \in Disk
  <2>1. CASE \E v \in Versions :
                disk' = [disk EXCEPT ![n] = [type |-> "file", bytes |-> v[1], mode |-> v[2], time |-> EditTime]]
    <3>1. PICK v \in Versions :
            disk' = [disk EXCEPT ![n] = [type |-> "file", bytes |-> v[1], mode |-> v[2], time |-> EditTime]]
      BY <2>1
    <3>2. v[1] \in Bytes /\ v[2] \in Modes
      BY WorldAssumption
    <3>3. EditTime \in Times
      BY <1>3 DEF EditTime, EveryTime
    <3>4. PICK x : x = [type |-> "file", bytes |-> v[1], mode |-> v[2], time |-> EditTime]
      OBVIOUS
    <3>5. x \in DiskFile
      BY <3>2, <3>3, <3>4 DEF DiskFile
    <3>6. disk' = Put(disk, n, x)
      BY <3>1, <3>4 DEF Put
    <3>7. QED
      BY <1>2, <3>5, <3>6, DiskReplaced
  <2>2. CASE \E a \in unlink(n) \cup rmdir(n) : a.ok /\ disk' = a.disk
    BY <1>2, <2>2, RemovalGood
  <2>3. CASE \E m \in Names : disk[m] = Absent /\ \E a \in rename(n, m) : a.ok /\ disk' = a.disk
    BY <1>2, <2>3, RenameGood
  <2>4. QED
    BY <1>1, <2>1, <2>2, <2>3
<1>5. UNCHANGED <<site, server, fetchVars, info>>
  BY DEF Edit
<1>6. ControlInv'
  <2>1. edits' \in 0 .. MaxEdits
    BY <1>3
  <2>2. QED
    BY <2>1 DEF Edit, CopyInv, ControlInv, synchVars
<1>7. QED
  BY <1>4, <1>5, <1>6, Frames DEF CopyInv

\* Somebody changes a file on the server.
LEMMA PublishCopy ==
  ASSUME CopyInv, Publish
  PROVE  CopyInv'
<1>1. PICK n \in Names :
        LET place == <<n, "real">>
        IN  \/ /\ TypeAt(server, place) # "dir" /\ DirectoryExists(server, place)
               /\ \E v \in Versions :
                    server' = [server EXCEPT ![place] =
                       [type |-> "file", content |-> v[1], mode |-> v[2], time |-> EditTime]]
            \/ /\ server[place] # Absent /\ IsEmptyDir(server, place)
               /\ server' = [server EXCEPT ![place] = Absent]
  BY Zenon DEF Publish
<1>2. server \in Tree /\ ServerGood
  BY DEF CopyInv, ServerInv
<1>3. edits \in Nat /\ MaxEdits \in Nat /\ edits < MaxEdits /\ edits' = edits + 1
  BY WorldAssumption DEF CopyInv, ControlInv, Publish
<1>4. PICK place \in Places : place = <<n, "real">>
  BY DEF Places
<1>5. ASSUME NEW x \in RemoteFile \cup {Absent}, server' = [server EXCEPT ![place] = x],
             x # Absent => x.type = "file" /\ x.content \in Bytes \ {Part}
      PROVE  ServerInv'
  <2>1. server' \in Tree
    BY <1>2, <1>5 DEF Tree
  <2>2. \A m \in Names : server'[<<m, "real">>] = IF m = n THEN x ELSE server[<<m, "real">>]
    BY <1>2, <1>4, <1>5 DEF Tree, Places
  <2>3. QED
    BY <1>2, <1>5, <2>1, <2>2 DEF ServerInv, ServerGood, At
<1>6. ServerInv'
  <2>1. CASE \E v \in Versions :
                server' = [server EXCEPT ![place] =
                             [type |-> "file", content |-> v[1], mode |-> v[2], time |-> EditTime]]
    <3>1. PICK v \in Versions :
            server' = [server EXCEPT ![place] =
                         [type |-> "file", content |-> v[1], mode |-> v[2], time |-> EditTime]]
      BY <2>1
    <3>2. v[1] \in Bytes \ {Part} /\ v[2] \in Modes
      BY WorldAssumption
    <3>3. EditTime \in Nat
      BY <1>3 DEF EditTime
    <3>4. PICK x : x = [type |-> "file", content |-> v[1], mode |-> v[2], time |-> EditTime]
      OBVIOUS
    <3>5. x \in RemoteFile /\ x.type = "file" /\ x.content \in Bytes \ {Part}
      BY <3>2, <3>3, <3>4, CopyAssumption DEF RemoteFile
    <3>6. QED
      BY <1>5, <3>1, <3>4, <3>5
  <2>2. CASE server' = [server EXCEPT ![place] = Absent]
    BY <1>5, <2>2
  <2>3. QED
    BY <1>1, <1>4, <2>1, <2>2
<1>7. UNCHANGED <<site, disk, fetchVars, info>>
  BY DEF Publish
<1>8. ControlInv'
  <2>1. edits' \in 0 .. MaxEdits
    BY <1>3
  <2>2. QED
    BY <2>1 DEF Publish, CopyInv, ControlInv, synchVars
<1>9. QED
  BY <1>6, <1>7, <1>8, Frames DEF CopyInv

-----------------------------------------------------------------------------
(* A command is read and ends, and a fetch                                 *)

\* The list that verify_sites reads is good.
LEMMA ReadSiteGood ==
  ASSUME CopyInv, NEW command, ReadSite(command)
  PROVE  ListInv' /\ UNCHANGED opt
<1>1. PICK order \in Orders :
        site' = site_read_stored_state(
                  IF command = "verify" THEN EmptySite(opt)
                  ELSE site_read_local_state(EmptySite(opt), order), info)
  BY Zenon DEF ReadSite
<1>2. PICK s : s = IF command = "verify" THEN EmptySite(opt) ELSE site_read_local_state(EmptySite(opt), order)
  OBVIOUS
<1>3. opt \in Options
  BY GoodListType DEF CopyInv, ListInv, opt
<1>4. Exact(s) /\ s.opt = opt /\ StatesAmong(s.files, Good(opt))
  <2>1. CASE command = "verify"
    BY <1>2, <1>3, <2>1, EmptyListGood DEF ListGood
  <2>2. CASE command # "verify"
    <3>1. \A n \in Names \ Excluded : disk[n] # Absent => <<"local", disk[n].type, local_state(n)>> \in Good(opt)
      BY LocalStateGood DEF CopyInv
    <3>2. QED
      BY <1>2, <1>3, <2>2, <3>1, LocalReadStates DEF CopyInv
  <2>3. QED
    BY <2>1, <2>2
<1>5. info.items \in Seq(Item) /\ ItemsIn(info.items, Good(opt))
  BY DEF CopyInv, InfoInv
<1>6. site' = site_read_stored_state(s, info)
  BY <1>1, <1>2
<1>7. Exact(site') /\ site'.opt = opt /\ StatesAmong(site'.files, Good(opt))
  BY <1>4, <1>5, <1>6, StoredStateRead
<1>8. QED
  BY <1>7 DEF ListInv, ListGood, opt

\* A command is read.
LEMMA ReadCopy ==
  ASSUME CopyInv, NEW command \in {"fetch", "synch", "verify"}, ReadSite(command), fresh' \in BOOLEAN
  PROVE  CopyInv'
<1>1. ListInv' /\ UNCHANGED opt
  BY ReadSiteGood
<1>2. UNCHANGED <<disk, server, fetchVars, info>>
  BY DEF ReadSite
<1>3. ControlInv'
  <2>1. pc = "idle" /\ pc' = command /\ ret' = 0 /\ UNCHANGED <<faults, session, loop, next, edits>>
    BY DEF ReadSite, Reads, synchVars
  <2>2. QED
    BY <2>1 DEF CopyInv, ControlInv, Pcs
<1>4. QED
  BY <1>1, <1>2, <1>3, Frames DEF CopyInv

\* The program ends.
LEMMA EndsGood ==
  ASSUME CopyInv, Ends
  PROVE  ListInv' /\ UNCHANGED opt
<1>1. opt \in Options
  BY GoodListType DEF CopyInv, ListInv, opt
<1>2. ListGood(site') /\ site'.opt = opt
  BY <1>1, EmptyListGood DEF Ends
<1>3. QED
  BY <1>2 DEF ListInv, opt

\* site_fetch begins.
LEMMA BeginFetchCopy ==
  ASSUME CopyInv, BeginFetch
  PROVE  CopyInv'
<1>1. UNCHANGED <<site, disk, server, info>>
  BY DEF BeginFetch, StartFetch
<1>2. FetchInv'
  <2>1. dirstack' \in {<<Root>>, << >>} /\ found' = << >> /\ due' = << >>
    BY DEF BeginFetch, StartFetch
  <2>2. Len(<<Root>>) = 1 /\ Len(<< >>) = 0 /\ <<Root>> \in Seq(Names \cup {Root})
    OBVIOUS
  <2>3. dirstack' \in Seq(Names \cup {Root}) /\ Len(dirstack') \in {0, 1} /\ found' \in Seq(FoundFile)
    <3>1. dirstack' = <<Root>> => Len(dirstack') = 1 /\ dirstack' \in Seq(Names \cup {Root})
      BY <2>2
    <3>2. dirstack' = << >> => Len(dirstack') = 0 /\ dirstack' \in Seq(Names \cup {Root})
      BY <2>2
    <3>3. found' \in Seq(FoundFile)
      BY <2>1
    <3>4. QED
      BY <2>1, <3>1, <3>2, <3>3
  <2>4. \A n \in Nat \ {0} : 0 =< n /\ 1 =< n
    OBVIOUS
  <2>5. QED
    BY <2>1, <2>3, <2>4, FetchAssumption, NothingDue DEF FetchInv
<1>3. ControlInv'
  <2>1. /\ pc = "fetch" /\ UNCHANGED <<loop, next, edits, fresh>>
        /\ pc' = IF session' = "open" THEN "fetching" ELSE "fetched"
    BY DEF BeginFetch, synchVars
  <2>2. faults \in Nat /\ MaxFaults \in Nat /\ faults =< MaxFaults
    BY CopyAssumption DEF CopyInv, ControlInv
  <2>3. faults' \in 0 .. MaxFaults /\ session' \in {"none", "open"} /\ ret' \in {0, 1}
    BY <2>2 DEF BeginFetch, StartFetch
  <2>4. QED
    BY <2>1, <2>3 DEF CopyInv, ControlInv, Pcs
<1>4. QED
  BY <1>1, <1>2, <1>3, Frames DEF CopyInv

\* site_fetch lists one directory more.
LEMMA ListCopy ==
  ASSUME CopyInv, ListNext
  PROVE  CopyInv'
<1>1. PICK l \in fetch_list(Last(dirstack)) :
        /\ faults' = faults + l.fault /\ faults' =< MaxFaults
        /\ IF l.failed
           THEN ret' = 1 /\ UNCHANGED fetchVars
           ELSE /\ dirstack' = FoldLeft(pushed, Front(dirstack), l.list)
                /\ found' = joined(l.list, found)
                /\ due' = requests(l.list)
                /\ UNCHANGED ret
  BY Zenon DEF ListNext, ListDirectory
<1>2. /\ server \in Tree /\ ServerGood /\ dirstack \in Seq(Names \cup {Root}) /\ dirstack # << >>
      /\ Len(dirstack) =< DirStackSize /\ found \in Seq(FoundFile)
  BY DEF CopyInv, ServerInv, FetchInv, ListNext, ListDirectory
<1>3. UNCHANGED <<site, disk, server, info, session, loop, next, pc, edits, fresh>> /\ pc = "fetching"
  BY DEF ListNext, ListDirectory, synchVars, worldVars
<1>4. FetchInv'
  <2>1. CASE l.failed
    BY <1>1, <2>1, Frames
  <2>2. CASE ~l.failed
    <3>1. dirstack' = PushedAll(Front(dirstack), l.list)
      BY <1>1, <2>2 DEF PushedAll
    <3>2. found' = joined(l.list, found) /\ due' = requests(l.list)
      BY <1>1, <2>2
    <3>3. QED
      BY <1>2, <3>1, <3>2, DirectoryListed DEF FetchInv
  <2>3. QED
    BY <2>1, <2>2
<1>5. ControlInv'
  <2>1. l.fault \in Nat
    BY <1>2, FetchListGood
  <2>3. faults \in Nat /\ MaxFaults \in Nat
    BY CopyAssumption DEF CopyInv, ControlInv
  <2>4. faults' \in 0 .. MaxFaults
    BY <1>1, <2>1, <2>3
  <2>5. ret' \in {0, 1}
    BY <1>1 DEF CopyInv, ControlInv
  <2>6. QED
    BY <1>3, <2>4, <2>5 DEF CopyInv, ControlInv
<1>6. QED
  BY <1>3, <1>4, <1>5, Frames DEF CopyInv

\* What an answer leaves in the list.
LEMMA AnswerKept ==
  ASSUME CopyInv, AskNext
  PROVE  /\ found' \in Seq(FoundFile) /\ DOMAIN found' = DOMAIN found
         /\ \A k \in DOMAIN found : found'[k].name = found[k].name /\ found'[k].type = found[k].type
<1>1. /\ server \in Tree /\ ServerGood /\ found \in Seq(FoundFile) /\ DueOn(due, found) /\ due # << >>
  BY DEF CopyInv, ServerInv, FetchInv, AskNext, AskFile
<1>2. PICK ask : ask = Head(due)
  OBVIOUS
<1>3. ask \in Request /\ ask.at \in DOMAIN found /\ found[ask.at].type = "file"
  <2>1. due \in Seq(Request)
    BY <1>1 DEF DueOn
  <2>2. 1 \in DOMAIN due /\ ask = due[1]
    BY <1>1, <1>2, <2>1
  <2>3. QED
    BY <1>1, <2>1, <2>2 DEF DueOn
<1>4. PICK f \in FoundFile : f = found[ask.at]
  BY <1>1, <1>3
<1>5. PICK g : /\ found' = [found EXCEPT ![ask.at] = g]
               /\ g = f \/ (TypeAt(server, <<f.name, "real">>) = "file" /\ g = told(f, ask.about))
  BY <1>2, <1>4 DEF AskNext, AskFile
<1>6. ask.about \in {"time", "sum"}
  BY <1>3 DEF Request
<1>7. g \in FoundFile /\ g.name = f.name /\ g.type = f.type
  <2>1. f.type = "file"
    BY <1>3, <1>4
  <2>2. CASE g = f
    BY <1>4, <2>2
  <2>3. CASE TypeAt(server, <<f.name, "real">>) = "file" /\ g = told(f, ask.about)
    <3>1. PICK about : about = ask.about
      OBVIOUS
    <3>2. /\ told(f, about) \in FoundFile /\ told(f, about).name = f.name
          /\ told(f, about).type = f.type
      BY <1>1, <1>4, <1>6, <2>1, <2>3, <3>1, ToldGood
    <3>3. QED
      BY <2>3, <3>1, <3>2
  <2>4. QED
    BY <1>5, <2>2, <2>3
<1>8. DOMAIN found' = DOMAIN found /\ \A k \in DOMAIN found : found'[k] = IF k = ask.at THEN g ELSE found[k]
  BY <1>1, <1>3, <1>5
<1>9. \A k \in DOMAIN found : found'[k] \in FoundFile
  BY <1>1, <1>7, <1>8
<1>10. found' \in Seq(FoundFile)
  <2>1. PICK n \in Nat : n = Len(found) /\ DOMAIN found = 1 .. n
    BY <1>1
  <2>2. PICK r : r = [found EXCEPT ![ask.at] = g]
    OBVIOUS
  <2>3. r = [k \in 1 .. n |-> r[k]] /\ \A k \in 1 .. n : r[k] \in FoundFile
    BY <1>5, <1>9, <2>1, <2>2
  <2>4. r \in Seq(FoundFile)
    BY <2>1, <2>3
  <2>5. QED
    BY <1>5, <2>2, <2>4
<1>11. QED
  BY <1>4, <1>7, <1>8, <1>10

\* One file is asked about.
LEMMA AskCopy ==
  ASSUME CopyInv, AskNext
  PROVE  CopyInv'
<1>1. UNCHANGED <<site, disk, server, info, session, loop, next, pc, edits, fresh, dirstack>> /\ pc = "fetching"
  BY DEF AskNext, AskFile, synchVars, worldVars
<1>2. FetchInv'
  <2>1. DueOn(due, found) /\ due # << >> /\ due' = Tail(due)
    BY DEF CopyInv, FetchInv, AskNext, AskFile
  <2>2. due \in Seq(Request)
    BY <2>1 DEF DueOn
  <2>3. due' \in Seq(Request) /\ \A k \in DOMAIN due' : k + 1 \in DOMAIN due /\ due'[k] = due[k + 1]
    BY <2>1, <2>2
  <2>4. DueOn(due', found')
    <3>1. PICK q, fs : q = due' /\ fs = found'
      OBVIOUS
    <3>2. DOMAIN fs = DOMAIN found /\ \A k \in DOMAIN found : fs[k].type = found[k].type
      BY <3>1, AnswerKept
    <3>3. ASSUME NEW k \in DOMAIN q PROVE q[k].at \in DOMAIN fs /\ fs[q[k].at].type = "file"
      <4>1. k + 1 \in DOMAIN due /\ q[k] = due[k + 1]
        BY <2>3, <3>1, <3>3
      <4>2. due[k + 1].at \in DOMAIN found /\ found[due[k + 1].at].type = "file"
        BY <2>1, <4>1 DEF DueOn
      <4>3. QED
        BY <3>2, <4>1, <4>2
    <3>4. DueOn(q, fs)
      BY <2>3, <3>1, <3>3 DEF DueOn
    <3>5. QED
      BY <3>1, <3>4
  <2>5. QED
    BY <1>1, <2>4, AnswerKept DEF CopyInv, FetchInv
<1>3. ControlInv'
  <2>1. faults \in Nat /\ MaxFaults \in Nat
    BY CopyAssumption DEF CopyInv, ControlInv
  <2>2. PICK x \in {0, 1} : faults' = faults + x /\ faults' =< MaxFaults
    BY DEF AskNext, AskFile
  <2>3. faults' \in 0 .. MaxFaults
    BY <2>1, <2>2
  <2>4. ret' \in {0, 1}
    BY DEF AskNext, AskFile
  <2>5. QED
    BY <1>1, <2>3, <2>4 DEF CopyInv, ControlInv
<1>4. QED
  BY <1>1, <1>2, <1>3, Frames DEF CopyInv

\* The files that FetchDone adds.
ToAdd == OnlyIn(found, {f \in ToSet(found) : f.name \notin Excluded})

\* They are files that were found, and have names of their own if the fetch has
\* found every name once.
LEMMA ToAddGood ==
  ASSUME CopyInv
  PROVE  /\ ToAdd \in Seq({f \in FoundFile : f.name \notin Excluded})
         /\ WalkedSoFar(dirstack, found) =>
              \A i, j \in DOMAIN ToAdd : ToAdd[i].name = ToAdd[j].name => i = j
<1> DEFINE T == {f \in ToSet(found) : f.name \notin Excluded}
<1>1. FoundFile \cap T \subseteq {f \in FoundFile : f.name \notin Excluded} /\ OnlyIn(found, T) = ToAdd
  BY DEF ToAdd
<1> HIDE DEF T
<1>2. found \in Seq(FoundFile)
  BY DEF CopyInv, FetchInv
<1>3. PICK r : r = OnlyIn(found, T)
  OBVIOUS
<1>4. r = ToAdd
  BY <1>1, <1>3
<1>5. r \in Seq(FoundFile \cap T) /\ \E g : Drawn(r, found, Len(found), g)
  BY <1>2, <1>3, OnlyInDraws
<1>6. r \in Seq({f \in FoundFile : f.name \notin Excluded})
  BY <1>1, <1>5
<1>7. ASSUME WalkedSoFar(dirstack, found), NEW i \in DOMAIN r, NEW j \in DOMAIN r, r[i].name = r[j].name
      PROVE  i = j
  <2>1. PICK g : Drawn(r, found, Len(found), g)
    BY <1>5
  <2>2. /\ g[i] \in DOMAIN found /\ g[j] \in DOMAIN found
        /\ r[i] = found[g[i]] /\ r[j] = found[g[j]] /\ (g[i] = g[j] => i = j)
    BY <1>2, <1>7, <2>1 DEF Drawn
  <2>3. g[i] = g[j]
    BY <1>7, <2>2 DEF WalkedSoFar
  <2>4. QED
    BY <2>2, <2>3
<1>8. QED
  BY <1>4, <1>6, <1>7

\* The list after a fetch that succeeds.
Fetched == AddedAll(site_destroy_stored(site), ToAdd)

\* It is good, and has its names apart if the one before had and the fetch has
\* found every name once.
LEMMA FetchedGood ==
  ASSUME EveryTime, CopyInv
  PROVE  /\ ListGood(Fetched) /\ Fetched.opt = opt
         /\ ~opt.checkmoved /\ Keyed(files) /\ WalkedSoFar(dirstack, found) => Keyed(Fetched.files)
<1>1. Exact(site) /\ StatesAmong(site.files, Good(opt))
  BY DEF CopyInv, ListInv, ListGood, opt
<1>2. PICK s : s = site_destroy_stored(site)
  OBVIOUS
<1>3. /\ Exact(s) /\ s.opt = opt /\ StatesAmong(s.files, Good(opt))
      /\ \A j \in DOMAIN s.files : Stored(s.files[j]) = Absent
      /\ Keyed(files) => Keyed(s.files)
  BY <1>1, <1>2, StoredDestroyed DEF opt, files
<1>4. ListGood(s)
  BY <1>3 DEF ListGood
<1>5. PICK q : q = ToAdd
  OBVIOUS
<1>6. q \in Seq({f \in FoundFile : f.name \notin Excluded})
  BY <1>5, ToAddGood
<1>7. Fetched = AddedAll(s, q)
  BY <1>2, <1>5 DEF Fetched
<1>8. QED
  BY <1>3, <1>4, <1>5, <1>6, <1>7, FoundAdded, ToAddGood

\* What FetchDone makes of the list.
LEMMA FetchDoneSite ==
  ASSUME FetchDone
  PROVE  site' = IF ret = 1 THEN site ELSE Fetched
BY Zenon DEF FetchDone, Fetched, AddedAll, ToAdd

\* site_fetch returns.
LEMMA FetchReturnsCopy ==
  ASSUME EveryTime, CopyInv, FetchReturns
  PROVE  CopyInv'
<1>1. ListInv' /\ UNCHANGED opt
  <2>1. site' = IF ret = 1 THEN site ELSE Fetched
    BY FetchDoneSite DEF FetchReturns
  <2>2. QED
    BY <2>1, Frames, FetchedGood DEF ListInv, opt
<1>2. UNCHANGED <<disk, server, info>> /\ dirstack' = << >> /\ found' = << >> /\ due' = << >>
  BY DEF FetchReturns, FetchDone
<1>3. FetchInv'
  <2>1. Len(<< >>) = 0 /\ << >> \in Seq(Names \cup {Root}) /\ << >> \in Seq(FoundFile)
    OBVIOUS
  <2>2. \A n \in Nat \ {0} : 0 =< n
    OBVIOUS
  <2>3. QED
    BY <1>2, <2>1, <2>2, FetchAssumption, NothingDue DEF FetchInv
<1>4. ControlInv'
  <2>1. /\ pc = "fetching" /\ pc' = "fetched" /\ session' = "none"
        /\ UNCHANGED <<faults, ret, loop, next, edits, fresh>>
    BY DEF FetchReturns, FetchDone, proto_finish, synchVars
  <2>2. QED
    BY <2>1 DEF CopyInv, ControlInv, Pcs
<1>5. QED
  BY <1>1, <1>2, <1>3, <1>4, Frames DEF CopyInv

\* The info file is written.
LEMMA SaveCopy ==
  ASSUME CopyInv, SaveFetched
  PROVE  CopyInv'
<1>1. ListInv' /\ UNCHANGED opt
  BY EndsGood DEF SaveFetched
<1>2. UNCHANGED <<disk, server, fetchVars>> /\ info' = ValidInfo(items_of(files))
  BY DEF SaveFetched
<1>3. InfoInv'
  <2>1. files \in Seq(Entry) /\ StatesAmong(files, Good(opt))
    BY GoodListType DEF CopyInv, ListInv, files, opt
  <2>2. items_of(files) \in Seq(Item) /\ ItemsIn(items_of(files), Good(opt))
    BY <2>1, ItemsTyped, WrittenIn
  <2>3. ValidInfo(items_of(files)).status = "valid" /\ ValidInfo(items_of(files)).items = items_of(files)
    BY DEF ValidInfo
  <2>4. QED
    BY <1>1, <1>2, <2>2, <2>3 DEF InfoInv
<1>4. ControlInv'
  <2>1. /\ pc = "saving" /\ pc' = "idle" /\ ret' = 0
        /\ UNCHANGED <<faults, session, loop, next, edits, fresh>>
    BY DEF SaveFetched, Ends, synchVars
  <2>2. QED
    BY <2>1 DEF CopyInv, ControlInv, Pcs
<1>5. QED
  BY <1>1, <1>2, <1>3, <1>4, Frames DEF CopyInv

\* An info file without items has items of every kind.
LEMMA NoItems ==
  ASSUME NEW S
  PROVE  << >> \in Seq(Item) /\ ItemsIn(<< >>, S)
BY DEF ItemsIn

\* The info file is emptied, before it is written or by --init.
LEMMA OpenCopy ==
  ASSUME CopyInv, OpenInfo \/ Initialize
  PROVE  CopyInv'
<1>1. UNCHANGED <<site, disk, server, fetchVars>>
  BY DEF OpenInfo, Initialize, copyVars
<1>2. info' \in {TruncatedInfo, ValidInfo(<< >>)}
  BY DEF OpenInfo, Initialize
<1>3. info'.status \in {"valid", "corrupt"} /\ info'.items = << >>
  BY <1>2 DEF TruncatedInfo, ValidInfo
<1>4. InfoInv'
  BY <1>3, NoItems DEF InfoInv
<1>5. ControlInv'
  <2>1. UNCHANGED <<faults, session, ret, loop, next, edits, fresh>>
    BY DEF OpenInfo, Initialize, copyVars, synchVars
  <2>2. pc \in {"fetched", "idle"} /\ pc' \in {"saving", "idle"}
    BY DEF OpenInfo, Initialize
  <2>3. QED
    BY <2>1, <2>2 DEF CopyInv, ControlInv, Pcs
<1>6. QED
  BY <1>1, <1>4, <1>5, Frames DEF CopyInv

\* The program ends without a change to the disk or the info file.
LEMMA EndCopy ==
  ASSUME CopyInv, FetchFailed \/ RefuseToSynch \/ EndUnsaved
  PROVE  CopyInv'
<1>1. ListInv' /\ UNCHANGED opt
  BY EndsGood DEF FetchFailed, RefuseToSynch, EndUnsaved
<1>2. UNCHANGED <<disk, server, fetchVars, info>>
  BY DEF FetchFailed, RefuseToSynch, EndUnsaved
<1>3. ControlInv'
  <2>1. /\ pc \in {"fetched", "synch", "synched", "verified"} /\ pc' = "idle" /\ ret' = 0
        /\ UNCHANGED <<faults, session, loop, next, edits>> /\ fresh' \in {fresh, FALSE}
    BY DEF FetchFailed, RefuseToSynch, EndUnsaved, Ends, synchVars
  <2>2. QED
    BY <2>1 DEF CopyInv, ControlInv, Pcs
<1>4. QED
  BY <1>1, <1>2, <1>3, Frames DEF CopyInv

\* A signal.
LEMMA KilledCopy ==
  ASSUME CopyInv, Killed
  PROVE  CopyInv'
<1>1. ListInv' /\ UNCHANGED opt
  BY EndsGood DEF Killed
<1>2. UNCHANGED <<disk, server, info>> /\ dirstack' = << >> /\ found' = << >> /\ due' = << >>
  BY DEF Killed
<1>3. FetchInv'
  <2>1. Len(<< >>) = 0 /\ << >> \in Seq(Names \cup {Root}) /\ << >> \in Seq(FoundFile)
    OBVIOUS
  <2>2. \A n \in Nat \ {0} : 0 =< n
    OBVIOUS
  <2>3. QED
    BY <1>2, <2>1, <2>2, FetchAssumption, NothingDue DEF FetchInv
<1>4. ControlInv'
  <2>1. /\ pc' = "idle" /\ ret' = 0 /\ session' = "none" /\ loop' = "none" /\ next' = 1
        /\ UNCHANGED edits /\ fresh' \in BOOLEAN
    BY DEF Killed, Ends
  <2>2. faults' = faults + 1 /\ faults' =< MaxFaults /\ faults \in Nat /\ MaxFaults \in Nat
    BY CopyAssumption DEF Killed, CopyInv, ControlInv
  <2>3. faults' \in 0 .. MaxFaults
    BY <2>2
  <2>4. QED
    BY <2>1, <2>3 DEF CopyInv, ControlInv, Pcs
<1>5. QED
  BY <1>1, <1>2, <1>3, <1>4, Frames DEF CopyInv

\* site_verify.
LEMMA VerifyCopy ==
  ASSUME CopyInv, VerifySite
  PROVE  CopyInv'
<1>1. UNCHANGED <<site, disk, server, fetchVars, info>>
  BY DEF VerifySite, Verify, fetchVars
<1>2. ControlInv'
  <2>1. PICK l \in fetch_list(Root) :
          /\ faults' = faults + l.fault /\ faults' =< MaxFaults
          /\ ret' = IF l.failed \/ numremote(l.list) # 0 THEN 1 ELSE 0
    BY DEF VerifySite, Verify
  <2>2. l.fault \in Nat
    BY FetchListGood DEF CopyInv, ServerInv
  <2>3. faults \in Nat /\ MaxFaults \in Nat
    BY CopyAssumption DEF CopyInv, ControlInv
  <2>4. faults' \in 0 .. MaxFaults /\ ret' \in {0, 1}
    BY <2>1, <2>2, <2>3
  <2>5. pc = "verify" /\ pc' = "verified" /\ UNCHANGED <<session, loop, next, edits, fresh>>
    BY DEF VerifySite, Verify, synchVars
  <2>6. QED
    BY <2>4, <2>5 DEF CopyInv, ControlInv, Pcs
<1>3. QED
  BY <1>1, <1>2, Frames DEF CopyInv

-----------------------------------------------------------------------------
(* A synchronize                                                           *)

\* An entry of the list, and what its diff says of it.
LEMMA EntryHas ==
  ASSUME CopyInv, NEW i \in DOMAIN files
  PROVE  /\ Exact(site) /\ i \in DOMAIN site.files /\ EntryOK(files[i], site)
         /\ files[i].diff = "deleted" <=> Local(files[i]) = Absent
         /\ files[i].diff = "new" <=> Local(files[i]) # Absent /\ Stored(files[i]) = Absent
         /\ Local(files[i]) # Absent \/ Stored(files[i]) # Absent
         /\ Local(files[i]) # Absent => <<"local", files[i].type, Local(files[i])>> \in Good(opt)
         /\ Stored(files[i]) # Absent => <<"stored", files[i].type, Stored(files[i])>> \in Good(opt)
<1>1. Exact(site) /\ SiteOK(site) /\ StatesAmong(site.files, Good(opt)) /\ i \in DOMAIN site.files
  BY GoodListType DEF CopyInv, ListInv, opt, files
<1>2. EntryOK(files[i], site)
  BY <1>1 DEF SiteOK, files
<1>3. /\ files[i].diff = "deleted" <=> Local(files[i]) = Absent
      /\ files[i].diff = "new" <=> Local(files[i]) # Absent /\ Stored(files[i]) = Absent
  BY <1>2, DiffTellsStates
<1>4. Local(files[i]) # Absent \/ Stored(files[i]) # Absent
  BY <1>2 DEF EntryOK
<1>5. Local(files[i]) # Absent => <<"local", files[i].type, Local(files[i])>> \in Good(opt)
  BY <1>1 DEF StatesAmong, Sides, Local, files
<1>6. Stored(files[i]) # Absent => <<"stored", files[i].type, Stored(files[i])>> \in Good(opt)
  BY <1>1 DEF StatesAmong, Sides, Stored, files
<1>7. QED
  BY <1>1, <1>2, <1>3, <1>4, <1>5, <1>6

\* The names that the states of an entry have.
LEMMA EntryNames ==
  ASSUME CopyInv, NEW i \in DOMAIN files
  PROVE  /\ Local(files[i]) # Absent => Local(files[i]).filename \in Names \ Excluded
         /\ Stored(files[i]) # Absent => Stored(files[i]).filename \in Names \ Excluded
                                         /\ Stored(files[i]).mode \in Modes
<1>1. ASSUME NEW x, NEW s, <<x, files[i].type, s>> \in Good(opt)
      PROVE  s.filename \in Names \ Excluded /\ s.mode \in Modes
  <2>1. s \in FileState /\ s.filename \notin Excluded
    BY <1>1, GoodHas
  <2>2. QED
    BY <2>1 DEF FileState
<1>2. QED
  BY <1>1, EntryHas

\* file_downloaded.
LEMMA DownloadedGood ==
  ASSUME CopyInv, NEW i \in DOMAIN files, Stored(files[i]) # Absent
  PROVE  ListGood(file_downloaded(site, i)) /\ file_downloaded(site, i).opt = opt
<1>1. /\ Exact(site) /\ SiteOK(site) /\ site \in Site /\ i \in DOMAIN site.files /\ StatesAmong(site.files, Good(opt))
  BY EntryHas, GoodListType DEF CopyInv, ListInv, opt
<1>2. PICK s : s = Stored(files[i])
  OBVIOUS
<1>3. s \in FileState /\ s # Absent /\ s = Stored(site.files[i])
  BY <1>1, <1>2, EntryStates DEF files
<1>4. PICK st \in [Sides -> FileState \cup {Absent}] : st = [x \in Sides |-> s]
  BY <1>3
<1>5. \A x \in Sides : st[x] # Absent => <<x, site.files[i].type, st[x]>> \in Good(opt)
  <2>1. <<"stored", site.files[i].type, s>> \in Good(opt)
    BY <1>2, <1>3, EntryHas DEF files
  <2>2. <<"local", site.files[i].type, s>> \in Good(opt)
    BY <2>1, GoodOnBothSides
  <2>3. QED
    BY <1>4, <2>1, <2>2 DEF Sides
<1>6. file_downloaded(site, i) = set_states(site, i, st)
  BY <1>3, <1>4 DEF file_downloaded
<1>7. StatesAmong(set_states(site, i, st).files, Good(opt))
  BY <1>1, <1>5, SetStatesIn
<1>8. set_states(site, i, st).opt = opt
  <2>1. PICK r : r = set_states(site, i, st)
    OBVIOUS
  <2>2. r.files = [site.files EXCEPT ![i] = r.files[i]] /\ r.files[i].st = st /\ r.opt = site.opt
    BY <1>1, <2>1, SetStatesFiles
  <2>3. QED
    BY <2>1, <2>2 DEF opt
<1>9. Exact(file_downloaded(site, i))
  BY <1>1, <1>3, DownloadedExact
<1>10. QED
  BY <1>6, <1>7, <1>8, <1>9 DEF ListGood

\* file_delete.
LEMMA DeletedGood ==
  ASSUME CopyInv, NEW i \in DOMAIN files
  PROVE  ListGood(file_delete(site, i)) /\ file_delete(site, i).opt = opt
<1>1. Exact(site) /\ site \in Site /\ site.files \in Seq(Entry) /\ i \in DOMAIN site.files /\ StatesAmong(site.files, Good(opt))
  BY EntryHas, GoodListType DEF CopyInv, ListInv, opt
<1>2. file_delete(site, i).files = Removed(site.files, i) /\ file_delete(site, i).opt = opt
  BY <1>1, DeleteFiles DEF opt
<1>3. StatesAmong(Removed(site.files, i), Good(opt))
  BY <1>1, ListStatesIn
<1>4. Exact(file_delete(site, i))
  BY <1>1, DeleteExact
<1>5. QED
  BY <1>2, <1>3, <1>4 DEF ListGood

\* What a step of site_synch may do: besides the list, it changes nothing of
\* the disk but at the names in S.
Works(S) ==
  /\ ListInv' /\ UNCHANGED opt
  /\ disk' \in Disk /\ OnlyChanges(disk', S)
  /\ faults' \in 0 .. MaxFaults /\ ret' \in {0, 1}
  /\ next' \in Nat /\ UNCHANGED <<loop, session>>

\* A call is answered.
LEMMA AnsweredGood ==
  ASSUME CopyInv, NEW a, a.fault \in {0, 1}, Answered(a)
  PROVE  disk' = a.disk /\ faults' \in 0 .. MaxFaults
<1>1. faults \in Nat /\ MaxFaults \in Nat
  BY CopyAssumption DEF CopyInv, ControlInv
<1>2. faults' = faults + a.fault /\ faults' =< MaxFaults
  BY DEF Answered
<1>3. QED
  BY <1>1, <1>2 DEF Answered

\* The entry that a loop has come to, and the next one.
LEMMA AtCurrent ==
  ASSUME CopyInv, current # 0
  PROVE  /\ current \in DOMAIN files /\ handles(loop, files[current])
         /\ \A i : i = current /\ Advance(i) => next' \in Nat /\ UNCHANGED loop
<1>1. site \in Site /\ files \in Seq(Entry)
  BY GoodListType DEF CopyInv, ListInv, files
<1>2. current \in DOMAIN files /\ handles(loop, files[current])
  BY <1>1, CurrentEntry
<1>3. current \in Nat \ {0}
  BY <1>1, <1>2
<1>4. ASSUME NEW i, i = current, Advance(i) PROVE next' \in Nat /\ UNCHANGED loop
  BY <1>3, <1>4 DEF Advance
<1>5. QED
  BY <1>2, <1>4

\* synch_create_directories: a directory is only made where there is nothing.
LEMMA CreateDirectoriesWorks ==
  ASSUME CopyInv, synch_create_directories
  PROVE  /\ Works({n \in Names \ Excluded : DiskType(n) = "none"})
         /\ loop = "directories" /\ current \in DOMAIN files /\ files[current].type = "dir"
         /\ UNCHANGED site \/ site' = file_downloaded(site, current)
<1>1. PICK i : i = current
  OBVIOUS
<1>2. /\ i \in DOMAIN files /\ handles(loop, files[i])
      /\ Advance(i) => next' \in Nat /\ UNCHANGED loop
  BY <1>1, AtCurrent DEF synch_create_directories
<1>3. loop = "directories" /\ files[i].type = "dir" /\ files[i].diff = "deleted"
  BY <1>2 DEF handles, synch_create_directories
<1>4. Stored(files[i]) # Absent
  BY <1>2, <1>3, EntryHas
<1>5. PICK n \in Names \ Excluded : n = Stored(files[i]).filename
  BY <1>2, <1>4, EntryNames
<1>6. PICK a \in mkdir(n) :
        /\ Answered(a)
        /\ \/ a.ok /\ UNCHANGED <<site, ret>>
           \/ ~a.ok /\ Failed /\ site' = file_downloaded(site, i)
        /\ Advance(i)
  BY <1>1, <1>5, Zenon DEF synch_create_directories
<1>7. disk \in Disk
  BY DEF CopyInv
<1>8. a.disk \in Disk /\ a.fault \in {0, 1} /\ OnlyChanges(a.disk, {m \in {n} : DiskType(n) = "none"})
  BY <1>7, MkdirGood
<1>9. disk' = a.disk /\ faults' \in 0 .. MaxFaults
  BY <1>6, <1>8, AnsweredGood
<1>10. OnlyChanges(disk', {m \in Names \ Excluded : DiskType(m) = "none"})
  BY <1>8, <1>9 DEF OnlyChanges
<1>11. ListInv' /\ UNCHANGED opt
  BY <1>2, <1>4, <1>6, Frames, DownloadedGood DEF ListInv, opt
<1>12. ret' \in {0, 1}
  BY <1>6 DEF Failed, CopyInv, ControlInv
<1>13. UNCHANGED session
  BY DEF synch_create_directories
<1>14. QED
  BY <1>1, <1>2, <1>3, <1>6, <1>8, <1>9, <1>10, <1>11, <1>12, <1>13 DEF Works

\* synch_chmod: the mode is set of what has the name of the file.
LEMMA ChmodWorks ==
  ASSUME CopyInv, synch_chmod
  PROVE  LET f == files[current]
         IN  /\ Works({Stored(f).filename}) /\ UNCHANGED site
             /\ loop = "files" /\ current \in DOMAIN files /\ f.type = "file" /\ f.diff = "changed"
             /\ Local(f) # Absent /\ Stored(f) # Absent
             /\ LET n == Stored(f).filename
                IN  disk' = disk \/ (disk[n] # Absent /\ StillThere(disk', disk, n, disk[n].type))
<1>1. PICK i : i = current
  OBVIOUS
<1>2. /\ i \in DOMAIN files /\ handles(loop, files[i])
      /\ Advance(i) => next' \in Nat /\ UNCHANGED loop
  BY <1>1, AtCurrent DEF synch_chmod
<1>3. loop = "files" /\ files[i].type = "file" /\ files[i].diff = "changed"
  BY <1>1, <1>2 DEF handles, synch_chmod, OnlyMode
<1>4. Local(files[i]) # Absent /\ Stored(files[i]) # Absent
  BY <1>2, <1>3, EntryHas
<1>5. PICK n \in Names \ Excluded : n = Stored(files[i]).filename /\ Stored(files[i]).mode \in Modes
  BY <1>2, <1>4, EntryNames
<1>6. PICK a \in chmod(n, Stored(files[i]).mode) : Answered(a)
  BY <1>1, <1>5, Zenon DEF synch_chmod
<1>7. disk \in Disk
  BY DEF CopyInv
<1>8. /\ a.disk \in Disk /\ a.fault \in {0, 1} /\ OnlyChanges(a.disk, {n})
      /\ a.disk = disk \/ (disk[n] # Absent /\ StillThere(a.disk, disk, n, disk[n].type))
  BY <1>5, <1>7, ChmodGood
<1>9. disk' = a.disk /\ faults' \in 0 .. MaxFaults
  BY <1>6, <1>8, AnsweredGood
<1>10. UNCHANGED <<site, session, ret>> /\ Advance(i)
  BY <1>1 DEF synch_chmod
<1>11. ListInv' /\ UNCHANGED opt /\ ret' \in {0, 1}
  BY <1>10, Frames DEF CopyInv, ControlInv
<1>12. Works({n})
  BY <1>2, <1>8, <1>9, <1>10, <1>11 DEF Works
<1>13. QED
  BY <1>1, <1>2, <1>3, <1>4, <1>5, <1>8, <1>9, <1>10, <1>12

\* synch_download: the file is written where no directory is.
LEMMA DownloadWorks ==
  ASSUME CopyInv, synch_download
  PROVE  LET f == files[current]
         IN  /\ Works({n \in {Stored(f).filename} : DiskType(n) # "dir"})
             /\ loop = "files" /\ current \in DOMAIN files /\ f.type = "file"
             /\ f.diff \in {"changed", "deleted"} /\ Stored(f) # Absent
             /\ LET n == Stored(f).filename
                IN  /\ disk' = disk \/ StillThere(disk', disk, n, "file")
                    /\ \/ UNCHANGED site
                       \/ site' = file_downloaded(site, current) /\ StillThere(disk', disk, n, "file")
<1>1. PICK i : i = current
  OBVIOUS
<1>2. /\ i \in DOMAIN files /\ handles(loop, files[i])
      /\ Advance(i) => next' \in Nat /\ UNCHANGED loop
  BY <1>1, AtCurrent DEF synch_download
<1>3. PICK f : f = files[i]
  OBVIOUS
<1>4. loop = "files" /\ f.type = "file" /\ f.diff \in {"changed", "deleted"} /\ ~OnlyMode(f)
  BY <1>1, <1>3 DEF synch_download, Downloads
<1>5. Stored(f) # Absent /\ <<"stored", "file", Stored(f)>> \in Good(opt)
  BY <1>2, <1>3, <1>4, EntryHas
<1>6. PICK n \in Names \ Excluded : n = Stored(f).filename
  BY <1>2, <1>3, <1>5, EntryNames
<1>7. /\ Advance(i) /\ UNCHANGED session
      /\ \E a \in file_download(n) :
           \/ /\ ~a.ok /\ Answered(a) /\ Failed /\ UNCHANGED site
           \/ /\ a.ok
              /\ \E t \in Touched(a.disk, f) : \E c \in Chmodded(t.disk, f) :
                   /\ disk' = c.disk
                   /\ faults' = faults + t.fault + c.fault /\ faults' =< MaxFaults
              /\ site' = file_downloaded(site, i) /\ UNCHANGED ret
  BY <1>1, <1>3, <1>6, Zenon DEF synch_download
<1>8. PICK a \in file_download(n) :
           \/ /\ ~a.ok /\ Answered(a) /\ Failed /\ UNCHANGED site
           \/ /\ a.ok
              /\ \E t \in Touched(a.disk, f) : \E c \in Chmodded(t.disk, f) :
                   /\ disk' = c.disk
                   /\ faults' = faults + t.fault + c.fault /\ faults' =< MaxFaults
              /\ site' = file_downloaded(site, i) /\ UNCHANGED ret
  BY <1>7
<1>9. disk \in Disk /\ server \in Tree /\ ServerGood
  BY DEF CopyInv, ServerInv
<1>10. /\ a.fault \in {0, 1}
       /\ a.ok => a.fault = 0 /\ StillThere(a.disk, disk, n, "file")
       /\ a.disk \in Disk
       /\ OnlyChanges(a.disk, {m \in {n} : DiskType(n) # "dir"})
       /\ a.disk = disk \/ StillThere(a.disk, disk, n, "file")
  BY <1>9, DownloadGood
<1>11. Works({m \in {n} : DiskType(m) # "dir"})
       /\ (disk' = disk \/ StillThere(disk', disk, n, "file"))
       /\ (UNCHANGED site \/ (site' = file_downloaded(site, i) /\ StillThere(disk', disk, n, "file")))
  <2>1. CASE ~a.ok
    <3>1. Answered(a) /\ ret' = 1 /\ UNCHANGED site
      BY <1>8, <2>1 DEF Failed
    <3>2. disk' = a.disk /\ faults' \in 0 .. MaxFaults
      BY <1>10, <3>1, AnsweredGood
    <3>3. ListInv' /\ UNCHANGED opt
      BY <3>1, Frames
    <3>4. OnlyChanges(disk', {m \in {n} : DiskType(m) # "dir"})
      BY <1>10, <3>2 DEF OnlyChanges
    <3>5. /\ disk' \in Disk /\ ret' \in {0, 1} /\ next' \in Nat /\ UNCHANGED <<loop, session>>
          /\ disk' = disk \/ StillThere(disk', disk, n, "file")
      BY <1>2, <1>7, <1>10, <3>1, <3>2
    <3>6. Works({m \in {n} : DiskType(m) # "dir"})
      BY <3>2, <3>3, <3>4, <3>5 DEF Works
    <3>7. QED
      BY <3>1, <3>5, <3>6
  <2>2. CASE a.ok
    <3>1. /\ \E t \in Touched(a.disk, f) : \E c \in Chmodded(t.disk, f) :
               /\ disk' = c.disk
               /\ faults' = faults + t.fault + c.fault /\ faults' =< MaxFaults
          /\ site' = file_downloaded(site, i) /\ UNCHANGED ret
      BY <1>8, <2>2
    <3>2. PICK t \in Touched(a.disk, f) : \E c \in Chmodded(t.disk, f) :
            disk' = c.disk /\ faults' = faults + t.fault + c.fault /\ faults' =< MaxFaults
      BY <3>1
    <3>3. PICK c \in Chmodded(t.disk, f) :
            disk' = c.disk /\ faults' = faults + t.fault + c.fault /\ faults' =< MaxFaults
      BY <3>2
    <3>4. StillThere(a.disk, disk, n, "file")
      BY <1>10, <2>2
    <3>5. a.disk \in Disk /\ a.disk[n] # Absent /\ a.disk[n].type = "file"
      BY <3>4 DEF StillThere
    <3>6. t.fault \in {0, 1} /\ StillThere(t.disk, a.disk, n, "file")
      BY <1>5, <1>6, <3>5, TouchedGood
    <3>7. t.disk \in Disk /\ t.disk[n] # Absent /\ t.disk[n].type = "file"
      BY <3>6 DEF StillThere
    <3>8. c.fault \in {0, 1} /\ StillThere(c.disk, t.disk, n, "file")
      BY <1>5, <1>6, <3>7, TouchedGood
    <3>9. StillThere(disk', disk, n, "file")
      BY <3>3, <3>4, <3>6, <3>8 DEF StillThere
    <3>10. faults' \in 0 .. MaxFaults
      <4>1. faults \in Nat /\ MaxFaults \in Nat
        BY CopyAssumption DEF CopyInv, ControlInv
      <4>2. QED
        BY <3>3, <3>6, <3>8, <4>1
    <3>11. ListInv' /\ UNCHANGED opt
      BY <1>2, <1>3, <1>5, <3>1, DownloadedGood DEF ListInv, opt
    <3>12. DiskType(n) # "dir"
      <4>1. OnlyChanges(a.disk, {m \in {n} : DiskType(n) # "dir"})
        BY <1>10
      <4>2. ASSUME DiskType(n) = "dir" PROVE FALSE
        <5>1. a.disk[n] = disk[n]
          BY <4>1, <4>2 DEF OnlyChanges
        <5>2. n # Root
          BY ServerAssumption
        <5>3. QED
          BY <3>5, <4>2, <5>1, <5>2 DEF DiskType
      <4>3. QED
        BY <4>2
    <3>13. OnlyChanges(disk', {m \in {n} : DiskType(m) # "dir"}) /\ disk' \in Disk
      BY <3>9, <3>12 DEF OnlyChanges, StillThere
    <3>14. ret' \in {0, 1}
      BY <3>1 DEF CopyInv, ControlInv
    <3>15. QED
      BY <1>2, <1>7, <3>1, <3>9, <3>10, <3>11, <3>13, <3>14 DEF Works
  <2>3. QED
    BY <2>1, <2>2
<1>12. QED
  BY <1>1, <1>2, <1>3, <1>4, <1>5, <1>6, <1>11

\* synch_unlink and synch_rename: of what is not a directory.
LEMMA UnlinkWorks ==
  ASSUME CopyInv, synch_unlink
  PROVE  LET f == files[current]
         IN  /\ Works({n \in {Local(f).filename} : DiskType(n) = "file"}) /\ UNCHANGED site
             /\ loop = "files" /\ current \in DOMAIN files /\ f.type = "file" /\ f.diff = "new"
             /\ Local(f) # Absent /\ NoNewDir(disk')
<1>1. PICK i : i = current
  OBVIOUS
<1>2. /\ i \in DOMAIN files /\ handles(loop, files[i])
      /\ Advance(i) => next' \in Nat /\ UNCHANGED loop
  BY <1>1, AtCurrent DEF synch_unlink
<1>3. loop = "files" /\ files[i].type = "file" /\ files[i].diff = "new"
  BY <1>1, <1>2 DEF handles, synch_unlink
<1>4. Local(files[i]) # Absent
  BY <1>2, <1>3, EntryHas
<1>5. PICK n \in Names \ Excluded : n = Local(files[i]).filename
  BY <1>2, <1>4, EntryNames
<1>6. PICK a \in unlink(n) : Answered(a) /\ (IF a.ok THEN UNCHANGED ret ELSE Failed)
  BY <1>1, <1>5, Zenon DEF synch_unlink
<1>7. disk \in Disk
  BY DEF CopyInv
<1>8. a.disk \in Disk /\ a.fault \in {0, 1} /\ NoNewDir(a.disk) /\ OnlyChanges(a.disk, {m \in {n} : DiskType(n) = "file"})
  BY <1>7, RemovalGood
<1>9. disk' = a.disk /\ faults' \in 0 .. MaxFaults
  BY <1>6, <1>8, AnsweredGood
<1>10. UNCHANGED <<site, session>> /\ Advance(i)
  BY <1>1 DEF synch_unlink
<1>11. ListInv' /\ UNCHANGED opt
  BY <1>10, Frames
<1>12. ret' \in {0, 1}
  BY <1>6 DEF Failed, CopyInv, ControlInv
<1>13. OnlyChanges(disk', {m \in {n} : DiskType(m) = "file"})
  BY <1>8, <1>9 DEF OnlyChanges
<1>14. Works({m \in {n} : DiskType(m) = "file"})
  BY <1>2, <1>8, <1>9, <1>10, <1>11, <1>12, <1>13 DEF Works
<1>15. QED
  BY <1>1, <1>2, <1>3, <1>4, <1>5, <1>8, <1>9, <1>10, <1>14

\* A rename of the loop works on the two names of a moved file only.
LEMMA RenameWorks ==
  ASSUME CopyInv, synch_rename
  PROVE  LET f == files[current]
         IN  /\ Works({n \in {Local(f).filename, Stored(f).filename} : DiskType(n) # "dir"}) /\ UNCHANGED site
             /\ loop = "files" /\ current \in DOMAIN files /\ f.type = "file" /\ f.diff = "moved"
             /\ Local(f) # Absent /\ Stored(f) # Absent /\ NoNewDir(disk')
<1>1. PICK i : i = current
  OBVIOUS
<1>2. /\ i \in DOMAIN files /\ handles(loop, files[i])
      /\ Advance(i) => next' \in Nat /\ UNCHANGED loop
  BY <1>1, AtCurrent DEF synch_rename
<1>3. loop = "files" /\ files[i].type = "file" /\ files[i].diff = "moved"
  BY <1>1, <1>2 DEF handles, synch_rename
<1>4. Local(files[i]) # Absent /\ Stored(files[i]) # Absent
  BY <1>2, <1>3, EntryHas
<1>5. PICK n \in Names \ Excluded : n = Local(files[i]).filename
  BY <1>2, <1>4, EntryNames
<1>6. PICK m \in Names \ Excluded : m = Stored(files[i]).filename
  BY <1>2, <1>4, EntryNames
<1>7. PICK a \in rename(n, m) : Answered(a) /\ (IF a.ok THEN UNCHANGED ret ELSE Failed)
  BY <1>1, <1>5, <1>6, Zenon DEF synch_rename
<1>8. disk \in Disk
  BY DEF CopyInv
<1>9. a.disk \in Disk /\ a.fault \in {0, 1} /\ NoNewDir(a.disk) /\ OnlyChanges(a.disk, {k \in {n, m} : DiskType(k) # "dir"})
  BY <1>8, RenameGood
<1>10. disk' = a.disk /\ faults' \in 0 .. MaxFaults
  BY <1>7, <1>9, AnsweredGood
<1>11. UNCHANGED <<site, session>> /\ Advance(i)
  BY <1>1 DEF synch_rename
<1>12. ListInv' /\ UNCHANGED opt
  BY <1>11, Frames
<1>13. ret' \in {0, 1}
  BY <1>7 DEF Failed, CopyInv, ControlInv
<1>14. Works({k \in {n, m} : DiskType(k) # "dir"})
  BY <1>2, <1>9, <1>10, <1>11, <1>12, <1>13 DEF Works
<1>15. QED
  BY <1>1, <1>2, <1>3, <1>4, <1>5, <1>6, <1>9, <1>10, <1>11, <1>14

\* synch_delete_directories: of a directory.
LEMMA DeleteDirectoriesWorks ==
  ASSUME CopyInv, synch_delete_directories
  PROVE  LET f == files[current]
         IN  /\ Works({n \in {Local(f).filename} : DiskType(n) = "dir"})
             /\ loop = "delete_directories" /\ current \in DOMAIN files /\ f.type = "dir" /\ f.diff = "new"
             /\ Local(f) # Absent
             /\ UNCHANGED site \/ site' = file_delete(site, current)
<1>1. PICK i : i = current
  OBVIOUS
<1>2. /\ i \in DOMAIN files /\ handles(loop, files[i])
      /\ Advance(i) => next' \in Nat /\ UNCHANGED loop
  BY <1>1, AtCurrent DEF synch_delete_directories
<1>3. loop = "delete_directories" /\ files[i].type = "dir" /\ files[i].diff = "new"
  BY <1>2 DEF handles, synch_delete_directories
<1>4. Local(files[i]) # Absent
  BY <1>2, <1>3, EntryHas
<1>5. PICK n \in Names \ Excluded : n = Local(files[i]).filename
  BY <1>2, <1>4, EntryNames
<1>6. PICK a \in rmdir(n) :
        /\ Answered(a)
        /\ \/ a.ok /\ site' = file_delete(site, i) /\ UNCHANGED ret
           \/ ~a.ok /\ Failed /\ UNCHANGED site
        /\ Advance(i)
  BY <1>1, <1>5, Zenon DEF synch_delete_directories
<1>7. disk \in Disk
  BY DEF CopyInv
<1>8. a.disk \in Disk /\ a.fault \in {0, 1} /\ OnlyChanges(a.disk, {m \in {n} : DiskType(n) = "dir"})
  BY <1>7, RemovalGood
<1>9. disk' = a.disk /\ faults' \in 0 .. MaxFaults
  BY <1>6, <1>8, AnsweredGood
<1>10. ListInv' /\ UNCHANGED opt
  BY <1>2, <1>6, Frames, DeletedGood DEF ListInv, opt
<1>11. ret' \in {0, 1} /\ UNCHANGED session
  BY <1>6 DEF Failed, CopyInv, ControlInv, synch_delete_directories
<1>12. OnlyChanges(disk', {m \in {n} : DiskType(m) = "dir"})
  BY <1>8, <1>9 DEF OnlyChanges
<1>13. Works({m \in {n} : DiskType(m) = "dir"})
  BY <1>2, <1>6, <1>8, <1>9, <1>10, <1>11, <1>12 DEF Works
<1>14. QED
  BY <1>1, <1>2, <1>3, <1>4, <1>5, <1>6, <1>13

\* Nothing that a step works on is excluded.
LEMMA SynchWorksOn ==
  ASSUME CopyInv, SynchStep, ~EndLoop
  PROVE  \E S \in SUBSET (Names \ Excluded) : Works(S)
<1>1. CASE synch_create_directories
  BY <1>1, CreateDirectoriesWorks
<1>2. CASE synch_chmod
  BY <1>2, ChmodWorks, EntryNames
<1>3. CASE synch_download
  <2>1. PICK n \in Names \ Excluded : n = Stored(files[current]).filename
    BY <1>3, DownloadWorks, EntryNames
  <2>2. {m \in {n} : DiskType(m) # "dir"} \in SUBSET (Names \ Excluded)
    OBVIOUS
  <2>3. QED
    BY <1>3, <2>1, <2>2, DownloadWorks
<1>4. CASE synch_unlink
  <2>1. PICK n \in Names \ Excluded : n = Local(files[current]).filename
    BY <1>4, UnlinkWorks, EntryNames
  <2>2. {m \in {n} : DiskType(m) = "file"} \in SUBSET (Names \ Excluded)
    OBVIOUS
  <2>3. QED
    BY <1>4, <2>1, <2>2, UnlinkWorks
<1>5. CASE synch_rename
  <2>1. PICK n \in Names \ Excluded : n = Local(files[current]).filename
    BY <1>5, RenameWorks, EntryNames
  <2>2. PICK m \in Names \ Excluded : m = Stored(files[current]).filename
    BY <1>5, RenameWorks, EntryNames
  <2>3. {k \in {n, m} : DiskType(k) # "dir"} \in SUBSET (Names \ Excluded)
    OBVIOUS
  <2>4. QED
    BY <1>5, <2>1, <2>2, <2>3, RenameWorks
<1>6. CASE synch_delete_directories
  <2>1. PICK n \in Names \ Excluded : n = Local(files[current]).filename
    BY <1>6, DeleteDirectoriesWorks, EntryNames
  <2>2. {m \in {n} : DiskType(m) = "dir"} \in SUBSET (Names \ Excluded)
    OBVIOUS
  <2>3. QED
    BY <1>6, <2>1, <2>2, DeleteDirectoriesWorks
<1>7. QED
  BY <1>1, <1>2, <1>3, <1>4, <1>5, <1>6 DEF SynchStep

\* site_synch begins.
LEMMA BeginSynchCopy ==
  ASSUME CopyInv, BeginSynch
  PROVE  CopyInv'
<1>1. UNCHANGED <<site, disk, server, fetchVars, info>>
  BY DEF BeginSynch, StartSynch
<1>2. ControlInv'
  <2>1. faults \in Nat /\ MaxFaults \in Nat /\ faults =< MaxFaults /\ ret \in {0, 1}
    BY CopyAssumption DEF CopyInv, ControlInv
  <2>2. /\ faults' \in 0 .. MaxFaults /\ ret' \in {0, 1} /\ session' \in {"none", "open"}
        /\ loop' \in {"none", "directories"} /\ next' \in Nat /\ (session' = "open" => loop' # "none")
    <3>1. loop = "none" /\ session = "none" /\ next \in Nat
      BY DEF BeginSynch, StartSynch, CopyInv, ControlInv
    <3>2. QED
      BY <2>1, <3>1 DEF BeginSynch, StartSynch
  <2>3. pc' = (IF loop' = "none" THEN "synched" ELSE "synching") /\ UNCHANGED <<edits, fresh>>
    BY DEF BeginSynch
  <2>4. QED
    BY <2>2, <2>3 DEF CopyInv, ControlInv, Pcs, Loops
<1>3. QED
  BY <1>1, <1>2, Frames DEF CopyInv

\* NothingToSynch changes only pc.
LEMMA NothingCopy ==
  ASSUME CopyInv, NothingToSynch
  PROVE  CopyInv'
<1>1. UNCHANGED <<site, disk, server, fetchVars, info>>
  BY DEF NothingToSynch, copyVars
<1>2. ControlInv'
  <2>1. pc = "synch" /\ pc' = "synched" /\ UNCHANGED <<faults, session, ret, loop, next, edits, fresh>>
    BY DEF NothingToSynch, copyVars, synchVars
  <2>2. QED
    BY <2>1 DEF CopyInv, ControlInv, Pcs
<1>3. QED
  BY <1>1, <1>2, Frames DEF CopyInv

\* A step of site_synch.
LEMMA SynchCopy ==
  ASSUME CopyInv, SynchWorks
  PROVE  CopyInv'
<1>1. /\ pc = "synching" /\ SynchStep /\ UNCHANGED <<fetchVars, info, edits, fresh>>
      /\ pc' = IF loop' = "none" THEN "synched" ELSE "synching"
  BY DEF SynchWorks
<1>2. CASE EndLoop
  <2>1. UNCHANGED <<site, disk, server, faults>>
    BY <1>2 DEF EndLoop
  <2>2. /\ loop' \in Loops \cup {"none"} /\ next' \in Nat /\ ret' \in {0, 1} /\ session' \in {"none", "open"}
        /\ (session' = "open" => loop' # "none")
    <3>1. PICK l : /\ l = IF ret = 0 \/ opt.keep_going THEN LoopAfter(loop) ELSE "none"
                   /\ loop' = l
                   /\ next' = IF l = "delete_directories" THEN Len(files) ELSE 1
                   /\ ret' = IF l = "none" THEN ret ELSE 0
                   /\ session' = IF l = "none" THEN "none" ELSE session
      BY <1>2 DEF EndLoop
    <3>2. l \in Loops \cup {"none"}
      BY <3>1 DEF LoopAfter, Loops
    <3>3. Len(files) \in Nat
      BY GoodListType DEF CopyInv, ListInv, files
    <3>4. ret \in {0, 1} /\ session \in {"none", "open"}
      BY DEF CopyInv, ControlInv
    <3>5. QED
      BY <3>1, <3>2, <3>3, <3>4
  <2>3. ControlInv'
    BY <1>1, <2>1, <2>2 DEF CopyInv, ControlInv, Pcs
  <2>4. QED
    BY <1>1, <2>1, <2>3, Frames DEF CopyInv
<1>3. CASE ~EndLoop
  <2>1. PICK S \in SUBSET (Names \ Excluded) : Works(S)
    BY <1>1, <1>3, SynchWorksOn
  <2>2. UNCHANGED server
    BY <1>1, <1>3 DEF SynchStep, synch_create_directories, synch_chmod, synch_download, synch_unlink,
                      synch_rename, synch_delete_directories
  <2>3. loop # "none"
    BY <1>1, <1>3 DEF SynchStep, synch_create_directories, synch_chmod, synch_download, synch_unlink,
                      synch_rename, synch_delete_directories
  <2>4. ControlInv'
    BY <1>1, <2>1, <2>3 DEF CopyInv, ControlInv, Pcs, Works
  <2>5. QED
    BY <1>1, <2>1, <2>2, <2>4, Frames DEF CopyInv, Works
<1>4. QED
  BY <1>2, <1>3

\* Every step keeps the invariant.
LEMMA NextCopy ==
  ASSUME EveryTime, CopyInv, [Next]_siteVars
  PROVE  CopyInv'
<1>1. CASE ReadForFetch
  BY <1>1, ReadCopy DEF ReadForFetch
<1>2. CASE ReadForSynch
  <2>1. fresh' \in BOOLEAN
    BY <1>2 DEF ReadForSynch, CopyInv, ControlInv
  <2>2. QED
    BY <1>2, <2>1, ReadCopy DEF ReadForSynch
<1>3. CASE ReadForVerify
  <2>1. fresh' \in BOOLEAN
    BY <1>3 DEF ReadForVerify, CopyInv, ControlInv
  <2>2. QED
    BY <1>3, <2>1, ReadCopy DEF ReadForVerify
<1>4. CASE BeginFetch
  BY <1>4, BeginFetchCopy
<1>5. CASE ListNext \/ AskNext
  BY <1>5, ListCopy, AskCopy
<1>6. CASE FetchReturns
  BY <1>6, FetchReturnsCopy
<1>7. CASE OpenInfo \/ SaveFetched \/ Initialize
  BY <1>7, SaveCopy, OpenCopy
<1>8. CASE FetchFailed \/ RefuseToSynch \/ EndUnsaved
  BY <1>8, EndCopy
<1>9. CASE NothingToSynch
  BY <1>9, NothingCopy
<1>10. CASE BeginSynch
  BY <1>10, BeginSynchCopy
<1>11. CASE SynchWorks
  BY <1>11, SynchCopy
<1>12. CASE VerifySite
  BY <1>12, VerifyCopy
<1>13. CASE Edit
  BY <1>13, EditCopy
<1>14. CASE Publish
  BY <1>14, PublishCopy
<1>15. CASE Killed
  BY <1>15, KilledCopy
<1>16. CASE UNCHANGED siteVars
  <2>1. UNCHANGED <<site, disk, server, fetchVars, info, faults, session, ret, loop, next, pc, edits, fresh>>
    BY <1>16 DEF siteVars, copyVars, synchVars, worldVars
  <2>2. ControlInv'
    BY <2>1 DEF CopyInv, ControlInv
  <2>3. QED
    BY <2>1, <2>2, Frames DEF CopyInv
<1>17. QED
  BY <1>1, <1>2, <1>3, <1>4, <1>5, <1>6, <1>7, <1>8, <1>9, <1>10, <1>11, <1>12, <1>13, <1>14, <1>15, <1>16
     DEF Next, Program

\* The invariant is one of the specification.
LEMMA CopyInvariant ==
  ASSUME EveryTime
  PROVE  Spec => []CopyInv
<1>1. Init => CopyInv
  BY InitCopy
<1>2. CopyInv /\ [Next]_siteVars => CopyInv'
  BY NextCopy
<1>3. QED
  BY <1>1, <1>2, PTL DEF Spec

\* Every variable keeps its type, the list of files is exact, and a session is
\* only open while site_fetch or site_synch runs.
THEOREM CopyTypeCorrect ==
  ASSUME EveryTime
  PROVE  Spec => []CopyTypeOK
<1>1. CopyInv => CopyTypeOK
  <2>1. SUFFICES ASSUME CopyInv PROVE CopyTypeOK
    OBVIOUS
  <2>2. site \in Site
    BY <2>1, GoodListType DEF CopyInv, ListInv
  <2>3. found \in Seq(ProtoFile)
    <3>1. FoundFile \subseteq ProtoFile
      BY DEF FoundFile
    <3>2. found \in Seq(FoundFile)
      BY <2>1 DEF CopyInv, FetchInv
    <3>3. QED
      BY <3>1, <3>2
  <2>4. due \in Seq(Request)
    BY <2>1 DEF CopyInv, FetchInv, DueOn
  <2>5. QED
    BY <2>1, <2>2, <2>3, <2>4 DEF CopyInv, ServerInv, FetchInv, InfoInv, ControlInv, CopyTypeOK
<1>2. QED
  BY <1>1, CopyInvariant, PTL

-----------------------------------------------------------------------------
(* A download has a connection                                             *)

\* While site_synch runs without a session there is nothing to download.
ConnectionInv ==
  loop # "none" => session = "open" \/ \A i \in DOMAIN files : files[i].diff \notin {"changed", "deleted"}

\* need_conn asks the counters.
LEMMA NeedConnection ==
  ASSUME CopyInv, ~need_conn
  PROVE  \A i \in DOMAIN files : files[i].diff \notin {"changed", "deleted"}
<1>1. site \in Site /\ Counted(site)
  BY GoodListType DEF CopyInv, ListInv, Exact
<1>2. {"changed", "deleted", "ignored"} \subseteq Counters
  BY DEF Counters, Diffs
<1>3. \A k \in {"changed", "deleted", "ignored"} :
        /\ site.num[k] \in Nat
        /\ site.num[k] > 0 <=> \E i \in DOMAIN site.files : StatKey(site.files[i]) = k
  BY <1>1, <1>2, CounterCounts
<1>4. site.num["changed"] = 0 /\ site.num["deleted"] = 0 /\ site.num["ignored"] = 0
  <2>1. \A a, b, c \in Nat : ~(a + b + c > 0) => a = 0 /\ b = 0 /\ c = 0
    OBVIOUS
  <2>2. QED
    BY <1>3, <2>1 DEF need_conn
<1>5. \A i \in DOMAIN files : StatKey(files[i]) \notin {"changed", "deleted", "ignored"}
  BY <1>3, <1>4 DEF files
<1>6. QED
  BY <1>5 DEF StatKey

\* Every step keeps it.
LEMMA NextConnection ==
  ASSUME CopyInv, ConnectionInv, [Next]_siteVars
  PROVE  ConnectionInv'
<1>1. CASE BeginSynch
  <2>1. CASE need_conn
    BY <1>1, <2>1 DEF BeginSynch, StartSynch, ConnectionInv
  <2>2. CASE ~need_conn
    <3>1. UNCHANGED site
      BY <1>1 DEF BeginSynch, StartSynch
    <3>2. QED
      BY <2>2, <3>1, NeedConnection DEF ConnectionInv, files
  <2>3. QED
    BY <2>1, <2>2
<1>2. CASE SynchWorks /\ EndLoop
  <2>1. loop # "none" /\ UNCHANGED site /\ (loop' # "none" => UNCHANGED session)
    BY <1>2 DEF EndLoop
  <2>2. QED
    BY <2>1 DEF ConnectionInv, files
<1>3. CASE SynchWorks /\ ~EndLoop
  <2>1. SynchStep /\ UNCHANGED <<loop, session>>
    BY <1>3, SynchWorksOn DEF SynchWorks, Works
  <2>2. SUFFICES ASSUME loop # "none", session # "open"
                 PROVE  \A i \in DOMAIN site'.files : site'.files[i].diff \notin {"changed", "deleted"}
    BY <2>1 DEF ConnectionInv, files
  <2>3. \A i \in DOMAIN files : files[i].diff \notin {"changed", "deleted"}
    BY <2>2 DEF ConnectionInv
  <2>4. UNCHANGED site \/ \E i \in DOMAIN files : site' = file_delete(site, i)
    <3>1. CASE synch_create_directories
      <4>1. current \in DOMAIN files /\ files[current].diff = "deleted"
        BY <3>1, AtCurrent DEF handles, synch_create_directories
      <4>2. QED
        BY <2>3, <4>1
    <3>2. CASE synch_chmod
      BY <3>2, ChmodWorks
    <3>3. CASE synch_download
      BY <2>3, <3>3, DownloadWorks
    <3>4. CASE synch_unlink
      BY <3>4, UnlinkWorks
    <3>5. CASE synch_rename
      BY <3>5, RenameWorks
    <3>6. CASE synch_delete_directories
      BY <3>6, DeleteDirectoriesWorks
    <3>7. QED
      BY <1>3, <2>1, <3>1, <3>2, <3>3, <3>4, <3>5, <3>6 DEF SynchStep
  <2>5. CASE UNCHANGED site
    BY <2>3, <2>5 DEF files
  <2>6. CASE \E i \in DOMAIN files : site' = file_delete(site, i)
    <3>1. PICK i \in DOMAIN files : site' = file_delete(site, i)
      BY <2>6
    <3>2. site \in Site /\ files \in Seq(Entry)
      BY GoodListType DEF CopyInv, ListInv, files
    <3>3. site'.files = Removed(files, i)
      BY <3>1, <3>2, DeleteFiles DEF files
    <3>4. \A j \in DOMAIN Removed(files, i) : \E l \in DOMAIN files : Removed(files, i)[j] = files[l]
      BY <3>2, RemovedFrom
    <3>5. QED
      BY <2>3, <3>3, <3>4
  <2>7. QED
    BY <2>4, <2>5, <2>6
<1>4. CASE ReadForFetch \/ ReadForSynch \/ ReadForVerify \/ BeginFetch \/ ListNext \/ AskNext
           \/ FetchReturns \/ FetchFailed \/ OpenInfo \/ SaveFetched \/ Initialize \/ RefuseToSynch \/ NothingToSynch \/ VerifySite \/ EndUnsaved \/ Publish \/ Edit
  <2>1. pc # "synching" \/ Publish
    BY <1>4 DEF ReadForFetch, ReadForSynch, ReadForVerify, ReadSite, Reads, BeginFetch, ListNext, AskNext, FetchReturns,
                FetchFailed, OpenInfo, SaveFetched, Initialize, RefuseToSynch, NothingToSynch, VerifySite, EndUnsaved, Edit
  <2>2. UNCHANGED loop
    BY <1>4 DEF ReadForFetch, ReadForSynch, ReadForVerify, ReadSite, BeginFetch, ListNext, AskNext, FetchReturns,
                FetchFailed, OpenInfo, SaveFetched, Initialize, RefuseToSynch, NothingToSynch, VerifySite, EndUnsaved,
                Edit, Publish, synchVars
  <2>3. pc # "synching" => loop = "none"
    BY DEF CopyInv, ControlInv
  <2>4. CASE Publish
    <3>1. UNCHANGED <<site, session>>
      BY <2>4 DEF Publish
    <3>2. QED
      BY <2>2, <3>1 DEF ConnectionInv, files
  <2>5. QED
    BY <2>1, <2>2, <2>3, <2>4 DEF ConnectionInv
<1>5. CASE Killed
  BY <1>5 DEF Killed, ConnectionInv
<1>6. CASE UNCHANGED siteVars
  BY <1>6 DEF siteVars, copyVars, synchVars, ConnectionInv, files
<1>7. QED
  BY <1>1, <1>2, <1>3, <1>4, <1>5, <1>6 DEF Next, Program

\* Whether to connect is decided by the counters of the list, which are exact:
\* no file is ever to be downloaded without a session.
THEOREM DownloadsConnected ==
  ASSUME EveryTime
  PROVE  Spec => []ConnectedForDownload
<1>1. Init => ConnectionInv
  BY DEF Init, ConnectionInv
<1>2. CopyInv /\ ConnectionInv /\ [Next]_siteVars => ConnectionInv'
  BY NextConnection
<1>3. CopyInv /\ ConnectionInv => ConnectedForDownload
  BY DEF ConnectionInv, ConnectedForDownload, Downloads
<1>4. QED
  BY <1>1, <1>2, <1>3, CopyInvariant, PTL DEF Spec

-----------------------------------------------------------------------------
(* A broken download                                                       *)

\* What a broken download leaves of a file has another size than any version of
\* it, which with `state timesize' is all that tells them apart.
PartIsShort == \A b \in Bytes \ {Part} : ByteSize[b] # ByteSize[Part]

\* Then it has another size and checksum than any state that is ever stored.
THEOREM BrokenDownloadNoticed ==
  ASSUME EveryTime, PartIsShort
  PROVE  Spec => []PartIsNoticed
<1>1. CopyInv => PartIsNoticed
  <2>1. SUFFICES ASSUME CopyInv, NEW k \in DOMAIN info.items, info.items[k].type = "file",
                        DiskType(info.items[k].state.filename) = "file",
                        disk[info.items[k].state.filename].bytes = Part
                 PROVE  info.items[k].state.content # local_state(info.items[k].state.filename).content
    BY DEF PartIsNoticed
  <2>2. PICK s : s = info.items[k].state
    OBVIOUS
  <2>3. <<"stored", "file", s>> \in Good(opt)
    BY <2>1, <2>2 DEF CopyInv, InfoInv, ItemsIn
  <2>4. s.content \in Held(opt, Whole) /\ s \in FileState
    BY <2>3, GoodHas
  <2>5. PICK n \in Names : n = s.filename
    BY <2>4 DEF FileState
  <2>6. n # Root
    BY ServerAssumption
  <2>7. disk[n].type = "file" /\ disk[n].bytes = Part
    BY <2>1, <2>2, <2>5, <2>6 DEF DiskType
  <2>8. opt \in Options
    BY <2>1, GoodListType DEF CopyInv, ListInv, opt
  <2>9. CASE timesize
    <3>1. local_state(n).content = <<disk[n].time, ByteSize[Part]>>
      BY <2>7, <2>9 DEF local_state
    <3>2. PICK t \in Times, b \in Whole : s.content = <<t, ByteSize[b]>>
      BY <2>4, <2>9 DEF Held, timesize
    <3>3. ByteSize[b] # ByteSize[Part]
      BY <3>2 DEF Whole, PartIsShort
    <3>4. QED
      BY <2>2, <2>5, <3>1, <3>2, <3>3
  <2>10. CASE ~timesize
    <3>1. local_state(n).content = Part
      BY <2>7, <2>10 DEF local_state
    <3>2. s.content \in Whole \cup {NoSum}
      BY <2>4, <2>10 DEF Held, timesize
    <3>3. Part \notin Whole \cup {NoSum}
      BY CopyAssumption DEF Whole
    <3>4. QED
      BY <2>2, <2>5, <3>1, <3>2, <3>3
  <2>11. QED
    BY <2>9, <2>10
<1>2. QED
  BY <1>1, CopyInvariant, PTL

-----------------------------------------------------------------------------
(* An empty stored state                                                   *)

\* The states that reading the local files gives.
LocalOnly == {x \in Good(opt) : x[1] = "local"}

\* The list that is read for a fetch or a synchronize, when the local files have
\* states in P, and the info file in Q.
LEMMA ReadSiteStates ==
  ASSUME CopyInv, NEW command, command # "verify", ReadSite(command), NEW Q, NEW P, P \subseteq Q \cap LocalOnly,
         \A n \in Names \ Excluded : disk[n] # Absent => <<"local", disk[n].type, local_state(n)>> \in P,
         ItemsIn(info.items, Q)
  PROVE  /\ StatesAmong(site'.files, Q)
         /\ info.items = << >> => StatesAmong(site'.files, P)
         /\ ~opt.checkmoved /\ KeyedItems(info.items) => Keyed(site'.files)
<1>1. PICK order \in Orders :
        site' = site_read_stored_state(site_read_local_state(EmptySite(opt), order), info)
  BY Zenon DEF ReadSite
<1>2. PICK s : s = site_read_local_state(EmptySite(opt), order)
  OBVIOUS
<1>3. opt \in Options /\ disk \in Disk
  BY GoodListType DEF CopyInv, ListInv, opt
<1>4. Exact(s) /\ s.opt = opt /\ StatesAmong(s.files, P) /\ (~opt.checkmoved => Keyed(s.files))
  BY <1>2, <1>3, LocalReadStates
<1>5. info.items \in Seq(Item)
  BY DEF CopyInv, InfoInv
<1>6. StatesAmong(s.files, Q)
  BY <1>4 DEF StatesAmong
<1>7. \A t, n : ~HasKey(s.files, "stored", t, n)
  <2>1. ASSUME NEW i \in DOMAIN s.files PROVE s.files[i].st["stored"] = Absent
    <3>1. SUFFICES ASSUME s.files[i].st["stored"] # Absent PROVE FALSE
      OBVIOUS
    <3>2. <<"stored", s.files[i].type, s.files[i].st["stored"]>> \in P
      BY <1>4, <3>1 DEF StatesAmong, Sides
    <3>3. QED
      BY <3>2 DEF LocalOnly
  <2>2. QED
    BY <2>1 DEF HasKey, Stands
<1>8. PICK r : r = site_read_stored_state(s, info)
  OBVIOUS
<1>9. /\ StatesAmong(r.files, Q) /\ (info.items = << >> => r = s)
      /\ ~s.opt.checkmoved /\ Keyed(s.files) /\ KeyedItems(info.items) => Keyed(r.files)
  BY <1>4, <1>5, <1>6, <1>7, <1>8, StoredStateRead
<1>10. QED
  BY <1>1, <1>2, <1>4, <1>8, <1>9

\* The states of the local files are among them.
LEMMA LocalStatesOnly ==
  ASSUME CopyInv
  PROVE  \A n \in Names \ Excluded : disk[n] # Absent => <<"local", disk[n].type, local_state(n)>> \in LocalOnly
BY LocalStateGood DEF CopyInv, LocalOnly

\* With an empty stored state, site_synch is not called.
EmptyInv ==
  info.items = << >> =>
    pc # "synching" /\ (pc = "synch" => \A i \in DOMAIN files : Stored(files[i]) = Absent)

\* "Refusing to delete all local files with a synchronize operation."
LEMMA EmptyRefused ==
  ASSUME CopyInv, \A i \in DOMAIN files : Stored(files[i]) = Absent
  PROVE  Refuses
<1>1. site \in Site /\ Counted(site)
  BY GoodListType DEF CopyInv, ListInv, Exact
<1>2. \A i \in DOMAIN files : files[i].diff = "new"
  BY EntryHas
<1>3. ASSUME NEW k \in {"unchanged", "deleted", "moved", "changed", "ignored"} PROVE site.num[k] = 0
  <2>1. k \in Counters
    BY DEF Counters, Diffs
  <2>2. site.num[k] \in Nat /\ (site.num[k] > 0 <=> \E i \in DOMAIN site.files : StatKey(site.files[i]) = k)
    BY <1>1, <2>1, CounterCounts
  <2>3. \A i \in DOMAIN site.files : StatKey(site.files[i]) # k
    BY <1>2 DEF StatKey, files
  <2>4. QED
    BY <2>2, <2>3
<1>4. QED
  BY <1>3 DEF Refuses

\* Every step keeps it.
LEMMA NextEmpty ==
  ASSUME CopyInv, EmptyInv, [Next]_siteVars
  PROVE  EmptyInv'
<1>1. CASE ReadForSynch
  <2>1. ReadSite("synch") /\ pc' = "synch" /\ UNCHANGED info
    BY <1>1 DEF ReadForSynch, ReadSite, Reads
  <2>2. PICK command : command = "synch"
    OBVIOUS
  <2>3. \A n \in Names \ Excluded : disk[n] # Absent => <<"local", disk[n].type, local_state(n)>> \in LocalOnly
    BY LocalStatesOnly
  <2>4. LocalOnly \subseteq Good(opt) \cap LocalOnly /\ ItemsIn(info.items, Good(opt))
    BY DEF LocalOnly, CopyInv, InfoInv
  <2>5. ReadSite(command) /\ command # "verify"
    BY <2>1, <2>2
  <2>6. info.items = << >> => StatesAmong(site'.files, LocalOnly)
    BY <2>3, <2>4, <2>5, ReadSiteStates
  <2>7. ASSUME StatesAmong(site'.files, LocalOnly), NEW i \in DOMAIN site'.files, site'.files[i].st["stored"] # Absent
        PROVE  FALSE
    <3>1. <<"stored", site'.files[i].type, site'.files[i].st["stored"]>> \in LocalOnly
      BY <2>7 DEF StatesAmong, Sides
    <3>2. QED
      BY <3>1 DEF LocalOnly
  <2>8. QED
    BY <2>1, <2>6, <2>7 DEF EmptyInv, files, Stored
<1>2. CASE BeginSynch
  <2>1. pc = "synch" /\ ~Refuses /\ UNCHANGED <<site, info>>
    BY <1>2 DEF BeginSynch, StartSynch
  <2>2. info.items # << >>
    BY <2>1, EmptyRefused DEF EmptyInv
  <2>3. QED
    BY <2>1, <2>2 DEF EmptyInv
<1>3. CASE SynchWorks
  BY <1>3 DEF SynchWorks, EmptyInv
<1>4. CASE UNCHANGED siteVars \/ Publish
  <2>1. UNCHANGED <<site, info, pc>>
    BY <1>4 DEF siteVars, copyVars, worldVars, Publish
  <2>2. QED
    BY <2>1 DEF EmptyInv, files
<1>5. CASE ReadForFetch \/ ReadForVerify \/ BeginFetch \/ ListNext \/ AskNext \/ FetchReturns \/ FetchFailed
           \/ OpenInfo \/ SaveFetched \/ Initialize \/ RefuseToSynch \/ NothingToSynch \/ VerifySite \/ EndUnsaved \/ Edit \/ Killed
  <2>1. pc' \notin {"synch", "synching"}
    BY <1>5 DEF ReadForFetch, ReadForVerify, ReadSite, Reads, BeginFetch, ListNext, AskNext, FetchReturns, FetchFailed,
                OpenInfo, SaveFetched, Initialize, RefuseToSynch, NothingToSynch, VerifySite, EndUnsaved, Edit, Killed, Ends, worldVars
  <2>2. QED
    BY <2>1 DEF EmptyInv
<1>6. QED
  BY <1>1, <1>2, <1>3, <1>4, <1>5 DEF Next, Program

\* Without a stored state no local file is ever removed or replaced: site_synch
\* would take every one of them for a file that was removed from the server.
THEOREM NothingDeletedForNothing ==
  ASSUME EveryTime
  PROVE  Spec => EmptyStateKeepsFiles
<1>1. Init => EmptyInv
  BY DEF Init, EmptyInv
<1>2. CopyInv /\ EmptyInv /\ [Next]_siteVars => EmptyInv'
  BY NextEmpty
<1>3. EmptyInv => (pc = "synching" /\ info.items = << >> => disk' = disk)
  BY DEF EmptyInv
<1>4. QED
  BY <1>1, <1>2, <1>3, CopyInvariant, PTL DEF Spec, EmptyStateKeepsFiles

-----------------------------------------------------------------------------
(* A verify that succeeds                                                  *)

\* The stored files are as many as the files of the listing that are stored, and
\* these are different ones: so the listing has every stored file.
LEMMA EveryStoredListed ==
  ASSUME CopyInv, NEW l \in fetch_list(Root), numremote(l.list) = 0
  PROVE  \A n \in StoredNames : At(n) # Absent
<1>1. PICK q : q = l.list
  OBVIOUS
<1>2. q \in Seq(FoundFile) /\ Listed(q, Root)
  BY <1>1, FetchListGood DEF CopyInv, ServerInv
<1>3. files \in Seq(Entry)
  BY GoodListType DEF CopyInv, ListInv, files
<1> DEFINE A == {i \in DOMAIN files : Stored(files[i]) # Absent}
           B == {k \in DOMAIN q : q[k].name \in StoredNames}
<1>4. A \in SUBSET (1 .. Len(files)) /\ B \in SUBSET (1 .. Len(q)) /\ Len(files) \in Nat /\ Len(q) \in Nat
  BY <1>2, <1>3
<1>5. IsFiniteSet(A) /\ IsFiniteSet(B)
  <2>1. IsFiniteSet(1 .. Len(files)) /\ IsFiniteSet(1 .. Len(q))
    BY <1>4, FS_Interval
  <2>2. QED
    BY <1>4, <2>1, FS_Subset
<1>6. Cardinality(A) \in Nat /\ Cardinality(B) \in Nat
  BY <1>5, FS_CardinalityType
<1>7. Cardinality(A) - Cardinality(B) = 0
  BY <1>1 DEF numremote
<1>8. StoredNames = {Stored(files[i]).filename : i \in A}
  BY DEF StoredNames
<1>9. \A k \in B : \E i \in A : Stored(files[i]).filename = q[k].name
  BY <1>8
<1>10. \A k, m \in B : q[k].name = q[m].name => k = m
  BY <1>2 DEF Listed
<1>11. \A k \in B : At(q[k].name) # Absent
  BY <1>2 DEF Listed, Children, At
<1> HIDE DEF A, B
<1> DEFINE h == [k \in B |-> CHOOSE i \in A : Stored(files[i]).filename = q[k].name]
<1>12. \A k \in B : h[k] \in A /\ Stored(files[h[k]]).filename = q[k].name
  BY <1>9
<1>13. h \in [B -> A]
  BY <1>12
<1> HIDE DEF h
<1>14. h \in Injection(B, A)
  BY <1>10, <1>12, <1>13 DEF Injection, IsInjective
<1>15. Cardinality(B) = Cardinality(A)
  BY <1>6, <1>7
<1>16. h \in Surjection(B, A)
  BY <1>5, <1>14, <1>15, FS_Injection
<1>17. \A i \in A : \E k \in B : h[k] = i
  BY <1>16 DEF Surjection
<1>18. ASSUME NEW n \in StoredNames PROVE At(n) # Absent
  <2>1. PICK i \in A : n = Stored(files[i]).filename
    BY <1>8
  <2>2. PICK k \in B : h[k] = i
    BY <1>17
  <2>3. n = q[k].name
    BY <1>12, <2>1, <2>2
  <2>4. QED
    BY <1>11, <2>3
<1>19. QED
  BY <1>18

\* SITE_OK from site_verify means that every stored file was in the listing,
\* although the engine only counts.
THEOREM VerifiedPresent ==
  ASSUME EveryTime
  PROVE  Spec => VerifyMeansPresent
<1>1. CopyInv /\ [Next]_siteVars =>
        [pc = "verify" /\ pc' = "verified" /\ ret' = 0 =>
           \A n \in StoredNames : server[<<n, "real">>] # Absent]_siteVars
  <2>1. SUFFICES ASSUME CopyInv, Next, pc = "verify", pc' = "verified", ret' = 0
                 PROVE  \A n \in StoredNames : server[<<n, "real">>] # Absent
    OBVIOUS
  <2>2. VerifySite
    BY <2>1 DEF Next, Program, ReadForFetch, ReadForSynch, ReadForVerify, ReadSite, Reads, BeginFetch, ListNext,
                AskNext, FetchReturns, FetchFailed, OpenInfo, SaveFetched, Initialize, RefuseToSynch,
                NothingToSynch, BeginSynch, SynchWorks, EndUnsaved,
                Edit, Publish, Killed
  <2>3. PICK l \in fetch_list(Root) : ret' = IF l.failed \/ numremote(l.list) # 0 THEN 1 ELSE 0
    BY <2>2 DEF VerifySite, Verify
  <2>4. numremote(l.list) = 0
    BY <2>1, <2>3
  <2>5. QED
    <3>1. \A n \in StoredNames : At(n) # Absent
      BY <2>1, <2>4, EveryStoredListed
    <3>2. QED
      BY <3>1, Zenon DEF At
<1>2. QED
  BY <1>1, CopyInvariant, PTL DEF Spec, VerifyMeansPresent

-----------------------------------------------------------------------------
(* What is excluded or unchanged                                           *)

\* A local file of the list is one on the disk, or at least not a directory.
FilesThere ==
  \A i \in DOMAIN files : files[i].type = "file" /\ Local(files[i]) # Absent =>
    DiskType(Local(files[i]).filename) = "file"
NoDirThere ==
  \A i \in DOMAIN files : files[i].type = "file" /\ Local(files[i]) # Absent =>
    DiskType(Local(files[i]).filename) # "dir"

\* The names are apart, in the list, in the info file and in what a fetch has
\* found, and the list knows the types of the local files.
UntouchedInv ==
  /\ pc = "fetching" => WalkedSoFar(dirstack, found)
  /\ ~opt.checkmoved => Keyed(files) /\ KeyedItems(info.items)
  /\ pc = "synch" \/ loop = "directories" => FilesThere
  /\ loop = "files" => NoDirThere

\* The empty list has no names.
LEMMA EmptyKeyed ==
  ASSUME NEW o
  PROVE  Keyed(EmptySite(o).files) /\ EmptySite(o).files = << >>
BY DEF Keyed, EmptySite

\* Two states of one name and type are of one entry.
LEMMA OneEntry ==
  ASSUME Keyed(files), NEW i \in DOMAIN files, NEW j \in DOMAIN files, files[i].type = files[j].type,
         Local(files[i]) # Absent,
         \/ Local(files[j]) # Absent /\ Local(files[j]).filename = Local(files[i]).filename
         \/ Stored(files[j]) # Absent /\ Stored(files[j]).filename = Local(files[i]).filename
  PROVE  i = j
BY DEF Keyed, Local, Stored, Sides

\* file_downloaded replaces one entry, and the local file gets the stored name.
LEMMA DownloadedEntries ==
  ASSUME CopyInv, NEW i \in DOMAIN files, Stored(files[i]) # Absent
  PROVE  LET fs == file_downloaded(site, i).files
         IN  /\ fs = [files EXCEPT ![i] = fs[i]]
             /\ DOMAIN fs = DOMAIN files /\ \A j \in DOMAIN files \ {i} : fs[j] = files[j]
             /\ fs[i].type = files[i].type /\ fs[i].st = [x \in Sides |-> Stored(files[i])]
             /\ Local(fs[i]) = Stored(files[i])
<1>1. site \in Site /\ files \in Seq(Entry) /\ i \in DOMAIN site.files
  BY GoodListType DEF CopyInv, ListInv, files
<1>2. PICK st : st = [x \in Sides |-> Stored(files[i])]
  OBVIOUS
<1>3. PICK r : r = file_downloaded(site, i)
  OBVIOUS
<1>4. r = set_states(site, i, st)
  BY <1>2, <1>3 DEF file_downloaded, files
<1>5. r.files = [site.files EXCEPT ![i] = r.files[i]] /\ r.files[i].st = st /\ r.files[i].type = site.files[i].type
  BY <1>1, <1>4, SetStatesFiles
<1>6. PICK f : f = r.files[i]
  OBVIOUS
<1>7. r.files = [files EXCEPT ![i] = f] /\ f.st = st /\ f.type = files[i].type
  BY <1>5, <1>6 DEF files
<1>8. /\ DOMAIN [files EXCEPT ![i] = f] = DOMAIN files
      /\ \A j \in DOMAIN files \ {i} : [files EXCEPT ![i] = f][j] = files[j]
  OBVIOUS
<1>9. Local(f) = Stored(files[i])
  BY <1>2, <1>7 DEF Local, Sides
<1>10. QED
  BY <1>2, <1>3, <1>6, <1>7, <1>8, <1>9

\* ... and leaves the names apart.
LEMMA DownloadedKeyed ==
  ASSUME CopyInv, Keyed(files), NEW i \in DOMAIN files, Stored(files[i]) # Absent
  PROVE  Keyed(file_downloaded(site, i).files)
<1>1. PICK f, fs : /\ fs = file_downloaded(site, i).files /\ fs = [files EXCEPT ![i] = f]
                   /\ f.type = files[i].type /\ f.st = [x \in Sides |-> Stored(files[i])]
  BY DownloadedEntries
<1>2. \A x \in Sides : f.st[x] # Absent =>
        \E y \in Sides : files[i].st[y] # Absent /\ files[i].st[y].filename = f.st[x].filename
  BY <1>1 DEF Sides, Stored
<1>3. Keyed([files EXCEPT ![i] = f])
  BY <1>1, <1>2, KeyedReplaced
<1>4. QED
  BY <1>1, <1>3

\* A step of site_synch leaves the names apart.
LEMMA SynchKeyed ==
  ASSUME CopyInv, Keyed(files), SynchStep
  PROVE  Keyed(site'.files)
<1>1. site \in Site /\ files \in Seq(Entry)
  BY GoodListType DEF CopyInv, ListInv, files
<1>2. CASE UNCHANGED site
  BY <1>2 DEF files
<1>3. CASE \E i \in DOMAIN files : Stored(files[i]) # Absent /\ site' = file_downloaded(site, i)
  BY <1>3, DownloadedKeyed
<1>4. CASE \E i \in DOMAIN files : site' = file_delete(site, i)
  <2>1. PICK i \in DOMAIN files : site' = file_delete(site, i)
    BY <1>4
  <2>2. site'.files = Removed(files, i) /\ i \in 1 .. Len(files)
    BY <1>1, <2>1, DeleteFiles DEF files
  <2>3. QED
    BY <1>1, <2>2, KeyedRemoved
<1>5. CASE synch_create_directories
  <2>1. current \in DOMAIN files /\ files[current].diff = "deleted"
    BY <1>5, AtCurrent DEF handles, synch_create_directories
  <2>2. Stored(files[current]) # Absent
    BY <2>1, EntryHas
  <2>3. QED
    BY <1>2, <1>3, <1>5, <2>1, <2>2, CreateDirectoriesWorks
<1>6. CASE synch_chmod
  BY <1>2, <1>6, ChmodWorks
<1>7. CASE synch_download
  BY <1>2, <1>3, <1>7, DownloadWorks
<1>8. CASE synch_unlink
  BY <1>2, <1>8, UnlinkWorks
<1>9. CASE synch_rename
  BY <1>2, <1>9, RenameWorks
<1>10. CASE synch_delete_directories
  BY <1>2, <1>4, <1>10, DeleteDirectoriesWorks
<1>11. CASE EndLoop
  BY <1>2, <1>11 DEF EndLoop
<1>12. QED
  BY <1>5, <1>6, <1>7, <1>8, <1>9, <1>10, <1>11 DEF SynchStep

\* What is at a name, before and after a step.
LEMMA TypesOnDisk ==
  ASSUME NEW n \in Names
  PROVE  /\ DiskType(n) = IF disk[n] = Absent THEN "none" ELSE disk[n].type
         /\ DiskType(n)' = IF disk'[n] = Absent THEN "none" ELSE disk'[n].type
<1>1. n # Root
  BY ServerAssumption
<1>2. QED
  BY <1>1 DEF DiskType

\* The entries of files: the list that is left by a step has them from the list
\* before, or from file_downloaded.
LEMMA FilesStayThere ==
  ASSUME CopyInv, FilesThere, synch_create_directories
  PROVE  FilesThere'
<1>1. PICK c \in DOMAIN files : c = current
  BY CreateDirectoriesWorks
<1>2. /\ Works({n \in Names \ Excluded : DiskType(n) = "none"}) /\ files[c].type = "dir"
      /\ UNCHANGED site \/ site' = file_downloaded(site, c)
  BY <1>1, CreateDirectoriesWorks
<1>3. files[c].diff = "deleted"
  BY <1>1, AtCurrent DEF handles, synch_create_directories
<1>4. Stored(files[c]) # Absent
  BY <1>3, EntryHas
<1>5. PICK fs : fs = site'.files
  OBVIOUS
<1>6. \A j \in DOMAIN fs : fs[j].type = "file" => j \in DOMAIN files /\ fs[j] = files[j]
  <2>1. CASE UNCHANGED site
    BY <1>5, <2>1 DEF files
  <2>2. CASE site' = file_downloaded(site, c)
    <3>1. DOMAIN fs = DOMAIN files /\ fs[c].type = "dir" /\ \A j \in DOMAIN files \ {c} : fs[j] = files[j]
      BY <1>2, <1>4, <1>5, <2>2, DownloadedEntries
    <3>2. QED
      BY <3>1
  <2>3. QED
    BY <1>2, <2>1, <2>2
<1>7. ASSUME NEW j \in DOMAIN fs, fs[j].type = "file", Local(fs[j]) # Absent
      PROVE  DiskType(Local(fs[j]).filename)' = "file"
  <2>1. j \in DOMAIN files /\ fs[j] = files[j]
    BY <1>6, <1>7
  <2>2. PICK n \in Names : n = Local(files[j]).filename
    BY <1>7, <2>1, EntryNames
  <2>3. DiskType(n) = "file"
    BY <1>7, <2>1, <2>2 DEF FilesThere
  <2>4. disk'[n] = disk[n]
    BY <1>2, <2>3 DEF Works, OnlyChanges
  <2>5. DiskType(n)' = "file"
    BY <2>3, <2>4, TypesOnDisk
  <2>6. QED
    BY <2>1, <2>2, <2>5
<1>8. QED
  BY <1>5, <1>7 DEF FilesThere, files

\* The second loop of site_synch makes no directory.
LEMMA NoDirMade ==
  ASSUME CopyInv, synch_chmod \/ synch_download \/ synch_unlink \/ synch_rename,
         NEW n \in Names, DiskType(n) # "dir"
  PROVE  DiskType(n)' # "dir"
<1>1. CASE disk' = disk
  BY <1>1, TypesOnDisk
<1>2. CASE \E m : StillThere(disk', disk, m, "file")
  BY <1>2, TypesOnDisk DEF StillThere
<1>3. CASE NoNewDir(disk')
  BY <1>3, TypesOnDisk DEF NoNewDir
<1>4. CASE synch_chmod
  <2>1. PICK m : disk' = disk \/ (disk[m] # Absent /\ StillThere(disk', disk, m, disk[m].type))
    BY <1>4, ChmodWorks
  <2>2. CASE disk[m] # Absent /\ StillThere(disk', disk, m, disk[m].type)
    <3>1. CASE n = m
      <4>1. disk[n].type # "dir"
        BY <2>2, <3>1, TypesOnDisk
      <4>2. disk'[n].type # "dir"
        BY <2>2, <3>1, <4>1 DEF StillThere
      <4>3. QED
        BY <4>2, TypesOnDisk
    <3>2. CASE n # m
      <4>1. disk'[n] = disk[n]
        BY <2>2, <3>2 DEF StillThere
      <4>2. QED
        BY <4>1, TypesOnDisk
    <3>3. QED
      BY <3>1, <3>2
  <2>3. QED
    BY <1>1, <2>1, <2>2
<1>5. CASE synch_download
  BY <1>1, <1>2, <1>5, DownloadWorks
<1>6. CASE synch_unlink
  BY <1>3, <1>6, UnlinkWorks
<1>7. CASE synch_rename
  BY <1>3, <1>7, RenameWorks
<1>8. QED
  BY <1>4, <1>5, <1>6, <1>7

\* A local file of the list does not become a directory.
LEMMA NoDirStays ==
  ASSUME CopyInv, NoDirThere, synch_chmod \/ synch_download \/ synch_unlink \/ synch_rename
  PROVE  NoDirThere'
<1>1. CASE UNCHANGED site
  <2>1. ASSUME NEW j \in DOMAIN files, files[j].type = "file", Local(files[j]) # Absent
        PROVE  DiskType(Local(files[j]).filename)' # "dir"
    <3>1. PICK n \in Names : n = Local(files[j]).filename
      BY <2>1, EntryNames
    <3>2. DiskType(n) # "dir"
      BY <2>1, <3>1 DEF NoDirThere
    <3>3. DiskType(n)' # "dir"
      BY <3>2, NoDirMade
    <3>4. Local(files[j]).filename' = n
      BY <1>1, <3>1 DEF files
    <3>5. QED
      BY <3>3, <3>4
  <2>2. QED
    BY <1>1, <2>1 DEF NoDirThere, files
<1>2. CASE synch_download /\ ~UNCHANGED site
  <2>1. PICK c \in DOMAIN files : c = current
    BY <1>2, DownloadWorks
  <2>2. Stored(files[c]) # Absent /\ site' = file_downloaded(site, c)
        /\ StillThere(disk', disk, Stored(files[c]).filename, "file")
    BY <1>2, <2>1, DownloadWorks
  <2>3. PICK fs : /\ fs = site'.files /\ DOMAIN fs = DOMAIN files
                  /\ \A j \in DOMAIN files \ {c} : fs[j] = files[j]
                  /\ Local(fs[c]) = Stored(files[c])
    BY <2>2, DownloadedEntries
  <2>4. ASSUME NEW j \in DOMAIN fs, fs[j].type = "file", Local(fs[j]) # Absent
        PROVE  DiskType(Local(fs[j]).filename)' # "dir"
    <3>1. CASE j = c
      <4>1. PICK n \in Names : n = Stored(files[c]).filename
        BY <2>2, EntryNames
      <4>2. disk'[n] # Absent /\ disk'[n].type = "file"
        BY <2>2, <4>1 DEF StillThere
      <4>3. DiskType(n)' # "dir"
        BY <4>2, TypesOnDisk
      <4>4. QED
        BY <2>3, <3>1, <4>1, <4>3
    <3>2. CASE j # c
      <4>1. j \in DOMAIN files /\ fs[j] = files[j]
        BY <2>3, <3>2
      <4>2. PICK n \in Names : n = Local(files[j]).filename
        BY <2>4, <4>1, EntryNames
      <4>3. DiskType(n) # "dir"
        BY <2>4, <4>1, <4>2 DEF NoDirThere
      <4>4. DiskType(n)' # "dir"
        BY <4>3, NoDirMade
      <4>5. QED
        BY <4>1, <4>2, <4>4
    <3>3. QED
      BY <3>1, <3>2
  <2>5. QED
    BY <2>3, <2>4 DEF NoDirThere, files
<1>3. QED
  BY <1>1, <1>2, ChmodWorks, UnlinkWorks, RenameWorks

\* A step of site_synch keeps what the loops know of the disk.
LEMMA SynchTypes ==
  ASSUME CopyInv, SynchStep, loop = "directories" => FilesThere, loop = "files" => NoDirThere
  PROVE  (loop' = "directories" => FilesThere') /\ (loop' = "files" => NoDirThere')
<1>1. CASE EndLoop
  <2>1. UNCHANGED <<site, disk>> /\ loop' \in {"none", LoopAfter(loop)} /\ loop \in Loops
    BY <1>1 DEF EndLoop, CopyInv, ControlInv
  <2>2. loop' # "directories" /\ (loop' = "files" => loop = "directories")
    BY <2>1 DEF LoopAfter, Loops
  <2>3. FilesThere => NoDirThere
    BY DEF FilesThere, NoDirThere
  <2>4. NoDirThere => NoDirThere'
    BY <2>1 DEF NoDirThere, files, DiskType
  <2>5. QED
    BY <2>2, <2>3, <2>4
<1>2. CASE synch_create_directories
  <2>1. loop = "directories" /\ loop' = loop
    BY <1>2, CreateDirectoriesWorks DEF Works
  <2>2. QED
    BY <1>2, <2>1, FilesStayThere
<1>3. CASE synch_chmod \/ synch_download \/ synch_unlink \/ synch_rename
  <2>1. loop = "files" /\ loop' = loop
    BY <1>3, ChmodWorks, DownloadWorks, UnlinkWorks, RenameWorks DEF Works
  <2>2. NoDirThere'
    BY <1>3, <2>1, NoDirStays
  <2>3. QED
    BY <2>1, <2>2
<1>4. CASE synch_delete_directories
  <2>1. loop = "delete_directories" /\ loop' = loop
    BY <1>4, DeleteDirectoriesWorks DEF Works
  <2>2. QED
    BY <2>1
<1>5. QED
  BY <1>1, <1>2, <1>3, <1>4 DEF SynchStep

\* The list that is read knows the types of the local files, and has the names
\* apart.
LEMMA ReadUntouched ==
  ASSUME CopyInv, ~opt.checkmoved => KeyedItems(info.items), NEW command, command # "verify", ReadSite(command)
  PROVE  FilesThere' /\ (~opt.checkmoved => Keyed(site'.files))
<1> DEFINE P == {x \in LocalOnly : x[2] = "file" => DiskType(x[3].filename) = "file"}
           Q == {x \in Good(opt) : x[1] = "local" /\ x[2] = "file" => DiskType(x[3].filename) = "file"}
<1>1. P \subseteq Q \cap LocalOnly
  BY DEF LocalOnly
<1>2. \A n \in Names \ Excluded : disk[n] # Absent => <<"local", disk[n].type, local_state(n)>> \in P
  <2>1. ASSUME NEW n \in Names \ Excluded, disk[n] # Absent
        PROVE  <<"local", disk[n].type, local_state(n)>> \in P
    <3>1. <<"local", disk[n].type, local_state(n)>> \in LocalOnly /\ local_state(n).filename = n
      BY <2>1, LocalStatesOnly, LocalStateGood DEF CopyInv
    <3>2. disk[n].type = "file" => DiskType(n) = "file"
      BY <2>1, TypesOnDisk
    <3>3. QED
      BY <3>1, <3>2
  <2>2. QED
    BY <2>1
<1>3. ItemsIn(info.items, Q)
  BY DEF CopyInv, InfoInv, ItemsIn
<1>4. \A x \in Q : x[1] = "local" /\ x[2] = "file" => DiskType(x[3].filename) = "file"
  OBVIOUS
<1> HIDE DEF P, Q
<1>5. /\ StatesAmong(site'.files, Q)
      /\ ~opt.checkmoved /\ KeyedItems(info.items) => Keyed(site'.files)
  BY <1>1, <1>2, <1>3, ReadSiteStates
<1>6. UNCHANGED disk
  BY DEF ReadSite
<1>7. PICK fs : fs = site'.files
  OBVIOUS
<1>8. ASSUME NEW j \in DOMAIN fs, fs[j].type = "file", Local(fs[j]) # Absent
      PROVE  DiskType(Local(fs[j]).filename) = "file"
  <2>1. <<"local", "file", Local(fs[j])>> \in Q
    BY <1>5, <1>7, <1>8 DEF StatesAmong, Sides, Local
  <2>2. QED
    BY <1>4, <2>1
<1>9. FilesThere'
  BY <1>6, <1>7, <1>8 DEF FilesThere, files, DiskType
<1>10. QED
  BY <1>5, <1>9

\* ... and so does the list that is read for a verify.
LEMMA ReadForVerifyKeyed ==
  ASSUME CopyInv, ~opt.checkmoved, KeyedItems(info.items), ReadForVerify
  PROVE  Keyed(site'.files)
<1>1. opt \in Options
  BY GoodListType DEF CopyInv, ListInv, opt
<1>2. site' = site_read_stored_state(EmptySite(opt), info)
  BY DEF ReadForVerify, ReadSite
<1>3. PICK s : s = EmptySite(opt)
  OBVIOUS
<1>4. Exact(s) /\ s.opt = opt /\ s.files = << >> /\ Keyed(s.files)
  BY <1>1, <1>3, EmptySiteExact, EmptyKeyed
<1>5. StatesAmong(s.files, Good(opt)) /\ \A t, n : ~HasKey(s.files, "stored", t, n)
  BY <1>4 DEF StatesAmong, HasKey
<1>6. info.items \in Seq(Item) /\ ItemsIn(info.items, Good(opt))
  BY DEF CopyInv, InfoInv
<1>7. PICK r : r = site_read_stored_state(s, info)
  OBVIOUS
<1>8. ~s.opt.checkmoved /\ Keyed(s.files) /\ KeyedItems(info.items)
        /\ (\A t, n : ~HasKey(s.files, "stored", t, n)) => Keyed(r.files)
  BY <1>4, <1>5, <1>6, <1>7, StoredStateRead
<1>9. QED
  BY <1>2, <1>3, <1>4, <1>5, <1>7, <1>8

\* The walk begins with the root, and goes on with each directory.
LEMMA WalkBegins ==
  WalkedSoFar(<<Root>>, << >>)
<1>1. PICK q : q = <<Root>>
  OBVIOUS
<1>2. DOMAIN q = {1} /\ q[1] = Root
  BY <1>1
<1>3. IsInjective(q)
  BY <1>2 DEF IsInjective
<1>4. NamesOf(<< >>) = {}
  BY DEF NamesOf
<1>5. Walked(q, NamesOf(<< >>))
  BY <1>2, <1>3, <1>4 DEF Walked
<1>6. QED
  BY <1>1, <1>5 DEF WalkedSoFar

\* Listing a directory keeps what is listed apart from what is to be listed.
LEMMA WalkGoesOn ==
  ASSUME CopyInv, WalkedSoFar(dirstack, found), ListNext
  PROVE  WalkedSoFar(dirstack', found')
<1>1. PICK l \in fetch_list(Last(dirstack)) :
        IF l.failed
        THEN ret' = 1 /\ UNCHANGED fetchVars
        ELSE /\ dirstack' = FoldLeft(pushed, Front(dirstack), l.list)
             /\ found' = joined(l.list, found)
             /\ UNCHANGED ret
  BY Zenon DEF ListNext, ListDirectory
<1>2. /\ server \in Tree /\ ServerGood /\ dirstack \in Seq(Names \cup {Root}) /\ dirstack # << >>
      /\ Len(dirstack) =< DirStackSize /\ found \in Seq(FoundFile)
  BY DEF CopyInv, ServerInv, FetchInv, ListNext, ListDirectory
<1>3. CASE l.failed
  BY <1>1, <1>3 DEF fetchVars
<1>4. CASE ~l.failed
  <2>1. dirstack' = PushedAll(Front(dirstack), l.list)
    BY <1>1, <1>4 DEF PushedAll
  <2>2. found' = joined(l.list, found)
    BY <1>1, <1>4
  <2>3. QED
    BY <1>2, <2>1, <2>2, DirectoryListed
<1>5. QED
  BY <1>3, <1>4

\* An answer about a file leaves the names.
LEMMA AskGoesOn ==
  ASSUME CopyInv, WalkedSoFar(dirstack, found), AskNext
  PROVE  WalkedSoFar(dirstack', found')
<1>1. UNCHANGED dirstack
  BY DEF AskNext, AskFile
<1>2. NamesOf(found') = NamesOf(found)
  BY AnswerKept DEF NamesOf
<1>3. \A i, j \in DOMAIN found' : found'[i].name = found'[j].name => i = j
  BY AnswerKept DEF WalkedSoFar
<1>4. QED
  BY <1>1, <1>2, <1>3 DEF WalkedSoFar

\* Every step keeps the walk,
LEMMA NextWalk ==
  ASSUME CopyInv, pc = "fetching" => WalkedSoFar(dirstack, found), [Next]_siteVars
  PROVE  pc' = "fetching" => WalkedSoFar(dirstack', found')
<1>1. CASE BeginFetch
  <2>1. pc' = "fetching" => dirstack' = <<Root>> /\ found' = << >>
    BY <1>1 DEF BeginFetch, StartFetch
  <2>2. QED
    BY <2>1, WalkBegins
<1>2. CASE ListNext \/ AskNext
  BY <1>2, WalkGoesOn, AskGoesOn DEF ListNext, AskNext
<1>3. CASE UNCHANGED siteVars \/ Publish
  BY <1>3 DEF siteVars, fetchVars, worldVars, Publish
<1>4. CASE ReadForFetch \/ ReadForSynch \/ ReadForVerify \/ FetchReturns \/ FetchFailed \/ OpenInfo
           \/ SaveFetched \/ Initialize \/ RefuseToSynch \/ NothingToSynch \/ BeginSynch \/ SynchWorks \/ VerifySite \/ EndUnsaved \/ Edit \/ Killed
  BY <1>4 DEF ReadForFetch, ReadForSynch, ReadForVerify, ReadSite, Reads, FetchReturns, FetchFailed,
              OpenInfo, SaveFetched, Initialize, RefuseToSynch, NothingToSynch, BeginSynch, SynchWorks, VerifySite, EndUnsaved, Edit, Killed, Ends
<1>5. QED
  BY <1>1, <1>2, <1>3, <1>4 DEF Next, Program

\* ... the names,
LEMMA NextKeyed ==
  ASSUME EveryTime, CopyInv, UntouchedInv, [Next]_siteVars, ~opt.checkmoved
  PROVE  Keyed(site'.files) /\ KeyedItems(info'.items)
<1>1. Keyed(files) /\ KeyedItems(info.items) /\ files \in Seq(Entry)
  BY GoodListType DEF UntouchedInv, CopyInv, ListInv, files
<1>2. CASE UNCHANGED <<site, info>>
  BY <1>1, <1>2 DEF files
<1>3. CASE ReadForFetch \/ ReadForSynch
  <2>1. PICK command : command # "verify" /\ ReadSite(command)
    BY <1>3 DEF ReadForFetch, ReadForSynch
  <2>2. UNCHANGED info
    BY <2>1 DEF ReadSite
  <2>3. QED
    BY <1>1, <2>1, <2>2, ReadUntouched
<1>4. CASE ReadForVerify
  <2>1. UNCHANGED info
    BY <1>4 DEF ReadForVerify, ReadSite
  <2>2. QED
    BY <1>1, <1>4, <2>1, ReadForVerifyKeyed
<1>5. CASE FetchReturns
  <2>1. pc = "fetching" /\ UNCHANGED info /\ site' = IF ret = 1 THEN site ELSE Fetched
    BY <1>5, FetchDoneSite DEF FetchReturns
  <2>2. Keyed(Fetched.files)
    BY <1>1, <2>1, FetchedGood DEF UntouchedInv
  <2>3. QED
    BY <1>1, <2>1, <2>2 DEF files
<1>6. CASE SaveFetched
  <2>1. site' = EmptySite(opt) /\ info' = ValidInfo(items_of(files))
    BY <1>6 DEF SaveFetched, Ends
  <2>2. KeyedItems(items_of(files)) /\ ValidInfo(items_of(files)).items = items_of(files)
    BY <1>1, ItemsKeyed DEF ValidInfo
  <2>3. QED
    BY <1>1, <2>1, <2>2, EmptyKeyed
<1>7. CASE FetchFailed \/ RefuseToSynch \/ EndUnsaved \/ Killed
  <2>1. UNCHANGED info /\ site' = EmptySite(opt)
    BY <1>7 DEF FetchFailed, RefuseToSynch, EndUnsaved, Killed, Ends
  <2>2. QED
    BY <1>1, <2>1, EmptyKeyed
<1>8. CASE SynchWorks
  <2>1. SynchStep /\ UNCHANGED info
    BY <1>8 DEF SynchWorks
  <2>2. QED
    BY <1>1, <2>1, SynchKeyed
<1>9. CASE BeginFetch \/ ListNext \/ AskNext \/ NothingToSynch \/ BeginSynch \/ VerifySite \/ Edit \/ Publish
           \/ UNCHANGED siteVars
  BY <1>2, <1>9 DEF BeginFetch, StartFetch, ListNext, ListDirectory, AskNext, AskFile, NothingToSynch, BeginSynch, StartSynch,
                    VerifySite, Verify, Edit, Publish, siteVars, copyVars, worldVars
<1>10. CASE OpenInfo \/ Initialize
  <2>1. UNCHANGED site /\ info'.items = << >>
    BY <1>10 DEF OpenInfo, Initialize, TruncatedInfo, ValidInfo, copyVars
  <2>2. QED
    BY <1>1, <2>1 DEF files, KeyedItems
<1>11. QED
  BY <1>3, <1>4, <1>5, <1>6, <1>7, <1>8, <1>9, <1>10 DEF Next, Program

\* ... and what the list knows of the types.
LEMMA NextTypes ==
  ASSUME CopyInv, UntouchedInv, [Next]_siteVars
  PROVE  /\ pc' = "synch" \/ loop' = "directories" => FilesThere'
         /\ loop' = "files" => NoDirThere'
<1>1. CASE ReadForSynch
  <2>1. ReadSite("synch") /\ "synch" # "verify"
    BY <1>1 DEF ReadForSynch
  <2>2. PICK command : command # "verify" /\ ReadSite(command)
    BY <2>1
  <2>3. FilesThere'
    BY <2>2, ReadUntouched DEF UntouchedInv
  <2>4. loop = "none" /\ UNCHANGED loop
    BY <2>1 DEF ReadSite, Reads, CopyInv, ControlInv, synchVars
  <2>5. QED
    BY <2>3, <2>4
<1>2. CASE BeginSynch
  <2>1. pc = "synch" /\ UNCHANGED <<site, disk>> /\ loop' \in {"none", "directories"} /\ pc' # "synch"
    BY <1>2 DEF BeginSynch, StartSynch
  <2>2. FilesThere'
    BY <2>1 DEF UntouchedInv, FilesThere, files, DiskType
  <2>3. QED
    BY <2>1, <2>2
<1>3. CASE SynchWorks
  <2>1. SynchStep /\ pc' # "synch"
    BY <1>3 DEF SynchWorks
  <2>2. QED
    BY <2>1, SynchTypes DEF UntouchedInv
<1>4. CASE UNCHANGED siteVars \/ Publish
  <2>1. UNCHANGED <<site, disk, pc, loop>>
    BY <1>4 DEF siteVars, copyVars, synchVars, worldVars, Publish
  <2>2. (FilesThere => FilesThere') /\ (NoDirThere => NoDirThere')
    BY <2>1 DEF FilesThere, NoDirThere, files, DiskType
  <2>3. QED
    BY <2>1, <2>2 DEF UntouchedInv
<1>5. CASE ReadForFetch \/ ReadForVerify \/ BeginFetch \/ ListNext \/ AskNext \/ FetchReturns \/ FetchFailed
           \/ OpenInfo \/ SaveFetched \/ Initialize \/ RefuseToSynch \/ NothingToSynch \/ VerifySite \/ EndUnsaved \/ Edit \/ Killed
  <2>1. pc' # "synch"
    BY <1>5 DEF ReadForFetch, ReadForVerify, ReadSite, Reads, BeginFetch, ListNext, AskNext, FetchReturns, FetchFailed,
                OpenInfo, SaveFetched, Initialize, RefuseToSynch, NothingToSynch, VerifySite, EndUnsaved, Edit, Killed, Ends, worldVars
  <2>2. loop' = "none"
    <3>1. CASE Killed
      BY <3>1 DEF Killed
    <3>2. CASE ~Killed
      <4>1. pc # "synching"
        BY <1>5, <3>2 DEF ReadForFetch, ReadForVerify, ReadSite, Reads, BeginFetch, ListNext, AskNext, FetchReturns,
                FetchFailed, OpenInfo, SaveFetched, Initialize, RefuseToSynch, NothingToSynch, VerifySite, EndUnsaved, Edit
      <4>2. UNCHANGED loop
        BY <1>5, <3>2 DEF ReadForFetch, ReadForVerify, ReadSite, BeginFetch, ListNext, AskNext, FetchReturns,
                FetchFailed, OpenInfo, SaveFetched, Initialize, RefuseToSynch, NothingToSynch, VerifySite, EndUnsaved, Edit, synchVars
      <4>3. QED
        BY <4>1, <4>2 DEF CopyInv, ControlInv
    <3>3. QED
      BY <3>1, <3>2
  <2>3. QED
    BY <2>1, <2>2
<1>6. QED
  BY <1>1, <1>2, <1>3, <1>4, <1>5 DEF Next, Program

\* The options of the site are what they were.
LEMMA OptionsStay ==
  ASSUME EveryTime, CopyInv, [Next]_siteVars
  PROVE  UNCHANGED opt
<1>1. CASE UNCHANGED site
  BY <1>1, Frames
<1>2. CASE ReadForFetch \/ ReadForSynch \/ ReadForVerify
  <2>1. PICK command : ReadSite(command)
    BY <1>2 DEF ReadForFetch, ReadForSynch, ReadForVerify
  <2>2. QED
    BY <2>1, ReadSiteGood
<1>3. CASE FetchReturns
  <2>1. site' = IF ret = 1 THEN site ELSE Fetched
    BY <1>3, FetchDoneSite DEF FetchReturns
  <2>2. QED
    BY <2>1, FetchedGood DEF opt
<1>4. CASE FetchFailed \/ SaveFetched \/ RefuseToSynch \/ EndUnsaved \/ Killed
  BY <1>4, EndsGood DEF FetchFailed, SaveFetched, RefuseToSynch, EndUnsaved, Killed
<1>5. CASE SynchWorks
  <2>1. SynchStep
    BY <1>5 DEF SynchWorks
  <2>2. CASE EndLoop
    BY <1>1, <2>2 DEF EndLoop
  <2>3. CASE ~EndLoop
    <3>1. PICK S \in SUBSET (Names \ Excluded) : Works(S)
      BY <2>1, <2>3, SynchWorksOn
    <3>2. QED
      BY <3>1 DEF Works
  <2>4. QED
    BY <2>2, <2>3
<1>6. CASE BeginFetch \/ ListNext \/ AskNext \/ OpenInfo \/ Initialize \/ NothingToSynch \/ BeginSynch
           \/ VerifySite \/ Edit \/ Publish \/ UNCHANGED siteVars
  BY <1>1, <1>6 DEF BeginFetch, StartFetch, ListNext, ListDirectory, AskNext, AskFile, OpenInfo, Initialize, NothingToSynch, BeginSynch, StartSynch,
                    VerifySite, Verify, Edit, Publish, siteVars, copyVars
<1>7. QED
  BY <1>2, <1>3, <1>4, <1>5, <1>6 DEF Next, Program

\* So it is an invariant.
LEMMA NextUntouched ==
  ASSUME EveryTime, CopyInv, UntouchedInv, [Next]_siteVars
  PROVE  UntouchedInv'
<1>1. UNCHANGED opt
  BY OptionsStay
<1>2. pc' = "fetching" => WalkedSoFar(dirstack', found')
  BY NextWalk DEF UntouchedInv
<1>3. ~opt.checkmoved => Keyed(site'.files) /\ KeyedItems(info'.items)
  BY NextKeyed
<1>4. /\ pc' = "synch" \/ loop' = "directories" => FilesThere'
      /\ loop' = "files" => NoDirThere'
  BY NextTypes
<1>5. (~opt.checkmoved)' => Keyed(files)' /\ KeyedItems(info.items)'
  BY <1>1, <1>3 DEF files
<1>6. QED
  BY <1>2, <1>4, <1>5 DEF UntouchedInv

\* A local file or directory that the list knows is not touched while its entry
\* is unchanged.
LEMMA UnchangedUntouched ==
  ASSUME CopyInv, UntouchedInv, SynchStep, ~opt.checkmoved,
         NEW n \in Names, NEW i \in DOMAIN files, files[i].diff = "unchanged",
         files[i].type = DiskType(n), Local(files[i]).filename = n
  PROVE  disk'[n] = disk[n]
<1>1. Keyed(files) /\ EntryOK(files[i], site)
  BY EntryHas DEF UntouchedInv
<1>2. Local(files[i]) # Absent /\ Stored(files[i]) # Absent
  BY <1>1, DiffTellsStates DEF Local
<1>3. Stored(files[i]).filename = n
  BY <1>1, <1>2 DEF Keyed, Local, Stored, Sides
<1>4. files[i].type \in {"file", "dir"}
  <2>1. <<"local", files[i].type, Local(files[i])>> \in Good(opt)
    BY <1>2, EntryHas
  <2>2. QED
    BY <2>1, GoodHas
<1>5. loop = "files" /\ files[i].type = "file" => DiskType(n) # "dir"
  BY <1>2 DEF UntouchedInv, NoDirThere
<1>6. ASSUME NEW S, Works(S), n \notin S PROVE disk'[n] = disk[n]
  BY <1>6 DEF Works, OnlyChanges
<1>7. ASSUME NEW c \in DOMAIN files, files[c].type = "file", DiskType(n) # "dir", files[c].diff # "unchanged"
      PROVE  /\ Local(files[c]) # Absent => Local(files[c]).filename # n
             /\ Stored(files[c]) # Absent => Stored(files[c]).filename # n
  <2>1. files[i].type = "file" /\ c # i
    BY <1>4, <1>7
  <2>2. QED
    BY <1>1, <1>2, <1>7, <2>1, OneEntry
<1>8. CASE synch_create_directories
  <2>1. Works({m \in Names \ Excluded : DiskType(m) = "none"})
    BY <1>8, CreateDirectoriesWorks
  <2>2. n \notin {m \in Names \ Excluded : DiskType(m) = "none"}
    BY <1>4
  <2>3. QED
    BY <1>6, <2>1, <2>2
<1>9. CASE synch_chmod
  <2>1. PICK c \in DOMAIN files :
          /\ c = current /\ loop = "files" /\ files[c].type = "file" /\ files[c].diff = "changed"
          /\ Local(files[c]) # Absent /\ Stored(files[c]) # Absent /\ Works({Stored(files[c]).filename})
    BY <1>9, ChmodWorks
  <2>2. Local(files[c]).filename = Stored(files[c]).filename
    BY <1>1, <2>1 DEF Keyed, Local, Stored, Sides
  <2>3. CASE Stored(files[c]).filename = n
    <3>1. DiskType(n) # "dir"
      BY <2>1, <2>2, <2>3 DEF UntouchedInv, NoDirThere
    <3>2. QED
      BY <1>7, <2>1, <2>3, <3>1
  <2>4. CASE Stored(files[c]).filename # n
    BY <1>6, <2>1, <2>4
  <2>5. QED
    BY <2>3, <2>4
<1>10. CASE synch_download
  <2>1. PICK c \in DOMAIN files :
          /\ c = current /\ files[c].type = "file" /\ files[c].diff \in {"changed", "deleted"}
          /\ Stored(files[c]) # Absent /\ Works({m \in {Stored(files[c]).filename} : DiskType(m) # "dir"})
    BY <1>10, DownloadWorks
  <2>2. n \notin {m \in {Stored(files[c]).filename} : DiskType(m) # "dir"}
    BY <1>7, <2>1
  <2>3. QED
    BY <1>6, <2>1, <2>2
<1>11. CASE synch_unlink
  <2>1. PICK c \in DOMAIN files :
          /\ c = current /\ files[c].type = "file" /\ files[c].diff = "new" /\ Local(files[c]) # Absent
          /\ Works({m \in {Local(files[c]).filename} : DiskType(m) = "file"})
    BY <1>11, UnlinkWorks
  <2>2. n \notin {m \in {Local(files[c]).filename} : DiskType(m) = "file"}
    BY <1>7, <2>1
  <2>3. QED
    BY <1>6, <2>1, <2>2
<1>12. CASE synch_rename
  <2>1. current \in DOMAIN files /\ files[current].diff = "moved"
    BY <1>12, RenameWorks
  <2>2. EntryOK(files[current], site)
    BY <2>1, EntryHas
  <2>3. QED
    BY <2>1, <2>2 DEF EntryOK, file_compare, opt
<1>13. CASE synch_delete_directories
  <2>1. PICK c \in DOMAIN files :
          /\ c = current /\ files[c].type = "dir" /\ files[c].diff = "new" /\ Local(files[c]) # Absent
          /\ Works({m \in {Local(files[c]).filename} : DiskType(m) = "dir"})
    BY <1>13, DeleteDirectoriesWorks
  <2>2. CASE DiskType(n) = "dir"
    <3>1. files[i].type = files[c].type /\ c # i
      BY <2>1, <2>2
    <3>2. Local(files[c]).filename # n
      BY <1>1, <1>2, <2>1, <3>1, OneEntry
    <3>3. n \notin {m \in {Local(files[c]).filename} : DiskType(m) = "dir"}
      BY <3>2
    <3>4. QED
      BY <1>6, <2>1, <3>3
  <2>3. CASE DiskType(n) # "dir"
    <3>1. n \notin {m \in {Local(files[c]).filename} : DiskType(m) = "dir"}
      BY <2>3
    <3>2. QED
      BY <1>6, <2>1, <3>1
  <2>4. QED
    BY <2>2, <2>3
<1>14. CASE EndLoop
  BY <1>14 DEF EndLoop
<1>15. QED
  BY <1>8, <1>9, <1>10, <1>11, <1>12, <1>13, <1>14 DEF SynchStep

\* What is excluded is not in the list, and every name has one entry at most:
\* so a synchronize leaves alone what is excluded and what is unchanged.
THEOREM UntouchedStaysThere ==
  ASSUME EveryTime
  PROVE  Spec => UntouchedStays
<1>1. Init => UntouchedInv
  <2>1. SUFFICES ASSUME Init PROVE UntouchedInv
    OBVIOUS
  <2>2. files = << >> /\ info.items = << >> /\ pc = "idle" /\ loop = "none"
    BY <2>1, EmptyKeyed DEF Init, files
  <2>3. QED
    BY <2>2 DEF UntouchedInv, Keyed, KeyedItems
<1>2. CopyInv /\ UntouchedInv /\ [Next]_siteVars => UntouchedInv'
  BY NextUntouched
<1>3. CopyInv /\ UntouchedInv /\ [Next]_siteVars =>
        [pc = "synching" =>
           \A n \in Names :
              \/ n \in Excluded
              \/ /\ ~opt.checkmoved
                 /\ \E i \in DOMAIN files :
                      /\ files[i].diff = "unchanged" /\ files[i].type = DiskType(n)
                      /\ Local(files[i]).filename = n
              => disk'[n] = disk[n]]_siteVars
  <2>1. SUFFICES ASSUME CopyInv, UntouchedInv, Next, pc = "synching", NEW n \in Names,
                        \/ n \in Excluded
                        \/ /\ ~opt.checkmoved
                           /\ \E i \in DOMAIN files :
                                /\ files[i].diff = "unchanged" /\ files[i].type = DiskType(n)
                                /\ Local(files[i]).filename = n
                 PROVE  disk'[n] = disk[n]
    OBVIOUS
  <2>2. CASE ~SynchWorks
    <3>1. UNCHANGED disk
      BY <2>1, <2>2 DEF Next, Program, ReadForFetch, ReadForSynch, ReadForVerify, ReadSite, Reads, BeginFetch,
                ListNext, AskNext, FetchReturns, FetchFailed, OpenInfo, SaveFetched, Initialize, RefuseToSynch,
                NothingToSynch, BeginSynch, VerifySite,
                EndUnsaved, Edit, Publish, Killed
    <3>2. QED
      BY <3>1
  <2>3. CASE SynchWorks
    <3>1. SynchStep
      BY <2>3 DEF SynchWorks
    <3>2. CASE n \in Excluded
      <4>1. CASE EndLoop
        BY <4>1 DEF EndLoop
      <4>2. CASE ~EndLoop
        <5>1. PICK S \in SUBSET (Names \ Excluded) : Works(S)
          BY <2>1, <3>1, <4>2, SynchWorksOn
        <5>2. QED
          BY <3>2, <5>1 DEF Works, OnlyChanges
      <4>3. QED
        BY <4>1, <4>2
    <3>3. CASE n \notin Excluded
      BY <2>1, <3>1, <3>3, UnchangedUntouched
    <3>4. QED
      BY <3>2, <3>3
  <2>4. QED
    BY <2>2, <2>3
<1>4. QED
  BY <1>1, <1>2, <1>3, CopyInvariant, PTL DEF Spec, UntouchedStays
=============================================================================
