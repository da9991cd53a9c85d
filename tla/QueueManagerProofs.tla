------------------------- MODULE QueueManagerProofs -------------------------
(***************************************************************************)
(* Proofs about the queue of an engine, for any set of torrents and any    *)
(* limits.  The invariant is that nothing is listed twice (Distinct, over  *)
(* the slots and the queue together), that what is listed is neither       *)
(* paused nor completed, and that the queue is in order unless it was      *)
(* moved by hand.  Most of the work is in two lemmas: that sorting by rank *)
(* is a permutation that puts the queue in order, and that _processQueue   *)
(* moves entries from the queue to the slots and nothing else.             *)
(***************************************************************************)
EXTENDS QueueManager, SequenceFacts

(* What the slots act and the queue q list, all of it once. *)
Listed(act, q) == {act[i] : i \in DOMAIN act} \union {q[i].t : i \in DOMAIN q}
Distinct(act, q) ==
  /\ \A i, j \in DOMAIN act : act[i] = act[j] => i = j
  /\ \A i, j \in DOMAIN q : q[i].t = q[j].t => i = j
  /\ \A i \in DOMAIN act, j \in DOMAIN q : act[i] # q[j].t
InOrder(q) == \A i, j \in DOMAIN q : i < j => ~Before(q[j], q[i])
Apart == /\ Listed(active, queue) \intersect (paused \union completed) = {}
         /\ paused \intersect completed = {}
QueueInv == QueueTypeOK /\ Distinct(active, queue) /\ Apart /\ (~moved => InOrder(queue))
-----------------------------------------------------------------------------
(* The fields of an entry. *)
LEMMA EntryFacts ==
  \A e \in Entry : e.t \in Torrent /\ e.pri \in Priority /\ e.at \in Nat
  BY QueueAssumption DEF Entry, Time
(* Before is a strict order, and entries neither of which is before the other are
   before and after the same ones. *)
LEMMA BeforeFacts ==
  /\ \A a, b \in Entry : Before(a, b) => ~Before(b, a)
  /\ \A a, b, c \in Entry : Before(a, b) /\ Before(b, c) => Before(a, c)
  /\ \A a, b, c \in Entry :
       Before(a, b) /\ ~Before(b, c) /\ ~Before(c, b) => Before(a, c)
  /\ \A a, b, c \in Entry :
       ~Before(a, b) /\ ~Before(b, a) /\ Before(b, c) => Before(a, c)
  /\ \A a, b, c \in Entry :
       ~Before(a, b) /\ ~Before(b, a) /\ ~Before(b, c) /\ ~Before(c, b)
         => ~Before(a, c) /\ ~Before(c, a)
  BY EntryFacts DEF Before, Priority

(* Who comes before position i in the sorted queue. *)
Comes(q, j, i) == Before(q[j], q[i]) \/ (~Before(q[i], q[j]) /\ j < i)
Earlier(q, i) == {j \in DOMAIN q : Comes(q, j, i)}

(* Comes is a strict total order of the positions. *)
LEMMA ComesFacts ==
  ASSUME NEW q \in Seq(Entry)
  PROVE  /\ \A i \in DOMAIN q : ~Comes(q, i, i)
         /\ \A i, j \in DOMAIN q : i # j => Comes(q, i, j) \/ Comes(q, j, i)
         /\ \A i, j \in DOMAIN q : Comes(q, i, j) => ~Comes(q, j, i) /\ ~Before(q[j], q[i])
         /\ \A i, j, k \in DOMAIN q : Comes(q, i, j) /\ Comes(q, j, k) => Comes(q, i, k)
<1>1. DOMAIN q = 1..Len(q) /\ Len(q) \in Nat /\ \A i \in DOMAIN q : q[i] \in Entry
  OBVIOUS
<1>2. \A i, j, k \in DOMAIN q : Comes(q, i, j) /\ Comes(q, j, k) => Comes(q, i, k)
  BY <1>1, BeforeFacts DEF Comes
<1>3. \A i \in DOMAIN q : ~Comes(q, i, i)
  BY <1>1, BeforeFacts DEF Comes
<1>4. \A i, j \in DOMAIN q : i # j => Comes(q, i, j) \/ Comes(q, j, i)
  BY <1>1, BeforeFacts DEF Comes
<1>5. \A i, j \in DOMAIN q : Comes(q, i, j) => ~Comes(q, j, i) /\ ~Before(q[j], q[i])
  BY <1>1, BeforeFacts DEF Comes
<1>. QED BY <1>2, <1>3, <1>4, <1>5

(* The rank of a position is a position, and it grows along Comes. *)
LEMMA RankFacts ==
  ASSUME NEW q \in Seq(Entry)
  PROVE  /\ \A i \in DOMAIN q : Rank(q, i) \in DOMAIN q
         /\ \A i, j \in DOMAIN q : Comes(q, i, j) => Rank(q, i) < Rank(q, j)
<1>1. DOMAIN q = 1..Len(q) /\ Len(q) \in Nat
  OBVIOUS
<1>2. IsFiniteSet(DOMAIN q) /\ Cardinality(DOMAIN q) = Len(q)
  BY <1>1, FS_Interval
<1>3. ASSUME NEW i \in DOMAIN q
      PROVE  /\ Rank(q, i) = 1 + Cardinality(Earlier(q, i))
             /\ IsFiniteSet(Earlier(q, i)) /\ Cardinality(Earlier(q, i)) \in 0..Len(q) - 1
  <2>1. Earlier(q, i) \in SUBSET (DOMAIN q \ {i})
    BY ComesFacts DEF Earlier
  <2>2. IsFiniteSet(DOMAIN q \ {i}) /\ Cardinality(DOMAIN q \ {i}) = Len(q) - 1
    BY <1>2, FS_RemoveElement
  <2>3. IsFiniteSet(Earlier(q, i)) /\ Cardinality(Earlier(q, i)) <= Len(q) - 1
    BY <2>1, <2>2, FS_Subset
  <2>4. Cardinality(Earlier(q, i)) \in Nat
    BY <2>3, FS_CardinalityType
  <2>. QED BY <1>1, <2>3, <2>4 DEF Rank, Earlier, Comes
<1>4. ASSUME NEW i \in DOMAIN q, NEW j \in DOMAIN q, Comes(q, i, j)
      PROVE  Rank(q, i) < Rank(q, j)
  <2>1. Earlier(q, i) \union {i} \in SUBSET Earlier(q, j) /\ i \notin Earlier(q, i)
    BY <1>4, ComesFacts DEF Earlier
  <2>2. Cardinality(Earlier(q, i) \union {i}) = Cardinality(Earlier(q, i)) + 1
    BY <1>3, <2>1, FS_AddElement
  <2>3. Cardinality(Earlier(q, i) \union {i}) <= Cardinality(Earlier(q, j))
    BY <1>3, <2>1, FS_Subset
  <2>. QED BY <1>3, <2>2, <2>3
<1>. QED BY <1>1, <1>3, <1>4

(* Sorting is a permutation and puts the queue in order. *)
LEMMA SortedFacts ==
  ASSUME NEW q \in Seq(Entry)
  PROVE  \E from \in [DOMAIN q -> DOMAIN q] :
           /\ \A i, j \in DOMAIN q : from[i] = from[j] => i = j
           /\ \A i \in DOMAIN q : \E r \in DOMAIN q : from[r] = i
           /\ Sorted(q) = [r \in DOMAIN q |-> q[from[r]]]
           /\ InOrder(Sorted(q))
<1>1. DOMAIN q = 1..Len(q) /\ Len(q) \in Nat
  OBVIOUS
<1>. DEFINE rank == [i \in DOMAIN q |-> Rank(q, i)]
            from == [r \in DOMAIN q |-> CHOOSE i \in DOMAIN q : Rank(q, i) = r]
<1>2. IsFiniteSet(DOMAIN q)
  BY <1>1, FS_Interval
<1>3. \A i, j \in DOMAIN q : Rank(q, i) = Rank(q, j) => i = j
  BY <1>1, RankFacts, ComesFacts
<1>4. rank \in Injection(DOMAIN q, DOMAIN q)
  BY <1>3, RankFacts DEF Injection, IsInjective
<1>5. rank \in Surjection(DOMAIN q, DOMAIN q)
  BY <1>2, <1>4, FS_Injection
<1>6. \A r \in DOMAIN q : \E i \in DOMAIN q : Rank(q, i) = r
  BY <1>5 DEF Surjection
<1>7. \A r \in DOMAIN q : from[r] \in DOMAIN q /\ Rank(q, from[r]) = r
  BY <1>6
<1>8. Sorted(q) = [r \in DOMAIN q |-> q[from[r]]]
  BY DEF Sorted
<1>. HIDE DEF from
<1>9. \A i \in DOMAIN q : \E r \in DOMAIN q : from[r] = i
  BY <1>3, <1>7, RankFacts
<1>10. ASSUME NEW r \in DOMAIN q, NEW s \in DOMAIN q, r < s
       PROVE  ~Before(q[from[s]], q[from[r]])
  <2>1. ~Comes(q, from[s], from[r])
    BY <1>1, <1>7, <1>10, RankFacts
  <2>2. from[r] # from[s]
    BY <1>1, <1>7, <1>10
  <2>. QED BY <1>7, <2>1, <2>2, ComesFacts
<1>11. InOrder(Sorted(q))
  BY <1>8, <1>10 DEF InOrder
<1>12. from \in [DOMAIN q -> DOMAIN q]
  BY <1>7 DEF from
<1>13. \A i, j \in DOMAIN q : from[i] = from[j] => i = j
  BY <1>7
<1>. QED BY <1>8, <1>9, <1>11, <1>12, <1>13
-----------------------------------------------------------------------------
(* What it means to be listed. *)
LEMMA ListedFacts ==
  ASSUME NEW act, NEW q, NEW x
  PROVE  x \in Listed(act, q) <=> \/ \E i \in DOMAIN act : x = act[i]
                                  \/ \E i \in DOMAIN q : x = q[i].t
  BY DEF Listed

(* Sorting changes neither what is queued nor that it is queued once. *)
LEMMA SortedKeeps ==
  ASSUME NEW act \in Seq(Torrent), NEW q \in Seq(Entry), Distinct(act, q)
  PROVE  /\ Sorted(q) \in Seq(Entry)
         /\ Distinct(act, Sorted(q)) /\ Listed(act, Sorted(q)) = Listed(act, q)
         /\ InOrder(Sorted(q))
<1>1. PICK from \in [DOMAIN q -> DOMAIN q] :
        /\ \A i, j \in DOMAIN q : from[i] = from[j] => i = j
        /\ \A i \in DOMAIN q : \E r \in DOMAIN q : from[r] = i
        /\ Sorted(q) = [r \in DOMAIN q |-> q[from[r]]]
        /\ InOrder(Sorted(q))
  BY SortedFacts
<1>2. DOMAIN q = 1..Len(q) /\ Len(q) \in Nat /\ \A i \in DOMAIN q : q[i] \in Entry
  OBVIOUS
<1>. DEFINE s == Sorted(q)
<1>3. DOMAIN s = DOMAIN q /\ \A r \in DOMAIN q : s[r] = q[from[r]] /\ from[r] \in DOMAIN q
  BY <1>1
<1>. HIDE DEF s
<1>4. s \in Seq(Entry)
  <2>1. s = [r \in 1..Len(q) |-> q[from[r]]]
    BY <1>1, <1>2 DEF s
  <2>2. s \in [1..Len(q) -> Entry]
    BY <1>2, <1>3, <2>1
  <2>. QED BY <1>2, <2>2, FunctionIsSeq
<1>5. Distinct(act, s)
  <2>1. ASSUME NEW i \in DOMAIN s, NEW j \in DOMAIN s, s[i].t = s[j].t PROVE i = j
    <3>1. from[i] \in DOMAIN q /\ from[j] \in DOMAIN q /\ q[from[i]].t = q[from[j]].t
      BY <1>3, <2>1
    <3>2. from[i] = from[j]
      BY <3>1 DEF Distinct
    <3>. QED BY <1>1, <1>3, <3>2
  <2>2. ASSUME NEW i \in DOMAIN act, NEW j \in DOMAIN s PROVE act[i] # s[j].t
    BY <1>3 DEF Distinct
  <2>. QED BY <2>1, <2>2 DEF Distinct
<1>6. Listed(act, s) = Listed(act, q)
  <2>1. ASSUME NEW i \in DOMAIN q PROVE \E r \in DOMAIN s : s[r].t = q[i].t
    BY <1>1, <1>3
  <2>2. ASSUME NEW r \in DOMAIN s PROVE \E i \in DOMAIN q : s[r].t = q[i].t
    BY <1>3
  <2>3. ASSUME NEW x PROVE x \in Listed(act, s) <=> x \in Listed(act, q)
    <3>1. (\E r \in DOMAIN s : x = s[r].t) <=> \E i \in DOMAIN q : x = q[i].t
      <4>1. ASSUME NEW r \in DOMAIN s, x = s[r].t PROVE \E i \in DOMAIN q : x = q[i].t
        BY <2>2, <4>1
      <4>2. ASSUME NEW i \in DOMAIN q, x = q[i].t PROVE \E r \in DOMAIN s : x = s[r].t
        BY <2>1, <4>2
      <4>. QED BY <4>1, <4>2
    <3>2. x \in Listed(act, s) <=> (\E i \in DOMAIN act : x = act[i]) \/ \E r \in DOMAIN s : x = s[r].t
      BY ListedFacts
    <3>3. x \in Listed(act, q) <=> (\E i \in DOMAIN act : x = act[i]) \/ \E i \in DOMAIN q : x = q[i].t
      BY ListedFacts
    <3>. QED BY <3>1, <3>2, <3>3
  <2>. QED BY <2>3
<1>. QED BY <1>1, <1>4, <1>5, <1>6 DEF s

(* How many entries _processQueue moves. *)
LEMMA MovesFacts ==
  ASSUME NEW act \in Seq(Torrent), NEW q \in Seq(Entry), NEW max \in Int
  PROVE  /\ Moves(act, q, max) \in 0..Len(q)
         /\ Moves(act, q, max) > 0 => Len(act) + Moves(act, q, max) <= max
         /\ Moves(act, q, max) = Len(q) \/ Len(act) + Moves(act, q, max) >= max
<1>. Len(act) \in Nat /\ Len(q) \in Nat
  OBVIOUS
<1>. QED BY DEF Moves

(* _processQueue takes entries from the head of the queue to the free slots: what
   is listed stays, once each; nothing is started beyond the limit, and a slot is
   left free only when the queue is empty. *)
LEMMA ProcessKeeps ==
  ASSUME NEW act \in Seq(Torrent), NEW q \in Seq(Entry), NEW max \in Int,
         Distinct(act, q), ProcessQueue(act, q, max)
  PROVE  /\ active' \in Seq(Torrent) /\ queue' \in Seq(Entry)
         /\ Distinct(active', queue') /\ Listed(active', queue') \subseteq Listed(act, q)
         /\ InOrder(q) => InOrder(queue')
         /\ ToSet(act) \subseteq ToSet(active')
         /\ active' = act \/ Len(active') <= max
         /\ queue' = <<>> \/ Len(active') >= max
<1>. DEFINE n == Moves(act, q, max)
            new == [i \in 1..n |-> q[i].t]
            a == Len(act)
            l == Len(q)
<1>1. /\ DOMAIN q = 1..l /\ l \in Nat /\ \A i \in 1..l : q[i] \in Entry
      /\ DOMAIN act = 1..a /\ a \in Nat /\ \A i \in 1..a : act[i] \in Torrent
  OBVIOUS
<1>2. n \in 0..l /\ (n > 0 => a + n <= max) /\ (n = l \/ a + n >= max)
  BY MovesFacts
<1>3. active' = act \o new /\ queue' = SubSeq(q, n + 1, l)
  BY DEF ProcessQueue
<1>4. new \in Seq(Torrent) /\ Len(new) = n /\ \A i \in 1..n : new[i] = q[i].t
  <2>1. \A i \in 1..n : q[i].t \in Torrent
    BY <1>1, <1>2, EntryFacts
  <2>. HIDE DEF n
  <2>2. new \in [1..n -> Torrent] /\ n \in Nat
    BY <1>2, <2>1
  <2>. QED BY <2>2, FunctionIsSeq
<1>. HIDE DEF n, new
<1>5. /\ queue' \in Seq(Entry) /\ Len(queue') = l - n
      /\ \A i \in 1..l - n : queue'[i] = q[n + i]
  <2>. HIDE DEF l
  <2>1. n + 1 \in Int /\ l \in Int /\ \A i \in n + 1..l : q[i] \in Entry
    BY <1>1, <1>2
  <2>2. /\ queue' \in Seq(Entry)
        /\ Len(queue') = IF n + 1 <= l THEN l - (n + 1) + 1 ELSE 0
        /\ \A i \in 1..l - (n + 1) + 1 : queue'[i] = q[(n + 1) + i - 1]
    BY <1>3, <2>1, SubSeqProperties
  <2>3. Len(queue') = l - n /\ l - (n + 1) + 1 = l - n
    BY <1>1, <1>2, <2>2
  <2>4. \A i \in 1..l - n : (n + 1) + i - 1 = n + i
    BY <1>1, <1>2
  <2>. QED BY <2>2, <2>3, <2>4
<1>6. DOMAIN queue' = 1..l - n
  BY <1>5, LenProperties
<1>7. /\ active' \in Seq(Torrent) /\ Len(active') = a + n
      /\ DOMAIN active' = 1..a + n
      /\ \A j \in 1..a + n : active'[j] = IF j <= a THEN act[j] ELSE new[j - a]
  BY <1>3, <1>4, ConcatFacts
<1>. HIDE DEF a, l
<1>8. \A j \in DOMAIN active' :
        \/ j \in DOMAIN act /\ active'[j] = act[j]
        \/ j > a /\ j - a \in DOMAIN q /\ j - a <= n /\ active'[j] = q[j - a].t
  BY <1>1, <1>2, <1>4, <1>7
<1>9. \A j \in DOMAIN queue' :
        n + j \in DOMAIN q /\ n + j > n /\ queue'[j] = q[n + j]
  BY <1>1, <1>2, <1>5, <1>6
<1>10. /\ \A i, j \in DOMAIN act : act[i] = act[j] => i = j
       /\ \A i, j \in DOMAIN q : q[i].t = q[j].t => i = j
       /\ \A i \in DOMAIN act, j \in DOMAIN q : act[i] # q[j].t
  BY DEF Distinct
<1>11. Distinct(active', queue')
  <2>1. ASSUME NEW i \in DOMAIN active', NEW j \in DOMAIN active', active'[i] = active'[j]
        PROVE  i = j
    <3>1. CASE i \in DOMAIN act /\ active'[i] = act[i] /\ j \in DOMAIN act /\ active'[j] = act[j]
      BY <1>10, <2>1, <3>1
    <3>2. CASE /\ i - a \in DOMAIN q /\ active'[i] = q[i - a].t
               /\ j - a \in DOMAIN q /\ active'[j] = q[j - a].t
      <4>1. i - a = j - a
        BY <1>10, <2>1, <3>2
      <4>. QED BY <1>1, <1>2, <1>7, <4>1
    <3>3. CASE i \in DOMAIN act /\ active'[i] = act[i] /\ j - a \in DOMAIN q /\ active'[j] = q[j - a].t
      BY <1>10, <2>1, <3>3
    <3>4. CASE j \in DOMAIN act /\ active'[j] = act[j] /\ i - a \in DOMAIN q /\ active'[i] = q[i - a].t
      BY <1>10, <2>1, <3>4
    <3>. QED BY <1>8, <3>1, <3>2, <3>3, <3>4
  <2>2. ASSUME NEW i \in DOMAIN queue', NEW j \in DOMAIN queue', queue'[i].t = queue'[j].t
        PROVE  i = j
    <3>1. n + i = n + j
      BY <1>9, <1>10, <2>2
    <3>. QED BY <1>1, <1>2, <1>6, <3>1
  <2>3. ASSUME NEW i \in DOMAIN active', NEW j \in DOMAIN queue' PROVE active'[i] # queue'[j].t
    <3>1. CASE i \in DOMAIN act /\ active'[i] = act[i]
      BY <1>9, <1>10, <3>1
    <3>2. CASE i - a \in DOMAIN q /\ i - a <= n /\ active'[i] = q[i - a].t
      <4>1. i - a # n + j
        BY <1>1, <1>2, <1>9, <3>2
      <4>. QED BY <1>9, <1>10, <3>2, <4>1
    <3>. QED BY <1>8, <3>1, <3>2
  <2>. QED BY <2>1, <2>2, <2>3 DEF Distinct
<1>12. Listed(active', queue') \subseteq Listed(act, q)
  BY <1>8, <1>9 DEF Listed
<1>13. ASSUME InOrder(q) PROVE InOrder(queue')
  <2>. SUFFICES ASSUME NEW i \in DOMAIN queue', NEW j \in DOMAIN queue', i < j
                PROVE  ~Before(queue'[j], queue'[i])
    BY DEF InOrder
  <2>1. n + i < n + j
    BY <1>1, <1>2, <1>6
  <2>. QED BY <1>9, <1>13, <2>1 DEF InOrder
<1>14. ToSet(act) \subseteq ToSet(active')
  <2>1. \A j \in DOMAIN act : j \in DOMAIN active' /\ active'[j] = act[j]
    BY <1>1, <1>2, <1>7
  <2>. QED BY <2>1 DEF ToSet
<1>15. active' = act \/ Len(active') <= max
  <2>1. CASE n > 0
    BY <1>2, <1>7, <2>1
  <2>2. CASE n = 0
    <3>1. new = <<>>
      BY <1>4, <2>2, EmptySeq
    <3>. QED BY <1>3, <3>1, ConcatEmptySeq
  <2>. QED BY <1>1, <1>2, <2>1, <2>2
<1>16. queue' = <<>> \/ Len(active') >= max
  <2>1. CASE n = l
    BY <1>1, <1>5, <2>1, EmptySeq
  <2>. QED BY <1>2, <1>7, <2>1
<1>. QED BY <1>5, <1>7, <1>11, <1>12, <1>13, <1>14, <1>15, <1>16
-----------------------------------------------------------------------------
(* Entries that change anything but their torrent. *)
LEMMA SameTorrents ==
  ASSUME NEW act, NEW q, NEW r, DOMAIN r = DOMAIN q, \A i \in DOMAIN q : r[i].t = q[i].t,
         Distinct(act, q)
  PROVE  Distinct(act, r) /\ Listed(act, r) = Listed(act, q)
<1>1. Distinct(act, r)
  BY DEF Distinct
<1>2. ASSUME NEW x PROVE x \in Listed(act, r) <=> x \in Listed(act, q)
  BY ListedFacts
<1>. QED BY <1>1, <1>2

(* active.delete: one slot is free and nothing else changes. *)
LEMMA FreedFacts ==
  ASSUME active \in Seq(Torrent), Distinct(active, queue), NEW t \in Active
  PROVE  /\ Freed(t) \in Seq(Torrent) /\ Distinct(Freed(t), queue)
         /\ Listed(Freed(t), queue) \subseteq Listed(active, queue) \ {t}
         /\ ToSet(Freed(t)) = Active \ {t}
<1>1. SlotOf(t) \in DOMAIN active /\ active[SlotOf(t)] = t
  <2>1. \E i \in DOMAIN active : active[i] = t
    BY DEF Active, ToSet
  <2>. QED BY <2>1 DEF SlotOf
<1>. DEFINE f == Freed(t)
<1>2. f \in Seq(Torrent)
  BY <1>1, RemoveAtFacts DEF Freed
<1>3. (\A j, k \in DOMAIN f : f[j] = f[k] => j = k) /\ ToSet(f) = ToSet(active) \ {t}
  BY <1>1, RemoveAtInjective DEF Freed, Distinct
<1>. HIDE DEF f
<1>4. \A j \in DOMAIN f : f[j] # t /\ \E i \in DOMAIN active : f[j] = active[i]
  BY <1>3 DEF ToSet
<1>5. Distinct(f, queue)
  BY <1>3, <1>4 DEF Distinct
<1>6. Listed(f, queue) \subseteq Listed(active, queue) \ {t}
  <2>1. ASSUME NEW x \in Listed(f, queue) PROVE x \in Listed(active, queue) /\ x # t
    <3>1. CASE \E j \in DOMAIN f : x = f[j]
      BY <1>4, <3>1, ListedFacts
    <3>2. CASE \E j \in DOMAIN queue : x = queue[j].t
      BY <1>1, <3>2, ListedFacts DEF Distinct
    <3>. QED BY <3>1, <3>2, ListedFacts
  <2>. QED BY <2>1
<1>. QED BY <1>2, <1>3, <1>5, <1>6 DEF f, Active

(* splice: one entry leaves the queue. *)
LEMMA DroppedFacts ==
  ASSUME queue \in Seq(Entry), Distinct(active, queue), NEW t \in Queued
  PROVE  /\ Dropped(t) \in Seq(Entry) /\ Len(Dropped(t)) = Len(queue) - 1
         /\ Distinct(active, Dropped(t))
         /\ Listed(active, Dropped(t)) \subseteq Listed(active, queue) \ {t}
         /\ InOrder(queue) => InOrder(Dropped(t))
         /\ PlaceOf(t) \in DOMAIN queue /\ queue[PlaceOf(t)].t = t
<1>1. PlaceOf(t) \in DOMAIN queue /\ queue[PlaceOf(t)].t = t
  <2>1. \E i \in DOMAIN queue : queue[i].t = t
    BY DEF Queued
  <2>. QED BY <2>1 DEF PlaceOf
<1>. DEFINE d == Dropped(t)
            p == PlaceOf(t)
            At(j) == IF j < p THEN j ELSE j + 1
<1>2. /\ d \in Seq(Entry) /\ Len(d) = Len(queue) - 1 /\ DOMAIN d = 1..Len(queue) - 1
      /\ \A j \in 1..Len(queue) - 1 : d[j] = IF j < p THEN queue[j] ELSE queue[j + 1]
  BY <1>1, RemoveAtFacts DEF Dropped
<1>3. DOMAIN queue = 1..Len(queue) /\ Len(queue) \in Nat
  OBVIOUS
<1>. HIDE DEF p, d
<1>4. \A j \in DOMAIN d : At(j) \in DOMAIN queue /\ At(j) # p /\ d[j] = queue[At(j)]
  BY <1>1, <1>2, <1>3 DEF p
<1>5. /\ \A j, k \in DOMAIN d : At(j) = At(k) => j = k
      /\ \A j, k \in DOMAIN d : j < k => At(j) < At(k)
  BY <1>1, <1>2, <1>3 DEF p
<1>. HIDE DEF At
<1>6. Distinct(active, d)
  BY <1>4, <1>5 DEF Distinct
<1>7. Listed(active, d) \subseteq Listed(active, queue) \ {t}
  <2>1. ASSUME NEW x \in Listed(active, d) PROVE x \in Listed(active, queue) /\ x # t
    <3>1. CASE \E j \in DOMAIN active : x = active[j]
      BY <1>1, <3>1, ListedFacts DEF Distinct
    <3>2. CASE \E j \in DOMAIN d : x = d[j].t
      <4>1. PICK j \in DOMAIN d : x = d[j].t
        BY <3>2
      <4>2. x = queue[At(j)].t /\ At(j) \in DOMAIN queue /\ At(j) # p
        BY <1>4, <4>1
      <4>3. x # t
        BY <1>1, <4>2 DEF Distinct, p
      <4>. QED BY <4>2, <4>3, ListedFacts
    <3>. QED BY <3>1, <3>2, ListedFacts
  <2>. QED BY <2>1
<1>8. ASSUME InOrder(queue) PROVE InOrder(d)
  BY <1>4, <1>5, <1>8 DEF InOrder
<1>. QED BY <1>1, <1>2, <1>6, <1>7, <1>8 DEF d, p

(* A torrent that is not listed gets a slot, or an entry of the queue at any place. *)
LEMMA SlotTaken ==
  ASSUME active \in Seq(Torrent), Distinct(active, queue), NEW t \in Torrent,
         t \notin Listed(active, queue)
  PROVE  /\ Append(active, t) \in Seq(Torrent) /\ Len(Append(active, t)) = Len(active) + 1
         /\ Distinct(Append(active, t), queue)
         /\ Listed(Append(active, t), queue) \subseteq Listed(active, queue) \union {t}
         /\ Active \subseteq ToSet(Append(active, t))
<1>. DEFINE a == Append(active, t)
            n == Len(active)
<1>1. /\ a \in Seq(Torrent) /\ Len(a) = n + 1
      /\ DOMAIN active = 1..n /\ n \in Nat /\ DOMAIN a = 1..n + 1
      /\ \A i \in 1..n : a[i] = active[i]
      /\ a[n + 1] = t
  BY AppendProperties, LenProperties
<1>. HIDE DEF a, n
<1>2. /\ \A i \in DOMAIN a : (i \in DOMAIN active /\ a[i] = active[i]) \/ (i = n + 1 /\ a[i] = t)
      /\ \A i \in DOMAIN active : i \in DOMAIN a /\ a[i] = active[i]
  BY <1>1
<1>3. (\A i \in DOMAIN active : active[i] # t) /\ \A i \in DOMAIN queue : queue[i].t # t
  BY ListedFacts
<1>4. Distinct(a, queue)
  BY <1>2, <1>3 DEF Distinct
<1>5. Listed(a, queue) \subseteq Listed(active, queue) \union {t}
  <2>1. ASSUME NEW x \in Listed(a, queue) PROVE x \in Listed(active, queue) \/ x = t
    BY <1>2, ListedFacts
  <2>. QED BY <2>1
<1>6. Active \subseteq ToSet(a)
  BY <1>2 DEF Active, ToSet
<1>. QED BY <1>1, <1>4, <1>5, <1>6 DEF a, n

(* An entry for a torrent that is not listed goes into the queue at any place. *)
LEMMA EntryAdded ==
  ASSUME NEW q \in Seq(Entry), Distinct(active, q), NEW e \in Entry, NEW i \in 1..Len(q) + 1,
         e.t \notin Listed(active, q)
  PROVE  /\ InsertAt(q, i, e) \in Seq(Entry) /\ Distinct(active, InsertAt(q, i, e))
         /\ Listed(active, InsertAt(q, i, e)) \subseteq Listed(active, q) \union {e.t}
<1>. DEFINE r == InsertAt(q, i, e)
            From(j) == IF j < i THEN j ELSE j - 1
<1>1. /\ r \in Seq(Entry) /\ DOMAIN r = 1..Len(q) + 1
      /\ \A j \in 1..Len(q) + 1 : r[j] = IF j < i THEN q[j] ELSE IF j = i THEN e ELSE q[j - 1]
  <2>1. r \in Seq(Entry) /\ DOMAIN r = 1..Len(q) + 1
    BY InsertAtFacts
  <2>2. ASSUME NEW j \in 1..Len(q) + 1
        PROVE  r[j] = IF j < i THEN q[j] ELSE IF j = i THEN e ELSE q[j - 1]
    BY InsertAtFacts
  <2>. QED BY <2>1, <2>2
<1>2. DOMAIN q = 1..Len(q) /\ Len(q) \in Nat
  OBVIOUS
<1>. HIDE DEF r
<1>3. \A j \in DOMAIN r : (j # i /\ From(j) \in DOMAIN q /\ r[j] = q[From(j)]) \/ (j = i /\ r[j] = e)
  BY <1>1, <1>2
<1>4. \A j, k \in DOMAIN r : j # i /\ k # i /\ From(j) = From(k) => j = k
  BY <1>1, <1>2
<1>. HIDE DEF From
<1>5. (\A j \in DOMAIN active : active[j] # e.t) /\ \A j \in DOMAIN q : q[j].t # e.t
  BY ListedFacts
<1>6. ASSUME NEW j \in DOMAIN r, NEW k \in DOMAIN r, r[j].t = r[k].t PROVE j = k
  <2>1. CASE j # i /\ k # i
    <3>1. q[From(j)].t = q[From(k)].t /\ From(j) \in DOMAIN q /\ From(k) \in DOMAIN q
      BY <1>3, <1>6, <2>1
    <3>2. From(j) = From(k)
      BY <3>1 DEF Distinct
    <3>. QED BY <1>4, <2>1, <3>2
  <2>2. CASE j = i \/ k = i
    BY <1>3, <1>5, <1>6, <2>2
  <2>. QED BY <2>1, <2>2
<1>7. ASSUME NEW j \in DOMAIN active, NEW k \in DOMAIN r PROVE active[j] # r[k].t
  BY <1>3, <1>5 DEF Distinct
<1>8. Distinct(active, r)
  BY <1>6, <1>7 DEF Distinct
<1>9. Listed(active, r) \subseteq Listed(active, q) \union {e.t}
  <2>1. ASSUME NEW x \in Listed(active, r) PROVE x \in Listed(active, q) \/ x = e.t
    BY <1>3, ListedFacts
  <2>. QED BY <2>1
<1>. QED BY <1>1, <1>8, <1>9 DEF r

(* Both ends of the queue are such places. *)
LEMMA EndsOfQueue ==
  ASSUME NEW q \in Seq(Entry), NEW e \in Entry
  PROVE  Append(q, e) = InsertAt(q, Len(q) + 1, e) /\ <<e>> \o q = InsertAt(q, 1, e)
<1>1. Len(q) \in Nat /\ Len(q) + 1 - 1 = Len(q) /\ 1 - 1 = 0
  OBVIOUS
<1>2. SubSeq(q, 1, Len(q)) = q
  BY SubSeqFull
<1>3. SubSeq(q, Len(q) + 1, Len(q)) = <<>> /\ SubSeq(q, 1, 0) = <<>>
  BY <1>1, SubSeqEmpty
<1>4. q \o <<e>> = Append(q, e) /\ <<>> \o <<e>> = <<e>> /\ <<e>> \in Seq(Entry)
  BY AppendIsConcat, ConcatEmptySeq
<1>5. Append(q, e) \o <<>> = Append(q, e)
  BY AppendProperties, ConcatEmptySeq
<1>. QED BY <1>1, <1>2, <1>3, <1>4, <1>5 DEF InsertAt
-----------------------------------------------------------------------------
(* What a step does to the slots, as the action properties say it. *)
NoOverfill ==
  (\E t \in Torrent : t \in Active' /\ t \notin Active) => Len(active') <= maxConcurrent'
SlotUsed ==
  (\E t \in Active : t \notin Active') => queue' = <<>> \/ Len(active') >= maxConcurrent'
Slots == NoOverfill /\ SlotUsed

(* An engine starts with nothing listed. *)
LEMMA QueueStart == QueueInit => QueueInv
<1>. SUFFICES ASSUME QueueInit PROVE QueueInv
  OBVIOUS
<1>1. active = <<>> /\ queue = <<>> /\ DOMAIN active = {} /\ DOMAIN queue = {}
  BY DEF QueueInit
<1>0. /\ active \in Seq(Torrent) /\ queue \in Seq(Entry)
      /\ maxConcurrent \in -1..MaxLimit /\ now \in Time
  <2>1. active \in Seq(Torrent) /\ queue \in Seq(Entry)
    BY <1>1, EmptySeq
  <2>. QED BY <2>1, QueueAssumption DEF QueueInit, Time
<1>2. QueueTypeOK
  BY <1>0 DEF QueueInit, QueueTypeOK
<1>3. Distinct(active, queue) /\ Apart /\ InOrder(queue)
  BY <1>1 DEF QueueInit, Distinct, Apart, Listed, InOrder
<1>. QED BY <1>2, <1>3 DEF QueueInv

(* Slots that stay as they are fulfil both. *)
LEMMA SameSlots == active' = active => Slots
  BY DEF Slots, NoOverfill, SlotUsed, Active

(* The same when _processQueue fills the slots after t left its own, or after the
   limit was raised. *)
LEMMA FilledSlots ==
  ASSUME NEW act, ToSet(act) \subseteq Active, active' = act \/ Len(active') <= maxConcurrent',
         queue' = <<>> \/ Len(active') >= maxConcurrent'
  PROVE  Slots
  BY DEF Slots, NoOverfill, SlotUsed, Active

(* A step that keeps what the invariant says of the queue. *)
LEMMA QueueStep == QueueInv /\ [QueueNext]_queueVars => QueueInv' /\ [Slots]_queueVars
<1>. SUFFICES ASSUME QueueInv, [QueueNext]_queueVars PROVE QueueInv' /\ [Slots]_queueVars
  OBVIOUS
<1>0. /\ active \in Seq(Torrent) /\ queue \in Seq(Entry)
      /\ paused \subseteq Torrent /\ completed \subseteq Torrent
      /\ maxConcurrent \in -1..MaxLimit /\ maxConcurrent \in Int
      /\ now \in Time /\ moved \in BOOLEAN
      /\ Distinct(active, queue) /\ (~moved => InOrder(queue))
      /\ Listed(active, queue) \intersect (paused \union completed) = {}
      /\ paused \intersect completed = {}
  BY QueueAssumption DEF QueueInv, QueueTypeOK, Apart
<1>l. /\ \A t \in Active : t \in Listed(active, queue) /\ t \in Torrent
      /\ \A t \in Queued : t \in Listed(active, queue)
  BY <1>0 DEF Active, Queued, Listed, ToSet
<1>1. ASSUME NEW t \in Torrent, NEW pri \in Priority, NEW startPaused \in BOOLEAN,
             Add(t, pri, startPaused)
      PROVE  QueueInv' /\ Slots
  <2>1. t \notin Listed(active, queue) /\ t \notin paused /\ t \notin completed
    BY <1>1, ListedFacts DEF Add, Exists, Active, Queued, ToSet
  <2>2. CASE paused' = paused \union {t} /\ UNCHANGED <<active, queue, moved, completed, maxConcurrent, now>>
    BY <1>0, <2>1, <2>2, SameSlots DEF QueueInv, QueueTypeOK, Apart
  <2>3. CASE /\ CanActivate /\ active' = Append(active, t)
             /\ UNCHANGED <<paused, queue, moved, completed, maxConcurrent, now>>
    <3>1. QueueInv'
      BY <1>0, <2>1, <2>3, SlotTaken DEF QueueInv, QueueTypeOK, Apart
    <3>2. Len(active') <= maxConcurrent' /\ Active \subseteq Active'
      BY <1>0, <2>1, <2>3, SlotTaken DEF CanActivate, Active
    <3>. QED BY <3>1, <3>2 DEF Slots, NoOverfill, SlotUsed
  <2>4. CASE /\ queue' = Sorted(Append(queue, [t |-> t, pri |-> pri, at |-> now]))
             /\ moved' = FALSE
             /\ UNCHANGED <<active, paused, completed, maxConcurrent, now>>
    <3>. DEFINE e == [t |-> t, pri |-> pri, at |-> now]
                q == InsertAt(queue, Len(queue) + 1, e)
    <3>1. e \in Entry /\ e.t = t
      BY <1>0 DEF Entry
    <3>. HIDE DEF e
    <3>2. Len(queue) + 1 \in 1..Len(queue) + 1
      BY <1>0
    <3>3. q \in Seq(Entry) /\ Distinct(active, q) /\ Listed(active, q) \subseteq Listed(active, queue) \union {t}
      BY <1>0, <2>1, <3>1, <3>2, EntryAdded
    <3>4. queue' = Sorted(q)
      BY <1>0, <2>4, <3>1, EndsOfQueue DEF e
    <3>. HIDE DEF q
    <3>5. /\ queue' \in Seq(Entry) /\ Distinct(active, queue') /\ InOrder(queue')
          /\ Listed(active, queue') = Listed(active, q)
      BY <1>0, <3>3, <3>4, SortedKeeps
    <3>. QED BY <1>0, <2>1, <2>4, <3>3, <3>5, SameSlots DEF QueueInv, QueueTypeOK, Apart
  <2>. QED BY <1>1, <2>2, <2>3, <2>4 DEF Add
<1>2. ASSUME NEW t \in Torrent, RemoveKnown(t) PROVE QueueInv' /\ Slots
  <2>1. CASE t \in Active
    <3>1. /\ Freed(t) \in Seq(Torrent) /\ Distinct(Freed(t), queue)
          /\ Listed(Freed(t), queue) \subseteq Listed(active, queue) /\ ToSet(Freed(t)) \subseteq Active
      BY <1>0, <2>1, FreedFacts
    <3>2. ProcessQueue(Freed(t), queue, maxConcurrent)
      BY <1>2, <2>1 DEF RemoveKnown
    <3>3. /\ active' \in Seq(Torrent) /\ queue' \in Seq(Entry) /\ Distinct(active', queue')
          /\ Listed(active', queue') \subseteq Listed(active, queue)
          /\ InOrder(queue) => InOrder(queue')
          /\ active' = Freed(t) \/ Len(active') <= maxConcurrent
          /\ queue' = <<>> \/ Len(active') >= maxConcurrent
      BY <1>0, <3>1, <3>2, ProcessKeeps
    <3>4. /\ paused' = paused \ {t} /\ completed' = completed \ {t}
          /\ UNCHANGED <<maxConcurrent, now, moved>>
      BY <1>2 DEF RemoveKnown
    <3>5. Slots
      BY <3>1, <3>3, <3>4, FilledSlots
    <3>. QED BY <1>0, <3>3, <3>4, <3>5 DEF QueueInv, QueueTypeOK, Apart
  <2>2. CASE t \notin Active
    <3>1. /\ paused' = paused \ {t} /\ completed' = completed \ {t}
          /\ UNCHANGED <<active, maxConcurrent, now, moved>>
          /\ queue' = IF t \in Queued THEN Dropped(t) ELSE queue
      BY <1>2, <2>2 DEF RemoveKnown
    <3>2. /\ queue' \in Seq(Entry) /\ Distinct(active, queue')
          /\ Listed(active, queue') \subseteq Listed(active, queue)
          /\ InOrder(queue) => InOrder(queue')
      BY <1>0, <3>1, DroppedFacts
    <3>. QED BY <1>0, <3>1, <3>2, SameSlots DEF QueueInv, QueueTypeOK, Apart
  <2>. QED BY <2>1, <2>2
<1>3. ASSUME NEW t \in Torrent, StartPaused(t) PROVE QueueInv' /\ Slots
  <2>1. t \in paused /\ paused' = paused \ {t} /\ UNCHANGED <<completed, maxConcurrent, now>>
    BY <1>3 DEF StartPaused
  <2>2. t \notin Listed(active, queue) /\ t \notin completed
    BY <1>0, <2>1
  <2>3. CASE CanActivate /\ active' = Append(active, t) /\ UNCHANGED <<queue, moved>>
    <3>1. QueueInv'
      BY <1>0, <2>1, <2>2, <2>3, SlotTaken DEF QueueInv, QueueTypeOK, Apart
    <3>2. Len(active') <= maxConcurrent' /\ Active \subseteq Active'
      BY <1>0, <2>1, <2>2, <2>3, SlotTaken DEF CanActivate, Active
    <3>. QED BY <3>1, <3>2 DEF Slots, NoOverfill, SlotUsed
  <2>4. CASE /\ queue' = Sorted(<<[t |-> t, pri |-> High, at |-> now]>> \o queue)
             /\ moved' = FALSE /\ UNCHANGED active
    <3>. DEFINE e == [t |-> t, pri |-> High, at |-> now]
                q == InsertAt(queue, 1, e)
    <3>1. e \in Entry /\ e.t = t
      BY <1>0 DEF Entry, High, Priority
    <3>. HIDE DEF e
    <3>2. 1 \in 1..Len(queue) + 1
      BY <1>0
    <3>3. q \in Seq(Entry) /\ Distinct(active, q) /\ Listed(active, q) \subseteq Listed(active, queue) \union {t}
      BY <1>0, <2>2, <3>1, <3>2, EntryAdded
    <3>4. queue' = Sorted(q)
      BY <1>0, <2>4, <3>1, EndsOfQueue DEF e
    <3>. HIDE DEF q
    <3>5. /\ queue' \in Seq(Entry) /\ Distinct(active, queue') /\ InOrder(queue')
          /\ Listed(active, queue') = Listed(active, q)
      BY <1>0, <3>3, <3>4, SortedKeeps
    <3>. QED BY <1>0, <2>1, <2>2, <2>4, <3>3, <3>5, SameSlots DEF QueueInv, QueueTypeOK, Apart
  <2>. QED BY <1>3, <2>3, <2>4 DEF StartPaused
<1>4. ASSUME NEW t \in Torrent, StartQueued(t) PROVE QueueInv' /\ Slots
  <2>. DEFINE r == Reprioritised(t, High, now)
  <2>1. /\ r \in Seq(Entry) /\ DOMAIN r = DOMAIN queue
        /\ \A i \in DOMAIN queue : r[i].t = queue[i].t
    <3>1. DOMAIN queue = 1..Len(queue) /\ Len(queue) \in Nat /\ \A i \in DOMAIN queue : queue[i] \in Entry
      BY <1>0
    <3>2. [t |-> t, pri |-> High, at |-> now] \in Entry
      BY <1>0 DEF Entry, High, Priority
    <3>3. r \in [1..Len(queue) -> Entry] /\ \A i \in DOMAIN queue : r[i].t = queue[i].t
      BY <3>1, <3>2 DEF Reprioritised
    <3>. QED BY <3>1, <3>3, FunctionIsSeq
  <2>2. Distinct(active, r) /\ Listed(active, r) = Listed(active, queue)
    BY <1>0, <2>1, SameTorrents
  <2>3. /\ ProcessQueue(active, Sorted(r), maxConcurrent) /\ moved' = FALSE
        /\ UNCHANGED <<paused, completed, maxConcurrent, now>>
    BY <1>4 DEF StartQueued
  <2>. HIDE DEF r
  <2>4. /\ Sorted(r) \in Seq(Entry) /\ Distinct(active, Sorted(r)) /\ InOrder(Sorted(r))
        /\ Listed(active, Sorted(r)) = Listed(active, queue)
    BY <1>0, <2>1, <2>2, SortedKeeps
  <2>5. /\ active' \in Seq(Torrent) /\ queue' \in Seq(Entry) /\ Distinct(active', queue')
        /\ Listed(active', queue') \subseteq Listed(active, queue) /\ InOrder(queue')
        /\ active' = active \/ Len(active') <= maxConcurrent
        /\ queue' = <<>> \/ Len(active') >= maxConcurrent
    BY <1>0, <2>3, <2>4, ProcessKeeps
  <2>6. Slots
    BY <2>3, <2>5, FilledSlots DEF Active
  <2>. QED BY <1>0, <2>3, <2>5, <2>6 DEF QueueInv, QueueTypeOK, Apart
<1>5. ASSUME NEW t \in Torrent, Pause(t) \/ OnTorrentComplete(t) PROVE QueueInv' /\ Slots
  <2>1. /\ t \in Active /\ ProcessQueue(Freed(t), queue, maxConcurrent)
        /\ \/ paused' = paused \union {t} /\ UNCHANGED completed
           \/ completed' = completed \union {t} /\ UNCHANGED paused
        /\ UNCHANGED <<maxConcurrent, now, moved>>
    BY <1>5 DEF Pause, OnTorrentComplete
  <2>2. /\ Freed(t) \in Seq(Torrent) /\ Distinct(Freed(t), queue)
        /\ Listed(Freed(t), queue) \subseteq Listed(active, queue) \ {t}
        /\ ToSet(Freed(t)) \subseteq Active
    BY <1>0, <2>1, FreedFacts
  <2>3. /\ active' \in Seq(Torrent) /\ queue' \in Seq(Entry) /\ Distinct(active', queue')
        /\ Listed(active', queue') \subseteq Listed(active, queue) \ {t}
        /\ InOrder(queue) => InOrder(queue')
        /\ active' = Freed(t) \/ Len(active') <= maxConcurrent
        /\ queue' = <<>> \/ Len(active') >= maxConcurrent
    BY <1>0, <2>1, <2>2, ProcessKeeps
  <2>4. Slots
    BY <2>1, <2>2, <2>3, FilledSlots
  <2>5. t \notin paused /\ t \notin completed
    BY <1>0, <1>l, <2>1
  <2>6. Apart'
    BY <1>0, <2>1, <2>3, <2>5 DEF Apart
  <2>. QED BY <1>0, <2>1, <2>3, <2>4, <2>6 DEF QueueInv, QueueTypeOK
<1>6. ASSUME NEW t \in Torrent, NEW pri \in 0..High, SetPriority(t, pri) PROVE QueueInv' /\ Slots
  <2>1. PICK i \in DOMAIN queue : queue' = Sorted([queue EXCEPT ![i].pri = pri])
    BY <1>6 DEF SetPriority
  <2>2. pri \in Priority /\ moved' = FALSE /\ UNCHANGED <<active, paused, completed, maxConcurrent, now>>
    BY <1>6 DEF SetPriority
  <2>. DEFINE r == [queue EXCEPT ![i].pri = pri]
  <2>3. /\ r \in Seq(Entry) /\ DOMAIN r = DOMAIN queue
        /\ \A j \in DOMAIN queue : r[j].t = queue[j].t
    <3>1. DOMAIN queue = 1..Len(queue) /\ Len(queue) \in Nat /\ \A j \in DOMAIN queue : queue[j] \in Entry
      BY <1>0
    <3>2. [queue[i] EXCEPT !.pri = pri] \in Entry /\ [queue[i] EXCEPT !.pri = pri].t = queue[i].t
      BY <2>2, <3>1 DEF Entry
    <3>3. r = [j \in 1..Len(queue) |-> IF j = i THEN [queue[i] EXCEPT !.pri = pri] ELSE queue[j]]
      BY <3>1
    <3>4. r \in [1..Len(queue) -> Entry] /\ \A j \in DOMAIN queue : r[j].t = queue[j].t
      BY <3>1, <3>2, <3>3
    <3>. QED BY <3>1, <3>4, FunctionIsSeq
  <2>. HIDE DEF r
  <2>4. Distinct(active, r) /\ Listed(active, r) = Listed(active, queue)
    BY <1>0, <2>3, SameTorrents
  <2>5. /\ queue' \in Seq(Entry) /\ Distinct(active, queue') /\ InOrder(queue')
        /\ Listed(active, queue') = Listed(active, queue)
    BY <1>0, <2>1, <2>3, <2>4, SortedKeeps DEF r
  <2>. QED BY <1>0, <2>2, <2>5, SameSlots DEF QueueInv, QueueTypeOK, Apart
<1>7. ASSUME NEW t \in Torrent, NEW position \in 1..Len(queue), MoveInQueue(t, position)
      PROVE  QueueInv' /\ Slots
  <2>. DEFINE d == Dropped(t)
              e == queue[PlaceOf(t)]
  <2>1. /\ t \in Queued /\ queue' = InsertAt(d, position, e) /\ moved' = TRUE
        /\ UNCHANGED <<active, paused, completed, maxConcurrent, now>>
    BY <1>7 DEF MoveInQueue
  <2>2. /\ d \in Seq(Entry) /\ Len(d) = Len(queue) - 1 /\ Distinct(active, d)
        /\ Listed(active, d) \subseteq Listed(active, queue) \ {t}
        /\ PlaceOf(t) \in DOMAIN queue /\ e.t = t
    BY <1>0, <2>1, DroppedFacts
  <2>3. e \in Entry /\ position \in 1..Len(d) + 1
    BY <1>0, <2>2
  <2>. HIDE DEF d, e
  <2>4. /\ queue' \in Seq(Entry) /\ Distinct(active, queue')
        /\ Listed(active, queue') \subseteq Listed(active, d) \union {t}
    BY <2>1, <2>2, <2>3, EntryAdded
  <2>5. Listed(active, queue') \subseteq Listed(active, queue)
    BY <1>l, <2>1, <2>2, <2>4
  <2>. QED BY <1>0, <2>1, <2>4, <2>5, SameSlots DEF QueueInv, QueueTypeOK, Apart
<1>8. ASSUME NEW max \in 1..MaxLimit, SetMaxConcurrent(max) PROVE QueueInv' /\ Slots
  <2>0. max \in Int /\ max \in -1..MaxLimit /\ maxConcurrent' = max /\ UNCHANGED <<completed, now, moved>>
    BY <1>8, QueueAssumption DEF SetMaxConcurrent
  <2>1. CASE max > maxConcurrent
    <3>1. ProcessQueue(active, queue, max) /\ UNCHANGED paused
      BY <1>8, <2>1 DEF SetMaxConcurrent
    <3>2. /\ active' \in Seq(Torrent) /\ queue' \in Seq(Entry) /\ Distinct(active', queue')
          /\ Listed(active', queue') \subseteq Listed(active, queue)
          /\ InOrder(queue) => InOrder(queue')
          /\ active' = active \/ Len(active') <= max
          /\ queue' = <<>> \/ Len(active') >= max
      BY <1>0, <2>0, <3>1, ProcessKeeps
    <3>3. Slots
      BY <2>0, <3>2, FilledSlots DEF Active
    <3>. QED BY <1>0, <2>0, <3>1, <3>2, <3>3 DEF QueueInv, QueueTypeOK, Apart
  <2>2. CASE ~(max > maxConcurrent) /\ max < maxConcurrent /\ Len(active) > max
    <3>1. /\ active' = SubSeq(active, 1, max) /\ UNCHANGED queue
          /\ paused' = paused \union {active[i] : i \in (max + 1)..Len(active)}
      BY <1>8, <2>2 DEF SetMaxConcurrent
    <3>2. /\ DOMAIN active = 1..Len(active) /\ Len(active) \in Nat
          /\ \A i \in 1..Len(active) : active[i] \in Torrent
      BY <1>0
    <3>3. /\ active' \in Seq(Torrent) /\ Len(active') = max
          /\ \A i \in 1..max : active'[i] = active[i]
      BY <2>0, <2>2, <3>1, <3>2, SubSeqProperties
    <3>4. DOMAIN active' = 1..max /\ \A i \in 1..max : i \in DOMAIN active
      BY <2>0, <2>2, <3>2, <3>3, LenProperties
    <3>5. Distinct(active', queue')
      <4>1. \A i, j \in DOMAIN active' : active'[i] = active'[j] => i = j
        BY <1>0, <3>3, <3>4 DEF Distinct
      <4>2. \A i, j \in DOMAIN queue' : queue'[i].t = queue'[j].t => i = j
        BY <1>0, <3>1 DEF Distinct
      <4>3. \A i \in DOMAIN active', j \in DOMAIN queue' : active'[i] # queue'[j].t
        BY <1>0, <3>1, <3>3, <3>4 DEF Distinct
      <4>. QED BY <4>1, <4>2, <4>3 DEF Distinct
    <3>6. ASSUME NEW x \in Listed(active', queue')
          PROVE  x \in Listed(active, queue) /\ x \notin {active[i] : i \in (max + 1)..Len(active)}
      <4>1. CASE \E i \in DOMAIN active' : x = active'[i]
        <5>1. PICK i \in 1..max : x = active[i]
          BY <3>3, <3>4, <4>1
        <5>2. \A j \in (max + 1)..Len(active) : active[j] # active[i]
          BY <1>0, <2>0, <3>2, <3>4 DEF Distinct
        <5>. QED BY <3>4, <5>1, <5>2, ListedFacts
      <4>2. CASE \E i \in DOMAIN queue : x = queue[i].t
        <5>1. \A j \in (max + 1)..Len(active) : active[j] # x
          BY <1>0, <2>0, <3>2, <4>2 DEF Distinct
        <5>. QED BY <4>2, <5>1, ListedFacts
      <4>3. (\E i \in DOMAIN active' : x = active'[i]) \/ (\E i \in DOMAIN queue' : x = queue'[i].t)
        BY <3>6, ListedFacts
      <4>4. queue' = queue
        BY <3>1
      <4>. QED BY <4>1, <4>2, <4>3, <4>4
    <3>7. \A i \in (max + 1)..Len(active) :
             active[i] \in Torrent /\ active[i] \in Listed(active, queue)
      BY <2>0, <3>2, ListedFacts
    <3>8. Apart'
      BY <1>0, <2>0, <3>1, <3>6, <3>7 DEF Apart
    <3>9. Slots
      BY <2>0, <3>3 DEF Slots, NoOverfill, SlotUsed
    <3>. QED BY <1>0, <2>0, <3>1, <3>3, <3>5, <3>7, <3>8, <3>9 DEF QueueInv, QueueTypeOK
  <2>3. CASE ~(max > maxConcurrent) /\ ~(max < maxConcurrent /\ Len(active) > max)
    <3>1. UNCHANGED <<active, paused, queue>>
      BY <1>8, <2>3 DEF SetMaxConcurrent
    <3>. QED BY <1>0, <2>0, <3>1, SameSlots DEF QueueInv, QueueTypeOK, Apart
  <2>. QED BY <2>1, <2>2, <2>3
<1>9. ASSUME NEW max \in -1..MaxLimit, UpdateSettings(max) PROVE QueueInv' /\ Slots
  BY <1>0, <1>9, SameSlots DEF UpdateSettings, QueueInv, QueueTypeOK, Apart
<1>10. ASSUME Cleanup PROVE QueueInv' /\ Slots
  <2>1. /\ active' = <<>> /\ queue' = <<>> /\ DOMAIN active' = {} /\ DOMAIN queue' = {}
        /\ paused' = {} /\ completed' = {} /\ moved' = FALSE /\ UNCHANGED <<maxConcurrent, now>>
    BY <1>10 DEF Cleanup
  <2>2. Distinct(active', queue') /\ Apart' /\ InOrder(queue')
    BY <2>1 DEF Distinct, Apart, Listed, InOrder
  <2>4. active' \in Seq(Torrent) /\ queue' \in Seq(Entry)
    BY <2>1, EmptySeq
  <2>3. Active' = {}
    BY <2>1 DEF Active, ToSet
  <2>. QED BY <1>0, <2>1, <2>2, <2>3, <2>4 DEF QueueInv, QueueTypeOK, Slots, NoOverfill, SlotUsed
<1>11. ASSUME Clock PROVE QueueInv' /\ Slots
  BY <1>0, <1>11, SameSlots, QueueAssumption DEF Clock, Time, QueueInv, QueueTypeOK, Apart
<1>12. ASSUME UNCHANGED queueVars PROVE QueueInv'
  BY <1>0, <1>12 DEF queueVars, QueueInv, QueueTypeOK, Apart
<1>. QED BY <1>1, <1>2, <1>3, <1>4, <1>5, <1>6, <1>7, <1>8, <1>9, <1>10, <1>11, <1>12 DEF QueueNext
-----------------------------------------------------------------------------
(* The invariant holds in every state. *)
LEMMA QueueAlways == QueueSpec => []QueueInv
  BY QueueStart, QueueStep, PTL DEF QueueSpec

(* Types of the queue manager's state. *)
THEOREM QueueTypeCorrect == QueueSpec => []QueueTypeOK
<1>1. QueueInv => QueueTypeOK
  BY DEF QueueInv
<1>. QED BY <1>1, QueueAlways, PTL

(* A torrent is in one place, whatever is added, moved, paused and completed in
   whatever order. *)
THEOREM EveryTorrentInOnePlace == QueueSpec => []InOnePlace
<1>1. QueueInv => InOnePlace
  <2>. SUFFICES ASSUME QueueInv PROVE InOnePlace
    OBVIOUS
  <2>1. IsInjective(active) /\ IsInjective([i \in DOMAIN queue |-> queue[i].t])
    BY DEF QueueInv, Distinct, IsInjective
  <2>2. /\ Active \intersect Queued = {} /\ Active \intersect paused = {}
        /\ Active \intersect completed = {} /\ Queued \intersect paused = {}
        /\ Queued \intersect completed = {} /\ paused \intersect completed = {}
    BY DEF QueueInv, Distinct, Apart, Listed, Active, Queued, ToSet
  <2>. DEFINE place == <<Active, paused, completed, Queued>>
  <2>3. place[1] = Active /\ place[2] = paused /\ place[3] = completed /\ place[4] = Queued
    OBVIOUS
  <2>. HIDE DEF place
  <2>4. \A i, j \in 1..4 : i # j => place[i] \intersect place[j] = {}
    <3>. TAKE i, j \in 1..4
    <3>1. (i = 1 \/ i = 2 \/ i = 3 \/ i = 4) /\ (j = 1 \/ j = 2 \/ j = 3 \/ j = 4)
      OBVIOUS
    <3>. QED BY <2>2, <2>3, <3>1
  <2>. QED BY <2>1, <2>4 DEF InOnePlace, place
<1>. QED BY <1>1, QueueAlways, PTL

(* The queue is in order of priority, then of asking, until somebody moves an entry
   by hand. *)
THEOREM QueueInBestOrder == QueueSpec => []BestFirst
<1>1. QueueInv => BestFirst
  BY DEF QueueInv, BestFirst, InOrder
<1>. QED BY <1>1, QueueAlways, PTL

(* Nothing is started beyond the limit: not after it was lowered, nor when a slot
   comes free while more torrents are active than it allows. *)
THEOREM LimitIsKept == QueueSpec => NeverOverfills
<1>1. QueueInv /\ [QueueNext]_queueVars
        => [(\E t \in Torrent : t \in Active' /\ t \notin Active)
              => Len(active') <= maxConcurrent']_queueVars
  BY QueueStep DEF Slots, NoOverfill
<1>. QED BY <1>1, QueueAlways, PTL DEF QueueSpec, NeverOverfills
(* A slot that comes free goes to the head of the queue in the same call. *)
THEOREM SlotsAreUsed == QueueSpec => FreedSlotIsUsed
<1>1. QueueInv /\ [QueueNext]_queueVars
        => [(\E t \in Active : t \notin Active')
              => queue' = <<>> \/ Len(active') >= maxConcurrent']_queueVars
  BY QueueStep DEF Slots, SlotUsed
<1>. QED BY <1>1, QueueAlways, PTL DEF QueueSpec, FreedSlotIsUsed
=============================================================================
