--------------------------- MODULE SequenceFacts ----------------------------
(***************************************************************************)
(* Lemmas about natural numbers and sequences that the proofs about the    *)
(* components share.  The induction principles of the library take an      *)
(* operator as a parameter, which the provers cannot instantiate; here the *)
(* same is said of sets, from the theorem that every set of numbers has a  *)
(* least one.                                                              *)
(***************************************************************************)
EXTENDS SequencesExt, Filters, SequenceTheorems, FiniteSetTheorems, TLAPS

(* Every nonempty set of natural numbers has a least element. *)
LEMMA LeastNumber ==
  ASSUME NEW T \in SUBSET Nat, T # {}
  PROVE  \E m \in T : \A n \in T : m <= n
<1>1. PICK m \in T : \A n \in T : <<n, m>> \notin OpToRel(<, Nat)
  BY NatLessThanWellFounded, WFMin
<1>2. \A n \in T : ~(n < m)
  BY <1>1 DEF OpToRel
<1>. QED BY <1>2

(* Induction up to n: a set that has 0 and with every number below n the next
   one has all of them. *)
LEMMA UpTo ==
  ASSUME NEW n \in Nat, NEW S, 0 \in S, \A i \in 0..n : i \in S /\ i < n => i + 1 \in S
  PROVE  0..n \subseteq S
<1>. SUFFICES ASSUME (0..n) \ S # {} PROVE FALSE
  OBVIOUS
<1>1. PICK m \in (0..n) \ S : \A i \in (0..n) \ S : m <= i
  <2>. (0..n) \ S \in SUBSET Nat
    OBVIOUS
  <2>. QED BY LeastNumber
<1>2. m - 1 \in 0..n /\ m - 1 < n /\ (m - 1) + 1 = m
  BY <1>1
<1>3. m - 1 \in S
  BY <1>1, <1>2
<1>. QED BY <1>1, <1>2, <1>3

(* A recursion over 1..N whose steps stay in D has a result at every number. *)
Steps(N, D) == [1..N -> [D -> D]]
Repeats(N, D, s, step) ==
  {f \in [0..N -> D] : f[0] = s /\ \A n \in 1..N : f[n] = step[n][f[n - 1]]}
LEMMA Iterates ==
  ASSUME NEW N \in Nat, NEW D, NEW s \in D, NEW step \in Steps(N, D)
  PROVE  Repeats(N, D, s, step) # {}
<1>. DEFINE Upto(m) == {f \in [0..m -> D] : f[0] = s /\ \A n \in 1..m : f[n] = step[n][f[n - 1]]}
            S == {m \in 0..N : Upto(m) # {}}
<1>1. 0 \in S
  <2>1. [n \in 0..0 |-> s] \in Upto(0)
    OBVIOUS
  <2>. QED BY <2>1
<1>2. ASSUME NEW i \in 0..N, i \in S, i < N PROVE i + 1 \in S
  <2>1. PICK f \in Upto(i) : TRUE
    BY <1>2
  <2>. DEFINE g == [n \in 0..i + 1 |-> IF n = i + 1 THEN step[i + 1][f[i]] ELSE f[n]]
  <2>2. f \in [0..i -> D] /\ f[0] = s /\ \A n \in 1..i : f[n] = step[n][f[n - 1]]
    BY <2>1
  <2>3. step[i + 1][f[i]] \in D
    BY <1>2, <2>2 DEF Steps
  <2>4. g \in [0..i + 1 -> D]
    BY <2>2, <2>3
  <2>5. g[0] = s /\ \A n \in 1..i + 1 : g[n] = step[n][g[n - 1]]
    <3>1. \A n \in 0..i : g[n] = f[n]
      OBVIOUS
    <3>2. g[i + 1] = step[i + 1][f[i]]
      OBVIOUS
    <3>. HIDE DEF g
    <3>3. ASSUME NEW n \in 1..i + 1 PROVE g[n] = step[n][g[n - 1]]
      <4>1. CASE n = i + 1
        BY <3>1, <3>2, <4>1
      <4>2. CASE n # i + 1
        <5>1. n \in 1..i /\ n - 1 \in 0..i /\ n \in 0..i
          BY <4>2
        <5>. QED BY <5>1, <3>1, <2>2
      <4>. QED BY <4>1, <4>2
    <3>. QED BY <3>1, <3>3, <2>2
  <2>6. g \in Upto(i + 1) /\ i + 1 \in 0..N
    BY <2>4, <2>5, <1>2
  <2>. QED BY <2>6
<1>3. N \in S
  <2>. HIDE DEF S
  <2>1. 0..N \subseteq S
    BY <1>1, <1>2, UpTo
  <2>. QED BY <2>1
<1>. QED BY <1>3 DEF Repeats

(* Max finds the greatest element of a nonempty set of numbers up to n. *)
LEMMA MaxFacts ==
  ASSUME NEW n \in Nat, NEW T \in SUBSET (1..n), T # {}
  PROVE  Max(T) \in T /\ \A i \in T : i <= Max(T)
<1>. DEFINE U == {n - i : i \in T}
<1>1. PICK m \in U : \A u \in U : m <= u
  <2>1. \A i \in T : n - i \in U /\ n - i \in Nat
    OBVIOUS
  <2>2. U \subseteq Nat /\ U # {}
    BY <2>1
  <2>. HIDE DEF U
  <2>. QED BY <2>2, LeastNumber
<1>2. PICK x \in T : m = n - x
  BY <1>1
<1>3. \A i \in T : x >= i
  <2>. TAKE i \in T
  <2>1. n - i \in U /\ x \in 1..n /\ i \in 1..n
    OBVIOUS
  <2>. HIDE DEF U
  <2>. QED BY <1>1, <1>2, <2>1
<1>4. Max(T) \in T /\ \A i \in T : Max(T) >= i
  BY <1>3 DEF Max
<1>. QED BY <1>4

-----------------------------------------------------------------------------
(* Counting: a part of a finite set has no more elements. *)
LEMMA CountPart ==
  ASSUME NEW S, IsFiniteSet(S), NEW T, T \subseteq S
  PROVE  /\ IsFiniteSet(T) /\ Cardinality(T) \in Nat /\ Cardinality(S) \in Nat
         /\ Cardinality(T) <= Cardinality(S)
  BY FS_Subset, FS_CardinalityType

(* A part that lacks x has at least one element less. *)
LEMMA CountLess ==
  ASSUME NEW S, IsFiniteSet(S), NEW x \in S, NEW T, T \subseteq S \ {x}
  PROVE  Cardinality(T) + 1 <= Cardinality(S)
<1>1. IsFiniteSet(S \ {x}) /\ Cardinality(S \ {x}) = Cardinality(S) - 1
  BY FS_RemoveElement
<1>2. Cardinality(T) <= Cardinality(S \ {x}) /\ Cardinality(T) \in Nat /\ Cardinality(S) \in Nat
  BY <1>1, CountPart, FS_CardinalityType
<1>. QED BY <1>1, <1>2

(* With one element more there is at most one more. *)
LEMMA CountMore ==
  ASSUME NEW S, IsFiniteSet(S), NEW x, NEW T, T \subseteq S \union {x}
  PROVE  IsFiniteSet(T) /\ Cardinality(T) \in Nat /\ Cardinality(T) <= Cardinality(S) + 1
<1>1. /\ IsFiniteSet(S \union {x}) /\ Cardinality(S) \in Nat
      /\ Cardinality(S \union {x}) \in Nat /\ Cardinality(S \union {x}) <= Cardinality(S) + 1
  BY FS_AddElement, FS_CardinalityType, SMTT(30)
<1>2. IsFiniteSet(T) /\ Cardinality(T) <= Cardinality(S \union {x}) /\ Cardinality(T) \in Nat
  BY <1>1, CountPart
<1>. QED BY <1>1, <1>2

-----------------------------------------------------------------------------
(* A function on 1..n is a sequence of length n. *)
LEMMA FunctionIsSeq ==
  ASSUME NEW S, NEW n \in Nat, NEW f \in [1..n -> S]
  PROVE  f \in Seq(S) /\ Len(f) = n
<1>1. f \in Seq(S)
  BY SeqDef
<1>. QED BY <1>1, LenProperties

(* The domain and the elements of a concatenation. *)
LEMMA ConcatFacts ==
  ASSUME NEW S, NEW a \in Seq(S), NEW b \in Seq(S)
  PROVE  /\ a \o b \in Seq(S) /\ Len(a \o b) = Len(a) + Len(b)
         /\ DOMAIN (a \o b) = 1..Len(a) + Len(b)
         /\ \A j \in 1..Len(a) + Len(b) :
              (a \o b)[j] = IF j <= Len(a) THEN a[j] ELSE b[j - Len(a)]
<1>1. a \o b \in Seq(S) /\ Len(a \o b) = Len(a) + Len(b)
  BY ConcatProperties
<1>2. \A j \in 1..Len(a) + Len(b) : (a \o b)[j] = IF j <= Len(a) THEN a[j] ELSE b[j - Len(a)]
  BY ConcatProperties
<1>3. DOMAIN (a \o b) = 1..Len(a \o b)
  BY <1>1, LenProperties
<1>. QED BY <1>1, <1>2, <1>3

(* What is left of a sequence when one element is taken out. *)
LEMMA RemoveAtFacts ==
  ASSUME NEW S, NEW s \in Seq(S), NEW i \in DOMAIN s
  PROVE  /\ RemoveAt(s, i) \in Seq(S)
         /\ Len(RemoveAt(s, i)) = Len(s) - 1
         /\ DOMAIN RemoveAt(s, i) = 1..Len(s) - 1
         /\ \A j \in 1..Len(s) - 1 : RemoveAt(s, i)[j] = IF j < i THEN s[j] ELSE s[j + 1]
<1>1. /\ DOMAIN s = 1..Len(s) /\ Len(s) \in Nat /\ i \in 1..Len(s)
      /\ \A j \in 1..Len(s) : s[j] \in S
  OBVIOUS
<1>. DEFINE a == SubSeq(s, 1, i - 1)
            b == SubSeq(s, i + 1, Len(s))
<1>2. a \in Seq(S) /\ Len(a) = i - 1 /\ \A j \in 1..i - 1 : a[j] = s[j]
  BY <1>1, SubSeqProperties
<1>3. b \in Seq(S) /\ Len(b) = Len(s) - i /\ \A j \in 1..Len(s) - i : b[j] = s[i + j]
  BY <1>1, SubSeqProperties
<1>4. RemoveAt(s, i) = a \o b
  BY DEF RemoveAt
<1>. HIDE DEF a, b
<1>5. /\ a \o b \in Seq(S) /\ Len(a \o b) = Len(a) + Len(b)
      /\ DOMAIN (a \o b) = 1..Len(a) + Len(b)
      /\ \A j \in 1..Len(a) + Len(b) : (a \o b)[j] = IF j <= Len(a) THEN a[j] ELSE b[j - Len(a)]
  BY <1>2, <1>3, ConcatFacts
<1>6. Len(a) + Len(b) = Len(s) - 1
  BY <1>1, <1>2, <1>3
<1>7. ASSUME NEW j \in 1..Len(s) - 1
      PROVE  (a \o b)[j] = IF j < i THEN s[j] ELSE s[j + 1]
  <2>1. CASE j < i
    BY <1>1, <1>2, <1>5, <1>6, <2>1
  <2>2. CASE ~(j < i)
    <3>1. j - Len(a) \in 1..Len(s) - i /\ i + (j - Len(a)) = j + 1 /\ ~(j <= Len(a))
      BY <1>1, <1>2, <2>2
    <3>2. (a \o b)[j] = b[j - Len(a)]
      BY <1>5, <1>6, <3>1
    <3>. QED BY <1>3, <2>2, <3>1, <3>2
  <2>. QED BY <2>1, <2>2
<1>. QED BY <1>4, <1>5, <1>6, <1>7

(* A sequence without repetitions loses just that element. *)
LEMMA RemoveAtInjective ==
  ASSUME NEW S, NEW s \in Seq(S), NEW i \in DOMAIN s,
         \A j, k \in DOMAIN s : s[j] = s[k] => j = k
  PROVE  /\ \A j, k \in DOMAIN RemoveAt(s, i) :
              RemoveAt(s, i)[j] = RemoveAt(s, i)[k] => j = k
         /\ ToSet(RemoveAt(s, i)) = ToSet(s) \ {s[i]}
<1>. DEFINE r == RemoveAt(s, i)
            At(j) == IF j < i THEN j ELSE j + 1
<1>0. DOMAIN s = 1..Len(s) /\ Len(s) \in Nat /\ i \in 1..Len(s)
  OBVIOUS
<1>1. /\ DOMAIN r = 1..Len(s) - 1
      /\ \A j \in 1..Len(s) - 1 : At(j) \in DOMAIN s /\ At(j) # i
      /\ \A j \in 1..Len(s) - 1 : r[j] = s[At(j)]
  BY <1>0, RemoveAtFacts, SMTT(30)
<1>2. \A j \in DOMAIN s : j # i => \E k \in DOMAIN r : At(k) = j
  <2>. TAKE j \in DOMAIN s
  <2>1. CASE j < i
    BY <1>0, <1>1, <2>1
  <2>2. CASE j > i
    <3>. j - 1 \in DOMAIN r /\ At(j - 1) = j
      BY <1>0, <1>1, <2>2
    <3>. QED OBVIOUS
  <2>. QED BY <1>0, <2>1, <2>2
<1>3. \A j, k \in DOMAIN r : At(j) = At(k) => j = k
  BY <1>0, <1>1
<1>. HIDE DEF r, At
<1>4. \A j, k \in DOMAIN r : r[j] = r[k] => j = k
  BY <1>1, <1>3
<1>5. ToSet(r) = ToSet(s) \ {s[i]}
  <2>1. ASSUME NEW x \in ToSet(r) PROVE x \in ToSet(s) \ {s[i]}
    BY <1>1, <2>1 DEF ToSet
  <2>2. ASSUME NEW x \in ToSet(s), x # s[i] PROVE x \in ToSet(r)
    <3>1. PICK j \in DOMAIN s : x = s[j]
      BY DEF ToSet
    <3>2. PICK k \in DOMAIN r : At(k) = j
      BY <1>2, <2>2, <3>1
    <3>. QED BY <1>1, <3>1, <3>2 DEF ToSet
  <2>. QED BY <2>1, <2>2
<1>. QED BY <1>4, <1>5 DEF r

(* A sequence with one element put in. *)
LEMMA InsertAtFacts ==
  ASSUME NEW S, NEW s \in Seq(S), NEW e \in S, NEW i \in 1..Len(s) + 1
  PROVE  /\ InsertAt(s, i, e) \in Seq(S)
         /\ Len(InsertAt(s, i, e)) = Len(s) + 1
         /\ DOMAIN InsertAt(s, i, e) = 1..Len(s) + 1
         /\ \A j \in 1..Len(s) + 1 :
              InsertAt(s, i, e)[j] = IF j < i THEN s[j] ELSE IF j = i THEN e ELSE s[j - 1]
<1>1. /\ DOMAIN s = 1..Len(s) /\ Len(s) \in Nat
      /\ \A j \in 1..Len(s) : s[j] \in S
  OBVIOUS
<1>. DEFINE a == SubSeq(s, 1, i - 1)
            b == SubSeq(s, i, Len(s))
            c == a \o <<e>>
<1>2. a \in Seq(S) /\ Len(a) = i - 1 /\ \A j \in 1..i - 1 : a[j] = s[j]
  BY <1>1, SubSeqProperties
<1>3. b \in Seq(S) /\ Len(b) = Len(s) + 1 - i
  BY <1>1, SubSeqProperties
<1>4. \A j \in 1..Len(s) + 1 - i : b[j] = s[i + j - 1]
  BY <1>1, SubSeqProperties
<1>5. InsertAt(s, i, e) = c \o b
  BY DEF InsertAt
<1>6. c = Append(a, e)
  BY <1>2, AppendIsConcat
<1>. HIDE DEF a, b, c
<1>7. /\ c \in Seq(S) /\ Len(c) = i /\ c[i] = e
      /\ \A j \in 1..i - 1 : c[j] = s[j]
  BY <1>2, <1>6, AppendProperties
<1>8. /\ c \o b \in Seq(S) /\ Len(c \o b) = Len(c) + Len(b)
      /\ DOMAIN (c \o b) = 1..Len(c) + Len(b)
      /\ \A j \in 1..Len(c) + Len(b) : (c \o b)[j] = IF j <= Len(c) THEN c[j] ELSE b[j - Len(c)]
  BY <1>3, <1>7, ConcatFacts
<1>9. Len(c) + Len(b) = Len(s) + 1
  BY <1>1, <1>3, <1>7
<1>10. ASSUME NEW j \in 1..Len(s) + 1
       PROVE  (c \o b)[j] = IF j < i THEN s[j] ELSE IF j = i THEN e ELSE s[j - 1]
  <2>1. CASE j <= i
    BY <1>1, <1>7, <1>8, <1>9, <2>1
  <2>2. CASE j > i
    <3>1. j - Len(c) \in 1..Len(s) + 1 - i /\ i + (j - Len(c)) - 1 = j - 1 /\ ~(j <= Len(c))
      BY <1>1, <1>7, <2>2
    <3>2. (c \o b)[j] = b[j - Len(c)]
      BY <1>8, <1>9, <3>1
    <3>3. b[j - Len(c)] = s[j - 1]
      BY <1>4, <3>1
    <3>. QED BY <2>2, <3>2, <3>3
  <2>3. j <= i \/ j > i
    BY <1>1
  <2>. QED BY <2>1, <2>2, <2>3
<1>. QED BY <1>5, <1>8, <1>9, <1>10

(* What is left of the first n elements of s when those in S are dropped. *)
KeptOf(s, S, n, k) ==
  /\ Len(k) <= n
  /\ \A i \in DOMAIN k : \E j \in 1..n : k[i] = s[j] /\ s[j] \notin S
  /\ \A j \in 1..n : s[j] \notin S => \E i \in DOMAIN k : k[i] = s[j]
  /\ (\A i, j \in DOMAIN s : s[i] = s[j] => i = j) => \A i, j \in DOMAIN k : k[i] = k[j] => i = j

(* One more element of s: it is dropped, or it is appended. *)
LEMMA KeptMore ==
  ASSUME NEW T, NEW s \in Seq(T), NEW S, NEW n \in 0..Len(s), n < Len(s),
         NEW k \in Seq(T), KeptOf(s, S, n, k)
  PROVE  LET m == IF s[n + 1] \in S THEN k ELSE Append(k, s[n + 1])
         IN  m \in Seq(T) /\ KeptOf(s, S, n + 1, m)
<1>. DEFINE e == s[n + 1]
<1>1. /\ n + 1 \in DOMAIN s /\ e \in T /\ n \in Nat /\ Len(k) \in Nat /\ DOMAIN k = 1..Len(k)
      /\ DOMAIN s = 1..Len(s) /\ Len(s) \in Nat
  OBVIOUS
<1>2. CASE e \in S
  <2>1. KeptOf(s, S, n + 1, k)
    <3>1. Len(k) <= n + 1
      BY <1>1 DEF KeptOf
    <3>2. \A i \in DOMAIN k : \E j \in 1..n + 1 : k[i] = s[j] /\ s[j] \notin S
      BY <1>1 DEF KeptOf
    <3>3. \A j \in 1..n + 1 : s[j] \notin S => \E i \in DOMAIN k : k[i] = s[j]
      BY <1>1, <1>2 DEF KeptOf
    <3>. QED BY <3>1, <3>2, <3>3 DEF KeptOf
  <2>. QED BY <1>2, <2>1
<1>3. CASE e \notin S
  <2>. DEFINE m == Append(k, e)
  <2>1. /\ m \in Seq(T) /\ Len(m) = Len(k) + 1 /\ DOMAIN m = 1..Len(k) + 1
        /\ \A i \in DOMAIN k : m[i] = k[i]
        /\ m[Len(k) + 1] = e
    BY <1>1
  <2>. HIDE DEF m
  <2>2. Len(m) <= n + 1
    BY <1>1, <2>1 DEF KeptOf
  <2>3. \A i \in DOMAIN m : \E j \in 1..n + 1 : m[i] = s[j] /\ s[j] \notin S
    <3>. TAKE i \in DOMAIN m
    <3>1. CASE i = Len(k) + 1
      BY <1>1, <1>3, <2>1, <3>1
    <3>2. CASE i # Len(k) + 1
      <4>1. i \in DOMAIN k /\ m[i] = k[i]
        BY <1>1, <2>1, <3>2
      <4>2. PICK j \in 1..n : k[i] = s[j] /\ s[j] \notin S
        BY <4>1 DEF KeptOf
      <4>. QED BY <1>1, <4>1, <4>2
    <3>. QED BY <3>1, <3>2
  <2>4. \A j \in 1..n + 1 : s[j] \notin S => \E i \in DOMAIN m : m[i] = s[j]
    <3>. SUFFICES ASSUME NEW j \in 1..n + 1, s[j] \notin S PROVE \E i \in DOMAIN m : m[i] = s[j]
      OBVIOUS
    <3>1. CASE j = n + 1
      BY <1>1, <2>1, <3>1
    <3>2. CASE j # n + 1
      <4>1. j \in 1..n
        BY <1>1, <3>2
      <4>2. PICK i \in DOMAIN k : k[i] = s[j]
        BY <4>1 DEF KeptOf
      <4>. QED BY <1>1, <2>1, <4>2
    <3>. QED BY <3>1, <3>2
  <2>5. ASSUME \A i, j \in DOMAIN s : s[i] = s[j] => i = j, NEW i \in DOMAIN m, NEW j \in DOMAIN m,
               m[i] = m[j]
        PROVE  i = j
    <3>1. \A a \in DOMAIN k : k[a] # e
      <4>. TAKE a \in DOMAIN k
      <4>1. PICK b \in 1..n : k[a] = s[b]
        BY DEF KeptOf
      <4>2. b \in DOMAIN s /\ b # n + 1
        BY <1>1
      <4>. QED BY <1>1, <2>5, <4>1, <4>2
    <3>2. \A a \in DOMAIN m : a \in DOMAIN k \/ a = Len(k) + 1
      BY <1>1, <2>1
    <3>3. \A a, b \in DOMAIN k : k[a] = k[b] => a = b
      BY <2>5 DEF KeptOf
    <3>. QED BY <2>1, <2>5, <3>1, <3>2, <3>3
  <2>6. KeptOf(s, S, n + 1, m)
    BY <2>2, <2>3, <2>4, <2>5 DEF KeptOf
  <2>. QED BY <1>3, <2>1, <2>6 DEF m
<1>. QED BY <1>2, <1>3

(* What Array.filter leaves: the elements outside S, all of them, in a sequence that
   is no longer, and without repetitions if there were none. *)
LEMMA DroppingFacts ==
  ASSUME NEW T, NEW s \in Seq(T), NEW S
  PROVE  Dropping(s, S) \in Seq(T) /\ KeptOf(s, S, Len(s), Dropping(s, S))
<1>. DEFINE N == Len(s)
            D == Seq(T)
            step == [n \in 1..N |-> [d \in D |-> IF s[n] \in S THEN d ELSE Append(d, s[n])]]
            kept == CHOOSE f : f = [n \in 0..N |-> IF n = 0 THEN <<>>
                      ELSE IF s[n] \in S THEN f[n - 1] ELSE Append(f[n - 1], s[n])]
<1>1. N \in Nat /\ <<>> \in D /\ DOMAIN s = 1..N /\ \A n \in 1..N : s[n] \in T
  OBVIOUS
<1>2. Dropping(s, S) = kept[N]
  BY DEF Dropping
<1>. HIDE DEF N
<1>3. step \in Steps(N, D)
  <2>1. \A n \in 1..N, d \in D : (IF s[n] \in S THEN d ELSE Append(d, s[n])) \in D
    BY <1>1
  <2>. HIDE DEF D
  <2>. QED BY <2>1 DEF Steps
<1>4. \A n \in 1..N, d \in D : step[n][d] = IF s[n] \in S THEN d ELSE Append(d, s[n])
  OBVIOUS
<1>. HIDE DEF D, step, kept
<1>5. PICK f \in [0..N -> D] : f[0] = <<>> /\ \A n \in 1..N : f[n] = step[n][f[n - 1]]
  <2>1. Repeats(N, D, <<>>, step) # {}
    BY <1>1, <1>3, Iterates
  <2>. QED BY <2>1 DEF Repeats
<1>6. f = [n \in 0..N |-> IF n = 0 THEN <<>>
             ELSE IF s[n] \in S THEN f[n - 1] ELSE Append(f[n - 1], s[n])]
  <2>1. \A n \in 1..N : /\ n - 1 \in 0..N
                        /\ f[n] = IF s[n] \in S THEN f[n - 1] ELSE Append(f[n - 1], s[n])
    BY <1>1, <1>4, <1>5
  <2>2. \A n \in 0..N : n = 0 \/ n \in 1..N
    BY <1>1
  <2>3. \A n \in 0..N : f[n] = IF n = 0 THEN <<>>
                        ELSE IF s[n] \in S THEN f[n - 1] ELSE Append(f[n - 1], s[n])
    <3>. TAKE n \in 0..N
    <3>1. CASE n = 0
      BY <1>5, <3>1
    <3>2. CASE n # 0
      BY <2>1, <2>2, <3>2
    <3>. QED BY <3>1, <3>2
  <2>. QED BY <1>5, <2>3, Zenon
<1>7. kept = [n \in 0..N |-> IF n = 0 THEN <<>>
                ELSE IF s[n] \in S THEN kept[n - 1] ELSE Append(kept[n - 1], s[n])]
  BY <1>6 DEF kept
<1>. DEFINE U == {n \in 0..N : kept[n] \in Seq(T) /\ KeptOf(s, S, n, kept[n])}
<1>8. 0 \in U
  <2>1. kept[0] = <<>> /\ 0 \in 0..N
    BY <1>1, <1>7
  <2>2. KeptOf(s, S, 0, <<>>)
    BY DEF KeptOf
  <2>3. <<>> \in Seq(T)
    OBVIOUS
  <2>. QED BY <2>1, <2>2, <2>3
<1>9. \A i \in 0..N : i \in U /\ i < N => i + 1 \in U
  <2>. SUFFICES ASSUME NEW i \in 0..N, i \in U, i < N PROVE i + 1 \in U
    OBVIOUS
  <2>1. /\ i + 1 \in 0..N /\ i + 1 # 0 /\ (i + 1) - 1 = i
    BY <1>1
  <2>2. kept[i + 1] = IF s[i + 1] \in S THEN kept[i] ELSE Append(kept[i], s[i + 1])
    BY <1>7, <2>1
  <2>3. kept[i] \in Seq(T) /\ KeptOf(s, S, i, kept[i])
    OBVIOUS
  <2>4. kept[i + 1] \in Seq(T) /\ KeptOf(s, S, i + 1, kept[i + 1])
    <3>. DEFINE m == IF s[i + 1] \in S THEN kept[i] ELSE Append(kept[i], s[i + 1])
    <3>1. i \in 0..Len(s) /\ i < Len(s)
      BY DEF N
    <3>2. m \in Seq(T) /\ KeptOf(s, S, i + 1, m)
      BY <2>3, <3>1, KeptMore
    <3>. QED BY <2>2, <3>2
  <2>. QED BY <2>1, <2>4
<1>. HIDE DEF U
<1>10. 0..N \subseteq U
  BY <1>1, <1>8, <1>9, UpTo
<1>. QED BY <1>1, <1>2, <1>10 DEF U, N

(* Array.filter of an array without repetitions takes its elements out of its set. *)
LEMMA DroppingSet ==
  ASSUME NEW T, NEW s \in Seq(T), NEW S
  PROVE  ToSet(Dropping(s, S)) = ToSet(s) \ S
<1>1. /\ \A i \in DOMAIN Dropping(s, S) : \E j \in DOMAIN s : Dropping(s, S)[i] = s[j] /\ s[j] \notin S
      /\ \A j \in DOMAIN s : s[j] \notin S => \E i \in DOMAIN Dropping(s, S) : Dropping(s, S)[i] = s[j]
  <2>1. DOMAIN s = 1..Len(s)
    OBVIOUS
  <2>2. KeptOf(s, S, Len(s), Dropping(s, S))
    BY DroppingFacts
  <2>. QED BY <2>1, <2>2 DEF KeptOf
<1>. HIDE DEF Dropping
<1>2. ASSUME NEW x \in ToSet(Dropping(s, S)) PROVE x \in ToSet(s) \ S
  BY <1>1 DEF ToSet
<1>3. ASSUME NEW x \in ToSet(s) \ S PROVE x \in ToSet(Dropping(s, S))
  BY <1>1 DEF ToSet
<1>. QED BY <1>2, <1>3
=============================================================================
