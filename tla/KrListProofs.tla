---------------------------- MODULE KrListProofs ----------------------------
(***************************************************************************)
(* Lemmas about the lists of krutils/kr_list.c as the models have them, as *)
(* sequences: what an insertion and a removal do to the elements and to    *)
(* their positions.  The proofs about the components use them.  First come *)
(* the least and the greatest of a set of numbers, which searches return,  *)
(* and the numbers that are reached step by step.                          *)
(***************************************************************************)
EXTENDS Integers, SequencesExt, SequenceTheorems, WellFoundedInduction, TLAPS

\* Every set of natural numbers has a least element.
LEMMA LeastNatural ==
  ASSUME NEW T \in SUBSET Nat, T # {}
  PROVE  \E n \in T : \A m \in T : n <= m
<1> DEFINE R == OpToRel(<, Nat)
<1>1. IsWellFoundedOn(R, Nat)
  BY NatLessThanWellFounded
<1>2. R = {p \in Nat \X Nat : p[1] < p[2]}
  BY DEF OpToRel
<1> HIDE DEF R
<1>3. PICK n \in T : \A m \in T : ~(<<m, n>> \in R)
  BY <1>1, WFMin
<1>4. ASSUME NEW m \in Nat, ~(<<m, n>> \in R)
      PROVE  n <= m
  BY <1>2, <1>4
<1> QED
  BY <1>3, <1>4

\* What holds of 0 and goes from each number to the next holds up to N.
LEMMA StepsReach ==
  ASSUME NEW N \in Nat, NEW T, 0 \in T, \A k \in 0 .. N - 1 : k \in T => k + 1 \in T
  PROVE  0 .. N \subseteq T
<1> DEFINE Wrong == {k \in 0 .. N : k \notin T}
<1>1. Wrong \in SUBSET Nat
  OBVIOUS
<1>2. SUFFICES ASSUME Wrong # {}
               PROVE  FALSE
  OBVIOUS
<1>3. PICK k \in Wrong : \A m \in Wrong : k <= m
  BY <1>1, <1>2, LeastNatural
<1>4. k \in 0 .. N /\ k # 0
  OBVIOUS
<1>5. k - 1 \in 0 .. N - 1 /\ k - 1 \in 0 .. N
  BY <1>4
<1>6. k - 1 \in T
  BY <1>3, <1>4, <1>5
<1>7. (k - 1) + 1 \in T
  BY <1>5, <1>6
<1> QED
  BY <1>4, <1>7

\* Min, which a search from the front of a list returns.
LEMMA MinOf ==
  ASSUME NEW T \in SUBSET Nat, T # {}
  PROVE  Min(T) \in T /\ \A m \in T : Min(T) <= m
<1>1. \E n \in T : \A m \in T : n <= m
  BY LeastNatural
<1> QED
  BY <1>1 DEF Min

\* Max of a set of integers with a bound.
LEMMA MaxOf ==
  ASSUME NEW b \in Int, NEW T \in SUBSET Int, T # {}, \A m \in T : m <= b
  PROVE  Max(T) \in T /\ \A m \in T : m <= Max(T)
<1> DEFINE D == {b - m : m \in T}
<1>1. D \in SUBSET Nat /\ D # {}
  <2>1. \A m \in T : b - m \in Nat
    <3>1. \A m \in T : m \in Int /\ m <= b
      OBVIOUS
    <3> QED
      BY <3>1
  <2> QED
    BY <2>1
<1>2. PICK d \in D : \A e \in D : d <= e
  BY <1>1, LeastNatural
<1>3. PICK n \in T : d = b - n
  BY <1>2
<1>4. ASSUME NEW m \in T
      PROVE  m <= n
  <2>1. b - m \in D
    OBVIOUS
  <2>2. b - n <= b - m
    BY <1>2, <1>3, <2>1
  <2>3. m \in Int /\ n \in Int
    OBVIOUS
  <2> QED
    BY <2>2, <2>3
<1> QED
  BY <1>4 DEF Max

\* Max is the only greatest element.
LEMMA MaxIs ==
  ASSUME NEW T \in SUBSET Int, NEW n \in T, \A m \in T : m <= n
  PROVE  Max(T) = n
<1>1. Max(T) \in T /\ \A m \in T : m <= Max(T)
  <2>1. n \in Int
    OBVIOUS
  <2> QED
    BY <2>1, MaxOf
<1>2. Max(T) <= n /\ n <= Max(T) /\ n \in Int /\ Max(T) \in Int
  BY <1>1
<1> QED
  BY <1>2

\* The elements of a list, by position.
LEMMA SetOfList ==
  ASSUME NEW S, NEW s \in Seq(S)
  PROVE  /\ ToSet(s) = {s[i] : i \in 1 .. Len(s)}
         /\ ToSet(s) \subseteq S
         /\ IsInjective(s) <=> \A i, j \in 1 .. Len(s) : s[i] = s[j] => i = j
         /\ Len(s) \in Nat
         /\ s # <<>> => Last(s) \in ToSet(s)
<1>1. /\ Len(s) \in Nat
      /\ DOMAIN s = 1 .. Len(s)
      /\ \A i \in 1 .. Len(s) : s[i] \in S
  OBVIOUS
<1>2. s # <<>> => Len(s) \in 1 .. Len(s)
  BY EmptySeq
<1> QED
  BY <1>1, <1>2 DEF ToSet, IsInjective, Last

\* A list in two parts, with the new element between them.
LEMMA SplicePositions ==
  ASSUME NEW S, NEW left \in Seq(S), NEW right \in Seq(S), NEW e \in S,
         NEW r, r = (left \o <<e>>) \o right
  PROVE  /\ r \in Seq(S)
         /\ Len(r) = Len(left) + Len(right) + 1
         /\ \A j \in 1 .. Len(left) : r[j] = left[j]
         /\ r[Len(left) + 1] = e
         /\ \A j \in 1 .. Len(right) : r[Len(left) + 1 + j] = right[j]
<1>0. /\ left \o <<e>> \in Seq(S)
      /\ Len(left \o <<e>>) = Len(left) + 1
      /\ \A j \in 1 .. Len(left) : (left \o <<e>>)[j] = left[j]
      /\ (left \o <<e>>)[Len(left) + 1] = e
  OBVIOUS
<1>1. PICK front : front = left \o <<e>>
  OBVIOUS
<1>2. /\ front \in Seq(S)
      /\ Len(front) = Len(left) + 1
      /\ \A j \in 1 .. Len(left) : front[j] = left[j]
      /\ front[Len(left) + 1] = e
  BY <1>0, <1>1
<1>3. /\ front \o right \in Seq(S)
      /\ Len(front \o right) = Len(front) + Len(right)
      /\ \A j \in 1 .. Len(front) : (front \o right)[j] = front[j]
      /\ \A j \in 1 .. Len(right) : (front \o right)[Len(front) + j] = right[j]
  <2>1. front \in Seq(S)
    BY <1>2
  <2> QED
    BY <2>1
<1> QED
  BY <1>1, <1>2, <1>3

\* List r is list s with e put at position i.
Inserted(r, S, s, i, e) ==
  /\ r \in Seq(S)
  /\ Len(r) = Len(s) + 1
  /\ \A j \in 1 .. i - 1 : r[j] = s[j]
  /\ r[i] = e
  /\ \A j \in i + 1 .. Len(s) + 1 : r[j] = s[j - 1]

\* kr_list_add_tail and kr_list_add_sorted, position by position.
LEMMA InsertAtPositions ==
  ASSUME NEW S, NEW s \in Seq(S), NEW e \in S, NEW i \in 1 .. Len(s) + 1
  PROVE  Inserted(InsertAt(s, i, e), S, s, i, e)
<1>1. Len(s) \in Nat /\ i \in Int /\ i - 1 \in Int /\ 1 <= i /\ i <= Len(s) + 1
  OBVIOUS
<1>a. /\ SubSeq(s, 1, i - 1) \in Seq(S)
      /\ Len(SubSeq(s, 1, i - 1)) = i - 1
      /\ \A j \in 1 .. i - 1 : SubSeq(s, 1, i - 1)[j] = s[j]
  <2>1. \A j \in 1 .. i - 1 : s[j] \in S
    BY <1>1
  <2> QED
    BY <1>1, <2>1, SubSeqProperties
<1>b. /\ SubSeq(s, i, Len(s)) \in Seq(S)
      /\ Len(SubSeq(s, i, Len(s))) = Len(s) - i + 1
      /\ \A j \in 1 .. Len(s) - i + 1 : SubSeq(s, i, Len(s))[j] = s[i + j - 1]
  <2>1. \A j \in i .. Len(s) : s[j] \in S
    BY <1>1
  <2> QED
    BY <1>1, <2>1, SubSeqProperties
<1>p. PICK left : left = SubSeq(s, 1, i - 1)
  OBVIOUS
<1>q. PICK right : right = SubSeq(s, i, Len(s))
  OBVIOUS
<1>2. /\ left \in Seq(S)
      /\ Len(left) = i - 1
      /\ \A j \in 1 .. i - 1 : left[j] = s[j]
  BY <1>a, <1>p
<1>3. /\ right \in Seq(S)
      /\ Len(right) = Len(s) - i + 1
      /\ \A j \in 1 .. Len(s) - i + 1 : right[j] = s[i + j - 1]
  BY <1>b, <1>q
<1>4. PICK r : r = (left \o <<e>>) \o right
  OBVIOUS
<1>5. /\ r \in Seq(S)
      /\ Len(r) = Len(left) + Len(right) + 1
      /\ \A j \in 1 .. Len(left) : r[j] = left[j]
      /\ r[Len(left) + 1] = e
      /\ \A j \in 1 .. Len(right) : r[Len(left) + 1 + j] = right[j]
  <2>1. left \in Seq(S) /\ right \in Seq(S)
    BY <1>2, <1>3
  <2> QED
    BY <1>4, <2>1, SplicePositions
<1>6. InsertAt(s, i, e) = r
  BY <1>p, <1>q, <1>4 DEF InsertAt
<1>7. /\ Len(r) = Len(s) + 1
      /\ \A j \in 1 .. i - 1 : r[j] = s[j]
      /\ r[i] = e
  <2>1. Len(left) + 1 = i /\ Len(left) + Len(right) + 1 = Len(s) + 1
    BY <1>1, <1>2, <1>3
  <2> QED
    BY <1>2, <1>5, <2>1
<1>8. ASSUME NEW j \in i + 1 .. Len(s) + 1
      PROVE  r[j] = s[j - 1]
  <2>1. /\ j - i \in 1 .. Len(right)
        /\ Len(left) + 1 + (j - i) = j
        /\ i + (j - i) - 1 = j - 1
    BY <1>1, <1>2, <1>3
  <2> QED
    BY <1>3, <1>5, <2>1
<1> QED
  BY <1>5, <1>6, <1>7, <1>8 DEF Inserted

\* A record that joins a list: the others stay in it.
LEMMA InsertAtSet ==
  ASSUME NEW S, NEW s \in Seq(S), NEW e \in S, NEW i \in 1 .. Len(s) + 1,
         IsInjective(s), e \notin ToSet(s)
  PROVE  /\ InsertAt(s, i, e) \in Seq(S)
         /\ ToSet(InsertAt(s, i, e)) = ToSet(s) \cup {e}
         /\ IsInjective(InsertAt(s, i, e))
<1> DEFINE r == InsertAt(s, i, e)
<1>1. /\ r \in Seq(S)
      /\ Len(r) = Len(s) + 1
      /\ \A j \in 1 .. i - 1 : r[j] = s[j]
      /\ r[i] = e
      /\ \A j \in i + 1 .. Len(s) + 1 : r[j] = s[j - 1]
  <2>1. Inserted(r, S, s, i, e)
    BY InsertAtPositions
  <2> QED
    BY <2>1 DEF Inserted
<1> HIDE DEF r
<1>2. /\ Len(s) \in Nat /\ i \in Int /\ 1 <= i /\ i <= Len(s) + 1
      /\ ToSet(s) = {s[j] : j \in 1 .. Len(s)}
      /\ \A j, k \in 1 .. Len(s) : s[j] = s[k] => j = k
  BY SetOfList
<1>3. /\ ToSet(r) = {r[j] : j \in 1 .. Len(r)}
      /\ IsInjective(r) <=> \A j, k \in 1 .. Len(r) : r[j] = r[k] => j = k
  BY <1>1, SetOfList
<1>4. \A j \in 1 .. Len(r) : \/ j \in 1 .. i - 1 /\ j \in 1 .. Len(s)
                             \/ j = i
                             \/ j \in i + 1 .. Len(s) + 1 /\ j - 1 \in 1 .. Len(s) /\ j - 1 >= i
  BY <1>1, <1>2
<1>5. \A j \in 1 .. Len(s) : \/ j \in 1 .. i - 1 /\ j \in 1 .. Len(r)
                             \/ j + 1 \in i + 1 .. Len(s) + 1 /\ j + 1 \in 1 .. Len(r) /\ (j + 1) - 1 = j
  BY <1>1, <1>2
<1>6. i \in 1 .. Len(r)
  BY <1>1, <1>2
<1>7. \A a \in ToSet(r) : a \in ToSet(s) \cup {e}
  BY <1>1, <1>2, <1>3, <1>4
<1>8. \A a \in ToSet(s) : a \in ToSet(r)
  <2> SUFFICES ASSUME NEW j \in 1 .. Len(s)
               PROVE  s[j] \in ToSet(r)
    BY <1>2
  <2>1. CASE j \in 1 .. i - 1 /\ j \in 1 .. Len(r)
    BY <1>1, <1>3, <2>1
  <2>2. CASE j + 1 \in i + 1 .. Len(s) + 1 /\ j + 1 \in 1 .. Len(r) /\ (j + 1) - 1 = j
    BY <1>1, <1>3, <2>2
  <2> QED
    BY <1>5, <2>1, <2>2
<1>9. e \in ToSet(r)
  BY <1>1, <1>3, <1>6
<1>10. ASSUME NEW j \in 1 .. Len(r), NEW k \in 1 .. Len(r), r[j] = r[k]
       PROVE  j = k
  <2>1. \A m \in 1 .. Len(s) : s[m] # e
    BY <1>2
  <2>2. CASE j = i
    BY <1>1, <1>4, <1>10, <2>1, <2>2
  <2>3. CASE k = i
    BY <1>1, <1>4, <1>10, <2>1, <2>3
  <2>4. CASE j # i /\ k # i
    <3> DEFINE at(m) == IF m < i THEN m ELSE m - 1
    <3>1. /\ at(j) \in 1 .. Len(s) /\ r[j] = s[at(j)]
          /\ at(k) \in 1 .. Len(s) /\ r[k] = s[at(k)]
      BY <1>1, <1>2, <1>4, <2>4
    <3>2. at(j) = at(k)
      BY <1>2, <1>10, <3>1
    <3> QED
      BY <1>2, <2>4, <3>2
  <2> QED
    BY <2>2, <2>3, <2>4
<1> QED
  BY <1>1, <1>3, <1>7, <1>8, <1>9, <1>10 DEF r

\* A list in two parts, without an element between them.
LEMMA JoinPositions ==
  ASSUME NEW S, NEW left \in Seq(S), NEW right \in Seq(S), NEW r, r = left \o right
  PROVE  /\ r \in Seq(S)
         /\ Len(r) = Len(left) + Len(right)
         /\ \A j \in 1 .. Len(left) : r[j] = left[j]
         /\ \A j \in 1 .. Len(right) : r[Len(left) + j] = right[j]
OBVIOUS

\* List r is list s without its element at position i.
Removed(r, S, s, i) ==
  /\ r \in Seq(S)
  /\ Len(r) = Len(s) - 1
  /\ \A j \in 1 .. i - 1 : r[j] = s[j]
  /\ \A j \in i .. Len(s) - 1 : r[j] = s[j + 1]

\* kr_list_remove, position by position.
LEMMA RemoveAtPositions ==
  ASSUME NEW S, NEW s \in Seq(S), NEW i \in 1 .. Len(s)
  PROVE  Removed(RemoveAt(s, i), S, s, i)
<1>1. Len(s) \in Nat /\ i \in Int /\ i - 1 \in Int /\ i + 1 \in Int /\ 1 <= i /\ i <= Len(s)
  OBVIOUS
<1>a. /\ SubSeq(s, 1, i - 1) \in Seq(S)
      /\ Len(SubSeq(s, 1, i - 1)) = i - 1
      /\ \A j \in 1 .. i - 1 : SubSeq(s, 1, i - 1)[j] = s[j]
  <2>1. \A j \in 1 .. i - 1 : s[j] \in S
    BY <1>1
  <2> QED
    BY <1>1, <2>1, SubSeqProperties
<1>b. /\ SubSeq(s, i + 1, Len(s)) \in Seq(S)
      /\ Len(SubSeq(s, i + 1, Len(s))) = Len(s) - i
      /\ \A j \in 1 .. Len(s) - i : SubSeq(s, i + 1, Len(s))[j] = s[i + j]
  <2>1. \A j \in i + 1 .. Len(s) : s[j] \in S
    BY <1>1
  <2> QED
    BY <1>1, <2>1, SubSeqProperties
<1>p. PICK left : left = SubSeq(s, 1, i - 1)
  OBVIOUS
<1>q. PICK right : right = SubSeq(s, i + 1, Len(s))
  OBVIOUS
<1>2. /\ left \in Seq(S)
      /\ Len(left) = i - 1
      /\ \A j \in 1 .. i - 1 : left[j] = s[j]
  BY <1>a, <1>p
<1>3. /\ right \in Seq(S)
      /\ Len(right) = Len(s) - i
      /\ \A j \in 1 .. Len(s) - i : right[j] = s[i + j]
  BY <1>b, <1>q
<1>4. PICK r : r = left \o right
  OBVIOUS
<1>5. /\ r \in Seq(S)
      /\ Len(r) = Len(left) + Len(right)
      /\ \A j \in 1 .. Len(left) : r[j] = left[j]
      /\ \A j \in 1 .. Len(right) : r[Len(left) + j] = right[j]
  <2>1. left \in Seq(S) /\ right \in Seq(S)
    BY <1>2, <1>3
  <2> QED
    BY <1>4, <2>1, JoinPositions
<1>6. RemoveAt(s, i) = r
  BY <1>p, <1>q, <1>4 DEF RemoveAt
<1>7. /\ Len(r) = Len(s) - 1
      /\ \A j \in 1 .. i - 1 : r[j] = s[j]
  <2>1. Len(left) + Len(right) = Len(s) - 1
    BY <1>1, <1>2, <1>3
  <2> QED
    BY <1>2, <1>5, <2>1
<1>8. ASSUME NEW j \in i .. Len(s) - 1
      PROVE  r[j] = s[j + 1]
  <2>1. /\ j - i + 1 \in 1 .. Len(right)
        /\ Len(left) + (j - i + 1) = j
        /\ i + (j - i + 1) = j + 1
        /\ Len(right) = Len(s) - i
    BY <1>1, <1>2, <1>3
  <2>2. PICK k : k = j - i + 1
    OBVIOUS
  <2>3. k \in 1 .. Len(right) /\ Len(left) + k = j /\ i + k = j + 1
    BY <2>1, <2>2
  <2>4. r[Len(left) + k] = right[k] /\ right[k] = s[i + k]
    BY <1>3, <1>5, <2>1, <2>3
  <2> QED
    BY <2>3, <2>4
<1> QED
  BY <1>5, <1>6, <1>7, <1>8 DEF Removed

\* An element that leaves a list: the others stay in it.
LEMMA RemoveAtSet ==
  ASSUME NEW S, NEW s \in Seq(S), NEW i \in 1 .. Len(s), IsInjective(s)
  PROVE  /\ RemoveAt(s, i) \in Seq(S)
         /\ ToSet(RemoveAt(s, i)) = ToSet(s) \ {s[i]}
         /\ IsInjective(RemoveAt(s, i))
<1>1. /\ Len(s) \in Nat
      /\ ToSet(s) = {s[j] : j \in 1 .. Len(s)}
      /\ \A j, k \in 1 .. Len(s) : s[j] = s[k] => j = k
  BY SetOfList
<1> DEFINE r == RemoveAt(s, i)
<1>2. /\ r \in Seq(S)
      /\ Len(r) = Len(s) - 1
      /\ \A j \in 1 .. i - 1 : r[j] = s[j]
      /\ \A j \in i .. Len(s) - 1 : r[j] = s[j + 1]
  <2>1. Removed(r, S, s, i)
    BY RemoveAtPositions
  <2> QED
    BY <2>1 DEF Removed
<1> HIDE DEF r
<1>3. /\ ToSet(r) = {r[j] : j \in 1 .. Len(r)}
      /\ IsInjective(r) <=> \A j, k \in 1 .. Len(r) : r[j] = r[k] => j = k
  BY <1>2, SetOfList
<1> DEFINE from(j) == IF j < i THEN j ELSE j + 1
<1>4. \A j \in 1 .. Len(r) : from(j) \in 1 .. Len(s) /\ from(j) # i /\ r[j] = s[from(j)]
  BY <1>1, <1>2
<1>5. \A j, k \in 1 .. Len(r) : from(j) = from(k) => j = k
  BY <1>1, <1>2
<1>6. \A j \in 1 .. Len(s) : j # i => \E k \in 1 .. Len(r) : r[k] = s[j]
  <2> SUFFICES ASSUME NEW j \in 1 .. Len(s), j # i
               PROVE  \E k \in 1 .. Len(r) : r[k] = s[j]
    OBVIOUS
  <2>1. CASE j < i
    <3>1. j \in 1 .. i - 1 /\ j \in 1 .. Len(r)
      BY <1>1, <1>2, <2>1
    <3> QED
      BY <1>2, <3>1
  <2>2. CASE j > i
    <3>1. j - 1 \in i .. Len(s) - 1 /\ j - 1 \in 1 .. Len(r) /\ (j - 1) + 1 = j
      BY <1>1, <1>2, <2>2
    <3> QED
      BY <1>2, <3>1
  <2> QED
    BY <1>1, <2>1, <2>2
<1> HIDE DEF from
<1>7. IsInjective(r)
  BY <1>1, <1>3, <1>4, <1>5
<1>8. ToSet(r) \subseteq ToSet(s) \ {s[i]}
  <2> SUFFICES ASSUME NEW j \in 1 .. Len(r)
               PROVE  r[j] \in ToSet(s) /\ r[j] # s[i]
    BY <1>3
  <2>1. from(j) \in 1 .. Len(s) /\ from(j) # i /\ r[j] = s[from(j)]
    BY <1>4
  <2> QED
    BY <1>1, <2>1
<1>9. ToSet(s) \ {s[i]} \subseteq ToSet(r)
  BY <1>1, <1>3, <1>6
<1> QED
  BY <1>2, <1>7, <1>8, <1>9 DEF r

\* kr_list_remove takes away the place where the element is.
LEMMA RemoveFirstAt ==
  ASSUME NEW S, NEW s \in Seq(S), NEW e \in ToSet(s), IsInjective(s)
  PROVE  \E i \in 1 .. Len(s) : s[i] = e /\ RemoveFirst(s, e) = RemoveAt(s, i)
<1>1. /\ Len(s) \in Nat
      /\ ToSet(s) = {s[j] : j \in 1 .. Len(s)}
      /\ \A j, k \in 1 .. Len(s) : s[j] = s[k] => j = k
  BY SetOfList
<1>2. PICK i \in 1 .. Len(s) : s[i] = e
  BY <1>1
<1>3. SelectInSeq(s, LAMBDA v : v = e) = i
  <2>1. {j \in 1 .. Len(s) : s[j] = e} = {i}
    BY <1>1, <1>2
  <2>2. Min({i}) = i
    BY DEF Min
  <2> QED
    BY <2>1, <2>2 DEF SelectInSeq
<1>4. RemoveFirst(s, e) = RemoveAt(s, i)
  BY <1>2, <1>3 DEF RemoveFirst
<1> QED
  BY <1>2, <1>4

\* kr_list_remove of an element of the list.
LEMMA RemoveFirstSet ==
  ASSUME NEW S, NEW s \in Seq(S), NEW e \in ToSet(s), IsInjective(s)
  PROVE  /\ RemoveFirst(s, e) \in Seq(S)
         /\ ToSet(RemoveFirst(s, e)) = ToSet(s) \ {e}
         /\ IsInjective(RemoveFirst(s, e))
BY RemoveFirstAt, RemoveAtSet

\* An element put at the end of a list.
LEMMA AppendSet ==
  ASSUME NEW S, NEW s \in Seq(S), NEW e \in S
  PROVE  /\ Append(s, e) \in Seq(S)
         /\ ToSet(Append(s, e)) = ToSet(s) \cup {e}
         /\ IsInjective(s) /\ e \notin ToSet(s) => IsInjective(Append(s, e))
<1>1. PICK r : r = Append(s, e)
  OBVIOUS
<1>2. /\ r \in Seq(S)
      /\ Len(r) = Len(s) + 1
      /\ \A i \in 1 .. Len(s) : r[i] = s[i]
      /\ r[Len(s) + 1] = e
  BY <1>1, AppendProperties
<1>3. /\ ToSet(r) = {r[i] : i \in 1 .. Len(r)}
      /\ ToSet(s) = {s[i] : i \in 1 .. Len(s)}
      /\ IsInjective(r) <=> \A i, j \in 1 .. Len(r) : r[i] = r[j] => i = j
      /\ IsInjective(s) <=> \A i, j \in 1 .. Len(s) : s[i] = s[j] => i = j
      /\ Len(s) \in Nat
  BY <1>2, SetOfList
<1>4. \A i \in 1 .. Len(r) : i \in 1 .. Len(s) \/ i = Len(s) + 1
  BY <1>2, <1>3
<1>5. Len(s) + 1 \in 1 .. Len(r) /\ \A i \in 1 .. Len(s) : i \in 1 .. Len(r)
  BY <1>2, <1>3
<1>6. ToSet(r) = ToSet(s) \cup {e}
  BY <1>2, <1>3, <1>4, <1>5
<1>7. ASSUME IsInjective(s), e \notin ToSet(s)
      PROVE  IsInjective(r)
  BY <1>2, <1>3, <1>4, <1>7
<1> QED
  BY <1>1, <1>2, <1>6, <1>7

=============================================================================
