------------------------- MODULE CollectionsProofs -------------------------
(***************************************************************************)
(* Lemmas about filtered lists, for any list and any test, and the         *)
(* induction over the naturals they rest on.                               *)
(***************************************************************************)
EXTENDS Collections, SequencesExt, FiniteSets, TLAPS, SequenceTheorems, WellFoundedInduction

(* Induction, as a statement about sets: the least number outside the set would *)
(* have a predecessor in it.                                                    *)
LEMMA InductionOverNat ==
  ASSUME NEW S, 0 \in S, \A n \in Nat : n \in S => n + 1 \in S
  PROVE  Nat \subseteq S
  <1>. DEFINE T == Nat \ S
              R == OpToRel(<, Nat)
  <1>1. SUFFICES ASSUME T # {} PROVE FALSE
    OBVIOUS
  <1>2. PICK m \in T : \A y \in T : <<y, m>> \notin R
    <2>1. IsWellFoundedOn(R, Nat) /\ T \subseteq Nat
      BY NatLessThanWellFounded
    <2>. HIDE DEF R, T
    <2>. QED BY <1>1, <2>1, WFMin, Zenon
  <1>3. m \in Nat /\ m \notin S /\ m # 0
    OBVIOUS
  <1>4. m - 1 \in Nat /\ m - 1 < m
    BY <1>3
  <1>5. <<m - 1, m>> \in R
    BY <1>3, <1>4 DEF OpToRel
  <1>6. m - 1 \in S
    BY <1>2, <1>4, <1>5
  <1>. QED BY <1>3, <1>4, <1>6

-----------------------------------------------------------------------------
(* The recursive function behind Kept exists: if there is one up to n, there is *)
(* one up to n + 1.                                                             *)
KeptStep(list, keep, before, x) == IF x \in keep THEN Append(before, x) ELSE before

IsKept(list, keep, n, g) ==
  g = [i \in 0 .. n |-> IF i = 0 THEN <<>>
                        ELSE IF list[i] \in keep THEN Append(g[i - 1], list[i]) ELSE g[i - 1]]

LEMMA KeptExists ==
  ASSUME NEW list, NEW keep, NEW n \in Nat
  PROVE  \E g : IsKept(list, keep, n, g)
  <1>. DEFINE S == {k \in Nat : \E g : IsKept(list, keep, k, g)}
  <1>1. 0 \in S
    <2>1. IsKept(list, keep, 0, [i \in 0 .. 0 |-> <<>>])
      BY DEF IsKept
    <2>. QED BY <2>1
  <1>2. ASSUME NEW k \in Nat, k \in S PROVE k + 1 \in S
    <2>1. PICK g : IsKept(list, keep, k, g)
      BY <1>2
    <2>. DEFINE last == IF list[k + 1] \in keep THEN Append(g[k], list[k + 1]) ELSE g[k]
                h == [i \in 0 .. k + 1 |-> IF i = k + 1 THEN last ELSE g[i]]
    <2>2. \A i \in 0 .. k : h[i] = g[i]
      OBVIOUS
    <2>3. ASSUME NEW i \in 0 .. k + 1
          PROVE  h[i] = IF i = 0 THEN <<>>
                        ELSE IF list[i] \in keep THEN Append(h[i - 1], list[i]) ELSE h[i - 1]
      <3>1. CASE i = k + 1
        <4>1. h[i] = last /\ h[i - 1] = g[k] /\ i # 0
          BY <2>2, <3>1
        <4>. QED BY <3>1, <4>1
      <3>2. CASE i \in 0 .. k
        <4>1. h[i] = g[i] /\ (i # 0 => h[i - 1] = g[i - 1])
          BY <2>2, <3>2
        <4>2. g[i] = IF i = 0 THEN <<>>
                     ELSE IF list[i] \in keep THEN Append(g[i - 1], list[i]) ELSE g[i - 1]
          BY <2>1, <3>2 DEF IsKept
        <4>. HIDE DEF h
        <4>. QED BY <4>1, <4>2
      <3>. QED BY <3>1, <3>2
    <2>4. h = [i \in 0 .. k + 1 |-> h[i]]
      OBVIOUS
    <2>. HIDE DEF h
    <2>5. IsKept(list, keep, k + 1, h)
      BY <2>3, <2>4, Zenon DEF IsKept
    <2>. QED BY <2>5
  <1>. HIDE DEF S
  <1>3. n \in S
    BY <1>1, <1>2, InductionOverNat
  <1>. QED BY <1>3 DEF S

LEMMA KeptUpToEquation ==
  ASSUME NEW list, NEW keep, Len(list) \in Nat
  PROVE  \A i \in 0 .. Len(list) :
           KeptUpTo(list, keep)[i] =
             IF i = 0 THEN <<>>
             ELSE IF list[i] \in keep THEN Append(KeptUpTo(list, keep)[i - 1], list[i])
                  ELSE KeptUpTo(list, keep)[i - 1]
  <1>1. \E g : IsKept(list, keep, Len(list), g)
    BY KeptExists
  <1>2. KeptUpTo(list, keep) = CHOOSE g : IsKept(list, keep, Len(list), g)
    BY DEF KeptUpTo, IsKept
  <1>3. IsKept(list, keep, Len(list), KeptUpTo(list, keep))
    BY <1>1, <1>2, Zenon
  <1>. QED BY <1>3 DEF IsKept

(* The kept list of the first n: where its elements are in the list, in order,  *)
(* and that none is missing.                                                    *)
Places(list, keep, n, kept, at) ==
  /\ at \in [1 .. Len(kept) -> 1 .. n]
  /\ \A i, j \in 1 .. Len(kept) : i < j => at[i] < at[j]
  /\ \A i \in 1 .. Len(kept) : kept[i] = list[at[i]] /\ list[at[i]] \in keep
  /\ \A m \in 1 .. n : list[m] \in keep => \E i \in 1 .. Len(kept) : at[i] = m

LEMMA PlacesGrow ==
  ASSUME NEW S, NEW list \in Seq(S), NEW keep, NEW n \in Nat, n + 1 \in 1 .. Len(list),
         NEW kept \in Seq(S), NEW at, Places(list, keep, n, kept, at)
  PROVE  \E next : Places(list, keep, n + 1, KeptStep(list, keep, kept, list[n + 1]), next)
  <1>0. Len(kept) \in Nat /\ list[n + 1] \in S
    BY ElementOfSeq, LenProperties
  <1>1. CASE list[n + 1] \in keep
    <2>. DEFINE more == Append(kept, list[n + 1])
                next == [i \in 1 .. Len(kept) + 1 |-> IF i = Len(kept) + 1 THEN n + 1 ELSE at[i]]
    <2>1. /\ Len(more) = Len(kept) + 1 /\ more[Len(kept) + 1] = list[n + 1]
          /\ \A i \in 1 .. Len(kept) : more[i] = kept[i]
      BY <1>0, AppendProperties
    <2>0. /\ \A i \in 1 .. Len(kept) : i \in 1 .. Len(kept) + 1 /\ i # Len(kept) + 1
          /\ Len(kept) + 1 \in 1 .. Len(kept) + 1
          /\ \A i \in 1 .. Len(kept) + 1 : i \in 1 .. Len(kept) \/ i = Len(kept) + 1
          /\ n + 1 \in 1 .. n + 1 /\ \A i \in 1 .. n : i \in 1 .. n + 1
      BY <1>0
    <2>. HIDE DEF more
    <2>2. \A i \in 1 .. Len(kept) : at[i] \in 1 .. n /\ next[i] = at[i]
      BY <2>0, Zenon DEF Places
    <2>3. next[Len(kept) + 1] = n + 1
      BY <2>0, Zenon
    <2>4. next \in [1 .. Len(more) -> 1 .. n + 1]
      BY <2>0, <2>1, <2>2, Zenon
    <2>5. \A i \in 1 .. Len(more) : i \in 1 .. Len(kept) \/ i = Len(kept) + 1
      BY <1>0, <2>1
    <2>6. Len(kept) + 1 \in 1 .. Len(more) /\ \A i \in 1 .. Len(kept) : i \in 1 .. Len(more)
      BY <1>0, <2>1
    <2>. HIDE DEF next, more
    <2>7. ASSUME NEW i \in 1 .. Len(more), NEW j \in 1 .. Len(more), i < j
          PROVE  next[i] < next[j]
      <3>1. i \in 1 .. Len(kept)
        BY <1>0, <2>1, <2>7
      <3>2. CASE j \in 1 .. Len(kept)
        <4>1. at[i] < at[j]
          BY <2>7, <3>1, <3>2 DEF Places
        <4>. QED BY <2>2, <3>1, <3>2, <4>1
      <3>3. CASE j = Len(kept) + 1
        <4>1. at[i] \in 1 .. n /\ next[i] = at[i] /\ next[j] = n + 1
          BY <2>2, <2>3, <3>1, <3>3
        <4>. QED BY <4>1
      <3>. QED BY <2>5, <3>2, <3>3
    <2>8. \A i \in 1 .. Len(more) : more[i] = list[next[i]] /\ list[next[i]] \in keep
      BY <1>1, <2>1, <2>2, <2>3, <2>5 DEF Places
    <2>9. ASSUME NEW m \in 1 .. n + 1, list[m] \in keep
          PROVE  \E i \in 1 .. Len(more) : next[i] = m
      <3>1. CASE m = n + 1
        BY <2>3, <2>6, <3>1
      <3>2. CASE m \in 1 .. n
        <4>1. PICK i \in 1 .. Len(kept) : at[i] = m
          BY <2>9, <3>2 DEF Places
        <4>. QED BY <2>2, <2>6, <4>1
      <3>. QED BY <3>1, <3>2
    <2>10. Places(list, keep, n + 1, more, next)
      BY <2>4, <2>7, <2>8, <2>9 DEF Places
    <2>11. KeptStep(list, keep, kept, list[n + 1]) = more
      BY <1>1 DEF KeptStep, more
    <2>. QED BY <2>10, <2>11
  <1>2. CASE list[n + 1] \notin keep
    <2>1. at \in [1 .. Len(kept) -> 1 .. n + 1]
      <3>1. \A i \in 1 .. Len(kept) : at[i] \in 1 .. n + 1
        BY DEF Places
      <3>. QED BY <3>1 DEF Places
    <2>2. \A m \in 1 .. n + 1 : list[m] \in keep => m \in 1 .. n
      BY <1>2
    <2>3. Places(list, keep, n + 1, kept, at)
      BY <2>1, <2>2 DEF Places
    <2>. QED BY <1>2, <2>3 DEF KeptStep
  <1>. QED BY <1>1, <1>2

(* Filtering keeps the elements that pass, all of them, in their order. *)
LEMMA KeptIsASubsequence ==
  ASSUME NEW S, NEW list \in Seq(S), NEW keep
  PROVE  /\ Kept(list, keep) \in Seq(S)
         /\ \E at : Places(list, keep, Len(list), Kept(list, keep), at)
  <1>. DEFINE U == KeptUpTo(list, keep)
              Good(n) == U[n] \in Seq(S) /\ \E at : Places(list, keep, n, U[n], at)
              N == {n \in Nat : n <= Len(list) => Good(n)}
  <1>0. Len(list) \in Nat
    BY LenProperties
  <1>1. \A i \in 0 .. Len(list) :
           U[i] = IF i = 0 THEN <<>> ELSE KeptStep(list, keep, U[i - 1], list[i])
    BY <1>0, KeptUpToEquation DEF KeptStep
  <1>. HIDE DEF U
  <1>2. 0 \in N
    <2>1. U[0] = <<>>
      BY <1>0, <1>1
    <2>2. <<>> \in Seq(S) /\ Len(<<>>) = 0
      BY EmptySeq
    <2>3. Places(list, keep, 0, <<>>, [i \in 1 .. 0 |-> i])
      BY <2>2 DEF Places
    <2>4. Good(0)
      BY <2>1, <2>2, <2>3
    <2>. HIDE DEF Good
    <2>. QED BY <2>4
  <1>3. ASSUME NEW n \in Nat, n \in N PROVE n + 1 \in N
    <2>. SUFFICES ASSUME n + 1 <= Len(list) PROVE Good(n + 1)
      <3>. HIDE DEF Good
      <3>. QED OBVIOUS
    <2>1. n <= Len(list) /\ n + 1 \in 1 .. Len(list) /\ n + 1 \in 0 .. Len(list) /\ n + 1 # 0
          /\ (n + 1) - 1 = n
      BY <1>0
    <2>2. U[n] \in Seq(S)
      BY <1>3, <2>1
    <2>3. PICK at : Places(list, keep, n, U[n], at)
      BY <1>3, <2>1
    <2>4. U[n + 1] = KeptStep(list, keep, U[n], list[n + 1])
      BY <1>1, <2>1
    <2>5. \E next : Places(list, keep, n + 1, U[n + 1], next)
      BY <2>1, <2>2, <2>3, <2>4, PlacesGrow
    <2>6. U[n + 1] \in Seq(S)
      <3>1. list[n + 1] \in S
        BY <2>1, ElementOfSeq
      <3>. QED BY <2>2, <2>4, <3>1, AppendProperties DEF KeptStep
    <2>. QED BY <2>5, <2>6
  <1>. HIDE DEF N
  <1>4. Len(list) \in N
    BY <1>0, <1>2, <1>3, InductionOverNat
  <1>5. Good(Len(list))
    BY <1>0, <1>4 DEF N
  <1>. QED BY <1>5 DEF U, Kept

(* As sets: what a filtered list holds. *)
LEMMA KeptElements ==
  ASSUME NEW S, NEW list \in Seq(S), NEW keep
  PROVE  {Kept(list, keep)[i] : i \in DOMAIN Kept(list, keep)} =
           {list[i] : i \in DOMAIN list} \cap keep
  <1>. DEFINE K == Kept(list, keep)
  <1>1. PICK at : Places(list, keep, Len(list), K, at)
    BY KeptIsASubsequence
  <1>2. K \in Seq(S)
    BY KeptIsASubsequence
  <1>3. DOMAIN K = 1 .. Len(K) /\ DOMAIN list = 1 .. Len(list)
    BY <1>2, LenProperties
  <1>. HIDE DEF K
  <1>4. \A i \in 1 .. Len(K) : at[i] \in 1 .. Len(list) /\ K[i] = list[at[i]] /\ K[i] \in keep
    BY <1>1 DEF Places
  <1>5. ASSUME NEW m \in 1 .. Len(list), list[m] \in keep
        PROVE  \E i \in 1 .. Len(K) : K[i] = list[m]
    <2>1. PICK i \in 1 .. Len(K) : at[i] = m
      BY <1>1, <1>5 DEF Places
    <2>. QED BY <1>4, <2>1
  <1>6. ASSUME NEW x PROVE x \in {K[i] : i \in DOMAIN K} <=> x \in {list[i] : i \in DOMAIN list} \cap keep
    <2>1. ASSUME x \in {K[i] : i \in DOMAIN K} PROVE x \in {list[i] : i \in DOMAIN list} \cap keep
      <3>1. PICK i \in 1 .. Len(K) : x = K[i]
        BY <1>3, <2>1
      <3>. QED BY <1>3, <1>4, <3>1
    <2>2. ASSUME x \in {list[i] : i \in DOMAIN list} \cap keep PROVE x \in {K[i] : i \in DOMAIN K}
      <3>1. PICK m \in 1 .. Len(list) : x = list[m] /\ list[m] \in keep
        BY <1>3, <2>2
      <3>2. PICK i \in 1 .. Len(K) : K[i] = list[m]
        BY <1>5, <3>1
      <3>. QED BY <1>3, <3>1, <3>2
    <2>. QED BY <2>1, <2>2
  <1>. QED BY <1>6 DEF K

(* A list and what a test splits it into have as many elements. *)
LEMMA KeptSplits ==
  ASSUME NEW S, NEW list \in Seq(S), NEW keep, NEW rest,
         \A i \in 1 .. Len(list) : list[i] \in keep <=> list[i] \notin rest
  PROVE  Len(Kept(list, keep)) + Len(Kept(list, rest)) = Len(list)
  <1>. DEFINE U == KeptUpTo(list, keep)
              V == KeptUpTo(list, rest)
              Good(n) == U[n] \in Seq(S) /\ V[n] \in Seq(S) /\ Len(U[n]) + Len(V[n]) = n
              N == {n \in Nat : n <= Len(list) => Good(n)}
  <1>0. Len(list) \in Nat
    BY LenProperties
  <1>1. \A i \in 0 .. Len(list) :
           /\ U[i] = IF i = 0 THEN <<>> ELSE KeptStep(list, keep, U[i - 1], list[i])
           /\ V[i] = IF i = 0 THEN <<>> ELSE KeptStep(list, rest, V[i - 1], list[i])
    BY <1>0, KeptUpToEquation DEF KeptStep
  <1>. HIDE DEF U, V
  <1>2. 0 \in N
    <2>1. U[0] = <<>> /\ V[0] = <<>>
      BY <1>0, <1>1
    <2>2. <<>> \in Seq(S) /\ Len(<<>>) = 0
      BY EmptySeq
    <2>3. Good(0)
      BY <2>1, <2>2
    <2>. HIDE DEF Good
    <2>. QED BY <2>3
  <1>3. ASSUME NEW n \in Nat, n \in N PROVE n + 1 \in N
    <2>. SUFFICES ASSUME n + 1 <= Len(list) PROVE Good(n + 1)
      <3>. HIDE DEF Good
      <3>. QED OBVIOUS
    <2>1. n <= Len(list) /\ n + 1 \in 1 .. Len(list) /\ n + 1 \in 0 .. Len(list) /\ n + 1 # 0
          /\ (n + 1) - 1 = n
      BY <1>0
    <2>2. U[n] \in Seq(S) /\ V[n] \in Seq(S) /\ Len(U[n]) + Len(V[n]) = n
          /\ Len(U[n]) \in Nat /\ Len(V[n]) \in Nat
      BY <1>3, <2>1, LenProperties
    <2>3. /\ U[n + 1] = KeptStep(list, keep, U[n], list[n + 1])
          /\ V[n + 1] = KeptStep(list, rest, V[n], list[n + 1])
      BY <1>1, <2>1
    <2>4. list[n + 1] \in S
      BY <2>1, ElementOfSeq
    <2>. DEFINE x == list[n + 1]
    <2>5. /\ Append(U[n], x) \in Seq(S) /\ Len(Append(U[n], x)) = Len(U[n]) + 1
          /\ Append(V[n], x) \in Seq(S) /\ Len(Append(V[n], x)) = Len(V[n]) + 1
      BY <2>2, <2>4, AppendProperties
    <2>6. x \in keep <=> x \notin rest
      BY <2>1
    <2>. HIDE DEF x
    <2>9. \A a, b \in Nat : a + b = n => (a + 1) + b = n + 1 /\ a + (b + 1) = n + 1
      OBVIOUS
    <2>7. CASE x \in keep
      <3>1. U[n + 1] = Append(U[n], x) /\ V[n + 1] = V[n]
        BY <2>3, <2>6, <2>7 DEF KeptStep, x
      <3>2. U[n + 1] \in Seq(S) /\ V[n + 1] \in Seq(S)
            /\ Len(U[n + 1]) = Len(U[n]) + 1 /\ Len(V[n + 1]) = Len(V[n])
        BY <2>2, <2>5, <3>1, Zenon
      <3>3. Len(U[n + 1]) + Len(V[n + 1]) = n + 1
        BY <2>2, <2>9, <3>2, ZenonT(40)
      <3>. QED BY <3>2, <3>3, Zenon
    <2>8. CASE x \notin keep
      <3>1. U[n + 1] = U[n] /\ V[n + 1] = Append(V[n], x)
        BY <2>3, <2>6, <2>8 DEF KeptStep, x
      <3>2. U[n + 1] \in Seq(S) /\ V[n + 1] \in Seq(S)
            /\ Len(U[n + 1]) = Len(U[n]) /\ Len(V[n + 1]) = Len(V[n]) + 1
        BY <2>2, <2>5, <3>1, Zenon
      <3>3. Len(U[n + 1]) + Len(V[n + 1]) = n + 1
        BY <2>2, <2>9, <3>2, ZenonT(40)
      <3>. QED BY <3>2, <3>3, Zenon
    <2>. QED BY <2>7, <2>8
  <1>. HIDE DEF N
  <1>4. Len(list) \in N
    BY <1>0, <1>2, <1>3, InductionOverNat
  <1>5. Good(Len(list))
    <2>. HIDE DEF Good
    <2>. QED BY <1>0, <1>4 DEF N
  <1>. QED BY <1>5 DEF U, V, Kept

-----------------------------------------------------------------------------
(* What splicing one element out of a list leaves, and where. *)
LEMMA RemovedAt ==
  ASSUME NEW S, NEW list \in Seq(S), NEW k \in 1 .. Len(list)
  PROVE  /\ RemoveAt(list, k) \in Seq(S)
         /\ Len(RemoveAt(list, k)) = Len(list) - 1
         /\ \A i \in 1 .. Len(list) - 1 :
              RemoveAt(list, k)[i] = IF i < k THEN list[i] ELSE list[i + 1]
  <1>. DEFINE left == SubSeq(list, 1, k - 1)
              right == SubSeq(list, k + 1, Len(list))
  <1>0. Len(list) \in Nat /\ k \in Nat /\ k >= 1 /\ k <= Len(list)
    BY LenProperties
  <1>1. /\ left \in Seq(S) /\ Len(left) = k - 1
        /\ \A j \in 1 .. k - 1 : left[j] = list[j]
    <2>1. \A j \in 1 .. k - 1 : list[j] \in S
      BY <1>0, ElementOfSeq
    <2>. QED BY <1>0, <2>1, SubSeqProperties
  <1>2. /\ right \in Seq(S) /\ Len(right) = Len(list) - k
        /\ \A j \in 1 .. Len(list) - k : right[j] = list[k + j]
    <2>1. \A j \in k + 1 .. Len(list) : list[j] \in S
      BY <1>0, ElementOfSeq
    <2>. QED BY <1>0, <2>1, SubSeqProperties
  <1>. HIDE DEF left, right
  <1>3. /\ left \o right \in Seq(S) /\ Len(left \o right) = Len(left) + Len(right)
        /\ \A j \in 1 .. Len(left) + Len(right) :
             (left \o right)[j] = IF j <= Len(left) THEN left[j] ELSE right[j - Len(left)]
    BY <1>1, <1>2, ConcatProperties, Zenon
  <1>4. \A j \in 1 .. Len(list) - 1 :
          (left \o right)[j] = IF j < k THEN list[j] ELSE list[j + 1]
    BY <1>0, <1>1, <1>2, <1>3
  <1>5. RemoveAt(list, k) = left \o right
    BY Zenon DEF RemoveAt, left, right
  <1>6. Len(left \o right) = Len(list) - 1
    BY <1>0, <1>1, <1>2, <1>3
  <1>. QED BY <1>3, <1>4, <1>5, <1>6

-----------------------------------------------------------------------------
(* Picking the elements at some places: each is there once, in order. *)
PickedAt(list, places, picked, at) ==
  /\ at \in [1 .. Len(picked) -> 1 .. Len(list)]
  /\ \A i, j \in 1 .. Len(picked) : i < j => at[i] < at[j]
  /\ \A i \in 1 .. Len(picked) : picked[i] = list[at[i]] /\ at[i] \in places
  /\ \A m \in 1 .. Len(list) : m \in places => \E i \in 1 .. Len(picked) : at[i] = m

LEMMA PickedPlaces ==
  ASSUME NEW S, NEW list \in Seq(S), NEW places
  PROVE  /\ Picked(list, places) \in Seq(S)
         /\ \E at : PickedAt(list, places, Picked(list, places), at)
  <1>. DEFINE all == [i \in DOMAIN list |-> i]
              kept == Kept(all, places)
              P == Picked(list, places)
  <1>1. Len(list) \in Nat /\ DOMAIN list = 1 .. Len(list)
    BY LenProperties
  <1>2. all \in Seq(Nat) /\ Len(all) = Len(list) /\ \A i \in 1 .. Len(list) : all[i] = i
    BY <1>1, IsASeq
  <1>. HIDE DEF all
  <1>3. kept \in Seq(Nat) /\ Len(kept) \in Nat /\ DOMAIN kept = 1 .. Len(kept)
    BY <1>2, KeptIsASubsequence, LenProperties
  <1>4. PICK at : Places(all, places, Len(all), kept, at)
    BY <1>2, KeptIsASubsequence
  <1>5. P = [k \in DOMAIN kept |-> list[kept[k]]]
    BY DEF Picked, all
  <1>. HIDE DEF kept
  <1>6. \A i \in 1 .. Len(kept) : at[i] \in 1 .. Len(list) /\ kept[i] = at[i] /\ at[i] \in places
    BY <1>2, <1>4 DEF Places
  <1>7. P \in Seq(S) /\ Len(P) = Len(kept) /\ \A i \in 1 .. Len(kept) : P[i] = list[at[i]]
    <2>1. P = [k \in 1 .. Len(kept) |-> list[kept[k]]]
      BY <1>3, <1>5
    <2>2. \A k \in 1 .. Len(kept) : list[kept[k]] \in S
      BY <1>6, ElementOfSeq
    <2>3. P \in Seq(S) /\ Len(P) = Len(kept)
      BY <1>3, <2>1, <2>2, IsASeq
    <2>. QED BY <1>6, <2>1, <2>3
  <1>. HIDE DEF P
  <1>8. at \in [1 .. Len(P) -> 1 .. Len(list)]
    BY <1>2, <1>4, <1>7 DEF Places
  <1>9. \A i, j \in 1 .. Len(P) : i < j => at[i] < at[j]
    BY <1>4, <1>7 DEF Places
  <1>10. \A m \in 1 .. Len(list) : m \in places => \E i \in 1 .. Len(P) : at[i] = m
    BY <1>2, <1>4, <1>7 DEF Places
  <1>11. PickedAt(list, places, P, at)
    BY <1>6, <1>7, <1>8, <1>9, <1>10 DEF PickedAt
  <1>. QED BY <1>7, <1>11 DEF P

(* Two places of the list are not picked as one. *)
LEMMA PickedApart ==
  ASSUME NEW list, NEW places, NEW picked, NEW at, Len(picked) \in Nat,
         PickedAt(list, places, picked, at),
         NEW i \in 1 .. Len(picked), NEW j \in 1 .. Len(picked), at[i] = at[j]
  PROVE  i = j
  <1>1. at[i] \in 1 .. Len(list)
    BY DEF PickedAt
  <1>2. i < j => at[i] < at[j]
    BY DEF PickedAt
  <1>3. j < i => at[j] < at[i]
    BY DEF PickedAt
  <1>. QED BY <1>1, <1>2, <1>3

-----------------------------------------------------------------------------
(* Joining the lists of a list. *)
IsFlat(seqs, n, g) ==
  g = [i \in 1 .. n |-> IF i = 1 THEN seqs[i] ELSE g[i - 1] \o seqs[i]]

LEMMA FlatExists ==
  ASSUME NEW seqs, NEW n \in Nat
  PROVE  \E g : IsFlat(seqs, n, g)
  <1>. DEFINE S == {k \in Nat : \E g : IsFlat(seqs, k, g)}
  <1>1. 0 \in S
    <2>1. IsFlat(seqs, 0, [i \in 1 .. 0 |-> <<>>])
      BY DEF IsFlat
    <2>. QED BY <2>1
  <1>2. ASSUME NEW k \in Nat, k \in S PROVE k + 1 \in S
    <2>1. PICK g : IsFlat(seqs, k, g)
      BY <1>2
    <2>. DEFINE last == IF k = 0 THEN seqs[k + 1] ELSE g[k] \o seqs[k + 1]
                h == [i \in 1 .. k + 1 |-> IF i = k + 1 THEN last ELSE g[i]]
    <2>2. \A i \in 1 .. k : h[i] = g[i]
      OBVIOUS
    <2>3. ASSUME NEW i \in 1 .. k + 1
          PROVE  h[i] = IF i = 1 THEN seqs[i] ELSE h[i - 1] \o seqs[i]
      <3>1. CASE i = k + 1
        <4>1. h[i] = last /\ (k # 0 => h[i - 1] = g[k]) /\ (k = 0 <=> i = 1)
          BY <2>2, <3>1
        <4>. QED BY <3>1, <4>1
      <3>2. CASE i \in 1 .. k
        <4>1. h[i] = g[i] /\ (i # 1 => h[i - 1] = g[i - 1])
          BY <2>2, <3>2
        <4>2. g[i] = IF i = 1 THEN seqs[i] ELSE g[i - 1] \o seqs[i]
          BY <2>1, <3>2 DEF IsFlat
        <4>. HIDE DEF h
        <4>. QED BY <4>1, <4>2
      <3>. QED BY <3>1, <3>2
    <2>4. h = [i \in 1 .. k + 1 |-> h[i]]
      OBVIOUS
    <2>. HIDE DEF h
    <2>5. IsFlat(seqs, k + 1, h)
      BY <2>3, <2>4, Zenon DEF IsFlat
    <2>. QED BY <2>5
  <1>. HIDE DEF S
  <1>3. n \in S
    BY <1>1, <1>2, InductionOverNat
  <1>. QED BY <1>3 DEF S

(* The joined list has every element of every list, once. *)
FlatAt(seqs, n, flat, row, col) ==
  /\ \A p \in 1 .. Len(flat) : /\ row[p] \in 1 .. n /\ col[p] \in 1 .. Len(seqs[row[p]])
                               /\ flat[p] = seqs[row[p]][col[p]]
  /\ \A p, q \in 1 .. Len(flat) : row[p] = row[q] /\ col[p] = col[q] => p = q
  /\ \A i \in 1 .. n : \A k \in 1 .. Len(seqs[i]) :
       \E p \in 1 .. Len(flat) : row[p] = i /\ col[p] = k

LEMMA FlatGrows ==
  ASSUME NEW S, NEW seqs \in Seq(Seq(S)), NEW n \in Nat, n + 1 \in 1 .. Len(seqs),
         NEW flat \in Seq(S), NEW row, NEW col, FlatAt(seqs, n, flat, row, col)
  PROVE  \E r, c : FlatAt(seqs, n + 1, flat \o seqs[n + 1], r, c)
  <1>. DEFINE more == flat \o seqs[n + 1]
              a == Len(flat)
              b == Len(seqs[n + 1])
              r == [p \in 1 .. a + b |-> IF p <= a THEN row[p] ELSE n + 1]
              c == [p \in 1 .. a + b |-> IF p <= a THEN col[p] ELSE p - a]
  <1>1. seqs[n + 1] \in Seq(S)
    BY ElementOfSeq
  <1>2. a \in Nat /\ b \in Nat
    BY <1>1, LenProperties
  <1>3. Len(more) = a + b
        /\ \A p \in 1 .. a + b : more[p] = IF p <= a THEN flat[p] ELSE seqs[n + 1][p - a]
    BY <1>1, ConcatProperties
  <1>4. \A p \in 1 .. a : p \in 1 .. a + b /\ r[p] = row[p] /\ c[p] = col[p] /\ more[p] = flat[p]
    BY <1>2, <1>3
  <1>5. \A k \in 1 .. b : /\ a + k \in 1 .. a + b /\ r[a + k] = n + 1 /\ c[a + k] = k
                          /\ more[a + k] = seqs[n + 1][k]
    BY <1>2, <1>3
  <1>6. \A p \in 1 .. a + b : p \in 1 .. a \/ (p - a \in 1 .. b /\ p = a + (p - a))
    BY <1>2
  <1>7. \A p \in 1 .. a : /\ row[p] \in 1 .. n /\ col[p] \in 1 .. Len(seqs[row[p]])
                          /\ flat[p] = seqs[row[p]][col[p]]
    BY DEF FlatAt
  <1>8. (\A i \in 1 .. n : i \in 1 .. n + 1 /\ i # n + 1) /\ n + 1 \in 1 .. n + 1
        /\ \A i \in 1 .. n + 1 : i \in 1 .. n \/ i = n + 1
    OBVIOUS
  <1>. HIDE DEF r, c, more, a, b
  <1>9. \A p \in 1 .. a + b : r[p] \in 1 .. n + 1 /\ c[p] \in 1 .. Len(seqs[r[p]]) /\ more[p] = seqs[r[p]][c[p]]
    <2>1. ASSUME NEW p \in 1 .. a
          PROVE  r[p] \in 1 .. n + 1 /\ c[p] \in 1 .. Len(seqs[r[p]]) /\ more[p] = seqs[r[p]][c[p]]
      <3>1. r[p] = row[p] /\ c[p] = col[p] /\ more[p] = flat[p]
        BY <1>4
      <3>2. row[p] \in 1 .. n /\ col[p] \in 1 .. Len(seqs[row[p]]) /\ flat[p] = seqs[row[p]][col[p]]
        BY <1>7
      <3>3. r[p] \in 1 .. n + 1
        BY <1>8, <3>1, <3>2
      <3>. QED BY <3>1, <3>2, <3>3, Zenon
    <2>2. ASSUME NEW k \in 1 .. b
          PROVE  r[a + k] \in 1 .. n + 1 /\ c[a + k] \in 1 .. Len(seqs[r[a + k]])
                 /\ more[a + k] = seqs[r[a + k]][c[a + k]]
      <3>1. r[a + k] = n + 1 /\ c[a + k] = k /\ more[a + k] = seqs[n + 1][k]
        BY <1>5
      <3>2. k \in 1 .. Len(seqs[n + 1])
        BY DEF b
      <3>. QED BY <1>8, <3>1, <3>2, Zenon
    <2>. QED BY <1>6, <2>1, <2>2
  <1>10. ASSUME NEW p \in 1 .. a + b, NEW q \in 1 .. a + b, r[p] = r[q], c[p] = c[q]
         PROVE  p = q
    <2>1. CASE p \in 1 .. a /\ q \in 1 .. a
      <3>1. row[p] = row[q] /\ col[p] = col[q]
        BY <1>4, <1>10, <2>1
      <3>. QED BY <2>1, <3>1 DEF FlatAt, a
    <2>2. CASE p \in 1 .. a /\ q \notin 1 .. a
      <3>1. r[q] = n + 1 /\ r[p] \in 1 .. n
        BY <1>4, <1>5, <1>6, <1>7, <2>2, SMTT(30)
      <3>. QED BY <1>8, <1>10, <3>1
    <2>3. CASE p \notin 1 .. a /\ q \in 1 .. a
      <3>1. r[p] = n + 1 /\ r[q] \in 1 .. n
        BY <1>4, <1>5, <1>6, <1>7, <2>3
      <3>. QED BY <1>8, <1>10, <3>1
    <2>4. CASE p \notin 1 .. a /\ q \notin 1 .. a
      <3>1. p - a \in 1 .. b /\ p = a + (p - a) /\ q - a \in 1 .. b /\ q = a + (q - a)
        BY <1>6, <2>4
      <3>2. c[a + (p - a)] = p - a /\ c[a + (q - a)] = q - a
        BY <1>5, <3>1
      <3>3. p - a = q - a
        BY <1>10, <3>1, <3>2
      <3>. QED BY <1>2, <3>1, <3>3
    <2>. QED BY <2>1, <2>2, <2>3, <2>4
  <1>11. ASSUME NEW i \in 1 .. n + 1, NEW k \in 1 .. Len(seqs[i])
         PROVE  \E p \in 1 .. a + b : r[p] = i /\ c[p] = k
    <2>1. CASE i \in 1 .. n
      <3>1. PICK p \in 1 .. a : row[p] = i /\ col[p] = k
        BY <2>1 DEF FlatAt, a
      <3>. QED BY <1>4, <3>1
    <2>2. CASE i = n + 1
      <3>1. k \in 1 .. b
        BY <2>2 DEF b
      <3>. QED BY <1>5, <2>2, <3>1
    <2>. QED BY <1>8, <2>1, <2>2
  <1>12. FlatAt(seqs, n + 1, more, r, c)
    BY <1>3, <1>9, <1>10, <1>11 DEF FlatAt
  <1>. QED BY <1>12 DEF more

LEMMA FlattenPlaces ==
  ASSUME NEW S, NEW seqs \in Seq(Seq(S))
  PROVE  /\ FlattenSeq(seqs) \in Seq(S)
         /\ \E row, col : FlatAt(seqs, Len(seqs), FlattenSeq(seqs), row, col)
  <1>0. Len(seqs) \in Nat
    BY LenProperties
  <1>1. CASE Len(seqs) = 0
    <2>1. seqs = <<>>
      BY <1>1, EmptySeq
    <2>2. FlattenSeq(seqs) = <<>>
      BY <1>1, <2>1 DEF FlattenSeq
    <2>3. <<>> \in Seq(S) /\ Len(<<>>) = 0
      BY EmptySeq
    <2>4. FlatAt(seqs, 0, <<>>, <<>>, <<>>)
      BY <2>3 DEF FlatAt
    <2>. QED BY <1>1, <2>2, <2>3, <2>4
  <1>2. CASE Len(seqs) # 0
    <2>. DEFINE n == Len(seqs)
                U == CHOOSE g : IsFlat(seqs, n, g)
                Good(i) == U[i] \in Seq(S) /\ \E row, col : FlatAt(seqs, i, U[i], row, col)
                N == {i \in Nat : i \in 1 .. n => Good(i)}
    <2>1. FlattenSeq(seqs) = U[n]
      BY <1>2 DEF FlattenSeq, IsFlat
    <2>2. IsFlat(seqs, n, U)
      BY <1>0, FlatExists, Zenon
    <2>. HIDE DEF U
    <2>3. \A i \in 1 .. n : U[i] = IF i = 1 THEN seqs[i] ELSE U[i - 1] \o seqs[i]
      BY <2>2 DEF IsFlat
    <2>4. 0 \in N
      OBVIOUS
    <2>5. ASSUME NEW i \in Nat, i \in N PROVE i + 1 \in N
      <3>. SUFFICES ASSUME i + 1 \in 1 .. n PROVE Good(i + 1)
        <4>. HIDE DEF Good
        <4>. QED OBVIOUS
      <3>0. seqs[i + 1] \in Seq(S) /\ Len(seqs[i + 1]) \in Nat
        BY ElementOfSeq, LenProperties
      <3>1. CASE i = 0
        <4>. DEFINE L == seqs[1]
        <4>1. U[1] = L /\ L \in Seq(S)
          BY <2>3, <3>0, <3>1
        <4>2. <<>> \in Seq(S) /\ Len(<<>>) = 0 /\ <<>> \o L = L
          BY <4>1, EmptySeq, ConcatEmptySeq
        <4>3. FlatAt(seqs, 0, <<>>, <<>>, <<>>)
          BY <4>2 DEF FlatAt
        <4>4. 0 + 1 = 1 /\ 0 \in Nat
          OBVIOUS
        <4>5. \E r, c : FlatAt(seqs, 0 + 1, <<>> \o seqs[0 + 1], r, c)
          BY <3>1, <4>2, <4>3, FlatGrows
        <4>. QED BY <3>1, <4>1, <4>2, <4>4, <4>5
      <3>2. CASE i # 0
        <4>1. i \in 1 .. n /\ (i + 1) - 1 = i /\ i + 1 # 1
          BY <1>0, <3>2
        <4>2. U[i] \in Seq(S)
          BY <2>5, <4>1
        <4>3. PICK row, col : FlatAt(seqs, i, U[i], row, col)
          BY <2>5, <4>1
        <4>4. U[i + 1] = U[i] \o seqs[i + 1]
          BY <2>3, <4>1
        <4>5. \E r, c : FlatAt(seqs, i + 1, U[i + 1], r, c)
          BY <4>2, <4>3, <4>4, FlatGrows
        <4>6. U[i + 1] \in Seq(S)
          BY <3>0, <4>2, <4>4, ConcatProperties
        <4>. QED BY <4>5, <4>6
      <3>. QED BY <3>1, <3>2
    <2>. HIDE DEF N
    <2>6. n \in N
      BY <1>0, <2>4, <2>5, InductionOverNat
    <2>7. Good(n)
      <3>1. n \in 1 .. n
        BY <1>0, <1>2
      <3>. HIDE DEF Good, n
      <3>. QED BY <2>6, <3>1 DEF N
    <2>. QED BY <2>1, <2>7
  <1>. QED BY <1>1, <1>2

-----------------------------------------------------------------------------
(* A loop over a list has a result: the values after each of its rounds. *)
Rounds(step, base, list, n, g) ==
  g[0] = base /\ \A i \in 1 .. n : g[i] = step[<<g[i - 1], list[i]>>]

LEMMA FoldExists ==
  ASSUME NEW S, NEW T, NEW step \in [S \X T -> S], NEW base \in S, NEW n \in Nat,
         NEW list, \A i \in 1 .. n : list[i] \in T
  PROVE  \E g \in [0 .. n -> S] : Rounds(step, base, list, n, g)
  <1>. DEFINE N == {k \in Nat : k <= n => \E g \in [0 .. k -> S] : Rounds(step, base, list, k, g)}
  <1>1. 0 \in N
    <2>1. [i \in 0 .. 0 |-> base] \in [0 .. 0 -> S]
          /\ Rounds(step, base, list, 0, [i \in 0 .. 0 |-> base])
      BY DEF Rounds
    <2>. QED BY <2>1
  <1>2. ASSUME NEW k \in Nat, k \in N PROVE k + 1 \in N
    <2>1. SUFFICES ASSUME k + 1 <= n
                   PROVE \E h \in [0 .. k + 1 -> S] : Rounds(step, base, list, k + 1, h)
      OBVIOUS
    <2>2. PICK g \in [0 .. k -> S] : Rounds(step, base, list, k, g)
      BY <1>2, <2>1
    <2>. DEFINE last == step[<<g[k], list[k + 1]>>]
                h == [i \in 0 .. k + 1 |-> IF i = k + 1 THEN last ELSE g[i]]
    <2>3. list[k + 1] \in T /\ g[k] \in S
      BY <2>1
    <2>4. last \in S
      BY <2>3
    <2>5. h \in [0 .. k + 1 -> S] /\ h[k + 1] = last /\ \A i \in 0 .. k : h[i] = g[i]
      <3>. HIDE DEF last
      <3>. QED BY <2>4
    <2>. HIDE DEF h
    <2>6. h[0] = base
      BY <2>2, <2>5 DEF Rounds
    <2>7. ASSUME NEW i \in 1 .. k + 1
          PROVE  h[i] = step[<<h[i - 1], list[i]>>]
      <3>1. CASE i = k + 1
        <4>1. h[k] = g[k] /\ i - 1 = k
          BY <2>5, <3>1
        <4>2. h[k + 1] = step[<<g[k], list[k + 1]>>]
          BY <2>5
        <4>. QED BY <3>1, <4>1, <4>2, Zenon
      <3>2. CASE i \in 1 .. k
        <4>1. h[i] = g[i] /\ h[i - 1] = g[i - 1]
          BY <2>5, <3>2
        <4>2. g[i] = step[<<g[i - 1], list[i]>>]
          BY <2>2, <3>2 DEF Rounds
        <4>. QED BY <4>1, <4>2
      <3>. QED BY <3>1, <3>2
    <2>. QED BY <2>5, <2>6, <2>7 DEF Rounds
  <1>. HIDE DEF N
  <1>3. n \in N
    BY <1>1, <1>2, InductionOverNat
  <1>. QED BY <1>3 DEF N
=============================================================================
