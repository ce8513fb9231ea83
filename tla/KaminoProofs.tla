---------------------------- MODULE KaminoProofs ----------------------------
(***************************************************************************)
(* Proofs about the Kamino arm, for any reserves, any obligation and any   *)
(* frame, however long.  The loop over the listed reserves is followed     *)
(* prefix by prefix (SeenOnce); the scan for the delimiters is shown to be *)
(* the inverse of composing a frame (FrameSections, FrameCut).  The        *)
(* properties of the frame and of the sequence then follow from the types  *)
(* of the obligation and of the pending transaction, which are inductive.  *)
(***************************************************************************)
EXTENDS KaminoSequence, FiniteSetTheorems, SequenceTheorems,
        WellFoundedInduction, TLAPS

-----------------------------------------------------------------------------
(* Induction over the naturals, for a set. *)

\* A set of numbers has a least one.
LEMMA LeastNumber ==
    ASSUME NEW T, T \subseteq Nat, T # {}
    PROVE  \E n \in T : \A m \in T : n <= m
<1> DEFINE R == OpToRel(<, Nat)
<1>1. PICK n \in T : \A m \in T : <<m, n>> \notin R
  <2> HIDE DEF R
  <2> SUFFICES IsWellFoundedOn(R, Nat)
    BY WFMin
  <2> QED
    BY NatLessThanWellFounded DEF R
<1>2. \A i, j \in Nat : <<i, j>> \in R <=> i < j
  BY DEF OpToRel
<1> HIDE DEF R
<1>3. ASSUME NEW m \in T PROVE n <= m
  <2>1. m \in Nat /\ n \in Nat
    OBVIOUS
  <2>2. ~(m < n)
    BY <1>1, <1>2, <2>1
  <2> QED
    BY <2>1, <2>2
<1> QED
  BY <1>3

\* A set that holds 0 and steps from each number below n to the next.
LEMMA InductionUpTo ==
    ASSUME NEW n \in Nat, NEW T, 0 \in T,
           \A k \in 0..(n - 1) : k \in T => k + 1 \in T
    PROVE  0..n \subseteq T
<1> SUFFICES ASSUME ~(0..n \subseteq T) PROVE FALSE
  OBVIOUS
<1> DEFINE U == 0..n \ T
<1>1. U \subseteq Nat /\ U # {}
  OBVIOUS
<1> HIDE DEF U
<1>2. PICK k \in U : \A m \in U : k <= m
  BY <1>1, LeastNumber
<1>3. k \in 0..n /\ k \notin T /\ k # 0
  BY <1>2 DEF U
<1>4. k - 1 \in 0..(n - 1) /\ k - 1 \in 0..n /\ ~(k <= k - 1)
  BY <1>3
<1>5. k - 1 \in T
  BY <1>2, <1>4 DEF U
<1>6. (k - 1) + 1 \in T
  BY <1>4, <1>5
<1> QED
  BY <1>3, <1>6

-----------------------------------------------------------------------------
(* The list of reserves to refresh. *)

\* What the loop has seen after each of the reserves listed.
SeenUpTo(listed, current, n, seen) ==
    seen = [i \in 0..n |->
              IF i = 0 THEN <<>>
              ELSE IF listed[i] = current \/ listed[i] \in Range(seen[i - 1])
                   THEN seen[i - 1] ELSE Append(seen[i - 1], listed[i])]

\* The loop is defined.
LEMMA SeenExists ==
    ASSUME NEW listed, NEW current, NEW n \in Nat
    PROVE  \E seen : SeenUpTo(listed, current, n, seen)
<1> DEFINE T == {k \in 0..n : \E seen : SeenUpTo(listed, current, k, seen)}
<1>1. 0 \in T
  <2>1. SeenUpTo(listed, current, 0, [i \in 0..0 |-> <<>>])
    BY DEF SeenUpTo
  <2> QED
    BY <2>1
<1>2. ASSUME NEW k \in 0..(n - 1), k \in T PROVE k + 1 \in T
  <2>1. PICK f : SeenUpTo(listed, current, k, f)
    BY <1>2
  <2> DEFINE last == IF listed[k + 1] = current \/ listed[k + 1] \in Range(f[k])
                     THEN f[k] ELSE Append(f[k], listed[k + 1])
             g == [i \in 0..(k + 1) |-> IF i = k + 1 THEN last ELSE f[i]]
  <2>2. SeenUpTo(listed, current, k + 1, g)
    <3> SUFFICES ASSUME NEW i \in 0..(k + 1)
                 PROVE  g[i] = IF i = 0 THEN <<>>
                    ELSE IF listed[i] = current \/ listed[i] \in Range(g[i - 1])
                         THEN g[i - 1] ELSE Append(g[i - 1], listed[i])
      BY DEF SeenUpTo
    <3>1. CASE i = k + 1
      <4>1. g[i] = last /\ g[i - 1] = f[k] /\ i # 0
        BY <3>1
      <4> QED
        BY <3>1, <4>1
    <3>2. CASE i # k + 1
      <4>1. i \in 0..k /\ g[i] = f[i] /\ (i # 0 => g[i - 1] = f[i - 1])
        BY <3>2
      <4> QED
        BY <2>1, <4>1 DEF SeenUpTo
    <3> QED
      BY <3>1, <3>2
  <2> QED
    BY <2>2
<1> HIDE DEF T
<1>3. n \in T
  BY <1>1, <1>2, InductionUpTo
<1> QED
  BY <1>3 DEF T

\* What the loop has seen at its end, and the current reserve, is refreshed.
LEMMA RefreshLoop ==
    ASSUME NEW frame, NEW current,
           NEW n \in Nat, n = Len(DepositReserves(frame) \o BorrowReserves(frame))
    PROVE  \E seen : /\ SeenUpTo(DepositReserves(frame) \o BorrowReserves(frame),
                                current, n, seen)
                     /\ RefreshReserves(frame, current) = Append(seen[n], current)
<1> DEFINE listed == DepositReserves(frame) \o BorrowReserves(frame)
           f == CHOOSE f : SeenUpTo(listed, current, n, f)
<1>1. SeenUpTo(listed, current, n, f)
  BY SeenExists
<1>2. RefreshReserves(frame, current) = Append(f[n], current)
  BY DEF RefreshReserves, SeenUpTo
<1> QED
  BY <1>1, <1>2

\* What the loop has seen at its end.
SeenAtEnd(listed, current) ==
    LET seen == CHOOSE f : SeenUpTo(listed, current, Len(listed), f)
    IN  seen[Len(listed)]

\* The loop over the keys and the loop over the accounts.
LEMMA TwoLoops ==
    ASSUME NEW frame, NEW current
    PROVE  /\ RefreshReserves(frame, current) =
                Append(SeenAtEnd(DepositReserves(frame) \o BorrowReserves(frame),
                                 current), current)
           /\ RefreshInfos(frame, current) =
                Append(SeenAtEnd(Keys(DepositMetas(frame) \o BorrowMetas(frame)),
                                 current), current)
BY DEF RefreshReserves, RefreshInfos, SeenAtEnd, SeenUpTo

\* An element more at the end of a list it is not in.
LEMMA AppendDistinct ==
    ASSUME NEW S, NEW s \in Seq(S), Distinct(s), NEW e \in S
    PROVE  /\ Append(s, e) \in Seq(S)
           /\ Len(Append(s, e)) = Len(s) + 1
           /\ Range(Append(s, e)) = Range(s) \cup {e}
           /\ e \notin Range(s) => Distinct(Append(s, e))
<1>1. /\ Append(s, e) \in Seq(S) /\ Len(Append(s, e)) = Len(s) + 1
      /\ \A i \in 1..Len(s) : Append(s, e)[i] = s[i]
      /\ Append(s, e)[Len(s) + 1] = e
      /\ Len(s) \in Nat
  BY AppendProperties, LenProperties
<1>2. /\ Range(s) = {s[i] : i \in 1..Len(s)}
      /\ Range(Append(s, e)) = {Append(s, e)[i] : i \in 1..(Len(s) + 1)}
  BY <1>1, RangeEquality
<1>3. \A i : i \in 1..(Len(s) + 1) <=> i \in 1..Len(s) \/ i = Len(s) + 1
  BY <1>1
<1>4. Range(Append(s, e)) = Range(s) \cup {e}
  BY <1>1, <1>2, <1>3
<1>5. ASSUME e \notin Range(s) PROVE Distinct(Append(s, e))
  BY <1>1, <1>2, <1>3, <1>5 DEF Distinct
<1> QED
  BY <1>1, <1>4, <1>5

\* Two lists, one after the other.
LEMMA Joined ==
    ASSUME NEW S, NEW s \in Seq(S), NEW t \in Seq(S)
    PROVE  /\ s \o t \in Seq(S) /\ Len(s \o t) = Len(s) + Len(t)
           /\ Len(s) \in Nat /\ Len(t) \in Nat
           /\ \A i \in 1..Len(s) : (s \o t)[i] = s[i]
           /\ \A i \in (Len(s) + 1)..(Len(s) + Len(t)) :
                (s \o t)[i] = t[i - Len(s)]
BY ConcatProperties, LenProperties

\* One element is what a list of one lists.
LEMMA RangeOfOne == \A x : Range(<<x>>) = {x}
<1> SUFFICES ASSUME NEW x PROVE Range(<<x>>) = {x}
  OBVIOUS
<1>1. <<x>> \in Seq({x}) /\ Len(<<x>>) = 1 /\ <<x>>[1] = x
  OBVIOUS
<1>2. Range(<<x>>) = {<<x>>[i] : i \in 1..Len(<<x>>)}
  BY <1>1, RangeEquality
<1>3. \A i : i \in 1..1 <=> i = 1
  OBVIOUS
<1> QED
  BY <1>1, <1>2, <1>3

\* A list cut at its own length.
LEMMA WholeSubSeq ==
    ASSUME NEW S, NEW s \in Seq(S)
    PROVE  SubSeq(s, 1, Len(s)) = s
<1>1. /\ Len(s) \in Nat /\ SubSeq(s, 1, Len(s)) \in Seq(S)
      /\ Len(SubSeq(s, 1, Len(s))) = Len(s)
      /\ \A i \in 1..Len(s) : SubSeq(s, 1, Len(s))[i] = s[i]
  <2>1. Len(s) \in Nat /\ \A i \in 1..Len(s) : s[i] \in S
    BY LenProperties, ElementOfSeq
  <2>2. /\ SubSeq(s, 1, Len(s)) \in Seq(S)
        /\ Len(SubSeq(s, 1, Len(s))) = IF 1 <= Len(s) THEN Len(s) - 1 + 1 ELSE 0
        /\ \A i \in 1..(Len(s) - 1 + 1) : SubSeq(s, 1, Len(s))[i] = s[1 + i - 1]
    BY <2>1, SubSeqProperties
  <2> QED
    BY <2>1, <2>2
<1> QED
  BY <1>1, SeqEqual

\* Nothing is listed by an empty list.
LEMMA EmptyList ==
    ASSUME NEW S
    PROVE  <<>> \in Seq(S) /\ Len(<<>>) = 0 /\ Range(<<>>) = {} /\ Distinct(<<>>)
<1>1. <<>> \in Seq(S) /\ Len(<<>>) = 0
  BY EmptySeq
<1>2. Range(<<>>) = {<<>>[i] : i \in 1..Len(<<>>)}
  BY <1>1, RangeEquality
<1> QED
  BY <1>1, <1>2 DEF Distinct

\* Every reserve listed but the current one, each once.
LEMMA SeenOnce ==
    ASSUME NEW S, NEW listed \in Seq(S), NEW current, NEW seen,
           NEW n \in Nat, n = Len(listed), SeenUpTo(listed, current, n, seen)
    PROVE  /\ seen[n] \in Seq(S) /\ Distinct(seen[n])
           /\ Range(seen[n]) = Range(listed) \ {current}
<1> DEFINE Listed1(k) == {listed[i] : i \in 1..k}
           T == {k \in 0..n : /\ seen[k] \in Seq(S) /\ Distinct(seen[k])
                              /\ Range(seen[k]) = Listed1(k) \ {current}}
<1>0. \A i \in 1..n : listed[i] \in S
  BY ElementOfSeq
<1>1. 0 \in T
  <2>1. seen[0] = <<>>
    BY DEF SeenUpTo
  <2>2. Listed1(0) = {}
    OBVIOUS
  <2>3. seen[0] \in Seq(S) /\ Distinct(seen[0]) /\ Range(seen[0]) = {}
    BY <2>1, EmptyList
  <2> HIDE DEF Listed1
  <2> QED
    BY <2>2, <2>3
<1>2. ASSUME NEW k \in 0..(n - 1), k \in T PROVE k + 1 \in T
  <2>1. k + 1 \in 0..n /\ k + 1 \in 1..n /\ (k + 1) - 1 = k /\ k + 1 # 0
    OBVIOUS
  <2>2. seen[k + 1] =
            IF listed[k + 1] = current \/ listed[k + 1] \in Range(seen[k])
            THEN seen[k] ELSE Append(seen[k], listed[k + 1])
    BY <2>1 DEF SeenUpTo
  <2> DEFINE e == listed[k + 1]
  <2>3. Listed1(k + 1) = Listed1(k) \cup {e}
    <3>1. \A i : i \in 1..(k + 1) <=> i \in 1..k \/ i = k + 1
      OBVIOUS
    <3> QED
      BY <3>1
  <2>4. e \in S
    BY <1>0, <2>1
  <2>5. seen[k] \in Seq(S) /\ Distinct(seen[k]) /\ Range(seen[k]) = Listed1(k) \ {current}
    BY <1>2
  <2> HIDE DEF e, Listed1
  <2>6. CASE e = current \/ e \in Range(seen[k])
    BY <2>1, <2>2, <2>3, <2>5, <2>6 DEF e
  <2>7. CASE ~(e = current \/ e \in Range(seen[k]))
    <3>1. seen[k + 1] = Append(seen[k], e)
      BY <2>2, <2>7 DEF e
    <3>2. /\ seen[k + 1] \in Seq(S) /\ Distinct(seen[k + 1])
          /\ Range(seen[k + 1]) = Range(seen[k]) \cup {e}
      BY <2>4, <2>5, <2>7, <3>1, AppendDistinct
    <3> QED
      BY <2>1, <2>3, <2>5, <2>7, <3>2
  <2> QED
    BY <2>6, <2>7
<1>3. 0..n \subseteq T
  <2> HIDE DEF T
  <2> QED
    BY <1>1, <1>2, InductionUpTo
<1>4. Range(listed) = Listed1(n)
  BY RangeEquality
<1> HIDE DEF Listed1
<1>5. n \in T
  BY <1>3
<1> QED
  BY <1>4, <1>5

\* The reserves refreshed: all those listed and the current one, once each,
\* the current one last.
LEMMA RefreshReservesOnce ==
    ASSUME NEW S, NEW frame, NEW current \in S,
           DepositReserves(frame) \in Seq(S), BorrowReserves(frame) \in Seq(S)
    PROVE  LET r == RefreshReserves(frame, current) IN
           /\ r \in Seq(S) /\ Distinct(r)
           /\ Range(r) = Range(DepositReserves(frame))
                            \cup Range(BorrowReserves(frame)) \cup {current}
           /\ Len(r) \in Nat \ {0} /\ r[Len(r)] = current
<1> DEFINE listed == DepositReserves(frame) \o BorrowReserves(frame)
<1>1. /\ listed \in Seq(S) /\ Len(listed) \in Nat
      /\ Range(listed) = Range(DepositReserves(frame)) \cup Range(BorrowReserves(frame))
  BY ConcatProperties, RangeConcatenation, LenProperties
<1>2. PICK seen : /\ SeenUpTo(listed, current, Len(listed), seen)
                  /\ RefreshReserves(frame, current) = Append(seen[Len(listed)], current)
  BY <1>1, RefreshLoop
<1> HIDE DEF listed
<1> DEFINE s == seen[Len(listed)]
<1>3. s \in Seq(S) /\ Distinct(s) /\ Range(s) = Range(listed) \ {current}
  BY <1>1, <1>2, SeenOnce
<1> HIDE DEF s
<1>4. current \notin Range(s)
  BY <1>3
<1>5. /\ Append(s, current) \in Seq(S) /\ Distinct(Append(s, current))
      /\ Len(Append(s, current)) = Len(s) + 1
      /\ Range(Append(s, current)) = Range(s) \cup {current}
      /\ Append(s, current)[Len(s) + 1] = current
      /\ Len(s) \in Nat
  BY <1>3, <1>4, AppendDistinct, AppendProperties, LenProperties
<1>6. RefreshReserves(frame, current) = Append(s, current)
  BY <1>2 DEF s
<1> QED
  BY <1>1, <1>3, <1>5, <1>6

-----------------------------------------------------------------------------
(* Lists of positions. *)

\* Positions are the short lists of distinct reserves.
LEMMA PositionsAreLists ==
    ASSUME NEW s
    PROVE  s \in Positions <=>
            s \in Seq(Reserves) /\ Len(s) <= MaxPositions /\ Distinct(s)
<1>1. ASSUME s \in Positions
      PROVE  s \in Seq(Reserves) /\ Len(s) <= MaxPositions /\ Distinct(s)
  <2>1. PICK n \in 0..MaxPositions : s \in [1..n -> Reserves]
    BY <1>1 DEF Positions
  <2>2. s \in Seq(Reserves)
    BY <2>1, KaminoAssumption, SeqDef
  <2>3. Len(s) = n
    BY <2>1, <2>2, LenProperties, KaminoAssumption
  <2> QED
    BY <1>1, <2>1, <2>2, <2>3, KaminoAssumption DEF Positions
<1>2. ASSUME s \in Seq(Reserves), Len(s) <= MaxPositions, Distinct(s)
      PROVE  s \in Positions
  <2>1. Len(s) \in 0..MaxPositions /\ s \in [1..Len(s) -> Reserves]
    BY <1>2, LenProperties, KaminoAssumption
  <2> QED
    BY <1>2, <2>1 DEF Positions
<1> QED
  BY <1>1, <1>2

LEMMA AddedIsList ==
    ASSUME NEW S, NEW s \in Seq(S), Distinct(s), NEW r \in S
    PROVE  Added(s, r) \in Seq(S) /\ Distinct(Added(s, r))
BY AppendDistinct DEF Added

LEMMA RemovedIsList ==
    ASSUME NEW S, NEW s \in Seq(S), Distinct(s), NEW r
    PROVE  /\ Removed(s, r) \in Seq(S) /\ Distinct(Removed(s, r))
           /\ Len(Removed(s, r)) <= Len(s)
<1>0. Len(s) \in Nat /\ \A i \in 1..Len(s) : s[i] \in S
  BY LenProperties, ElementOfSeq
<1>1. CASE ~\E i \in 1..Len(s) : s[i] = r
  BY <1>0, <1>1 DEF Removed, RemoveFirst
<1>2. CASE \E i \in 1..Len(s) : s[i] = r
  <2> DEFINE I == {i \in 1..Len(s) : s[i] = r}
  <2>1. PICK k \in I : I = {k}
    BY <1>2 DEF Distinct
  <2>2. k \in 1..Len(s)
    BY <2>1
  <2>3. Min(I) = k
    BY <2>1, <1>0, <2>2 DEF Min
  <2>4. SelectInSeq(s, LAMBDA v : v = r) = Min(I)
    BY <2>1 DEF SelectInSeq
  <2> HIDE DEF I
  <2>5. Removed(s, r) = SubSeq(s, 1, k - 1) \o SubSeq(s, k + 1, Len(s))
    BY <1>2, <2>3, <2>4 DEF Removed, RemoveFirst, RemoveAt
  <2> DEFINE a == SubSeq(s, 1, k - 1)
             b == SubSeq(s, k + 1, Len(s))
  <2>6. /\ a \in Seq(S) /\ Len(a) = k - 1
        /\ \A i \in 1..(k - 1) : a[i] = s[i]
    BY <1>0, <2>2, SubSeqProperties
  <2>7. /\ b \in Seq(S) /\ Len(b) = Len(s) - k
        /\ \A i \in 1..(Len(s) - k) : b[i] = s[i + k]
    BY <1>0, <2>2, SubSeqProperties
  <2> HIDE DEF a, b
  <2>8. /\ a \o b \in Seq(S) /\ Len(a \o b) = Len(s) - 1
        /\ \A i \in 1..(Len(s) - 1) : (a \o b)[i] = IF i < k THEN s[i] ELSE s[i + 1]
    <3>1. k - 1 \in Nat /\ Len(s) - k \in Nat
      BY <1>0, <2>2
    <3>2. /\ a \o b \in Seq(S) /\ Len(a \o b) = (k - 1) + (Len(s) - k)
          /\ \A i \in 1..(k - 1) : (a \o b)[i] = a[i]
          /\ \A i \in ((k - 1) + 1)..((k - 1) + (Len(s) - k)) :
                (a \o b)[i] = b[i - (k - 1)]
      <4>1. /\ a \o b \in Seq(S) /\ Len(a \o b) = Len(a) + Len(b)
            /\ Len(a) \in Nat /\ Len(b) \in Nat
            /\ \A i \in 1..Len(a) : (a \o b)[i] = a[i]
            /\ \A i \in (Len(a) + 1)..(Len(a) + Len(b)) :
                 (a \o b)[i] = b[i - Len(a)]
        BY <2>6, <2>7, Joined
      <4> QED
        BY <2>6, <2>7, <3>1, <4>1
    <3>3. (k - 1) + (Len(s) - k) = Len(s) - 1
      BY <1>0, <2>2
    <3>4. ASSUME NEW i \in 1..(Len(s) - 1)
          PROVE  (a \o b)[i] = IF i < k THEN s[i] ELSE s[i + 1]
      <4>1. CASE i < k
        <5>1. i \in 1..(k - 1)
          BY <4>1, <2>2, <1>0
        <5> QED
          BY <4>1, <5>1, <3>2, <2>6
      <4>2. CASE ~(i < k)
        <5>1. /\ i \in ((k - 1) + 1)..((k - 1) + (Len(s) - k))
              /\ i - (k - 1) \in 1..(Len(s) - k)
              /\ (i - (k - 1)) + k = i + 1
          BY <4>2, <2>2, <1>0
        <5> QED
          BY <4>2, <5>1, <3>2, <2>7
      <4> QED
        BY <4>1, <4>2
    <3> QED
      BY <3>2, <3>3, <3>4
  <2>9. Distinct(a \o b)
    BY <1>0, <2>2, <2>8 DEF Distinct
  <2> QED
    BY <1>0, <2>5, <2>8, <2>9 DEF a, b
<1> QED
  BY <1>1, <1>2

-----------------------------------------------------------------------------
(* Frames. *)

\* Accounts whose keys are in the set.
Metas(keys) == [key : keys, writable : BOOLEAN]

\* A list of keys as writable accounts.
LEMMA WritableList ==
    ASSUME NEW K, NEW s \in Seq(K)
    PROVE  /\ Writable(s) \in Seq(Metas(K)) /\ Len(Writable(s)) = Len(s)
           /\ Len(s) \in Nat
           /\ \A i \in 1..Len(s) : /\ Writable(s)[i] = [key |-> s[i], writable |-> TRUE]
                                   /\ s[i] \in K
           /\ Keys(Writable(s)) = s /\ AllWritable(Writable(s))
<1>1. /\ Len(s) \in Nat /\ DOMAIN s = 1..Len(s) /\ s \in [1..Len(s) -> K]
      /\ \A i \in 1..Len(s) : s[i] \in K
  BY LenProperties, ElementOfSeq
<1>2. Writable(s) \in [1..Len(s) -> Metas(K)]
  BY <1>1 DEF Writable, Metas
<1>3. Writable(s) \in Seq(Metas(K))
  BY <1>1, <1>2, SeqDef
<1>4. Len(Writable(s)) = Len(s)
  BY <1>1, <1>2, <1>3, LenProperties
<1>5. \A i \in 1..Len(s) : Writable(s)[i] = [key |-> s[i], writable |-> TRUE]
  BY <1>1 DEF Writable
<1>6. Keys(Writable(s)) = s
  BY <1>1, <1>2, <1>5 DEF Keys
<1>7. AllWritable(Writable(s))
  BY <1>1, <1>2, <1>5 DEF AllWritable
<1> QED
  BY <1>1, <1>3, <1>4, <1>5, <1>6, <1>7

\* A frame, account by account: the lists have lengths d, b and r.
Shape(f, D, B, R, d, b, r) ==
    /\ Len(f) = d + b + r + 2
    /\ d \in Nat /\ b \in Nat /\ r \in Nat
    /\ \A i \in 1..d : f[i] = Writable(D)[i]
    /\ f[d + 1] = [key |-> KLEND, writable |-> FALSE]
    /\ \A i \in (d + 2)..(d + b + 1) : f[i] = Writable(B)[i - d - 1]
    /\ f[d + b + 2] = [key |-> KLEND, writable |-> FALSE]
    /\ \A i \in (d + b + 3)..(d + b + r + 2) :
            f[i] = Writable(R)[i - d - b - 2]

LEMMA FrameShape ==
    ASSUME NEW K, NEW D \in Seq(K), NEW B \in Seq(K), NEW R \in Seq(K)
    PROVE  /\ FrameOf(D, B, R) \in Seq(Metas(K \cup {KLEND}))
           /\ Shape(FrameOf(D, B, R), D, B, R, Len(D), Len(B), Len(R))
<1> DEFINE f == FrameOf(D, B, R)
           d == Len(D)
           b == Len(B)
           r == Len(R)
<1> DEFINE M == Metas(K \cup {KLEND})
           wd == Writable(D)
           wb == Writable(B)
           wr == Writable(R)
           e == [key |-> KLEND, writable |-> FALSE]
<1>1. /\ D \in Seq(K \cup {KLEND}) /\ B \in Seq(K \cup {KLEND})
      /\ R \in Seq(K \cup {KLEND})
  BY SeqMonotonic
<1>2. wd \in Seq(M) /\ Len(wd) = d /\ d \in Nat
  BY <1>1, WritableList
<1>3. wb \in Seq(M) /\ Len(wb) = b /\ b \in Nat
  BY <1>1, WritableList
<1>4. wr \in Seq(M) /\ Len(wr) = r /\ r \in Nat
  BY <1>1, WritableList
<1>5. Delimiter \in Seq(M) /\ Len(Delimiter) = 1 /\ Delimiter[1] = e
  <2>1. e \in M
    BY DEF Metas
  <2> QED
    BY <2>1 DEF Delimiter
<1> DEFINE p == wd \o Delimiter
           q == p \o wb
           t == q \o Delimiter
           u == t \o wr
<1>6. f = u
  BY DEF FrameOf
<1> HIDE DEF M, wd, wb, wr, e, p, q, t, u, d, b, r, f
<1>7. /\ p \in Seq(M) /\ Len(p) = d + 1
      /\ \A i \in 1..d : p[i] = wd[i]
      /\ \A i \in (d + 1)..(d + 1) : p[i] = Delimiter[i - d]
  <2>1. /\ wd \o Delimiter \in Seq(M) /\ Len(wd \o Delimiter) = Len(wd) + Len(Delimiter)
        /\ Len(wd) \in Nat /\ Len(Delimiter) \in Nat
        /\ \A i \in 1..Len(wd) : (wd \o Delimiter)[i] = wd[i]
        /\ \A i \in (Len(wd) + 1)..(Len(wd) + Len(Delimiter)) :
             (wd \o Delimiter)[i] = Delimiter[i - Len(wd)]
    <3>1. wd \in Seq(M) /\ Delimiter \in Seq(M)
      BY <1>2, <1>5
    <3> QED
      BY <3>1, Joined
  <2> QED
    BY <1>2, <1>5, <2>1 DEF p
<1>8. /\ q \in Seq(M) /\ Len(q) = (d + 1) + b
      /\ \A i \in 1..(d + 1) : q[i] = p[i]
      /\ \A i \in ((d + 1) + 1)..((d + 1) + b) : q[i] = wb[i - (d + 1)]
  <2>1. d + 1 \in Nat
    BY <1>2
  <2>2. /\ p \o wb \in Seq(M) /\ Len(p \o wb) = Len(p) + Len(wb)
        /\ Len(p) \in Nat /\ Len(wb) \in Nat
        /\ \A i \in 1..Len(p) : (p \o wb)[i] = p[i]
        /\ \A i \in (Len(p) + 1)..(Len(p) + Len(wb)) :
             (p \o wb)[i] = wb[i - Len(p)]
    <3>1. p \in Seq(M) /\ wb \in Seq(M)
      BY <1>3, <1>7
    <3> QED
      BY <3>1, Joined
  <2> QED
    BY <1>3, <1>7, <2>2, <2>1 DEF q
<1>9. /\ t \in Seq(M) /\ Len(t) = ((d + 1) + b) + 1
      /\ \A i \in 1..((d + 1) + b) : t[i] = q[i]
      /\ \A i \in (((d + 1) + b) + 1)..(((d + 1) + b) + 1) :
            t[i] = Delimiter[i - ((d + 1) + b)]
  <2>1. (d + 1) + b \in Nat
    BY <1>2, <1>3
  <2>2. /\ q \o Delimiter \in Seq(M) /\ Len(q \o Delimiter) = Len(q) + Len(Delimiter)
        /\ Len(q) \in Nat /\ Len(Delimiter) \in Nat
        /\ \A i \in 1..Len(q) : (q \o Delimiter)[i] = q[i]
        /\ \A i \in (Len(q) + 1)..(Len(q) + Len(Delimiter)) :
             (q \o Delimiter)[i] = Delimiter[i - Len(q)]
    <3>1. q \in Seq(M) /\ Delimiter \in Seq(M)
      BY <1>5, <1>8
    <3> QED
      BY <3>1, Joined
  <2> QED
    BY <1>5, <1>8, <2>2, <2>1 DEF t
<1>10. /\ u \in Seq(M) /\ Len(u) = (((d + 1) + b) + 1) + r
       /\ \A i \in 1..(((d + 1) + b) + 1) : u[i] = t[i]
       /\ \A i \in ((((d + 1) + b) + 1) + 1)..((((d + 1) + b) + 1) + r) :
            u[i] = wr[i - (((d + 1) + b) + 1)]
  <2>1. ((d + 1) + b) + 1 \in Nat
    BY <1>2, <1>3
  <2>2. /\ t \o wr \in Seq(M) /\ Len(t \o wr) = Len(t) + Len(wr)
        /\ Len(t) \in Nat /\ Len(wr) \in Nat
        /\ \A i \in 1..Len(t) : (t \o wr)[i] = t[i]
        /\ \A i \in (Len(t) + 1)..(Len(t) + Len(wr)) :
             (t \o wr)[i] = wr[i - Len(t)]
    <3>1. t \in Seq(M) /\ wr \in Seq(M)
      BY <1>4, <1>9
    <3> QED
      BY <3>1, Joined
  <2> QED
    BY <1>4, <1>9, <2>2, <2>1 DEF u
<1>11. ASSUME NEW i \in 1..d PROVE u[i] = wd[i]
  <2>1. /\ i \in 1..(d + 1) /\ i \in 1..((d + 1) + b)
        /\ i \in 1..(((d + 1) + b) + 1)
    BY <1>2, <1>3
  <2> QED
    BY <1>7, <1>8, <1>9, <1>10, <2>1
<1>12. u[d + 1] = e
  <2>1. /\ d + 1 \in 1..(d + 1) /\ d + 1 \in 1..((d + 1) + b)
        /\ d + 1 \in 1..(((d + 1) + b) + 1)
        /\ d + 1 \in (d + 1)..(d + 1) /\ (d + 1) - d = 1
    BY <1>2, <1>3
  <2> QED
    BY <1>5, <1>7, <1>8, <1>9, <1>10, <2>1
<1>13. ASSUME NEW i \in (d + 2)..(d + b + 1) PROVE u[i] = wb[i - d - 1]
  <2>1. /\ i \in ((d + 1) + 1)..((d + 1) + b) /\ i \in 1..((d + 1) + b)
        /\ i \in 1..(((d + 1) + b) + 1) /\ i - (d + 1) = i - d - 1
    BY <1>2, <1>3
  <2> QED
    BY <1>8, <1>9, <1>10, <2>1
<1>14. u[d + b + 2] = e
  <2>1. /\ d + b + 2 \in (((d + 1) + b) + 1)..(((d + 1) + b) + 1)
        /\ d + b + 2 \in 1..(((d + 1) + b) + 1)
        /\ (d + b + 2) - ((d + 1) + b) = 1
    BY <1>2, <1>3
  <2> QED
    BY <1>5, <1>9, <1>10, <2>1
<1>15. ASSUME NEW i \in (d + b + 3)..(d + b + r + 2)
       PROVE  u[i] = wr[i - d - b - 2]
  <2>1. /\ i \in ((((d + 1) + b) + 1) + 1)..((((d + 1) + b) + 1) + r)
        /\ i - (((d + 1) + b) + 1) = i - d - b - 2
    BY <1>2, <1>3, <1>4
  <2> QED
    BY <1>10, <2>1
<1>16. (((d + 1) + b) + 1) + r = d + b + r + 2
  BY <1>2, <1>3, <1>4
<1> QED
  BY <1>2, <1>3, <1>4, <1>6, <1>10, <1>11, <1>12, <1>13, <1>14, <1>15, <1>16
  DEF Shape, e, M, wd, wb, wr, d, b, r, f

\* Two delimiters, in order.
LEMMA TwoDelimiters ==
    ASSUME NEW f, NEW x \in Nat, NEW y \in Nat, x < y, Delimiters(f) = {x, y}
    PROVE  /\ Cardinality(Delimiters(f)) = 2
           /\ DepositDelimiter(f) = x /\ BorrowDelimiter(f) = y
<1>1. IsFiniteSet({x}) /\ Cardinality({x}) = 1
  BY FS_Singleton
<1>6. {x, y} = {x} \cup {y} /\ y \notin {x}
  OBVIOUS
<1>2. Cardinality({x} \cup {y}) = 2
  BY <1>1, <1>6, FS_AddElement
<1>3. DepositDelimiter(f) = x
  BY DEF DepositDelimiter, Min
<1>4. Delimiters(f) \ {x} = {y}
  OBVIOUS
<1>5. BorrowDelimiter(f) = y
  BY <1>3, <1>4 DEF BorrowDelimiter, Min
<1> QED
  BY <1>2, <1>3, <1>5, <1>6

\* A section is the list it agrees with.
LEMMA SectionIs ==
    ASSUME NEW M, NEW f \in Seq(M), NEW s \in Seq(M),
           NEW from \in Nat \ {0}, NEW to \in Int,
           to = from + Len(s) - 1, to <= Len(f),
           \A i \in from..to : f[i] = s[i - from + 1]
    PROVE  SubSeq(f, from, to) = s
<1> DEFINE t == SubSeq(f, from, to)
<1>1. Len(f) \in Nat /\ Len(s) \in Nat
  BY LenProperties
<1>2. \A i \in from..to : f[i] \in M
  BY <1>1, ElementOfSeq
<1>3. /\ t \in Seq(M) /\ Len(t) = Len(s)
      /\ \A i \in 1..Len(s) : t[i] = f[from + i - 1]
  BY <1>1, <1>2, SubSeqProperties
<1> HIDE DEF t
<1>4. ASSUME NEW i \in 1..Len(s) PROVE t[i] = s[i]
  <2>1. from + i - 1 \in from..to /\ (from + i - 1) - from + 1 = i
    BY <1>1
  <2> QED
    BY <1>3, <2>1
<1>5. t = s
  BY <1>3, <1>4, SeqEqual
<1> QED
  BY <1>5 DEF t

\* The scan finds the sections a frame was composed from.
LEMMA FrameSections ==
    ASSUME NEW K, KLEND \notin K,
           NEW D \in Seq(K), NEW B \in Seq(K), NEW R \in Seq(K),
           NEW f, f = FrameOf(D, B, R)
    PROVE  /\ Delimited(f)
           /\ DepositMetas(f) = Writable(D)
           /\ BorrowMetas(f) = Writable(B)
           /\ ReferrerMetas(f) = Writable(R)
<1> DEFINE M == Metas(K \cup {KLEND})
<1> HIDE DEF M
<1>0. PICK d, b, r : d = Len(D) /\ b = Len(B) /\ r = Len(R)
  OBVIOUS
<1>0a. f \in Seq(M) /\ Shape(f, D, B, R, d, b, r)
  BY <1>0, FrameShape DEF M
<1>1. /\ f \in Seq(M) /\ Len(f) = d + b + r + 2
      /\ d \in Nat /\ b \in Nat /\ r \in Nat
      /\ \A i \in 1..d : f[i] = Writable(D)[i]
      /\ f[d + 1] = [key |-> KLEND, writable |-> FALSE]
      /\ \A i \in (d + 2)..(d + b + 1) : f[i] = Writable(B)[i - d - 1]
      /\ f[d + b + 2] = [key |-> KLEND, writable |-> FALSE]
      /\ \A i \in (d + b + 3)..(d + b + r + 2) :
            f[i] = Writable(R)[i - d - b - 2]
  BY <1>0a DEF Shape
<1> USE DEF M
<1>2. ASSUME NEW s \in Seq(K)
      PROVE  /\ Writable(s) \in Seq(M) /\ Len(Writable(s)) = Len(s)
             /\ \A i \in 1..Len(s) : Writable(s)[i].key # KLEND
  <2>1. Writable(s) \in Seq(M) /\ Len(Writable(s)) = Len(s)
    <3>1. s \in Seq(K \cup {KLEND})
      BY SeqMonotonic
    <3> QED
      BY <3>1, WritableList
  <2>2. \A i \in 1..Len(s) : Writable(s)[i].key # KLEND
    <3>1. \A i \in 1..Len(s) : /\ Writable(s)[i] = [key |-> s[i], writable |-> TRUE]
                               /\ s[i] \in K
      BY WritableList
    <3>2. ASSUME NEW i \in 1..Len(s) PROVE Writable(s)[i].key # KLEND
      <4>1. Writable(s)[i] = [key |-> s[i], writable |-> TRUE] /\ s[i] \in K
        BY <3>1
      <4> QED
        BY <4>1
    <3> QED
      BY <3>2
  <2> QED
    BY <2>1, <2>2
<1>3. Writable(D) \in Seq(M) /\ Len(Writable(D)) = d
      /\ \A i \in 1..d : Writable(D)[i].key # KLEND
  BY <1>0, <1>2
<1>4. Writable(B) \in Seq(M) /\ Len(Writable(B)) = b
      /\ \A i \in 1..b : Writable(B)[i].key # KLEND
  BY <1>0, <1>2
<1>5. Writable(R) \in Seq(M) /\ Len(Writable(R)) = r
      /\ \A i \in 1..r : Writable(R)[i].key # KLEND
  BY <1>0, <1>2
<1>6. DOMAIN f = 1..(d + b + r + 2)
  BY <1>1, LenProperties
<1> HIDE DEF M
<1>7. Delimiters(f) = {d + 1, d + b + 2}
  <2>1. ASSUME NEW i \in Delimiters(f), i # d + 1, i # d + b + 2 PROVE FALSE
    <3>1. i \in 1..(d + b + r + 2) /\ f[i].key = KLEND
      BY <1>6 DEF Delimiters
    <3>2. \/ i \in 1..d
          \/ i \in (d + 2)..(d + b + 1) /\ i - d - 1 \in 1..b
          \/ i \in (d + b + 3)..(d + b + r + 2) /\ i - d - b - 2 \in 1..r
      BY <1>1, <2>1, <3>1
    <3> QED
      BY <1>1, <1>3, <1>4, <1>5, <3>1, <3>2
  <2>2. d + 1 \in Delimiters(f) /\ d + b + 2 \in Delimiters(f)
    BY <1>1, <1>6 DEF Delimiters
  <2> QED
    BY <2>1, <2>2
<1>8. /\ Cardinality(Delimiters(f)) = 2
      /\ DepositDelimiter(f) = d + 1 /\ BorrowDelimiter(f) = d + b + 2
  <2>1. d + 1 \in Nat /\ d + b + 2 \in Nat /\ d + 1 < d + b + 2
    BY <1>1
  <2> QED
    BY <1>7, <2>1, TwoDelimiters
<1>9. Delimited(f)
  BY <1>1, <1>7, <1>8 DEF Delimited
<1>10. DepositMetas(f) = Writable(D)
  <2>1. DepositDelimiter(f) - 1 = d
    BY <1>1, <1>8
  <2>2. /\ 1 \in Nat \ {0} /\ d \in Int /\ d = 1 + d - 1 /\ d <= Len(f)
        /\ \A i \in 1..d : f[i] = Writable(D)[i - 1 + 1]
    BY <1>1
  <2>3. SubSeq(f, 1, d) = Writable(D)
    BY <1>1, <1>3, <2>2, SectionIs
  <2> QED
    BY <2>1, <2>3 DEF DepositMetas
<1>11. BorrowMetas(f) = Writable(B)
  <2> DEFINE from == d + 2
             to == d + b + 1
  <2>1. DepositDelimiter(f) + 1 = from /\ BorrowDelimiter(f) - 1 = to
    BY <1>1, <1>8
  <2>2. /\ from \in Nat \ {0} /\ to \in Int /\ to = from + b - 1 /\ to <= Len(f)
        /\ \A i \in from..to : f[i] = Writable(B)[i - from + 1]
    <3>1. \A i \in from..to : i - d - 1 = i - from + 1
      BY <1>1
    <3> QED
      BY <1>1, <3>1
  <2> HIDE DEF from, to
  <2>3. SubSeq(f, from, to) = Writable(B)
    BY <1>1, <1>4, <2>2, SectionIs
  <2> QED
    BY <2>1, <2>3 DEF BorrowMetas
<1>12. ReferrerMetas(f) = Writable(R)
  <2> DEFINE from == d + b + 3
             to == d + b + r + 2
  <2>1. BorrowDelimiter(f) + 1 = from /\ Len(f) = to
    BY <1>1, <1>8
  <2>2. /\ from \in Nat \ {0} /\ to \in Int /\ to = from + r - 1 /\ to <= Len(f)
        /\ \A i \in from..to : f[i] = Writable(R)[i - from + 1]
    <3>1. \A i \in from..to : i - d - b - 2 = i - from + 1
      BY <1>1
    <3> QED
      BY <1>1, <3>1
  <2> HIDE DEF from, to
  <2>3. SubSeq(f, from, to) = Writable(R)
    <3>1. f \in Seq(M) /\ Writable(R) \in Seq(M) /\ Len(Writable(R)) = r
      BY <1>1, <1>5
    <3>2. to = from + Len(Writable(R)) - 1
      BY <2>2, <3>1
    <3> QED
      BY <2>2, <3>1, <3>2, SectionIs
  <2> QED
    BY <2>1, <2>3 DEF ReferrerMetas
<1> QED
  BY <1>9, <1>10, <1>11, <1>12

\* The keys of writable accounts, as writable accounts again.
LEMMA KeysOf ==
    ASSUME NEW K, NEW metas \in Seq(Metas(K))
    PROVE  /\ Keys(metas) \in Seq(K) /\ Len(Keys(metas)) = Len(metas)
           /\ \A i \in 1..Len(metas) : Keys(metas)[i] = metas[i].key
           /\ AllWritable(metas) => Writable(Keys(metas)) = metas
<1>1. /\ Len(metas) \in Nat /\ DOMAIN metas = 1..Len(metas)
      /\ metas \in [1..Len(metas) -> Metas(K)]
  BY LenProperties
<1>2. \A i \in 1..Len(metas) : metas[i].key \in K
  BY <1>1 DEF Metas
<1>3. /\ Keys(metas) \in [1..Len(metas) -> K]
      /\ \A i \in 1..Len(metas) : Keys(metas)[i] = metas[i].key
  BY <1>1, <1>2 DEF Keys
<1>4. Keys(metas) \in Seq(K)
  BY <1>1, <1>3, SeqDef
<1>5. Len(Keys(metas)) = Len(metas)
  BY <1>1, <1>3, <1>4, LenProperties
<1>6. ASSUME AllWritable(metas) PROVE Writable(Keys(metas)) = metas
  <2>1. ASSUME NEW i \in 1..Len(metas)
        PROVE  [key |-> metas[i].key, writable |-> TRUE] = metas[i]
    <3>1. metas[i] \in Metas(K) /\ metas[i].writable
      BY <1>1, <1>6 DEF AllWritable
    <3> QED
      BY <3>1 DEF Metas
  <2>2. Writable(Keys(metas)) =
            [i \in 1..Len(metas) |-> [key |-> metas[i].key, writable |-> TRUE]]
    BY <1>1, <1>3 DEF Writable
  <2> QED
    BY <1>1, <2>1, <2>2
<1> QED
  BY <1>3, <1>4, <1>5, <1>6

\* A delimited frame has one delimiter before another.
LEMMA DelimitersFound ==
    ASSUME NEW M, NEW f \in Seq(M), Delimited(f)
    PROVE  \E x, y \in 1..Len(f) :
                /\ x < y /\ Delimiters(f) = {x, y}
                /\ DepositDelimiter(f) = x /\ BorrowDelimiter(f) = y
                /\ ~f[x].writable /\ ~f[y].writable
<1>1. /\ Len(f) \in Nat /\ DOMAIN f = 1..Len(f)
      /\ Delimiters(f) \subseteq 1..Len(f)
  BY LenProperties DEF Delimiters
<1>2. \E x, y \in 1..Len(f) : x < y /\ Delimiters(f) = {x, y}
  <2>1. IsFiniteSet(Delimiters(f))
    <3>1. IsFiniteSet(1..Len(f))
      <4>1. 1 \in Int /\ Len(f) \in Int
        BY <1>1
      <4> QED
        BY <4>1, FS_Interval
    <3>2. Delimiters(f) \in SUBSET (1..Len(f))
      BY <1>1
    <3> QED
      BY <3>1, <3>2, FS_Subset
  <2>2. Cardinality(Delimiters(f)) = 2
    BY DEF Delimited
  <2>3. Delimiters(f) # {}
    <3>1. Cardinality({}) = 0
      BY FS_EmptySet
    <3>2. 2 # 0
      OBVIOUS
    <3> QED
      BY <2>2, <3>1, <3>2, Zenon
  <2>4. PICK v \in Delimiters(f) : TRUE
    BY <2>3
  <2> DEFINE rest == Delimiters(f) \ {v}
  <2>5. IsFiniteSet(rest) /\ Cardinality(rest) = 1
    BY <2>1, <2>2, <2>4, FS_RemoveElement
  <2>6. PICK w : rest = {w}
    BY <2>5, FS_Singleton
  <2>7. Delimiters(f) = {v, w} /\ v # w /\ v \in 1..Len(f) /\ w \in 1..Len(f)
    BY <1>1, <2>4, <2>6
  <2>8. CASE v < w
    BY <2>7, <2>8
  <2>9. CASE w < v
    BY <2>7, <2>9
  <2> QED
    BY <1>1, <2>7, <2>8, <2>9
<1>3. PICK x, y \in 1..Len(f) : x < y /\ Delimiters(f) = {x, y}
  BY <1>2
<1>4. DepositDelimiter(f) = x /\ BorrowDelimiter(f) = y
  <2>1. x \in Nat /\ y \in Nat
    OBVIOUS
  <2> QED
    BY <1>3, <2>1, TwoDelimiters
<1>5. ~f[x].writable /\ ~f[y].writable
  BY <1>3 DEF Delimited
<1> QED
  BY <1>3, <1>4, <1>5

\* The accounts of a section are the frame's own, and no delimiter.
LEMMA SectionOf ==
    ASSUME NEW K, NEW f \in Seq(Metas(K)), NEW from \in Nat \ {0}, NEW to \in Int,
           to <= Len(f), from <= to + 1, Delimiters(f) \cap from..to = {}
    PROVE  /\ SubSeq(f, from, to) \in Seq(Metas(K \ {KLEND}))
           /\ Len(SubSeq(f, from, to)) = to - from + 1
           /\ \A i \in 1..(to - from + 1) :
                SubSeq(f, from, to)[i] = f[from + i - 1]
<1>1. /\ Len(f) \in Nat /\ DOMAIN f = 1..Len(f)
      /\ \A i \in 1..Len(f) : f[i] \in Metas(K)
  BY LenProperties, ElementOfSeq
<1> DEFINE N == Metas(K \ {KLEND})
           t == SubSeq(f, from, to)
<1>2. ASSUME NEW i \in from..to PROVE f[i] \in N
  <2>1. i \in DOMAIN f /\ i \notin Delimiters(f) /\ f[i] \in Metas(K)
    BY <1>1
  <2>2. f[i].key # KLEND
    BY <2>1 DEF Delimiters
  <2> QED
    BY <2>1, <2>2 DEF Metas
<1> HIDE DEF N
<1>3. /\ t \in Seq(N)
      /\ Len(t) = IF from <= to THEN to - from + 1 ELSE 0
      /\ \A i \in 1..(to - from + 1) : t[i] = f[from + i - 1]
  <2>1. from \in Int
    OBVIOUS
  <2> QED
    BY <1>2, <2>1, SubSeqProperties
<1> HIDE DEF t
<1>4. Len(t) = to - from + 1
  BY <1>3
<1> QED
  BY <1>3, <1>4 DEF N, t

\* The sections of a delimited frame.
LEMMA SectionsAre ==
    ASSUME NEW K, NEW f \in Seq(Metas(K)), Delimited(f)
    PROVE  /\ DepositMetas(f) \in Seq(Metas(K \ {KLEND}))
           /\ BorrowMetas(f) \in Seq(Metas(K \ {KLEND}))
           /\ ReferrerMetas(f) \in Seq(Metas(K \ {KLEND}))
           /\ DepositReserves(f) \in Seq(K \ {KLEND})
           /\ BorrowReserves(f) \in Seq(K \ {KLEND})
           /\ ReferrerTokenStates(f) \in Seq(K \ {KLEND})
<1>1. PICK x, y \in 1..Len(f) :
                /\ x < y /\ Delimiters(f) = {x, y}
                /\ DepositDelimiter(f) = x /\ BorrowDelimiter(f) = y
  BY DelimitersFound
<1>2. Len(f) \in Nat /\ x \in Nat \ {0} /\ y \in Nat \ {0}
  BY LenProperties
<1>3. DepositMetas(f) \in Seq(Metas(K \ {KLEND}))
  <2>1. /\ 1 \in Nat \ {0} /\ x - 1 \in Int /\ x - 1 <= Len(f)
        /\ 1 <= (x - 1) + 1 /\ Delimiters(f) \cap 1..(x - 1) = {}
    BY <1>1, <1>2
  <2> QED
    BY <1>1, <2>1, SectionOf DEF DepositMetas
<1>4. BorrowMetas(f) \in Seq(Metas(K \ {KLEND}))
  <2>1. /\ x + 1 \in Nat \ {0} /\ y - 1 \in Int /\ y - 1 <= Len(f)
        /\ x + 1 <= (y - 1) + 1 /\ Delimiters(f) \cap (x + 1)..(y - 1) = {}
    BY <1>1, <1>2
  <2> QED
    BY <1>1, <2>1, SectionOf DEF BorrowMetas
<1>5. ReferrerMetas(f) \in Seq(Metas(K \ {KLEND}))
  <2>1. /\ y + 1 \in Nat \ {0} /\ Len(f) \in Int /\ Len(f) <= Len(f)
        /\ y + 1 <= Len(f) + 1 /\ Delimiters(f) \cap (y + 1)..Len(f) = {}
    BY <1>1, <1>2
  <2> QED
    BY <1>1, <2>1, SectionOf DEF ReferrerMetas
<1> QED
  BY <1>3, <1>4, <1>5, KeysOf
  DEF DepositReserves, BorrowReserves, ReferrerTokenStates

\* A delimited frame of writable accounts is composed of its sections.
LEMMA FrameCut ==
    ASSUME NEW K, KLEND \in K, NEW f \in Seq(Metas(K)), Delimited(f),
           AllWritable(DepositMetas(f)), AllWritable(BorrowMetas(f)),
           AllWritable(ReferrerMetas(f))
    PROVE  f = FrameOf(DepositReserves(f), BorrowReserves(f),
                       ReferrerTokenStates(f))
<1> DEFINE D == DepositReserves(f)
           B == BorrowReserves(f)
           R == ReferrerTokenStates(f)
           g == FrameOf(D, B, R)
           L == K \ {KLEND}
<1>1. PICK x, y \in 1..Len(f) :
                /\ x < y /\ Delimiters(f) = {x, y}
                /\ DepositDelimiter(f) = x /\ BorrowDelimiter(f) = y
                /\ ~f[x].writable /\ ~f[y].writable
  BY DelimitersFound
<1>2. /\ Len(f) \in Nat /\ DOMAIN f = 1..Len(f)
      /\ x \in Nat \ {0} /\ y \in Nat \ {0}
      /\ \A i \in 1..Len(f) : f[i] \in Metas(K)
  BY LenProperties, ElementOfSeq
<1>3. /\ Writable(D) = DepositMetas(f) /\ D \in Seq(L)
      /\ Len(D) = Len(DepositMetas(f))
  BY SectionsAre, KeysOf DEF DepositReserves
<1>4. /\ Writable(B) = BorrowMetas(f) /\ B \in Seq(L)
      /\ Len(B) = Len(BorrowMetas(f))
  BY SectionsAre, KeysOf DEF BorrowReserves
<1>5. /\ Writable(R) = ReferrerMetas(f) /\ R \in Seq(L)
      /\ Len(R) = Len(ReferrerMetas(f))
  BY SectionsAre, KeysOf DEF ReferrerTokenStates
<1>6. /\ Len(DepositMetas(f)) = x - 1
      /\ \A i \in 1..(x - 1) : DepositMetas(f)[i] = f[i]
  <2>1. /\ 1 \in Nat \ {0} /\ x - 1 \in Int /\ x - 1 <= Len(f)
        /\ 1 <= (x - 1) + 1 /\ Delimiters(f) \cap 1..(x - 1) = {}
    BY <1>1, <1>2
  <2>2. /\ Len(DepositMetas(f)) = x - 1 - 1 + 1
        /\ \A i \in 1..(x - 1 - 1 + 1) : DepositMetas(f)[i] = f[1 + i - 1]
    BY <1>1, <2>1, SectionOf DEF DepositMetas
  <2> QED
    BY <1>2, <2>2
<1>7. /\ Len(BorrowMetas(f)) = y - x - 1
      /\ \A i \in 1..(y - x - 1) : BorrowMetas(f)[i] = f[i + x]
  <2>1. /\ x + 1 \in Nat \ {0} /\ y - 1 \in Int /\ y - 1 <= Len(f)
        /\ x + 1 <= (y - 1) + 1 /\ Delimiters(f) \cap (x + 1)..(y - 1) = {}
    BY <1>1, <1>2
  <2>2. /\ Len(BorrowMetas(f)) = (y - 1) - (x + 1) + 1
        /\ \A i \in 1..((y - 1) - (x + 1) + 1) : BorrowMetas(f)[i] = f[(x + 1) + i - 1]
    BY <1>1, <2>1, SectionOf DEF BorrowMetas
  <2> QED
    BY <1>2, <2>2
<1>8. /\ Len(ReferrerMetas(f)) = Len(f) - y
      /\ \A i \in 1..(Len(f) - y) : ReferrerMetas(f)[i] = f[i + y]
  <2>1. /\ y + 1 \in Nat \ {0} /\ Len(f) \in Int /\ Len(f) <= Len(f)
        /\ y + 1 <= Len(f) + 1 /\ Delimiters(f) \cap (y + 1)..Len(f) = {}
    BY <1>1, <1>2
  <2>2. /\ Len(ReferrerMetas(f)) = Len(f) - (y + 1) + 1
        /\ \A i \in 1..(Len(f) - (y + 1) + 1) : ReferrerMetas(f)[i] = f[(y + 1) + i - 1]
    BY <1>1, <2>1, SectionOf DEF ReferrerMetas
  <2> QED
    BY <1>2, <2>2
<1>9. Metas(L \cup {KLEND}) = Metas(K)
  <2>1. L \cup {KLEND} = K
    OBVIOUS
  <2> QED
    BY <2>1
<1> HIDE DEF D, B, R, g, L
<1>10. g \in Seq(Metas(K)) /\ Shape(g, D, B, R, Len(D), Len(B), Len(R))
  BY <1>3, <1>4, <1>5, <1>9, FrameShape DEF g
<1>11. Shape(g, D, B, R, x - 1, y - x - 1, Len(f) - y)
  BY <1>3, <1>4, <1>5, <1>6, <1>7, <1>8, <1>10
<1>12. Len(g) = Len(f)
  BY <1>2, <1>11 DEF Shape
<1>13. ASSUME NEW i \in {x, y} PROVE f[i] = [key |-> KLEND, writable |-> FALSE]
  <2>1. f[i] \in Metas(K) /\ f[i].key = KLEND /\ ~f[i].writable
    BY <1>1, <1>2 DEF Delimiters
  <2> QED
    BY <2>1 DEF Metas
<1>14. ASSUME NEW i \in 1..Len(f) PROVE g[i] = f[i]
  <2>1. CASE i < x
    <3>1. i \in 1..(x - 1)
      BY <1>2, <2>1
    <3>2. g[i] = Writable(D)[i]
      BY <1>11, <3>1 DEF Shape
    <3> QED
      BY <1>3, <1>6, <3>1, <3>2
  <2>2. CASE i = x
    <3>1. g[(x - 1) + 1] = [key |-> KLEND, writable |-> FALSE]
      BY <1>11 DEF Shape
    <3>2. (x - 1) + 1 = x
      BY <1>2
    <3> QED
      BY <1>13, <2>2, <3>1, <3>2
  <2>3. CASE x < i /\ i < y
    <3>1. /\ i \in ((x - 1) + 2)..((x - 1) + (y - x - 1) + 1)
          /\ i - (x - 1) - 1 \in 1..(y - x - 1)
          /\ (i - (x - 1) - 1) + x = i
      BY <1>2, <2>3
    <3>2. g[i] = Writable(B)[i - (x - 1) - 1]
      BY <1>11, <3>1 DEF Shape
    <3> QED
      BY <1>4, <1>7, <3>1, <3>2
  <2>4. CASE i = y
    <3>1. g[(x - 1) + (y - x - 1) + 2] = [key |-> KLEND, writable |-> FALSE]
      BY <1>11 DEF Shape
    <3>2. (x - 1) + (y - x - 1) + 2 = y
      BY <1>2
    <3> QED
      BY <1>13, <2>4, <3>1, <3>2
  <2>5. CASE y < i
    <3>1. /\ i \in ((x - 1) + (y - x - 1) + 3)..((x - 1) + (y - x - 1) + (Len(f) - y) + 2)
          /\ i - (x - 1) - (y - x - 1) - 2 \in 1..(Len(f) - y)
          /\ (i - (x - 1) - (y - x - 1) - 2) + y = i
      BY <1>2, <2>5
    <3>2. g[i] = Writable(R)[i - (x - 1) - (y - x - 1) - 2]
      BY <1>11, <3>1 DEF Shape
    <3> QED
      BY <1>5, <1>8, <3>1, <3>2
  <2> QED
    BY <1>1, <1>2, <2>1, <2>2, <2>3, <2>4, <2>5
<1>15. g = f
  BY <1>10, <1>12, <1>14, SeqEqual
<1> QED
  BY <1>15 DEF g, D, B, R

-----------------------------------------------------------------------------
(* Frames composed of lists of distinct keys. *)

PinnedList(s) == s \in Seq(PinnedReserves) /\ Distinct(s)

\* Keys a referrer token state may have.
ReferrerKeys == Range(ReferrerStates) \cup UnlistedReserves

ReferrerList(s, borrows) ==
    /\ s \in Seq(ReferrerKeys) /\ Distinct(s)
    /\ s = <<>> \/ Len(s) = Len(borrows)

\* The scan reads back what was composed, and accepts it.
LEMMA ComposedFrame ==
    ASSUME NEW D, NEW B, NEW R,
           PinnedList(D), PinnedList(B), ReferrerList(R, B),
           NEW f, f = FrameOf(D, B, R)
    PROVE  /\ FrameValid(f)
           /\ DepositReserves(f) = D /\ BorrowReserves(f) = B
           /\ ReferrerTokenStates(f) = R
<1> DEFINE K == PinnedReserves \cup ReferrerKeys
<1>1. D \in Seq(K) /\ B \in Seq(K) /\ R \in Seq(K)
  BY SeqMonotonic DEF PinnedList, ReferrerList
<1>2. KLEND \notin K
  BY KaminoAssumption DEF ReferrerKeys, Reserves
<1> HIDE DEF K
<1>3. /\ Delimited(f) /\ DepositMetas(f) = Writable(D)
      /\ BorrowMetas(f) = Writable(B) /\ ReferrerMetas(f) = Writable(R)
  BY <1>1, <1>2, FrameSections
<1>4. /\ Keys(Writable(D)) = D /\ AllWritable(Writable(D))
      /\ Keys(Writable(B)) = B /\ AllWritable(Writable(B))
      /\ Keys(Writable(R)) = R /\ AllWritable(Writable(R))
      /\ Len(Writable(B)) = Len(B) /\ Len(Writable(R)) = Len(R)
  BY <1>1, WritableList
<1>5. /\ DepositReserves(f) = D /\ BorrowReserves(f) = B
      /\ ReferrerTokenStates(f) = R
  BY <1>3, <1>4 DEF DepositReserves, BorrowReserves, ReferrerTokenStates
<1>6. Range(D) \subseteq PinnedReserves /\ Range(B) \subseteq PinnedReserves
  <2>1. ASSUME NEW s, PinnedList(s) PROVE Range(s) \subseteq PinnedReserves
    <3>1. s \in Seq(PinnedReserves)
      BY <2>1 DEF PinnedList
    <3> QED
      BY <3>1, RangeEquality, ElementOfSeq
  <2> QED
    BY <2>1
<1>7. ReservesValid(DepositMetas(f)) /\ ReservesValid(BorrowMetas(f))
  BY <1>3, <1>4, <1>6 DEF ReservesValid, PinnedList
<1>8. Range(R) \subseteq ReferrerKeys
  <2>1. R \in Seq(ReferrerKeys)
    BY DEF ReferrerList
  <2> QED
    BY <2>1, RangeEquality, ElementOfSeq
<1>9. ReferrerKeys \cap PinnedReserves = {} /\ NullKey \notin ReferrerKeys
  BY KaminoAssumption DEF ReferrerKeys, Reserves
<1>10. Writable(R) = <<>> \/ Len(Writable(R)) = Len(Writable(B))
  <2>1. CASE R = <<>>
    <3>1. Writable(R) \in Seq(Metas(K)) /\ Len(R) = 0
      BY <1>1, <2>1, WritableList, EmptySeq
    <3> QED
      BY <1>4, <3>1, EmptySeq
  <2> QED
    BY <1>4, <2>1 DEF ReferrerList
<1>11. ReferrersValid(ReferrerMetas(f), BorrowMetas(f))
  BY <1>3, <1>4, <1>8, <1>9, <1>10 DEF ReferrersValid, ReferrerList
<1> QED
  BY <1>3, <1>5, <1>7, <1>11 DEF FrameValid

\* An accepted frame is composed of such lists.
LEMMA AcceptedFrame ==
    ASSUME NEW f \in Seq(AccountMeta), FrameValid(f)
    PROVE  /\ PinnedList(DepositReserves(f)) /\ PinnedList(BorrowReserves(f))
           /\ ReferrerList(ReferrerTokenStates(f), BorrowReserves(f))
           /\ f = FrameOf(DepositReserves(f), BorrowReserves(f),
                          ReferrerTokenStates(f))
<1> DEFINE K == Reserves \cup Range(ReferrerStates) \cup {KLEND, NullKey}
           D == DepositReserves(f)
           B == BorrowReserves(f)
           R == ReferrerTokenStates(f)
<1>1. f \in Seq(Metas(K)) /\ KLEND \in K /\ Delimited(f)
  BY DEF AccountMeta, Metas, FrameValid
<1> HIDE DEF K
<1>2. /\ AllWritable(DepositMetas(f)) /\ AllWritable(BorrowMetas(f))
      /\ AllWritable(ReferrerMetas(f))
  BY DEF FrameValid, ReservesValid, ReferrersValid
<1>3. f = FrameOf(D, B, R)
  BY <1>1, <1>2, FrameCut
<1>4. /\ D \in Seq(K \ {KLEND}) /\ B \in Seq(K \ {KLEND}) /\ R \in Seq(K \ {KLEND})
      /\ BorrowMetas(f) \in Seq(Metas(K \ {KLEND}))
      /\ ReferrerMetas(f) \in Seq(Metas(K \ {KLEND}))
  BY <1>1, SectionsAre
<1>5. /\ Range(D) \subseteq PinnedReserves /\ Distinct(D)
      /\ Range(B) \subseteq PinnedReserves /\ Distinct(B)
  BY DEF FrameValid, ReservesValid, DepositReserves, BorrowReserves
<1>6. /\ NullKey \notin Range(R) /\ Range(R) \cap PinnedReserves = {}
      /\ Distinct(R)
      /\ ReferrerMetas(f) = <<>> \/ Len(ReferrerMetas(f)) = Len(BorrowMetas(f))
  BY DEF FrameValid, ReferrersValid, ReferrerTokenStates
<1>7. Len(R) = Len(ReferrerMetas(f)) /\ Len(B) = Len(BorrowMetas(f))
  BY <1>4, KeysOf DEF ReferrerTokenStates, BorrowReserves
<1> HIDE DEF D, B, R
<1>8. PinnedList(D) /\ PinnedList(B)
  <2>1. ASSUME NEW s \in Seq(K \ {KLEND}), Range(s) \subseteq PinnedReserves
        PROVE  s \in Seq(PinnedReserves)
    BY <2>1, SeqOfRange, SeqMonotonic
  <2>2. D \in Seq(PinnedReserves)
    BY <1>4, <1>5, <2>1
  <2>3. B \in Seq(PinnedReserves)
    BY <1>4, <1>5, <2>1
  <2> QED
    BY <1>5, <2>2, <2>3 DEF PinnedList
<1>9. Range(R) \subseteq K \ {KLEND}
  <2>1. Range(R) = {R[i] : i \in 1..Len(R)}
    BY <1>4, RangeEquality
  <2>2. \A i \in 1..Len(R) : R[i] \in K \ {KLEND}
    BY <1>4, ElementOfSeq
  <2> QED
    BY <2>1, <2>2
<1>10. Range(R) \subseteq ReferrerKeys
  BY <1>6, <1>9 DEF K, ReferrerKeys, Reserves
<1>11. R \in Seq(ReferrerKeys)
  BY <1>4, <1>10, SeqOfRange, SeqMonotonic
<1>12. R = <<>> \/ Len(R) = Len(B)
  <2>1. CASE ReferrerMetas(f) = <<>>
    <3>1. Len(R) = 0
      BY <1>7, <2>1, EmptySeq
    <3> QED
      BY <1>11, <3>1, EmptySeq
  <2> QED
    BY <1>6, <1>7, <2>1
<1>13. ReferrerList(R, B)
  BY <1>6, <1>11, <1>12 DEF ReferrerList
<1> QED
  BY <1>3, <1>8, <1>13 DEF D, B, R

-----------------------------------------------------------------------------
(* Types. *)

\* What KLend expects of the referrers: none, or the state of every borrow.
LEMMA ReferrersOfBorrows ==
    ASSUME obligation \in Obligation
    PROVE  /\ ObligationReferrers \in Seq(Range(ReferrerStates))
           /\ ReferrerList(ObligationReferrers, obligation.borrows)
<1> DEFINE B == obligation.borrows
           R == [i \in DOMAIN B |-> ReferrerState(B[i])]
<1>1. B \in Seq(Reserves) /\ Distinct(B)
  <2>1. B \in Positions
    BY DEF Obligation
  <2> QED
    BY <2>1, PositionsAreLists
<1>2. CASE ~HasReferrer
  <2>1. ObligationReferrers = <<>>
    BY <1>2 DEF ObligationReferrers
  <2> QED
    BY <2>1, EmptyList DEF ReferrerList
<1>3. CASE HasReferrer
  <2>1. ObligationReferrers = R
    BY <1>3 DEF ObligationReferrers
  <2> HIDE DEF B
  <2>2. /\ Len(B) \in Nat /\ DOMAIN B = 1..Len(B)
        /\ \A i \in 1..Len(B) : B[i] \in Reserves
    BY <1>1, LenProperties, ElementOfSeq
  <2>3. R \in [1..Len(B) -> Range(ReferrerStates)]
    BY <2>2, KaminoAssumption DEF ReferrerState, Range
  <2>4. R \in Seq(Range(ReferrerStates))
    BY <2>2, <2>3, SeqDef
  <2>5. Len(R) = Len(B)
    BY <2>2, <2>3, <2>4, LenProperties
  <2>6. Distinct(R)
    <3> SUFFICES ASSUME NEW i \in 1..Len(B), NEW j \in 1..Len(B), R[i] = R[j]
                 PROVE  i = j
      BY <2>5 DEF Distinct
    <3>1. ReferrerStates[B[i]] = ReferrerStates[B[j]]
      BY <2>2 DEF ReferrerState
    <3>2. B[i] = B[j]
      BY <2>2, <3>1, KaminoAssumption DEF IsInjective
    <3> QED
      BY <1>1, <3>2 DEF Distinct
  <2>7. R \in Seq(ReferrerKeys)
    <3>1. Range(ReferrerStates) \subseteq ReferrerKeys
      BY DEF ReferrerKeys
    <3> QED
      BY <2>4, <3>1, SeqMonotonic
  <2> QED
    BY <2>1, <2>4, <2>5, <2>6, <2>7 DEF ReferrerList, B
<1> QED
  BY <1>2, <1>3

LEMMA ObligationFrameType ==
    ASSUME obligation \in Obligation
    PROVE  ObligationFrame \in Seq(AccountMeta)
<1> DEFINE K == Reserves \cup Range(ReferrerStates)
           D == obligation.deposits
           B == obligation.borrows
<1>1. D \in Seq(Reserves) /\ B \in Seq(Reserves)
  <2>1. D \in Positions /\ B \in Positions
    BY DEF Obligation
  <2> QED
    BY <2>1, PositionsAreLists
<1>2. ObligationReferrers \in Seq(Range(ReferrerStates))
  BY ReferrersOfBorrows
<1>3. D \in Seq(K) /\ B \in Seq(K) /\ ObligationReferrers \in Seq(K)
  BY <1>1, <1>2, SeqMonotonic
<1>4. ObligationFrame = FrameOf(D, B, ObligationReferrers)
  BY DEF ObligationFrame
<1>5. Metas(K \cup {KLEND}) \subseteq AccountMeta
  BY DEF Metas, AccountMeta
<1> HIDE DEF K, D, B
<1>6. FrameOf(D, B, ObligationReferrers) \in Seq(Metas(K \cup {KLEND}))
  BY <1>3, FrameShape
<1> QED
  BY <1>4, <1>5, <1>6, SeqMonotonic

\* A position added, within the bound, or removed.
LEMMA AddedPositions ==
    ASSUME NEW s \in Positions, NEW r \in Reserves
    PROVE  /\ Removed(s, r) \in Positions
           /\ Len(Added(s, r)) <= MaxPositions => Added(s, r) \in Positions
<1>1. s \in Seq(Reserves) /\ Len(s) <= MaxPositions /\ Distinct(s)
  BY PositionsAreLists
<1>2. /\ Removed(s, r) \in Seq(Reserves) /\ Distinct(Removed(s, r))
      /\ Len(Removed(s, r)) <= Len(s)
  BY <1>1, RemovedIsList
<1>3. Len(Removed(s, r)) <= MaxPositions
  <2>1. Len(s) \in Nat /\ Len(Removed(s, r)) \in Nat /\ MaxPositions \in Nat
    BY <1>1, <1>2, LenProperties, KaminoAssumption
  <2> QED
    BY <1>1, <1>2, <2>1
<1>4. Added(s, r) \in Seq(Reserves) /\ Distinct(Added(s, r))
  BY <1>1, AddedIsList
<1> QED
  BY <1>2, <1>3, <1>4, PositionsAreLists

LEMMA InitType == Init => TypeOK
<1> SUFFICES ASSUME Init PROVE TypeOK
  OBVIOUS
<1>1. <<>> \in Positions
  <2>1. 0 <= MaxPositions
    BY KaminoAssumption
  <2> QED
    BY <2>1, EmptyList, PositionsAreLists
<1> QED
  BY <1>1 DEF Init, TypeOK, Obligation

LEMMA StepType == TypeOK /\ [Next]_vars => TypeOK'
<1> SUFFICES ASSUME TypeOK, [Next]_vars PROVE TypeOK'
  OBVIOUS
<1>0. obligation \in Obligation /\ pending \subseteq Transaction
  BY DEF TypeOK
<1>0a. obligation.deposits \in Positions /\ obligation.borrows \in Positions
  BY <1>0 DEF Obligation
<1>1. ASSUME NEW reserve \in Reserves, NEW disc \in {"deposit", "withdraw"},
             NEW all \in BOOLEAN, Compose(disc, reserve, all)
      PROVE  TypeOK'
  <2>1. ObligationFrame \in Seq(AccountMeta)
    BY <1>0, ObligationFrameType
  <2> QED
    BY <1>0, <1>1, <2>1 DEF Compose, TypeOK, Transaction
<1>2. ASSUME NEW reserve \in Reserves, NEW disc \in {"deposit", "withdraw"},
             NEW layout \in {"deposit", "withdraw"}, NEW frame \in Strays,
             NEW owner_signed \in BOOLEAN,
             Submit(disc, layout, reserve, owner_signed, frame)
      PROVE  TypeOK'
  <2>1. frame \in Seq(AccountMeta)
    BY KaminoAssumption
  <2> QED
    BY <1>0, <1>2, <2>1 DEF Submit, TypeOK, Transaction
<1>3. ASSUME NEW reserve \in Reserves, OwnerAtKLend(reserve) PROVE TypeOK'
  <2>1. /\ Removed(obligation.deposits, reserve) \in Positions
        /\ Removed(obligation.borrows, reserve) \in Positions
    BY <1>0a, AddedPositions
  <2>2. CASE obligation' = [obligation EXCEPT !.deposits = Added(@, reserve)]
    <3>1. obligation'.deposits = Added(obligation.deposits, reserve)
      BY <1>0, <2>2 DEF Obligation
    <3>2. Added(obligation.deposits, reserve) \in Positions
      BY <1>0a, <1>3, <3>1, AddedPositions DEF OwnerAtKLend
    <3> QED
      BY <1>0, <1>3, <2>2, <3>2 DEF TypeOK, Obligation, OwnerAtKLend
  <2>3. CASE obligation' = [obligation EXCEPT !.borrows = Added(@, reserve)]
    <3>1. obligation'.borrows = Added(obligation.borrows, reserve)
      BY <1>0, <2>3 DEF Obligation
    <3>2. Added(obligation.borrows, reserve) \in Positions
      BY <1>0a, <1>3, <3>1, AddedPositions DEF OwnerAtKLend
    <3> QED
      BY <1>0, <1>3, <2>3, <3>2 DEF TypeOK, Obligation, OwnerAtKLend
  <2>4. CASE obligation' = [obligation EXCEPT !.deposits = Removed(@, reserve)]
    BY <1>0, <1>3, <2>1, <2>4 DEF TypeOK, Obligation, OwnerAtKLend
  <2>5. CASE obligation' = [obligation EXCEPT !.borrows = Removed(@, reserve)]
    BY <1>0, <1>3, <2>1, <2>5 DEF TypeOK, Obligation, OwnerAtKLend
  <2> QED
    BY <1>3, <2>2, <2>3, <2>4, <2>5 DEF OwnerAtKLend
<1>4. ASSUME NEW tx \in pending, CpiAdapterKamino(tx) PROVE TypeOK'
  <2>1. tx \in Transaction /\ tx.reserve \in Reserves
    BY <1>0 DEF Transaction
  <2>2. pending' \subseteq Transaction
    BY <1>0, <1>4 DEF CpiAdapterKamino
  <2>3. CASE tx.disc = "deposit"
    <3>1. obligation' = [obligation EXCEPT !.deposits = Added(@, tx.reserve)]
      BY <1>4, <2>3 DEF CpiAdapterKamino, Applied
    <3>2. obligation'.deposits = Added(obligation.deposits, tx.reserve)
      BY <1>0, <3>1 DEF Obligation
    <3>3. Len(Added(obligation.deposits, tx.reserve)) <= MaxPositions
      BY <1>4, <3>2 DEF CpiAdapterKamino
    <3>4. Added(obligation.deposits, tx.reserve) \in Positions
      BY <1>0a, <2>1, <3>3, AddedPositions
    <3> QED
      BY <1>0, <2>2, <3>1, <3>4 DEF TypeOK, Obligation
  <2>4. CASE tx.disc # "deposit"
    <3>1. Removed(obligation.deposits, tx.reserve) \in Positions
      BY <1>0a, <2>1, AddedPositions
    <3>2. \/ obligation' = [obligation EXCEPT !.deposits = Removed(@, tx.reserve)]
          \/ obligation' = obligation
      BY <1>4, <2>4 DEF CpiAdapterKamino, Applied
    <3> QED
      BY <1>0, <2>2, <3>1, <3>2 DEF TypeOK, Obligation
  <2> QED
    BY <2>3, <2>4
<1>5. ASSUME NEW tx \in pending, Abort(tx) PROVE TypeOK'
  BY <1>0, <1>5 DEF Abort, TypeOK
<1>6. CASE UNCHANGED vars
  BY <1>0, <1>6 DEF vars, TypeOK
<1> QED
  BY <1>1, <1>2, <1>3, <1>4, <1>5, <1>6 DEF Next

\* The obligation lists no reserve twice and every frame is one of accounts:
\* the types the theorems below rest on.
LEMMA KaminoTypes == Spec => []TypeOK
<1>1. Init => TypeOK
  BY InitType
<1>2. TypeOK /\ [Next]_vars => TypeOK'
  BY StepType
<1> QED
  BY <1>1, <1>2, PTL DEF Spec

-----------------------------------------------------------------------------
(* The frame's format. *)

\* A list of distinct keys is no longer than the keys are many.
LEMMA DistinctIsShort ==
    ASSUME NEW S, IsFiniteSet(S), NEW s \in Seq(S), Distinct(s)
    PROVE  Len(s) <= Cardinality(S)
<1>1. Len(s) \in Nat /\ s \in [1..Len(s) -> S] /\ DOMAIN s = 1..Len(s)
  BY LenProperties
<1>2. s \in Injection(1..Len(s), S)
  BY <1>1 DEF Injection, IsInjective, Distinct
<1>3. Cardinality(1..Len(s)) <= Cardinality(S)
  BY <1>2, FS_Injection
<1>4. Cardinality(1..Len(s)) = Len(s)
  <2>1. 1 \in Int /\ Len(s) \in Int
    BY <1>1
  <2>2. Cardinality(1..Len(s)) = IF 1 > Len(s) THEN 0 ELSE Len(s) - 1 + 1
    BY <2>1, FS_Interval
  <2> QED
    BY <1>1, <2>2
<1> QED
  BY <1>3, <1>4

LEMMA PinnedLists ==
    ASSUME NEW s
    PROVE  s \in Lists(PinnedReserves) <=> PinnedList(s)
<1>1. IsFiniteSet(PinnedReserves) /\ Cardinality(PinnedReserves) \in Nat
  BY KaminoAssumption, FS_CardinalityType
<1>2. ASSUME s \in Lists(PinnedReserves) PROVE PinnedList(s)
  <2>1. PICK n \in 0..Cardinality(PinnedReserves) :
            s \in [1..n -> PinnedReserves] /\ Distinct(s)
    BY <1>2 DEF Lists
  <2>2. n \in Nat
    BY <1>1
  <2> QED
    BY <2>1, <2>2, SeqDef DEF PinnedList
<1>3. ASSUME PinnedList(s) PROVE s \in Lists(PinnedReserves)
  <2>1. s \in Seq(PinnedReserves) /\ Distinct(s)
    BY <1>3 DEF PinnedList
  <2>2. Len(s) <= Cardinality(PinnedReserves)
    BY <1>1, <2>1, DistinctIsShort
  <2>3. /\ Len(s) \in 0..Cardinality(PinnedReserves)
        /\ s \in [1..Len(s) -> PinnedReserves]
    BY <1>1, <2>1, <2>2, LenProperties
  <2> QED
    BY <2>1, <2>3 DEF Lists
<1> QED
  BY <1>2, <1>3

\* The well-formed frames are those composed of such lists.
LEMMA WellFormed ==
    ASSUME NEW f
    PROVE  f \in WellFormedFrames <=>
                \E D, B, R : /\ PinnedList(D) /\ PinnedList(B)
                             /\ ReferrerList(R, B) /\ f = FrameOf(D, B, R)
<1> DEFINE Refs(B) == {s \in UNION {[1..n -> ReferrerKeys] : n \in {0, Len(B)}} :
                                Distinct(s)}
<1>1. f \in WellFormedFrames <=>
        \E D, B \in Lists(PinnedReserves) :
            \E R \in Refs(B) : f = FrameOf(D, B, R)
  <2> DEFINE Frames(D, B) == {FrameOf(D, B, R) : R \in Refs(B)}
  <2>1. WellFormedFrames = UNION {Frames(D, B) : D, B \in Lists(PinnedReserves)}
    BY DEF WellFormedFrames, ReferrerKeys
  <2>2. \A D, B : f \in Frames(D, B) <=> \E R \in Refs(B) : f = FrameOf(D, B, R)
    OBVIOUS
  <2> HIDE DEF Frames, Refs
  <2> QED
    BY <2>1, <2>2
<1>2. ASSUME NEW B, PinnedList(B), NEW R PROVE R \in Refs(B) <=> ReferrerList(R, B)
  <2>1. Len(B) \in Nat
    BY <1>2, LenProperties DEF PinnedList
  <2>2. ASSUME R \in Refs(B) PROVE ReferrerList(R, B)
    <3>1. PICK n \in {0, Len(B)} : R \in [1..n -> ReferrerKeys] /\ Distinct(R)
      BY <2>2
    <3>2. n \in Nat
      BY <2>1
    <3>3. R \in Seq(ReferrerKeys)
      BY <3>1, <3>2, SeqDef
    <3>4. Len(R) = n
      BY <3>1, <3>2, <3>3, LenProperties
    <3>5. R = <<>> \/ Len(R) = Len(B)
      BY <3>3, <3>4, EmptySeq
    <3> QED
      BY <3>1, <3>3, <3>5 DEF ReferrerList
  <2>3. ASSUME ReferrerList(R, B) PROVE R \in Refs(B)
    <3>1. /\ R \in Seq(ReferrerKeys) /\ Distinct(R)
          /\ R = <<>> \/ Len(R) = Len(B)
      BY <2>3 DEF ReferrerList
    <3>2. R \in [1..Len(R) -> ReferrerKeys]
      BY <3>1, LenProperties
    <3>3. Len(R) \in {0, Len(B)}
      BY <3>1, EmptySeq
    <3> QED
      BY <3>1, <3>2, <3>3
  <2> QED
    BY <2>2, <2>3
<1> HIDE DEF Refs
<1> QED
  BY <1>1, <1>2, PinnedLists

\* The scan accepts those and no other.
LEMMA FormatOf ==
    ASSUME NEW f \in Seq(AccountMeta)
    PROVE  FrameValid(f) <=> f \in WellFormedFrames
<1>1. ASSUME FrameValid(f) PROVE f \in WellFormedFrames
  BY <1>1, AcceptedFrame, WellFormed
<1>2. ASSUME f \in WellFormedFrames PROVE FrameValid(f)
  <2>1. PICK D, B, R : /\ PinnedList(D) /\ PinnedList(B)
                       /\ ReferrerList(R, B) /\ f = FrameOf(D, B, R)
    BY <1>2, WellFormed
  <2> QED
    BY <2>1, ComposedFrame
<1> QED
  BY <1>1, <1>2

(* For any set of reserves and any account list a transaction may carry,   *)
(* the scan accepts exactly the frames composed of distinct pinned         *)
(* deposits, distinct pinned borrows and no referrer state or one for each *)
(* borrow (the frame checks of cpi_adapter_kamino).                        *)
THEOREM FrameAlwaysChecked == Spec => []FrameFormat
<1>1. TypeOK => FrameFormat
  <2> SUFFICES ASSUME TypeOK, NEW tx \in pending
               PROVE  FrameValid(tx.frame) <=> tx.frame \in WellFormedFrames
    BY DEF FrameFormat
  <2>1. tx.frame \in Seq(AccountMeta)
    BY DEF TypeOK, Transaction
  <2> QED
    BY <2>1, FormatOf
<1> QED
  BY <1>1, KaminoTypes, PTL

-----------------------------------------------------------------------------
(* The sequence. *)

\* The instructions, in order, of a transaction that refreshes n reserves.
SequenceShape(sequence, tx, n) ==
    /\ n \in Nat \ {0} /\ Len(sequence) = n + 2
    /\ DOMAIN sequence = 1..(n + 2)
    /\ \A i \in 1..n :
            sequence[i] = RefreshReserve(RefreshReserves(tx.frame, tx.reserve)[i])
    /\ sequence[n + 1] = RefreshObligation(tx.frame)
    /\ sequence[n + 2] = Act(tx)
    /\ \E M : sequence \in Seq(M)

\* The sequence, instruction by instruction.
LEMMA SequenceIs ==
    ASSUME NEW S, NEW tx, NEW n,
           RefreshReserves(tx.frame, tx.reserve) \in Seq(S),
           n = Len(RefreshReserves(tx.frame, tx.reserve)), n \in Nat \ {0}
    PROVE  SequenceShape(KaminoSequence(tx), tx, n)
<1> DEFINE r == RefreshReserves(tx.frame, tx.reserve)
           M == {RefreshReserve(x) : x \in S}
                    \cup {RefreshObligation(tx.frame), Act(tx)}
           a == [i \in DOMAIN r |-> RefreshReserve(r[i])]
           b == <<RefreshObligation(tx.frame), Act(tx)>>
<1>1. DOMAIN r = 1..n /\ n \in Nat /\ \A i \in 1..n : r[i] \in S
  BY LenProperties, ElementOfSeq
<1>2. KaminoSequence(tx) = a \o b
  BY DEF KaminoSequence
<1>3. b \in Seq(M) /\ Len(b) = 2
  OBVIOUS
<1>4. b[1] = RefreshObligation(tx.frame) /\ b[2] = Act(tx)
  OBVIOUS
<1> HIDE DEF r
<1>5. a \in [1..n -> M] /\ \A i \in 1..n : a[i] = RefreshReserve(r[i])
  BY <1>1
<1> HIDE DEF M, a, b
<1>6. a \in Seq(M)
  BY <1>1, <1>5, SeqDef
<1>7. Len(a) = n
  BY <1>1, <1>5, <1>6, LenProperties
<1>8. /\ a \o b \in Seq(M) /\ Len(a \o b) = Len(a) + Len(b)
      /\ Len(a) \in Nat /\ Len(b) \in Nat
      /\ \A i \in 1..Len(a) : (a \o b)[i] = a[i]
      /\ \A i \in (Len(a) + 1)..(Len(a) + Len(b)) :
            (a \o b)[i] = b[i - Len(a)]
  BY <1>3, <1>6, Joined
<1>9. Len(a \o b) = n + 2 /\ DOMAIN (a \o b) = 1..(n + 2)
  BY <1>1, <1>3, <1>7, <1>8, LenProperties
<1>10. \A i \in 1..n : (a \o b)[i] = RefreshReserve(r[i])
  BY <1>5, <1>7, <1>8
<1>11. (a \o b)[n + 1] = b[1]
  <2>1. n + 1 \in (n + 1)..(n + 2) /\ (n + 1) - n = 1
    BY <1>1
  <2> QED
    BY <1>3, <1>7, <1>8, <2>1
<1>12. (a \o b)[n + 2] = b[2]
  <2>1. n + 2 \in (n + 1)..(n + 2) /\ (n + 2) - n = 2
    BY <1>1
  <2> QED
    BY <1>3, <1>7, <1>8, <2>1
<1> QED
  BY <1>2, <1>4, <1>9, <1>8, <1>10, <1>11, <1>12 DEF SequenceShape, r

\* The sequence of a frame whose sections list reserves.
LEMMA SequenceRefreshes ==
    ASSUME NEW S, NEW tx, tx.reserve \in S,
           DepositReserves(tx.frame) \in Seq(S),
           BorrowReserves(tx.frame) \in Seq(S)
    PROVE  \E n \in Nat \ {0}, r \in Seq(S) :
                /\ r = RefreshReserves(tx.frame, tx.reserve) /\ n = Len(r)
                /\ SequenceShape(KaminoSequence(tx), tx, n)
                /\ Distinct(r) /\ r[n] = tx.reserve
                /\ Range(r) = Range(DepositReserves(tx.frame))
                                \cup Range(BorrowReserves(tx.frame))
                                \cup {tx.reserve}
<1> DEFINE r == RefreshReserves(tx.frame, tx.reserve)
<1>1. /\ r \in Seq(S) /\ Distinct(r)
      /\ Range(r) = Range(DepositReserves(tx.frame))
                        \cup Range(BorrowReserves(tx.frame)) \cup {tx.reserve}
      /\ Len(r) \in Nat \ {0} /\ r[Len(r)] = tx.reserve
  BY RefreshReservesOnce
<1>2. SequenceShape(KaminoSequence(tx), tx, Len(r))
  BY <1>1, SequenceIs
<1> HIDE DEF r
<1> QED
  BY <1>1, <1>2 DEF r

\* The keys of two account lists, one after the other.
LEMMA KeysJoined ==
    ASSUME NEW K, NEW a \in Seq(Metas(K)), NEW b \in Seq(Metas(K))
    PROVE  Keys(a \o b) = Keys(a) \o Keys(b)
<1>1. /\ a \o b \in Seq(Metas(K)) /\ Len(a \o b) = Len(a) + Len(b)
      /\ Len(a) \in Nat /\ Len(b) \in Nat
      /\ \A i \in 1..Len(a) : (a \o b)[i] = a[i]
      /\ \A i \in (Len(a) + 1)..(Len(a) + Len(b)) : (a \o b)[i] = b[i - Len(a)]
  BY Joined
<1>2. /\ Keys(a) \in Seq(K) /\ Len(Keys(a)) = Len(a)
      /\ \A i \in 1..Len(a) : Keys(a)[i] = a[i].key
  BY KeysOf
<1>3. /\ Keys(b) \in Seq(K) /\ Len(Keys(b)) = Len(b)
      /\ \A i \in 1..Len(b) : Keys(b)[i] = b[i].key
  BY KeysOf
<1>4. /\ Keys(a \o b) \in Seq(K) /\ Len(Keys(a \o b)) = Len(a \o b)
      /\ \A i \in 1..Len(a \o b) : Keys(a \o b)[i] = (a \o b)[i].key
  BY <1>1, KeysOf
<1> DEFINE s == Keys(a)
           t == Keys(b)
<1>4a. s \in Seq(K) /\ t \in Seq(K)
  BY <1>2, <1>3
<1> HIDE DEF s, t
<1>5. /\ s \o t \in Seq(K) /\ Len(s \o t) = Len(s) + Len(t)
      /\ Len(s) \in Nat /\ Len(t) \in Nat
      /\ \A i \in 1..Len(s) : (s \o t)[i] = s[i]
      /\ \A i \in (Len(s) + 1)..(Len(s) + Len(t)) : (s \o t)[i] = t[i - Len(s)]
  BY <1>4a, Joined
<1>6. ASSUME NEW i \in 1..(Len(a) + Len(b)) PROVE Keys(a \o b)[i] = (s \o t)[i]
  <2>1. CASE i <= Len(a)
    <3>1. i \in 1..Len(a) /\ i \in 1..Len(s) /\ i \in 1..Len(a \o b)
      BY <1>1, <1>2, <2>1 DEF s
    <3>2. (a \o b)[i] = a[i] /\ (s \o t)[i] = s[i] /\ s[i] = a[i].key
      BY <1>1, <1>2, <1>5, <3>1 DEF s
    <3> QED
      BY <1>4, <3>1, <3>2
  <2>2. CASE ~(i <= Len(a))
    <3>1. /\ i \in (Len(a) + 1)..(Len(a) + Len(b))
          /\ i \in (Len(s) + 1)..(Len(s) + Len(t))
          /\ i - Len(a) \in 1..Len(b) /\ i \in 1..Len(a \o b) /\ Len(s) = Len(a)
      BY <1>1, <1>2, <1>3, <2>2 DEF s, t
    <3>2. /\ (a \o b)[i] = b[i - Len(a)] /\ (s \o t)[i] = t[i - Len(a)]
          /\ t[i - Len(a)] = b[i - Len(a)].key
      BY <1>1, <1>3, <1>5, <3>1 DEF t
    <3> QED
      BY <1>4, <3>1, <3>2
  <2> QED
    BY <2>1, <2>2
<1>7. Len(Keys(a \o b)) = Len(s \o t)
  BY <1>1, <1>2, <1>3, <1>4, <1>5 DEF s, t
<1>8. Keys(a \o b) = s \o t
  <2>1. \A i \in 1..Len(Keys(a \o b)) : Keys(a \o b)[i] = (s \o t)[i]
    BY <1>1, <1>4, <1>6
  <2> QED
    BY <1>4, <1>5, <1>7, <2>1, SeqEqual
<1> QED
  BY <1>8 DEF s, t

\* The two loops find the same reserves in the same order.
LEMMA SameReserves ==
    ASSUME NEW f \in Seq(AccountMeta), Delimited(f), NEW current
    PROVE  RefreshInfos(f, current) = RefreshReserves(f, current)
<1> DEFINE K == Reserves \cup Range(ReferrerStates) \cup {KLEND, NullKey}
           a == DepositMetas(f)
           b == BorrowMetas(f)
<1>1. f \in Seq(Metas(K))
  BY DEF AccountMeta, Metas
<1> HIDE DEF K
<1>2. a \in Seq(Metas(K \ {KLEND})) /\ b \in Seq(Metas(K \ {KLEND}))
  BY <1>1, SectionsAre
<1>3. Keys(a \o b) = Keys(a) \o Keys(b)
  BY <1>2, KeysJoined
<1>4. Keys(a \o b) = DepositReserves(f) \o BorrowReserves(f)
  BY <1>3 DEF DepositReserves, BorrowReserves
<1> QED
  BY <1>4, TwoLoops

\* One account list per instruction, and each has what the instruction names.
LEMMA InfosPaired ==
    ASSUME NEW tx \in Transaction, AdapterAccepts(tx)
    PROVE  /\ Len(AccountInfos(tx)) = Len(KaminoSequence(tx))
           /\ Invocable(KaminoSequence(tx), AccountInfos(tx))
           /\ SubSeq(KaminoSequence(tx), 1, Len(AccountInfos(tx))) = KaminoSequence(tx)
<1> DEFINE f == tx.frame
           K == Reserves \cup Range(ReferrerStates) \cup {KLEND, NullKey}
           D == DepositReserves(f)
           B == BorrowReserves(f)
           R == ReferrerTokenStates(f)
           sequence == KaminoSequence(tx)
<1>1. f \in Seq(AccountMeta) /\ Delimited(f) /\ tx.reserve \in K
  BY DEF Transaction, AdapterAccepts, FrameValid
<1>2. D \in Seq(K) /\ B \in Seq(K) /\ R \in Seq(K)
  <2>1. f \in Seq(Metas(K))
    BY <1>1 DEF AccountMeta, Metas
  <2> HIDE DEF K
  <2>2. D \in Seq(K \ {KLEND}) /\ B \in Seq(K \ {KLEND}) /\ R \in Seq(K \ {KLEND})
    BY <1>1, <2>1, SectionsAre
  <2> QED
    BY <2>2, SeqMonotonic
<1> HIDE DEF K
<1>3. PICK n \in Nat \ {0}, r \in Seq(K) :
            /\ r = RefreshReserves(tx.frame, tx.reserve) /\ n = Len(r)
            /\ SequenceShape(sequence, tx, n)
  BY <1>1, <1>2, SequenceRefreshes
<1>4. r = RefreshInfos(tx.frame, tx.reserve)
  BY <1>1, <1>3, SameReserves
<1> DEFINE a == [i \in DOMAIN r |-> <<r[i]>>]
           whole == D \o B \o R
           b == <<whole, <<tx.reserve>>>>
<1>5. AccountInfos(tx) = a \o b
  BY <1>4 DEF AccountInfos, DepositReserves, BorrowReserves, ReferrerTokenStates
<1>6. /\ whole \in Seq(K) /\ D \o B \in Seq(K)
      /\ Range(whole) = Range(D \o B) \cup Range(R)
  <2>1. D \o B \in Seq(K)
    BY <1>2, ConcatProperties
  <2>2. (D \o B) \o R \in Seq(K)
    BY <1>2, <2>1, ConcatProperties
  <2>3. Range((D \o B) \o R) = Range(D \o B) \cup Range(R)
    <3> DEFINE u == D \o B
    <3> HIDE DEF u, D, B, R
    <3>1. u \in Seq(K) /\ R \in Seq(K)
      BY <1>2, <2>1 DEF u
    <3>2. Range(u \o R) = Range(u) \cup Range(R)
      BY <3>1, RangeConcatenation
    <3> QED
      BY <3>2 DEF u
  <2> QED
    BY <2>1, <2>2, <2>3
<1> HIDE DEF sequence, whole
<1>7. /\ DOMAIN r = 1..n /\ n \in Nat /\ \A i \in 1..n : r[i] \in K
  BY <1>3, LenProperties, ElementOfSeq
<1>8. a \in [1..n -> Seq(K)] /\ \A i \in 1..n : a[i] = <<r[i]>>
  BY <1>7
<1>9. b \in Seq(Seq(K)) /\ Len(b) = 2 /\ b[1] = whole /\ b[2] = <<tx.reserve>>
  BY <1>1, <1>6
<1> HIDE DEF a, b
<1>10. a \in Seq(Seq(K)) /\ Len(a) = n
  <2>1. a \in Seq(Seq(K))
    BY <1>7, <1>8, SeqDef
  <2> QED
    BY <1>7, <1>8, <2>1, LenProperties
<1>11. /\ a \o b \in Seq(Seq(K)) /\ Len(a \o b) = Len(a) + Len(b)
       /\ Len(a) \in Nat /\ Len(b) \in Nat
       /\ \A i \in 1..Len(a) : (a \o b)[i] = a[i]
       /\ \A i \in (Len(a) + 1)..(Len(a) + Len(b)) : (a \o b)[i] = b[i - Len(a)]
  BY <1>9, <1>10, Joined
<1> DEFINE infos == a \o b
<1>12. /\ Len(infos) = n + 2 /\ DOMAIN infos = 1..(n + 2)
       /\ \A i \in 1..n : infos[i] = <<r[i]>>
  BY <1>7, <1>8, <1>9, <1>10, <1>11, LenProperties
<1>13. infos[n + 1] = whole /\ infos[n + 2] = <<tx.reserve>>
  <2>1. /\ n + 1 \in (n + 1)..(n + 2) /\ (n + 1) - n = 1
        /\ n + 2 \in (n + 1)..(n + 2) /\ (n + 2) - n = 2
    BY <1>7
  <2>2. infos[n + 1] = b[1] /\ infos[n + 2] = b[2]
    BY <1>9, <1>10, <1>11, <2>1
  <2> QED
    BY <1>9, <2>2
<1> HIDE DEF infos
<1>14. /\ Len(sequence) = n + 2
       /\ \A i \in 1..n : sequence[i] = RefreshReserve(r[i])
       /\ sequence[n + 1] = RefreshObligation(f)
       /\ sequence[n + 2] = Act(tx)
  BY <1>3 DEF SequenceShape
<1>15. \A x : Range(<<x>>) = {x}
  BY RangeOfOne
<1>16. ASSUME NEW i \in 1..n
       PROVE  Accounts(sequence[i]) \subseteq Range(infos[i])
  <2>1. /\ sequence[i].op = "refresh_reserve" /\ sequence[i].reserve = r[i]
    <3>1. sequence[i] = RefreshReserve(r[i])
      BY <1>14
    <3> QED
      BY <3>1 DEF RefreshReserve
  <2>2. Accounts(sequence[i]) = {r[i]}
    BY <2>1 DEF Accounts
  <2> QED
    BY <1>12, <1>15, <2>2
<1>17. Accounts(sequence[n + 1]) \subseteq Range(infos[n + 1])
  <2>1. /\ sequence[n + 1].op = "refresh_obligation"
        /\ sequence[n + 1].positions = D \o B /\ sequence[n + 1].referrers = R
    BY <1>14 DEF RefreshObligation
  <2>2. Accounts(sequence[n + 1]) = Range(D \o B) \cup Range(R)
    BY <2>1 DEF Accounts
  <2> QED
    BY <1>6, <1>13, <2>2
<1>18. Accounts(sequence[n + 2]) \subseteq Range(infos[n + 2])
  <2>1. sequence[n + 2].op # "refresh_obligation" /\ sequence[n + 2].reserve = tx.reserve
    BY <1>14 DEF Act, Transaction
  <2>2. Accounts(sequence[n + 2]) = {tx.reserve}
    BY <2>1 DEF Accounts
  <2> QED
    BY <1>13, <1>15, <2>2
<1>19. \A i \in DOMAIN infos : Accounts(sequence[i]) \subseteq Range(infos[i])
  <2>1. \A i \in 1..(n + 2) : i \in 1..n \/ i = n + 1 \/ i = n + 2
    BY <1>7
  <2> QED
    BY <1>12, <1>16, <1>17, <1>18, <2>1
<1>20. Invocable(sequence, infos)
  BY <1>12, <1>14, <1>19 DEF Invocable
<1>21. SubSeq(sequence, 1, Len(sequence)) = sequence
  <2>1. PICK M : sequence \in Seq(M)
    BY <1>3 DEF SequenceShape
  <2> QED
    BY <2>1, WholeSubSeq
<1> QED
  BY <1>5, <1>12, <1>14, <1>20, <1>21 DEF sequence, infos

\* What the sequence of an accepted transaction refreshes.
LEMMA RefreshedOnce ==
    ASSUME NEW tx \in Transaction, AdapterAccepts(tx)
    PROVE  LET sequence == KaminoSequence(tx)
               n        == Len(sequence)
               refreshed == [i \in 1..(n - 2) |-> sequence[i].reserve]
               infos    == AccountInfos(tx)
           IN  /\ Distinct(refreshed)
               /\ Range(refreshed) = Range(DepositReserves(tx.frame))
                                       \cup Range(BorrowReserves(tx.frame))
                                       \cup {tx.reserve}
               /\ refreshed[n - 2] = tx.reserve
               /\ sequence[n - 1].op = "refresh_obligation"
               /\ sequence[n].op = tx.disc
               /\ Len(infos) = n /\ Invocable(sequence, infos)
<1> DEFINE f == tx.frame
           sequence == KaminoSequence(tx)
<1>1. f \in Seq(AccountMeta) /\ FrameValid(f) /\ tx.reserve \in Reserves
  BY DEF Transaction, AdapterAccepts
<1>2. PinnedList(DepositReserves(f)) /\ PinnedList(BorrowReserves(f))
  BY <1>1, AcceptedFrame
<1>3. DepositReserves(f) \in Seq(Reserves) /\ BorrowReserves(f) \in Seq(Reserves)
  <2>1. PinnedReserves \subseteq Reserves
    BY DEF Reserves
  <2> QED
    BY <1>2, <2>1, SeqMonotonic DEF PinnedList
<1>4. PICK n \in Nat \ {0}, r \in Seq(Reserves) :
                /\ r = RefreshReserves(f, tx.reserve) /\ n = Len(r)
                /\ SequenceShape(sequence, tx, n)
                /\ Distinct(r) /\ r[n] = tx.reserve
                /\ Range(r) = Range(DepositReserves(f))
                                \cup Range(BorrowReserves(f)) \cup {tx.reserve}
  BY <1>1, <1>3, SequenceRefreshes
<1> HIDE DEF sequence
<1>5. /\ Len(sequence) = n + 2
      /\ \A i \in 1..n : sequence[i] = RefreshReserve(r[i])
      /\ sequence[n + 1] = RefreshObligation(f)
      /\ sequence[n + 2] = Act(tx)
  BY <1>4 DEF SequenceShape
<1> DEFINE refreshed == [i \in 1..n |-> sequence[i].reserve]
<1>6. refreshed = r
  <2>1. ASSUME NEW i \in 1..n PROVE sequence[i].reserve = r[i]
    <3>1. sequence[i] = RefreshReserve(r[i])
      BY <1>5
    <3> QED
      BY <3>1 DEF RefreshReserve
  <2>2. r \in [1..n -> Reserves]
    BY <1>4, LenProperties
  <2> QED
    BY <2>1, <2>2
<1>7. Len(sequence) - 2 = n /\ Len(sequence) - 1 = n + 1
  BY <1>5
<1>8. /\ sequence[Len(sequence) - 1].op = "refresh_obligation"
      /\ sequence[Len(sequence)].op = tx.disc
  BY <1>5, <1>7 DEF RefreshObligation, Act
<1> HIDE DEF refreshed, f
<1>9. /\ Distinct(refreshed) /\ refreshed[n] = tx.reserve
      /\ Range(refreshed) = Range(DepositReserves(f))
                                \cup Range(BorrowReserves(f)) \cup {tx.reserve}
  BY <1>4, <1>6
<1>10. /\ Len(AccountInfos(tx)) = Len(sequence)
       /\ Invocable(sequence, AccountInfos(tx))
  BY InfosPaired DEF sequence
<1> QED
  BY <1>7, <1>8, <1>9, <1>10 DEF refreshed, sequence, f

(* Of any frame accepted, however long, the sequence refreshes each        *)
(* reserve once, the transaction's own last, then the obligation, then     *)
(* acts; the account list pairs up with it, instruction by instruction     *)
(* (build_kamino_deposit_sequence and the second loop, cpi_adapter_kamino).*)
THEOREM RefreshAlwaysOnceInOrder == Spec => []RefreshedOnceInOrder
<1>1. TypeOK => RefreshedOnceInOrder
  BY RefreshedOnce DEF TypeOK, RefreshedOnceInOrder
<1> QED
  BY <1>1, KaminoTypes, PTL

-----------------------------------------------------------------------------
(* A frame composed from the obligation as it is. *)

\* What is fresh after n refreshes.
LEMMA FreshAfter ==
    ASSUME NEW S, NEW sequence, NEW tx, NEW n, NEW r \in Seq(S),
           r = RefreshReserves(tx.frame, tx.reserve), n = Len(r),
           SequenceShape(sequence, tx, n), NEW i \in {n + 1, n + 2}
    PROVE  Range(r) \subseteq FreshBefore(sequence, i)
<1>1. /\ n \in Nat /\ Range(r) = {r[j] : j \in 1..n}
      /\ \A j \in 1..n : sequence[j] = RefreshReserve(r[j])
  BY RangeEquality DEF SequenceShape
<1> SUFFICES ASSUME NEW j \in 1..n PROVE r[j] \in FreshBefore(sequence, i)
  BY <1>1
<1>2. sequence[j].op = "refresh_reserve" /\ sequence[j].reserve = r[j]
  <2>1. sequence[j] = RefreshReserve(r[j])
    BY <1>1
  <2> QED
    BY <2>1 DEF RefreshReserve
<1>3. j \in 1..(i - 1)
  BY <1>1
<1> QED
  BY <1>2, <1>3 DEF FreshBefore

\* The arm and KLend both accept it.
LEMMA CurrentAccepted ==
    ASSUME obligation \in Obligation, NEW tx \in Transaction,
           tx.frame = ObligationFrame, tx.owner_signed, tx.layout = tx.disc,
           {tx.reserve} \cup Range(obligation.deposits)
                \cup Range(obligation.borrows) \subseteq PinnedReserves,
           tx.disc = "withdraw" => tx.reserve \in Range(obligation.deposits)
    PROVE  AdapterAccepts(tx) /\ Runs(tx)
<1> DEFINE D == obligation.deposits
           B == obligation.borrows
           R == ObligationReferrers
           f == tx.frame
           sequence == KaminoSequence(tx)
<1>1. /\ D \in Seq(Reserves) /\ Distinct(D) /\ Range(D) \subseteq PinnedReserves
      /\ B \in Seq(Reserves) /\ Distinct(B) /\ Range(B) \subseteq PinnedReserves
  <2>1. D \in Positions /\ B \in Positions
    BY DEF Obligation
  <2> QED
    BY <2>1, PositionsAreLists
<1>2. D \in Seq(PinnedReserves) /\ B \in Seq(PinnedReserves)
  BY <1>1, SeqOfRange, SeqMonotonic
<1>3. PinnedList(D) /\ PinnedList(B)
  BY <1>1, <1>2 DEF PinnedList
<1>4. ReferrerList(R, B)
  BY ReferrersOfBorrows
<1>5. f = FrameOf(D, B, R)
  BY DEF ObligationFrame
<1>6. /\ FrameValid(f)
      /\ DepositReserves(f) = D /\ BorrowReserves(f) = B
      /\ ReferrerTokenStates(f) = R
  BY <1>3, <1>4, <1>5, ComposedFrame
<1>7. /\ tx.disc \in {"deposit", "withdraw"} /\ tx.reserve \in PinnedReserves
  BY DEF Transaction
<1>8. AdapterAccepts(tx)
  BY <1>6, <1>7 DEF AdapterAccepts, ReserveListed, Listed, AccountsPinned
<1>9. PICK n \in Nat \ {0}, r \in Seq(PinnedReserves) :
            /\ r = RefreshReserves(tx.frame, tx.reserve) /\ n = Len(r)
            /\ SequenceShape(sequence, tx, n)
            /\ Range(r) = Range(D) \cup Range(B) \cup {tx.reserve}
  <2>1. /\ DepositReserves(tx.frame) \in Seq(PinnedReserves)
        /\ BorrowReserves(tx.frame) \in Seq(PinnedReserves)
    BY <1>2, <1>6
  <2>2. PICK n \in Nat \ {0}, r \in Seq(PinnedReserves) :
            /\ r = RefreshReserves(tx.frame, tx.reserve) /\ n = Len(r)
            /\ SequenceShape(sequence, tx, n)
            /\ Range(r) = Range(DepositReserves(tx.frame))
                                \cup Range(BorrowReserves(tx.frame))
                                \cup {tx.reserve}
    BY <1>7, <2>1, SequenceRefreshes
  <2> QED
    BY <1>6, <2>2
<1>10. Range(D \o B) = Range(D) \cup Range(B)
  BY <1>1, RangeConcatenation
<1> HIDE DEF sequence
<1>11. /\ DOMAIN sequence = 1..(n + 2)
       /\ \A i \in 1..n : sequence[i] = RefreshReserve(r[i])
       /\ sequence[n + 1] = RefreshObligation(f)
       /\ sequence[n + 2] = Act(tx)
  BY <1>9 DEF SequenceShape
<1>12. ASSUME NEW i \in {n + 1, n + 2} PROVE Range(r) \subseteq FreshBefore(sequence, i)
  BY <1>9, FreshAfter
<1>13. /\ sequence[n + 1].op = "refresh_obligation"
       /\ sequence[n + 1].positions = D \o B
       /\ sequence[n + 1].referrers = R
  <2>1. /\ sequence[n + 1].op = "refresh_obligation"
        /\ sequence[n + 1].positions = DepositReserves(f) \o BorrowReserves(f)
        /\ sequence[n + 1].referrers = ReferrerTokenStates(f)
    BY <1>11 DEF RefreshObligation
  <2>2. DepositReserves(f) \o BorrowReserves(f) = D \o B
    BY <1>6
  <2> QED
    BY <1>6, <2>1, <2>2
<1>14. /\ sequence[n + 2].op = tx.disc /\ sequence[n + 2].reserve = tx.reserve
  BY <1>11 DEF Act
<1> DEFINE Accepted(i) ==
        CASE sequence[i].op = "refresh_reserve" -> TRUE
          [] sequence[i].op = "refresh_obligation" ->
                /\ sequence[i].positions = obligation.deposits \o obligation.borrows
                /\ sequence[i].referrers = ObligationReferrers
                /\ Range(sequence[i].positions) \subseteq FreshBefore(sequence, i)
          [] OTHER ->
                /\ \E j \in 1..(i - 1) : sequence[j].op = "refresh_obligation"
                /\ sequence[i].reserve \in FreshBefore(sequence, i)
                /\ sequence[i].op = "withdraw" =>
                        sequence[i].reserve \in Range(obligation.deposits)
<1>15. ASSUME NEW i \in 1..n PROVE Accepted(i)
  <2>1. sequence[i] = RefreshReserve(r[i])
    BY <1>11
  <2>2. sequence[i].op = "refresh_reserve"
    BY <2>1 DEF RefreshReserve
  <2> QED
    BY <2>2
<1>16. Accepted(n + 1)
  <2>1. Range(D \o B) \subseteq FreshBefore(sequence, n + 1)
    BY <1>9, <1>10, <1>12
  <2> QED
    BY <1>13, <2>1
<1>17. Accepted(n + 2)
  <2>1. n + 1 \in 1..((n + 2) - 1)
    OBVIOUS
  <2>2. tx.reserve \in FreshBefore(sequence, n + 2)
    BY <1>9, <1>12
  <2>3. /\ sequence[n + 2].op # "refresh_reserve"
        /\ sequence[n + 2].op # "refresh_obligation"
    BY <1>7, <1>14
  <2>4. /\ \E j \in 1..((n + 2) - 1) : sequence[j].op = "refresh_obligation"
        /\ sequence[n + 2].reserve \in FreshBefore(sequence, n + 2)
        /\ sequence[n + 2].op = "withdraw" =>
                sequence[n + 2].reserve \in Range(obligation.deposits)
    BY <1>13, <1>14, <2>1, <2>2
  <2> QED
    BY <2>3, <2>4
<1> HIDE DEF Accepted
<1>18. \A i \in DOMAIN sequence : Accepted(i)
  BY <1>11, <1>15, <1>16, <1>17
<1>19. KLendAccepts(sequence)
  BY <1>18 DEF KLendAccepts, Accepted
<1>20. Runs(tx)
  <2>1. /\ Invocable(sequence, AccountInfos(tx))
        /\ SubSeq(sequence, 1, Len(AccountInfos(tx))) = sequence
    BY <1>8, InfosPaired DEF sequence
  <2> QED
    BY <1>19, <2>1 DEF Runs, sequence
<1> QED
  BY <1>8, <1>20

(* A client that composed its frame from the obligation as it still is is  *)
(* never refused, whatever it holds and borrows in pinned reserves and     *)
(* with or without a referrer (cpi_adapter_kamino, as KLend is relied on). *)
THEOREM CurrentFrameAlwaysAccepted == Spec => []CurrentFrameAccepted
<1>1. TypeOK => CurrentFrameAccepted
  BY CurrentAccepted DEF TypeOK, CurrentFrameAccepted
<1> QED
  BY <1>1, KaminoTypes, PTL

-----------------------------------------------------------------------------
(* A transaction that lands. *)

\* Lists joined to the same list, the second ones of one length, are the same.
LEMMA SameSplit ==
    ASSUME NEW S, NEW a \in Seq(S), NEW b \in Seq(S), NEW c \in Seq(S),
           NEW d \in Seq(S), a \o b = c \o d, Len(b) = Len(d)
    PROVE  a = c /\ b = d
<1>1. /\ Len(a \o b) = Len(a) + Len(b) /\ Len(a) \in Nat /\ Len(b) \in Nat
      /\ \A i \in 1..Len(a) : (a \o b)[i] = a[i]
      /\ \A i \in (Len(a) + 1)..(Len(a) + Len(b)) : (a \o b)[i] = b[i - Len(a)]
  BY Joined
<1>2. /\ Len(c \o d) = Len(c) + Len(d) /\ Len(c) \in Nat /\ Len(d) \in Nat
      /\ \A i \in 1..Len(c) : (c \o d)[i] = c[i]
      /\ \A i \in (Len(c) + 1)..(Len(c) + Len(d)) : (c \o d)[i] = d[i - Len(c)]
  BY Joined
<1>3. Len(a) = Len(c)
  BY <1>1, <1>2
<1>4. \A i \in 1..Len(a) : a[i] = c[i]
  BY <1>1, <1>2, <1>3
<1>5. ASSUME NEW i \in 1..Len(b) PROVE b[i] = d[i]
  <2>1. /\ i + Len(a) \in (Len(a) + 1)..(Len(a) + Len(b))
        /\ (i + Len(a)) - Len(a) = i
    BY <1>1
  <2> QED
    BY <1>1, <1>2, <1>3, <2>1
<1>6. a = c
  BY <1>3, <1>4, SeqEqual
<1>7. b = d
  BY <1>5, SeqEqual
<1> QED
  BY <1>6, <1>7

\* What both the arm and KLend accepted.
LEMMA LandingStep ==
    ASSUME obligation \in Obligation, NEW tx \in Transaction,
           AdapterAccepts(tx), Runs(tx)
    PROVE  LandsOn(tx)
<1> DEFINE f == tx.frame
           D == DepositReserves(f)
           B == BorrowReserves(f)
           R == ReferrerTokenStates(f)
           sequence == KaminoSequence(tx)
<1>1. f \in Seq(AccountMeta) /\ FrameValid(f) /\ tx.reserve \in PinnedReserves
  BY DEF Transaction, AdapterAccepts, AccountsPinned
<1>2. /\ PinnedList(D) /\ PinnedList(B) /\ ReferrerList(R, B)
      /\ f = FrameOf(D, B, R)
  BY <1>1, AcceptedFrame
<1>3. D \in Seq(PinnedReserves) /\ B \in Seq(PinnedReserves)
  BY <1>2 DEF PinnedList
<1>4. PICK n \in Nat \ {0} : SequenceShape(sequence, tx, n)
  BY <1>1, <1>3, SequenceRefreshes
<1>5. n + 1 \in DOMAIN sequence /\ sequence[n + 1] = RefreshObligation(f)
  BY <1>4 DEF SequenceShape
<1> HIDE DEF sequence, D, B, R
<1>6. /\ sequence[n + 1].op = "refresh_obligation"
      /\ sequence[n + 1].positions = D \o B
      /\ sequence[n + 1].referrers = R
  BY <1>5 DEF RefreshObligation, D, B, R
<1>7. D \o B = obligation.deposits \o obligation.borrows /\ R = ObligationReferrers
  <2>1. KLendAccepts(sequence)
    <3>1. SubSeq(KaminoSequence(tx), 1, Len(AccountInfos(tx))) = KaminoSequence(tx)
      BY InfosPaired
    <3> QED
      BY <3>1 DEF Runs, sequence
  <2> QED
    BY <1>5, <1>6, <2>1 DEF KLendAccepts
<1>8. /\ obligation.deposits \in Seq(Reserves) /\ obligation.borrows \in Seq(Reserves)
  <2>1. obligation.deposits \in Positions /\ obligation.borrows \in Positions
    BY DEF Obligation
  <2> QED
    BY <2>1, PositionsAreLists
<1>9. Range(obligation.deposits) \cup Range(obligation.borrows) \subseteq PinnedReserves
  <2>1. Range(D \o B) = Range(obligation.deposits) \cup Range(obligation.borrows)
    BY <1>7, <1>8, RangeConcatenation
  <2>2. Range(D) \subseteq PinnedReserves /\ Range(B) \subseteq PinnedReserves
    BY <1>3, RangeEquality, ElementOfSeq
  <2>3. Range(D \o B) = Range(D) \cup Range(B)
    BY <1>3, RangeConcatenation
  <2> QED
    BY <2>1, <2>2, <2>3
<1>10. ASSUME HasReferrer, obligation.borrows # <<>> PROVE f = ObligationFrame
  <2>1. Len(R) = Len(obligation.borrows) /\ R # <<>>
    <3>1. R \in Seq(Range(ReferrerStates)) /\ ReferrerList(R, obligation.borrows)
      BY <1>7, ReferrersOfBorrows
    <3>2. R = [i \in DOMAIN obligation.borrows |->
                ReferrerState(obligation.borrows[i])]
      BY <1>7, <1>10 DEF ObligationReferrers
    <3>3. /\ Len(obligation.borrows) \in Nat \ {0}
          /\ DOMAIN obligation.borrows = 1..Len(obligation.borrows)
      BY <1>8, <1>10, EmptySeq, LenProperties
    <3>4. DOMAIN R = 1..Len(obligation.borrows)
      BY <3>2, <3>3
    <3>5. DOMAIN R = 1..Len(R) /\ Len(R) \in Nat
      BY <3>1, LenProperties
    <3>6. Len(R) # 0
      BY <3>3, <3>4, <3>5
    <3>7. R # <<>>
      BY <3>6, EmptySeq
    <3> QED
      BY <3>1, <3>7 DEF ReferrerList
  <2>2. Len(B) = Len(obligation.borrows)
    BY <1>2, <2>1 DEF ReferrerList
  <2>3. D \in Seq(Reserves) /\ B \in Seq(Reserves)
    <3>1. PinnedReserves \subseteq Reserves
      BY DEF Reserves
    <3> QED
      BY <1>3, <3>1, SeqMonotonic
  <2>4. D = obligation.deposits /\ B = obligation.borrows
    BY <1>7, <1>8, <2>2, <2>3, SameSplit
  <2> QED
    BY <1>2, <1>7, <2>4 DEF ObligationFrame, D, B, R
<1> QED
  BY <1>7, <1>9, <1>10 DEF LandsOn, D, B

(* A transaction whose frame went stale never lands: at that moment the    *)
(* positions it lists are the obligation's, and with a referrer and a      *)
(* borrow its frame is the one a client would compose then.  A position in *)
(* a reserve the program does not pin keeps every transaction out, a       *)
(* withdrawal too (cpi_adapter_kamino, as KLend is relied on).             *)
THEOREM NothingStaleLands == Spec => StaleNeverLands
<1>1. TypeOK => LandsOnCurrent
  <2> SUFFICES ASSUME TypeOK, NEW tx \in pending, CpiAdapterKamino(tx)
               PROVE  LandsOn(tx)
    BY DEF LandsOnCurrent
  <2> QED
    BY LandingStep DEF TypeOK, CpiAdapterKamino
<1> QED
  BY <1>1, KaminoTypes, PTL DEF Spec, StaleNeverLands
=============================================================================
