--------------------------- MODULE Agents_proofs ----------------------------
(***************************************************************************)
(* What MCAgents checks of what an agent does, proved for every value of   *)
(* the constants: for each part an inductive invariant, that it holds at   *)
(* the start, that each step keeps it, and that it says what the run       *)
(* checks.  The theorems about the specification are at the end.           *)
(***************************************************************************)
EXTENDS MCAgents, FiniteSetTheorems, SequenceTheorems, WellFoundedInduction, TLAPS

-----------------------------------------------------------------------------
\* Bounds of sets of numbers.

\* A set of naturals that is not empty has a least element.
LEMMA LeastOfSet ==
  ASSUME NEW T, T \subseteq Nat, T # {}
  PROVE  \E x \in T : \A y \in T : x <= y
  <1>1. \E x \in T : \A y \in T : ~(<<y, x>> \in OpToRel(<, Nat))
    BY NatLessThanWellFounded, WFMin
  <1>2. PICK x \in T : \A y \in T : ~(<<y, x>> \in OpToRel(<, Nat))
    BY <1>1
  <1>3. \A y \in T : ~(y < x)
    BY <1>2 DEF OpToRel
  <1> QED
    BY <1>3

\* A set of naturals that is not empty and has a bound has a greatest element.
LEMMA GreatestOfSet ==
  ASSUME NEW n \in Nat, NEW T, T \subseteq 0..n, T # {}
  PROVE  \E x \in T : \A y \in T : y <= x
  <1> DEFINE U == {n - x : x \in T}
  <1>1. U \subseteq Nat /\ U # {}
    <2>1. \A x \in T : x \in Nat /\ n - x \in Nat
      OBVIOUS
    <2>2. PICK x : x \in T
      OBVIOUS
    <2>3. n - x \in U
      BY <2>2
    <2> QED
      BY <2>1, <2>3
  <1>2. PICK u \in U : \A y \in U : u <= y
    BY <1>1, LeastOfSet
  <1>3. PICK x \in T : u = n - x
    OBVIOUS
  <1>4. \A y \in T : n - x <= n - y
    BY <1>2, <1>3
  <1>5. \A y \in T : y <= x
    BY <1>4
  <1> QED
    BY <1>5

-----------------------------------------------------------------------------
\* Tasks in parallel.

\* What a sequence without one of its elements is: the others, in their order.
LEMMA RemoveAtValues ==
  ASSUME NEW S, NEW list \in Seq(S), NEW at \in 1..Len(list)
  PROVE  /\ RemoveAt(list, at) \in Seq(S) /\ Len(RemoveAt(list, at)) = Len(list) - 1
         /\ \A m \in 1..(Len(list) - 1) : RemoveAt(list, at)[m] = IF m < at THEN list[m] ELSE list[m + 1]
  <1>1. Len(list) \in Nat /\ DOMAIN list = 1..Len(list)
    OBVIOUS
  <1>2. RemoveAt(list, at) = SubSeq(list, 1, at - 1) \o SubSeq(list, at + 1, Len(list))
    BY DEF RemoveAt
  <1> DEFINE p == SubSeq(list, 1, at - 1)
             q == SubSeq(list, at + 1, Len(list))
  <1>3. /\ p \in Seq(S) /\ Len(p) = at - 1 /\ \A m \in 1..(at - 1) : p[m] = list[m]
        /\ q \in Seq(S) /\ Len(q) = Len(list) - at /\ \A m \in 1..(Len(list) - at) : q[m] = list[at + m]
    <2>1. /\ at \in Int /\ at - 1 \in Int /\ at + 1 \in Int /\ 1 \in Int /\ Len(list) \in Int
          /\ (\A i \in 1..(at - 1) : list[i] \in S) /\ (\A i \in (at + 1)..Len(list) : list[i] \in S)
      BY <1>1
    <2>2. /\ p \in Seq(S) /\ Len(p) = IF 1 <= at - 1 THEN (at - 1) - 1 + 1 ELSE 0
          /\ \A m \in 1..((at - 1) - 1 + 1) : p[m] = list[1 + m - 1]
      <3> DEFINE last == at - 1
      <3>1. last \in Int /\ \A i \in 1..last : list[i] \in S
        BY <2>1
      <3> HIDE DEF last
      <3>2. /\ SubSeq(list, 1, last) \in Seq(S) /\ Len(SubSeq(list, 1, last)) = IF 1 <= last THEN last - 1 + 1 ELSE 0
            /\ \A m \in 1..(last - 1 + 1) : SubSeq(list, 1, last)[m] = list[1 + m - 1]
        BY <2>1, <3>1, SubSeqProperties
      <3> QED
        BY <3>2 DEF last
    <2>3. /\ q \in Seq(S) /\ Len(q) = IF at + 1 <= Len(list) THEN Len(list) - (at + 1) + 1 ELSE 0
          /\ \A m \in 1..(Len(list) - (at + 1) + 1) : q[m] = list[(at + 1) + m - 1]
      BY <2>1, SubSeqProperties
    <2> HIDE DEF p, q
    <2>0. \A l \in Nat : \A a \in 1..l :
            /\ (IF 1 <= a - 1 THEN (a - 1) - 1 + 1 ELSE 0) = a - 1
            /\ (IF a + 1 <= l THEN l - (a + 1) + 1 ELSE 0) = l - a
      OBVIOUS
    <2>4. Len(p) = at - 1 /\ Len(q) = Len(list) - at
      BY <1>1, <2>0, <2>2, <2>3
    <2>5. \A m \in 1..(at - 1) : m \in 1..((at - 1) - 1 + 1) /\ 1 + m - 1 = m
      BY <1>1
    <2>6. \A m \in 1..(Len(list) - at) : m \in 1..(Len(list) - (at + 1) + 1) /\ (at + 1) + m - 1 = at + m
      BY <1>1
    <2> QED
      BY <2>2, <2>3, <2>4, <2>5, <2>6
  <1> HIDE DEF p, q
  <1>4. /\ p \o q \in Seq(S) /\ Len(p \o q) = Len(list) - 1
        /\ \A m \in 1..(Len(list) - 1) : (p \o q)[m] = IF m < at THEN list[m] ELSE list[m + 1]
    <2>1. /\ p \o q \in Seq(S) /\ Len(p \o q) = Len(p) + Len(q)
          /\ \A i \in 1..(Len(p) + Len(q)) : (p \o q)[i] = IF i <= Len(p) THEN p[i] ELSE q[i - Len(p)]
      BY <1>3, ConcatProperties
    <2>2. ASSUME NEW m \in 1..(Len(list) - 1)
          PROVE  (p \o q)[m] = IF m < at THEN list[m] ELSE list[m + 1]
      <3>1. (p \o q)[m] = IF m <= at - 1 THEN p[m] ELSE q[m - (at - 1)]
        BY <1>1, <1>3, <2>1
      <3>2. CASE m < at
        <4>1. m \in 1..(at - 1)
          BY <1>1, <3>2
        <4> QED
          BY <1>3, <3>1, <3>2, <4>1
      <3>3. CASE ~(m < at)
        <4>1. m - (at - 1) \in 1..(Len(list) - at) /\ at + (m - (at - 1)) = m + 1
          BY <1>1, <3>3
        <4> QED
          BY <1>1, <1>3, <3>1, <3>3, <4>1
      <3> QED
        BY <3>2, <3>3
    <2> QED
      BY <1>1, <1>3, <2>1, <2>2
  <1> QED
    BY <1>2, <1>4 DEF p, q

\* The tasks that wait for the semaphore wait once, they and those that hold it have no
\* result yet, and what is done ended by a result or an error.
PtApart ==
  /\ \A i, j \in 1..Len(ptQueue) : ptQueue[i] = ptQueue[j] => i = j
  /\ \A i \in 1..Len(ptQueue) : ptQueue[i] \notin ptHeld /\ ptResult[ptQueue[i]] = "none"
  /\ \A t \in ptHeld : ptResult[t] = "none"
  /\ \A t \in ptDone : ptResult[t] \in {"result", "error"}

\* The inductive invariant: what is called has what it depends on behind it, and a task
\* that is cancelled is not done.
PtInv == PtTypeOK /\ PtDependenciesFirst /\ PtApart

\* A function on 1..k is a sequence.
LEMMA PtSeqOf == \A S : \A k \in Nat : \A f \in [1..k -> S] : f \in Seq(S)
  OBVIOUS

\* What holds of the list of no tasks.
LEMMA PtNoneListed ==
  ASSUME NEW S, NEW b, NEW e, e = << >>
  PROVE  /\ e \in Seq(S) /\ Len(e) \in Nat
         /\ \A i \in 1..Len(e) : e[i] \in b
         /\ \A i, j \in 1..Len(e) : e[i] = e[j] => i = j
  OBVIOUS

\* The tasks of a batch in the order of its list: each of them once.
LEMMA PtListed ==
  ASSUME NEW b \in PtBatches, NEW q, q = [i \in 1..Cardinality(b) |-> (CHOOSE t \in b : \A u \in b : t <= u) + i - 1]
  PROVE  /\ q \in Seq(PtTask) /\ Len(q) \in Nat
         /\ \A i \in 1..Len(q) : q[i] \in b
         /\ \A i, j \in 1..Len(q) : q[i] = q[j] => i = j
  <1>1. b \subseteq Nat /\ IsFiniteSet(b) /\ (b # {} => \E m, n \in b : b = m..n)
    BY PtAssumption
  <1>2. Cardinality(b) \in Nat
    BY <1>1, FS_CardinalityType
  <1>3. CASE b = {}
    <2>1. Cardinality(b) = 0
      BY <1>3, FS_EmptySet
    <2>2. q = << >>
      BY <2>1
    <2> QED
      BY <2>2, PtNoneListed
  <1>4. CASE b # {}
    <2>1. PICK m, n \in b : b = m..n
      BY <1>1, <1>4
    <2>2. m \in Nat /\ n \in Nat /\ m <= n
      BY <1>1, <2>1
    <2>3. Cardinality(b) = n - m + 1
      BY <2>1, <2>2, FS_Interval
    <2>4. (CHOOSE t \in b : \A u \in b : t <= u) = m
      <3>1. m \in b /\ \A u \in b : m <= u
        BY <2>1, <2>2
      <3>2. \A t \in b : (\A u \in b : t <= u) => t = m
        BY <1>1, <3>1, <2>2
      <3> QED
        BY <3>1, <3>2
    <2>5. \A i \in 1..Cardinality(b) : m + i - 1 \in b
      BY <2>1, <2>2, <2>3
    <2>6. b \subseteq PtTask
      BY DEF PtTask
    <2>7. q = [i \in 1..Cardinality(b) |-> m + i - 1]
      BY <2>4
    <2>8. q \in [1..Cardinality(b) -> PtTask]
      BY <2>5, <2>6, <2>7
    <2>9. q \in Seq(PtTask)
      BY <1>2, <2>8, PtSeqOf
    <2>10. Len(q) = Cardinality(b)
      BY <1>2, <2>8, <2>9
    <2>11. \A i \in 1..Len(q) : q[i] = m + i - 1
      BY <2>7, <2>10
    <2>12. \A i \in 1..Len(q) : q[i] \in b
      BY <2>5, <2>10, <2>11
    <2>13. ASSUME NEW i \in 1..Len(q), NEW j \in 1..Len(q), q[i] = q[j] PROVE i = j
      <3>1. m + i - 1 = m + j - 1
        BY <2>11, <2>13
      <3> QED
        BY <2>2, <3>1
    <2>14. Len(q) \in Nat
      BY <1>2, <2>10
    <2> QED
      BY <2>9, <2>12, <2>13, <2>14
  <1> QED
    BY <1>3, <1>4

\* Before the first batch nothing is called.
LEMMA PtBegins == PtInit => PtInv
  BY PtAssumption DEF PtInit, PtInv, PtTypeOK, PtDependenciesFirst, PtApart

\* A batch starts: its tasks wait behind the others.
LEMMA PtStarts ==
  ASSUME PtInv, NEW b \in PtBatches, PtExecute(b)
  PROVE  PtInv'
  <1>1. PtTypeOK /\ PtDependenciesFirst /\ PtApart
    BY DEF PtInv
  <1>2. /\ ptDeps' = ptDeps /\ ptHeld' = ptHeld /\ ptCalled' = ptCalled /\ ptDone' = ptDone
        /\ ptResult' = ptResult /\ ptStopped' = ptStopped
        /\ b \cap (ptHeld \cup PtQueued) = {} /\ \A t \in b : ptResult[t] = "none"
    BY DEF PtExecute
  <1> DEFINE q == [i \in 1..Cardinality(b) |-> (CHOOSE t \in b : \A u \in b : t <= u) + i - 1]
  <1>3. /\ q \in Seq(PtTask) /\ Len(q) \in Nat
        /\ \A i \in 1..Len(q) : q[i] \in b
        /\ \A i, j \in 1..Len(q) : q[i] = q[j] => i = j
    BY PtListed
  <1>4. ptQueue' = ptQueue \o q
    BY DEF PtExecute
  <1> HIDE DEF q
  <1>5. ptQueue \in Seq(PtTask) /\ Len(ptQueue) \in Nat
    BY <1>1 DEF PtTypeOK
  <1>6. /\ ptQueue' \in Seq(PtTask) /\ Len(ptQueue') = Len(ptQueue) + Len(q)
        /\ \A i \in 1..(Len(ptQueue) + Len(q)) :
             ptQueue'[i] = IF i <= Len(ptQueue) THEN ptQueue[i] ELSE q[i - Len(ptQueue)]
    BY <1>3, <1>4, <1>5, ConcatProperties
  <1>7. \A i \in 1..Len(ptQueue) : ptQueue[i] \in PtQueued
    BY <1>5 DEF PtQueued, ToSet
  <1>8. PtTypeOK'
    BY <1>1, <1>2, <1>6 DEF PtTypeOK
  <1>9. PtDependenciesFirst'
    BY <1>1, <1>2 DEF PtDependenciesFirst, PtKnown
  <1>10. \A i \in 1..Len(ptQueue') : \/ i \in 1..Len(ptQueue) /\ ptQueue'[i] = ptQueue[i]
                                     \/ /\ i - Len(ptQueue) \in 1..Len(q) /\ ptQueue'[i] = q[i - Len(ptQueue)]
                                        /\ ~(i <= Len(ptQueue))
    BY <1>3, <1>5, <1>6
  <1>11. ASSUME NEW i \in 1..Len(ptQueue') PROVE ptQueue'[i] \notin ptHeld' /\ ptResult'[ptQueue'[i]] = "none"
    <2>1. CASE i \in 1..Len(ptQueue) /\ ptQueue'[i] = ptQueue[i]
      <3>1. ptQueue[i] \notin ptHeld /\ ptResult[ptQueue[i]] = "none"
        BY <1>1, <2>1 DEF PtApart
      <3> QED
        BY <1>2, <2>1, <3>1
    <2>2. CASE i - Len(ptQueue) \in 1..Len(q) /\ ptQueue'[i] = q[i - Len(ptQueue)]
      <3>1. ptQueue'[i] \in b
        BY <1>3, <2>2
      <3> QED
        BY <1>2, <3>1
    <2> QED
      BY <1>10, <2>1, <2>2
  <1>12. ASSUME NEW i \in 1..Len(ptQueue'), NEW j \in 1..Len(ptQueue'), ptQueue'[i] = ptQueue'[j] PROVE i = j
    <2>1. CASE i \in 1..Len(ptQueue) /\ ptQueue'[i] = ptQueue[i]
      <3>1. CASE j \in 1..Len(ptQueue) /\ ptQueue'[j] = ptQueue[j]
        <4>1. ptQueue[i] = ptQueue[j]
          BY <1>12, <2>1, <3>1
        <4> QED
          BY <1>1, <2>1, <3>1, <4>1 DEF PtApart
      <3>2. CASE j - Len(ptQueue) \in 1..Len(q) /\ ptQueue'[j] = q[j - Len(ptQueue)]
        <4>1. ptQueue'[i] \in PtQueued
          BY <1>7, <2>1
        <4>2. ptQueue'[j] \in b
          BY <1>3, <3>2
        <4> QED
          BY <1>2, <1>12, <4>1, <4>2
      <3> QED
        BY <1>10, <3>1, <3>2
    <2>2. CASE i - Len(ptQueue) \in 1..Len(q) /\ ptQueue'[i] = q[i - Len(ptQueue)]
      <3>1. CASE j \in 1..Len(ptQueue) /\ ptQueue'[j] = ptQueue[j]
        BY <1>2, <1>3, <1>7, <1>12, <2>2, <3>1
      <3>2. CASE j - Len(ptQueue) \in 1..Len(q) /\ ptQueue'[j] = q[j - Len(ptQueue)]
        <4>1. i - Len(ptQueue) = j - Len(ptQueue)
          BY <1>3, <1>12, <2>2, <3>2
        <4> QED
          BY <1>3, <1>5, <1>6, <4>1
      <3> QED
        BY <1>10, <3>1, <3>2
    <2> QED
      BY <1>10, <2>1, <2>2
  <1>13. PtApart'
    BY <1>1, <1>2, <1>11, <1>12 DEF PtApart
  <1> QED
    BY <1>8, <1>9, <1>13 DEF PtInv

\* A slot is given to the first that waits.
LEMMA PtAcquires ==
  ASSUME PtInv, PtAcquire
  PROVE  PtInv'
  <1>1. PtTypeOK /\ PtDependenciesFirst /\ PtApart
    BY DEF PtInv
  <1>2. /\ ptDeps' = ptDeps /\ ptCalled' = ptCalled /\ ptDone' = ptDone
        /\ ptResult' = ptResult /\ ptStopped' = ptStopped
        /\ ptHeld' = ptHeld \cup {Head(ptQueue)} /\ ptQueue' = Tail(ptQueue) /\ ptQueue # << >>
    BY DEF PtAcquire
  <1>3. ptQueue \in Seq(PtTask) /\ Len(ptQueue) \in Nat \ {0}
    BY <1>1, <1>2 DEF PtTypeOK
  <1>4. /\ ptQueue' \in Seq(PtTask) /\ Len(ptQueue') = Len(ptQueue) - 1
        /\ \A i \in 1..Len(ptQueue') : i + 1 \in 1..Len(ptQueue) /\ ptQueue'[i] = ptQueue[i + 1]
        /\ Head(ptQueue) = ptQueue[1] /\ 1 \in 1..Len(ptQueue) /\ ptQueue[1] \in PtTask
    BY <1>2, <1>3
  <1>5. PtTypeOK'
    BY <1>1, <1>2, <1>4 DEF PtTypeOK
  <1>6. PtDependenciesFirst'
    BY <1>1, <1>2 DEF PtDependenciesFirst, PtKnown
  <1>7. \A i \in 1..Len(ptQueue') : ptQueue'[i] # ptQueue[1]
    <2> SUFFICES ASSUME NEW i \in 1..Len(ptQueue'), ptQueue'[i] = ptQueue[1] PROVE FALSE
      OBVIOUS
    <2>1. i + 1 = 1
      BY <1>1, <1>4 DEF PtApart
    <2> QED
      BY <2>1
  <1>8. \A i, j \in 1..Len(ptQueue') : ptQueue'[i] = ptQueue'[j] => i = j
    <2> SUFFICES ASSUME NEW i \in 1..Len(ptQueue'), NEW j \in 1..Len(ptQueue'), ptQueue'[i] = ptQueue'[j] PROVE i = j
      OBVIOUS
    <2>1. i + 1 = j + 1
      BY <1>1, <1>4 DEF PtApart
    <2> QED
      BY <2>1
  <1>9. PtApart'
    BY <1>1, <1>2, <1>4, <1>7, <1>8 DEF PtApart
  <1> QED
    BY <1>5, <1>6, <1>9 DEF PtInv

\* A task that is called has what it depends on behind it, and what is done stays done.
LEMMA PtWorks ==
  ASSUME PtInv, NEW t \in PtTask, PtCall(t) \/ \E r \in {"result", "error"} : PtEnd(t, r)
  PROVE  PtInv'
  <1>1. PtTypeOK /\ PtDependenciesFirst /\ PtApart
    BY DEF PtInv
  <1>2. CASE PtCall(t)
    <2>1. PtTypeOK'
      BY <1>1, <1>2 DEF PtCall, PtTypeOK
    <2>2. PtDependenciesFirst'
      BY <1>1, <1>2 DEF PtCall, PtMayCall, PtDependenciesFirst, PtKnown
    <2>3. PtApart'
      BY <1>1, <1>2 DEF PtCall, PtApart
    <2> QED
      BY <2>1, <2>2, <2>3 DEF PtInv
  <1>3. ASSUME NEW r \in {"result", "error"}, PtEnd(t, r) PROVE PtInv'
    <2>1. PtTypeOK'
      BY <1>1, <1>3 DEF PtEnd, PtTypeOK
    <2>2. \A u \in PtTask : ptResult'[u] = IF u = t THEN r ELSE ptResult[u]
      BY <1>1, <1>3 DEF PtEnd, PtTypeOK
    <2>3. PtDependenciesFirst'
      BY <1>1, <1>3, <2>2 DEF PtEnd, PtDependenciesFirst, PtKnown, PtTypeOK
    <2>4. t \in ptHeld /\ \A i \in 1..Len(ptQueue) : ptQueue[i] \in PtTask /\ ptQueue[i] # t
      BY <1>1, <1>3 DEF PtEnd, PtTypeOK, PtApart
    <2>5. PtApart'
      BY <1>1, <1>3, <2>2, <2>4 DEF PtEnd, PtApart, PtTypeOK
    <2> QED
      BY <2>1, <2>3, <2>5 DEF PtInv
  <1> QED
    BY <1>2, <1>3

\* What is cancelled leaves the queue, the slots and func, and is not completed.
LEMMA PtDrops ==
  ASSUME PtInv, NEW t \in PtTask, PtCancelled(t)
  PROVE  PtInv'
  <1>1. PtTypeOK /\ PtDependenciesFirst /\ PtApart
    BY DEF PtInv
  <1>2. ptQueue \in Seq(PtTask) /\ Len(ptQueue) \in Nat
    BY <1>1 DEF PtTypeOK
  <1>3. PtQueued = {ptQueue[i] : i \in 1..Len(ptQueue)}
    BY <1>2 DEF PtQueued, ToSet
  <1>4. t \notin ptDone
    <2>1. t \in ptHeld \cup PtQueued
      BY <1>1 DEF PtCancelled, PtTypeOK
    <2>2. ptResult[t] = "none"
      BY <1>1, <1>3, <2>1 DEF PtApart
    <2> QED
      BY <1>1, <2>2 DEF PtApart
  <1>5. \A u \in PtTask : ptResult'[u] = IF u = t THEN "cancelled" ELSE ptResult[u]
    BY <1>1 DEF PtCancelled, PtTypeOK
  <1>6. /\ ptQueue' \in Seq(PtTask)
        /\ \A i, j \in 1..Len(ptQueue') : ptQueue'[i] = ptQueue'[j] => i = j
        /\ \A i \in 1..Len(ptQueue') : ptQueue'[i] # t /\ \E k \in 1..Len(ptQueue) : ptQueue'[i] = ptQueue[k]
    <2>1. CASE t \in PtQueued
      <3> DEFINE at == CHOOSE k \in DOMAIN ptQueue : ptQueue[k] = t
      <3>1. at \in 1..Len(ptQueue) /\ ptQueue[at] = t
        BY <1>2, <1>3, <2>1
      <3>2. ptQueue' = RemoveAt(ptQueue, at)
        BY <2>1 DEF PtCancelled
      <3> HIDE DEF at
      <3>3. /\ ptQueue' \in Seq(PtTask) /\ Len(ptQueue') = Len(ptQueue) - 1
            /\ \A m \in 1..(Len(ptQueue) - 1) : ptQueue'[m] = IF m < at THEN ptQueue[m] ELSE ptQueue[m + 1]
        BY <1>2, <3>1, <3>2, RemoveAtValues
      <3> DEFINE from(m) == IF m < at THEN m ELSE m + 1
      <3>4. /\ \A m \in 1..Len(ptQueue') : from(m) \in 1..Len(ptQueue) /\ from(m) # at
            /\ \A m, n \in 1..Len(ptQueue') : from(m) = from(n) => m = n
        BY <1>2, <3>1, <3>3
      <3>5. \A m \in 1..Len(ptQueue') : ptQueue'[m] = ptQueue[from(m)]
        BY <1>2, <3>1, <3>3
      <3> HIDE DEF from
      <3> QED
        BY <1>1, <3>1, <3>3, <3>4, <3>5 DEF PtApart
    <2>2. CASE t \notin PtQueued
      <3>1. ptQueue' = ptQueue
        BY <2>2 DEF PtCancelled
      <3> QED
        BY <1>1, <1>2, <1>3, <2>2, <3>1 DEF PtApart
    <2> QED
      BY <2>1, <2>2
  <1>7. PtTypeOK'
    BY <1>1, <1>6 DEF PtCancelled, PtTypeOK
  <1>8. PtDependenciesFirst'
    BY <1>1, <1>4, <1>5 DEF PtCancelled, PtDependenciesFirst, PtKnown, PtTypeOK
  <1>9. ptHeld' = ptHeld \ {t} /\ ptDone' = ptDone /\ ptHeld \subseteq PtTask /\ ptDone \subseteq PtTask
    BY <1>1 DEF PtCancelled, PtTypeOK
  <1>10. \A i \in 1..Len(ptQueue) : ptQueue[i] \in PtTask
    BY <1>2
  <1>11. PtApart'
    BY <1>1, <1>4, <1>5, <1>6, <1>9, <1>10 DEF PtApart
  <1> QED
    BY <1>7, <1>8, <1>11 DEF PtInv

\* Every step of the executor keeps it.
LEMMA PtHolds == PtInv /\ [PtNext]_ptVars => PtInv'
  <1> SUFFICES ASSUME PtInv, [PtNext]_ptVars PROVE PtInv'
    OBVIOUS
  <1>1. CASE PtStep
    BY <1>1, PtAcquires, PtWorks, PtDrops DEF PtStep
  <1>2. ASSUME NEW b \in PtBatches, PtExecute(b) PROVE PtInv'
    BY <1>2, PtStarts
  <1>3. ASSUME NEW b \in PtBatches, PtStop(b) PROVE PtInv'
    BY <1>3 DEF PtStop, PtInv, PtTypeOK, PtDependenciesFirst, PtKnown, PtApart
  <1>4. CASE UNCHANGED ptVars
    BY <1>4 DEF PtInv, PtTypeOK, PtDependenciesFirst, PtKnown, PtApart, ptVars
  <1> QED
    BY <1>1, <1>2, <1>3, <1>4 DEF PtNext

\* For all batches, dependencies, numbers of slots and cancellations: func of a task is
\* called behind the end, by a result or an error, of all it depends on in its batch.
THEOREM TasksAreInOrder == PtInit /\ [][PtNext]_ptVars => [](PtTypeOK /\ PtDependenciesFirst)
  <1>1. PtInit => PtInv
    BY PtBegins
  <1>2. PtInv /\ [PtNext]_ptVars => PtInv'
    BY PtHolds
  <1>3. PtInv => PtTypeOK /\ PtDependenciesFirst
    BY DEF PtInv
  <1> QED
    BY <1>1, <1>2, <1>3, PTL

-----------------------------------------------------------------------------
\* Workflows.

\* The nodes of the graph.
WfNodes == {"planning", "parallel_execution", "review", "test", "manager", "end"}

\* The phases that are over when a node begins, if they are included.
WfBefore(node) ==
  CASE node = "planning" -> {}
    [] node = "parallel_execution" -> {"planning"}
    [] node = "review" -> {"planning"} \cup WfParallel
    [] node = "test" -> {"planning", "review"} \cup WfParallel
    [] node = "manager" -> {"planning", "review", "test"} \cup WfParallel
    [] node = "end" -> WfPhase

\* The included phases that are over when a node begins.
WfOver(node) == wfInclude \cap WfBefore(node)

\* The phases of a node.
WfOf(node) == IF node = "parallel_execution" THEN WfActive ELSE IF node = "end" THEN {} ELSE {node}

\* What is over has a result, and no more is counted than is over.
WfPlace ==
  /\ "planning" \in wfInclude
  /\ wfNode \in WfNodes =>
       /\ WfOf(wfNode) \subseteq wfInclude
       /\ \A p \in WfOver(wfNode) : wfResults[p] \in {"completed", "failed"}
       /\ wfCompleted <= Cardinality(WfOver(wfNode))
       /\ wfAnswer = "none"
  /\ wfNode \in WfNodes \cup {"idle", "backoff", "returned"}
  /\ wfNode # "parallel_execution" => wfFlying = {}
  /\ wfNode = "idle" => wfAnswer = "none"
  /\ wfNode = "backoff" => wfAttempt < WfRetries /\ wfAnswer = "none"

\* The types, where the graph is, and that an answer came of every phase.
WfInv == WfTypeOK /\ WfPlace /\ WfAnswerSound

\* The edges lead over the phases of a node to the next that is included.
LEMMA WfEdges ==
  ASSUME NEW node \in WfNodes \ {"end"}, wfInclude \subseteq WfPhase, "planning" \in wfInclude, WfOf(node) \subseteq wfInclude
  PROVE  /\ WfEdge(node) \in WfNodes \ {"planning"}
         /\ node = "parallel_execution" => WfEdge(node) # "parallel_execution"
         /\ WfOf(WfEdge(node)) \subseteq wfInclude
         /\ WfOver(WfEdge(node)) = WfOver(node) \cup WfOf(node)
         /\ WfOver(node) \cap WfOf(node) = {}
  <1> USE WfAssumption DEF WfNodes, WfOver, WfOf, WfBefore, WfEdge, WfFirstOf, WfActive, WfPhase
  <1>1. CASE node = "planning"
    BY <1>1
  <1>2. CASE node = "parallel_execution"
    BY <1>2
  <1>3. CASE node = "review"
    BY <1>3
  <1>4. CASE node = "test"
    BY <1>4
  <1>5. CASE node = "manager"
    BY <1>5
  <1> QED
    BY <1>1, <1>2, <1>3, <1>4, <1>5

\* The phases are finitely many, and so can be counted.
LEMMA WfFinite ==
  /\ IsFiniteSet(WfPhase) /\ Cardinality(WfPhase) \in Nat
  /\ \A S \in SUBSET WfPhase : IsFiniteSet(S) /\ Cardinality(S) \in Nat /\ Cardinality(S) <= Cardinality(WfPhase)
  /\ \A S \in SUBSET WfPhase : \A p \in WfPhase \ S : Cardinality(S \cup {p}) = Cardinality(S) + 1
  /\ \A S, T \in SUBSET WfPhase : S \cap T = {} => Cardinality(S \cup T) = Cardinality(S) + Cardinality(T)
  <1>1. IsFiniteSet(WfPhase)
    <2>1. IsFiniteSet(WfParallel)
      BY WfAssumption
    <2>2. IsFiniteSet(WfParallel \cup {"planning"})
      BY <2>1, FS_AddElement
    <2>3. IsFiniteSet((WfParallel \cup {"planning"}) \cup {"review"})
      BY <2>2, FS_AddElement
    <2>4. IsFiniteSet(((WfParallel \cup {"planning"}) \cup {"review"}) \cup {"test"})
      BY <2>3, FS_AddElement
    <2>5. IsFiniteSet((((WfParallel \cup {"planning"}) \cup {"review"}) \cup {"test"}) \cup {"manager"})
      BY <2>4, FS_AddElement
    <2>6. WfPhase = (((WfParallel \cup {"planning"}) \cup {"review"}) \cup {"test"}) \cup {"manager"}
      BY DEF WfPhase
    <2> QED
      BY <2>5, <2>6
  <1>2. ASSUME NEW S \in SUBSET WfPhase
        PROVE  IsFiniteSet(S) /\ Cardinality(S) \in Nat /\ Cardinality(S) <= Cardinality(WfPhase)
    BY <1>1, FS_Subset, FS_CardinalityType
  <1>3. ASSUME NEW S \in SUBSET WfPhase, NEW p \in WfPhase \ S
        PROVE  Cardinality(S \cup {p}) = Cardinality(S) + 1
    BY <1>2, FS_AddElement
  <1>4. ASSUME NEW S \in SUBSET WfPhase, NEW T \in SUBSET WfPhase, S \cap T = {}
        PROVE  Cardinality(S \cup T) = Cardinality(S) + Cardinality(T)
    <2>1. Cardinality(S \cup T) = Cardinality(S) + Cardinality(T) - Cardinality(S \cap T)
      BY <1>2, FS_Union
    <2>2. Cardinality(S \cap T) = 0
      BY <1>4, FS_EmptySet
    <2>3. Cardinality(S) \in Nat /\ Cardinality(T) \in Nat
      BY <1>2
    <2> QED
      BY <2>1, <2>2, <2>3
  <1> QED
    BY <1>1, <1>2, <1>3, <1>4, FS_CardinalityType

\* A workflow that was not run yet is at no node.
LEMMA WfBegins == WfInit => WfInv
  <1> SUFFICES ASSUME WfInit PROVE WfInv
    OBVIOUS
  <1>1. 0 \in 0..Cardinality(WfPhase) /\ 0 \in 0..WfRetries
    BY WfFinite, WfAssumption
  <1>2. WfTypeOK
    BY <1>1 DEF WfInit, WfTypeOK, WfNone
  <1>3. WfPlace
    BY DEF WfInit, WfPlace, WfNodes
  <1> QED
    BY <1>2, <1>3 DEF WfInv, WfAnswerSound, WfInit

\* _build_graph and the first node.
LEMMA WfRunHolds ==
  ASSUME WfInv, WfRun
  PROVE  WfInv'
  <1>0. WfTypeOK /\ WfPlace /\ WfAnswerSound
    BY DEF WfInv
  <1>1. /\ wfNode \in {"idle", "backoff"} /\ wfNode' = "planning" /\ wfAttempt' = IF wfNode = "idle" THEN 0 ELSE wfAttempt + 1
        /\ wfResults' = [WfNone EXCEPT !["planning"] = "running"] /\ wfFlying' = {} /\ wfFailed' = {} /\ wfCompleted' = 0
        /\ wfTracked' = TRUE /\ wfInclude' = wfInclude /\ wfContext' = wfContext /\ wfAnswer' = wfAnswer
    BY DEF WfRun
  <1>2. wfAttempt' \in 0..WfRetries
    BY <1>0, <1>1, WfAssumption DEF WfTypeOK, WfPlace
  <1>3. wfAnswer = "none"
    BY <1>0, <1>1 DEF WfPlace
  <1>4. wfResults' \in [WfPhase -> {"none", "running", "completed", "failed"}]
    BY <1>1 DEF WfNone
  <1>5. 0 \in 0..Cardinality(WfPhase)
    BY WfFinite
  <1>6. WfTypeOK'
    BY <1>0, <1>1, <1>2, <1>4, <1>5 DEF WfTypeOK, WfPhase, WfActive
  <1>7. WfPlace'
    <2>1. WfOver("planning") = {} /\ WfOf("planning") \subseteq wfInclude
      BY <1>0 DEF WfOver, WfBefore, WfOf, WfPlace
    <2>2. Cardinality({}) = 0
      BY FS_EmptySet
    <2>3. WfOver(wfNode)' = {} /\ WfOf(wfNode)' = WfOf("planning") /\ WfOf("planning") \subseteq wfInclude'
      BY <1>1, <2>1 DEF WfOver, WfBefore, WfOf
    <2>4. wfCompleted' <= Cardinality(WfOver(wfNode)')
      <3>1. Cardinality(WfOver(wfNode)') = Cardinality({})
        BY <2>3
      <3> QED
        BY <1>1, <2>2, <3>1
    <2>5. \A p \in WfOver(wfNode)' : wfResults'[p] \in {"completed", "failed"}
      BY <2>3
    <2>6. "planning" \in wfInclude' /\ wfAnswer' = "none" /\ wfNode' = "planning" /\ wfFlying' = {}
      BY <1>0, <1>1, <1>3 DEF WfPlace
    <2>7. WfOf(wfNode)' \subseteq wfInclude'
      BY <2>3
    <2> QED
      BY <2>4, <2>5, <2>6, <2>7 DEF WfPlace, WfNodes
  <1>8. WfAnswerSound'
    BY <1>1, <1>3 DEF WfAnswerSound
  <1> QED
    BY <1>6, <1>7, <1>8 DEF WfInv

\* The node that follows: its phases run, and those that are over keep their results.
LEMMA WfEnterHolds ==
  ASSUME WfInv, NEW node \in WfNodes \ {"end"}, node = wfNode, NEW results, WfEnter(node, results),
         results \in [WfPhase -> {"none", "running", "completed", "failed"}],
         \A p \in WfOver(node) : results[p] = wfResults[p],
         \A p \in WfOf(node) : results[p] \in {"completed", "failed"},
         wfFailed' \subseteq WfPhase, NEW k \in Nat, k <= Cardinality(WfOf(node)), wfCompleted' = wfCompleted + k,
         wfInclude' = wfInclude, wfAttempt' = wfAttempt, wfContext' = wfContext, wfTracked' = wfTracked, wfAnswer' = wfAnswer
  PROVE  WfInv'
  <1> DEFINE m == WfEdge(node)
  <1>0. WfTypeOK /\ WfPlace /\ WfAnswerSound
    BY DEF WfInv
  <1>1. /\ wfNode' = m /\ wfFlying' = IF m = "parallel_execution" THEN WfActive ELSE {}
        /\ wfResults' = [p \in WfPhase |-> IF p = m \/ p \in wfFlying' THEN "running" ELSE results[p]]
    BY DEF WfEnter
  <1>2. wfInclude \subseteq WfPhase /\ "planning" \in wfInclude /\ WfOf(node) \subseteq wfInclude /\ wfAnswer = "none"
    BY <1>0 DEF WfTypeOK, WfPlace
  <1>3. /\ m \in WfNodes \ {"planning"} /\ WfOf(m) \subseteq wfInclude /\ WfOver(m) = WfOver(node) \cup WfOf(node)
        /\ WfOver(node) \cap WfOf(node) = {}
    BY <1>2, WfEdges
  <1>4. m # "end" => WfOver(m) \cap WfOf(m) = {}
    BY <1>2, <1>3, WfEdges
  <1> HIDE DEF m
  <1>5. wfFlying' \subseteq WfActive /\ (m # "parallel_execution" => wfFlying' = {})
    BY <1>1
  <1>6. wfResults' \in [WfPhase -> {"none", "running", "completed", "failed"}]
    BY <1>1
  <1>7. \A p \in WfOver(m) : wfResults'[p] \in {"completed", "failed"}
    <2> SUFFICES ASSUME NEW p \in WfOver(m) PROVE wfResults'[p] \in {"completed", "failed"}
      OBVIOUS
    <2>1. p \in WfPhase /\ p \in wfInclude
      BY <1>2 DEF WfOver
    <2>2. p # m /\ p \notin wfFlying'
      <3>1. CASE m = "end"
        <4>1. p # "end"
          BY <2>1, WfAssumption DEF WfPhase
        <4> QED
          BY <1>5, <3>1, <4>1
      <3>2. CASE m = "parallel_execution"
        <4>1. p # "parallel_execution"
          BY <2>1, WfAssumption DEF WfPhase
        <4>2. p \notin WfActive
          BY <1>4, <3>2 DEF WfOf
        <4> QED
          BY <1>5, <3>2, <4>1, <4>2
      <3>3. CASE m # "end" /\ m # "parallel_execution"
        <4>1. WfOf(m) = {m}
          BY <3>3 DEF WfOf
        <4> QED
          BY <1>4, <1>5, <3>3, <4>1
      <3> QED
        BY <3>1, <3>2, <3>3
    <2>3. wfResults'[p] = results[p]
      BY <1>1, <2>1, <2>2
    <2>4. CASE p \in WfOver(node)
      <3>1. wfResults[p] \in {"completed", "failed"}
        BY <1>0, <2>4 DEF WfPlace
      <3> QED
        BY <2>3, <2>4, <3>1
    <2>5. CASE p \in WfOf(node)
      BY <2>3, <2>5
    <2> QED
      BY <1>3, <2>4, <2>5
  <1>8. wfCompleted' <= Cardinality(WfOver(m)) /\ wfCompleted' \in 0..Cardinality(WfPhase)
    <2>1. wfCompleted \in Nat /\ wfCompleted <= Cardinality(WfOver(node))
      BY <1>0 DEF WfTypeOK, WfPlace
    <2>2. WfOver(node) \in SUBSET WfPhase /\ WfOf(node) \in SUBSET WfPhase /\ WfOver(m) \in SUBSET WfPhase
      BY <1>2 DEF WfOver
    <2>3. Cardinality(WfOver(node) \cup WfOf(node)) = Cardinality(WfOver(node)) + Cardinality(WfOf(node))
      BY <1>3, <2>2, WfFinite
    <2>4. Cardinality(WfOver(node)) \in Nat /\ Cardinality(WfOf(node)) \in Nat /\ Cardinality(WfOver(m)) \in Nat
          /\ Cardinality(WfOver(m)) <= Cardinality(WfPhase) /\ Cardinality(WfPhase) \in Nat
      BY <2>2, WfFinite
    <2>5. Cardinality(WfOver(m)) = Cardinality(WfOver(node)) + Cardinality(WfOf(node))
      BY <1>3, <2>3
    <2> QED
      BY <2>1, <2>4, <2>5
  <1>9. m \in WfPhase \cup {"idle", "parallel_execution", "end", "backoff", "returned"}
        /\ m \notin {"idle", "backoff", "returned"} /\ wfNode \notin {"idle", "backoff", "returned"}
    BY <1>3 DEF WfNodes, WfPhase
  <1>10. WfTypeOK'
    BY <1>0, <1>1, <1>5, <1>6, <1>8, <1>9 DEF WfTypeOK, WfActive
  <1>11. WfOver(wfNode)' = WfOver(m) /\ WfOf(wfNode)' = WfOf(m)
    BY <1>1 DEF WfOver, WfOf, WfActive
  <1>12. WfPlace'
    BY <1>1, <1>2, <1>3, <1>5, <1>7, <1>8, <1>9, <1>11 DEF WfPlace
  <1>13. WfAnswerSound'
    BY <1>0, <1>1, <1>2, <1>9 DEF WfAnswerSound
  <1> QED
    BY <1>10, <1>12, <1>13 DEF WfInv


\* A phase that ends has its result, or is to be tried again.
LEMMA WfPhaseEndsHolds ==
  ASSUME WfInv, NEW status \in WfStatuses, WfPhaseEnds(status)
  PROVE  WfInv'
  <1> DEFINE results == [wfResults EXCEPT ![wfNode] = status]
             k == IF status = "failed" THEN 0 ELSE 1
  <1>0. WfTypeOK /\ WfPlace
    BY DEF WfInv
  <1>1. /\ wfNode \in {"planning", "review", "test", "manager"} /\ WfEnter(wfNode, results)
        /\ wfFailed' = IF status = "failed" THEN wfFailed \cup {wfNode} ELSE wfFailed
        /\ wfCompleted' = IF status = "failed" THEN wfCompleted ELSE wfCompleted + 1
        /\ wfInclude' = wfInclude /\ wfAttempt' = wfAttempt /\ wfContext' = wfContext /\ wfTracked' = wfTracked
        /\ wfAnswer' = wfAnswer
    BY DEF WfPhaseEnds
  <1>2. wfNode \in WfNodes \ {"end"} /\ wfNode \in WfPhase /\ WfOf(wfNode) = {wfNode}
    BY <1>1 DEF WfNodes, WfPhase, WfOf
  <1>3. results \in [WfPhase -> {"none", "running", "completed", "failed"}]
    BY <1>0 DEF WfTypeOK, WfStatuses
  <1>4. wfNode \notin WfOver(wfNode)
    <2>1. WfOf(wfNode) \subseteq wfInclude /\ wfInclude \subseteq WfPhase /\ "planning" \in wfInclude
      BY <1>0, <1>2 DEF WfPlace, WfTypeOK
    <2>2. WfOver(wfNode) \cap WfOf(wfNode) = {}
      BY <1>2, <2>1, WfEdges
    <2> QED
      BY <1>2, <2>2
  <1>5. \A p \in WfOver(wfNode) : results[p] = wfResults[p]
    BY <1>4, <1>0 DEF WfTypeOK
  <1>6. \A p \in WfOf(wfNode) : results[p] \in {"completed", "failed"}
    BY <1>0, <1>2 DEF WfTypeOK, WfStatuses
  <1>7. wfFailed' \subseteq WfPhase
    BY <1>0, <1>1, <1>2 DEF WfTypeOK
  <1>8. k \in Nat /\ k <= Cardinality(WfOf(wfNode)) /\ wfCompleted' = wfCompleted + k
    <2>1. Cardinality({wfNode}) = 1
      BY FS_Singleton
    <2>2. wfCompleted \in Nat
      BY <1>0 DEF WfTypeOK
    <2> QED
      BY <1>1, <1>2, <2>1, <2>2
  <1> HIDE DEF results, k
  <1> QED
    BY <1>1, <1>2, <1>3, <1>5, <1>6, <1>7, <1>8, WfEnterHolds

\* A phase that runs beside others ends, and the last of them leaves the node.
LEMMA WfFlightEndsHolds ==
  ASSUME WfInv, NEW p \in WfPhase, NEW status \in WfStatuses, WfFlightEnds(p, status)
  PROVE  WfInv'
  <1>0. WfTypeOK /\ WfPlace
    BY DEF WfInv
  <1>1. /\ p \in wfFlying /\ wfFailed' = IF status = "failed" THEN wfFailed \cup {p} ELSE wfFailed
        /\ wfInclude' = wfInclude /\ wfAttempt' = wfAttempt /\ wfContext' = wfContext /\ wfTracked' = wfTracked
        /\ wfAnswer' = wfAnswer
    BY DEF WfFlightEnds
  <1>2. wfNode = "parallel_execution" /\ wfNode \in WfNodes \ {"end"} /\ WfOf(wfNode) = WfActive
    BY <1>0, <1>1 DEF WfPlace, WfNodes, WfOf
  <1>3. wfFailed' \subseteq WfPhase
    BY <1>0, <1>1 DEF WfTypeOK
  <1>4. CASE wfFlying = {p}
    <2> DEFINE results == [q \in WfPhase |-> IF q \notin WfActive THEN wfResults[q]
                                            ELSE IF q \in wfFailed' THEN "failed" ELSE "completed"]
               k == Cardinality(WfActive)
    <2>1. WfEnter(wfNode, results) /\ wfCompleted' = wfCompleted + k
      BY <1>2, <1>4 DEF WfFlightEnds
    <2>2. results \in [WfPhase -> {"none", "running", "completed", "failed"}]
      BY <1>0 DEF WfTypeOK
    <2>3. WfActive \in SUBSET WfPhase
      BY DEF WfActive, WfPhase
    <2>4. WfOf(wfNode) \subseteq wfInclude /\ wfInclude \subseteq WfPhase /\ "planning" \in wfInclude
      BY <1>0, <1>2 DEF WfPlace, WfTypeOK
    <2>5. WfOver(wfNode) \cap WfActive = {} /\ WfOver(wfNode) \subseteq WfPhase
      BY <1>2, <2>4, WfEdges DEF WfOver
    <2>6. \A q \in WfOver(wfNode) : results[q] = wfResults[q]
      BY <2>5
    <2>7. \A q \in WfOf(wfNode) : results[q] \in {"completed", "failed"}
      BY <1>2, <2>3
    <2>8. k \in Nat /\ k <= Cardinality(WfOf(wfNode))
      BY <1>2, <2>3, WfFinite
    <2> HIDE DEF results, k
    <2> QED
      BY <1>1, <1>2, <1>3, <2>1, <2>2, <2>6, <2>7, <2>8, WfEnterHolds
  <1>5. CASE wfFlying # {p}
    <2>1. wfFlying' = wfFlying \ {p} /\ wfNode' = wfNode /\ wfResults' = wfResults /\ wfCompleted' = wfCompleted
      BY <1>5 DEF WfFlightEnds
    <2>2. WfTypeOK'
      BY <1>0, <1>1, <1>3, <2>1 DEF WfTypeOK, WfActive
    <2>3. WfOver(wfNode)' = WfOver(wfNode) /\ WfOf(wfNode)' = WfOf(wfNode)
      BY <1>1, <2>1 DEF WfOver, WfOf, WfActive
    <2>4. WfPlace'
      BY <1>0, <1>1, <1>2, <2>1, <2>3 DEF WfPlace
    <2>5. WfAnswerSound'
      BY <1>1, <2>1 DEF WfInv, WfAnswerSound
    <2> QED
      BY <2>2, <2>4, <2>5 DEF WfInv
  <1> QED
    BY <1>4, <1>5

\* The end of the graph: an answer, or the failed phases once more.
LEMMA WfFinishHolds ==
  ASSUME WfInv, WfFinish
  PROVE  WfInv'
  <1> DEFINE failed == {p \in WfPhase : wfResults[p] = "failed"}
  <1>0. WfTypeOK /\ WfPlace /\ WfAnswerSound
    BY DEF WfInv
  <1>1. /\ wfNode = "end" /\ wfTracked' = FALSE
        /\ IF failed # {} /\ WfMayRetry
             THEN wfNode' = "backoff" /\ wfContext' = failed /\ UNCHANGED wfAnswer
             ELSE wfNode' = "returned" /\ wfAnswer' = "results" /\ UNCHANGED wfContext
        /\ wfInclude' = wfInclude /\ wfAttempt' = wfAttempt /\ wfResults' = wfResults /\ wfFlying' = wfFlying
        /\ wfFailed' = wfFailed /\ wfCompleted' = wfCompleted
    BY DEF WfFinish
  <1>2. wfNode \in WfNodes /\ wfFlying = {} /\ wfAnswer = "none" /\ wfAttempt \in 0..WfRetries
    BY <1>0, <1>1 DEF WfPlace, WfNodes, WfTypeOK
  <1>3. \A p \in wfInclude : wfResults[p] \in {"completed", "failed"} /\ p \in WfPhase
    <2>1. WfOver(wfNode) = wfInclude
      BY <1>0, <1>1 DEF WfOver, WfBefore, WfTypeOK
    <2> QED
      BY <1>0, <1>2, <2>1 DEF WfPlace, WfTypeOK
  <1>4. CASE failed # {} /\ WfMayRetry
    <2>1. wfNode' = "backoff" /\ wfContext' \subseteq WfPhase /\ wfAnswer' = wfAnswer /\ wfAttempt < WfRetries
      BY <1>1, <1>4 DEF WfMayRetry
    <2>2. WfTypeOK'
      BY <1>0, <1>1, <2>1 DEF WfTypeOK, WfActive
    <2>3. WfPlace'
      BY <1>0, <1>1, <1>2, <2>1 DEF WfPlace, WfNodes
    <2>4. WfAnswerSound'
      BY <1>1, <1>2, <2>1 DEF WfAnswerSound
    <2> QED
      BY <2>2, <2>3, <2>4 DEF WfInv
  <1>5. CASE ~(failed # {} /\ WfMayRetry)
    <2>1. wfNode' = "returned" /\ wfContext' = wfContext /\ wfAnswer' = "results"
      BY <1>1, <1>5
    <2>2. (\E p \in wfInclude : wfResults[p] = "failed") => wfAttempt = WfRetries
      BY <1>2, <1>3, <1>5, WfAssumption DEF WfMayRetry
    <2>3. WfTypeOK'
      BY <1>0, <1>1, <2>1 DEF WfTypeOK, WfActive
    <2>4. WfPlace'
      BY <1>0, <1>1, <1>2, <2>1 DEF WfPlace, WfNodes
    <2>5. WfAnswerSound'
      BY <1>1, <1>3, <2>1, <2>2 DEF WfAnswerSound
    <2> QED
      BY <2>3, <2>4, <2>5 DEF WfInv
  <1> QED
    BY <1>4, <1>5

\* An exception in a node ends the run.
LEMMA WfRaisesHolds ==
  ASSUME WfInv, WfRaises
  PROVE  WfInv'
  <1>0. WfTypeOK /\ WfPlace
    BY DEF WfInv
  <1>1. /\ wfNode \notin {"idle", "backoff", "end", "returned"} /\ wfTracked' = FALSE /\ wfFlying' = {}
        /\ IF WfMayRetry THEN wfNode' = "backoff" /\ UNCHANGED wfAnswer ELSE wfNode' = "returned" /\ wfAnswer' = "error"
        /\ wfInclude' = wfInclude /\ wfAttempt' = wfAttempt /\ wfResults' = wfResults /\ wfContext' = wfContext
        /\ wfFailed' = wfFailed /\ wfCompleted' = wfCompleted
    BY DEF WfRaises
  <1>2. wfNode \in WfNodes /\ wfAnswer = "none" /\ wfAttempt \in 0..WfRetries
    BY <1>0, <1>1 DEF WfPlace, WfTypeOK
  <1>3. \/ wfNode' = "backoff" /\ wfAnswer' = "none" /\ wfAttempt < WfRetries
        \/ wfNode' = "returned" /\ wfAnswer' = "error" /\ wfAttempt = WfRetries
    BY <1>1, <1>2, WfAssumption DEF WfMayRetry
  <1>4. WfTypeOK'
    BY <1>0, <1>1, <1>3 DEF WfTypeOK, WfActive
  <1>5. WfPlace'
    BY <1>0, <1>1, <1>2, <1>3 DEF WfPlace, WfNodes
  <1>6. WfAnswerSound'
    BY <1>1, <1>3 DEF WfAnswerSound
  <1> QED
    BY <1>4, <1>5, <1>6 DEF WfInv

\* Every step of the workflow keeps it.
LEMMA WfHolds == WfInv /\ [WfNext]_wfVars => WfInv'
  <1> SUFFICES ASSUME WfInv, [WfNext]_wfVars PROVE WfInv'
    OBVIOUS
  <1>1. CASE UNCHANGED wfVars
    BY <1>1 DEF wfVars, WfInv, WfTypeOK, WfPlace, WfAnswerSound, WfActive, WfOver, WfOf
  <1> QED
    BY <1>1, WfRunHolds, WfFinishHolds, WfRaisesHolds, WfPhaseEndsHolds, WfFlightEndsHolds DEF WfNext

\* A workflow that answers has run what it was to run, as often as it may.
THEOREM WorkflowsAreAnswered ==
  WfInit /\ [][WfNext]_wfVars => [](WfTypeOK /\ WfAnswerSound)
  BY WfBegins, WfHolds, PTL DEF WfInv

-----------------------------------------------------------------------------
\* Reasoning loops.

\* The trace of each loop, and the product that bounds its calls.
AlTraces ==
  alSteps \in [AlLoop -> [n : Nat, calls : Nat, state : {"none", "complete", "reasoning", "max_iterations"}]]

\* Where a loop is says how much of its budget it has used, what of its calls is in its
\* trace, and whose service it asks.
AlPlaced(l) ==
  /\ alCount[l] = AlOf(l) /\ alHistory[l] <= AlOf(l)
  /\ alAt[l] = "idle" => alIteration[l] = 0 /\ alCount[l] = 0 /\ alSteps[l].n = 0
  /\ alAt[l] # "idle" => alIteration[l] >= 1
  /\ alAt[l] = "select" => alCount[l] + AlMaxTools <= alIteration[l] * AlMaxTools
  /\ alAt[l] = "invoke" =>
       alSpecs[l] >= 1 /\ alStep[l] + alSpecs[l] <= AlMaxTools /\ alCount[l] + alSpecs[l] <= alIteration[l] * AlMaxTools
  /\ alCount[l] <= alIteration[l] * AlMaxTools
  /\ alAt[l] \notin {"finish", "done"} => alSteps[l].n + 1 <= alIteration[l] \/ alAt[l] = "idle"
  /\ alAt[l] = "finish" => alSteps[l].n <= alIteration[l]
  /\ alAt[l] \in {"idle", "select", "finish"} => alSteps[l].calls = AlOf(l)
  /\ alAt[l] \in {"invoke", "observe", "reason"} => AlOf(l) = alSteps[l].calls + alStep[l]
  /\ alAt[l] # "done" => alOutcome[l] = {}
  /\ alAt[l] = "done" => /\ "result" \in alOutcome[l] => alSteps[l].calls = AlOf(l)
                         /\ alOutcome[l] = {"error"} => AlOf(l) <= alSteps[l].calls + AlMaxTools
  /\ alAt[l] # "idle" /\ l \in alServed => alService = l \/ alOvertaken[l]

\* Whom a loop asked, and whose service it may ask next.
AlAsks(l) ==
  /\ l \in alServed => alAsked[l] \subseteq {l} \/ alOvertaken[l]
  /\ alAsked[l] \subseteq alServed

AlOwner == alService \in alServed \cup {AlNoService}

\* All loops are where they should be, and what the run checks of a step that ends one.
AlInv == AlTypeOK /\ AlTraces /\ AlOwner /\ (\A l \in AlLoop : AlPlaced(l)) /\ AlDoneIsClean /\ AlOwnService

\* A turn of the loop adds the tools of a step to the budget.
LEMMA AlTurn ==
  /\ \A i, t \in Nat : i * t \in Nat /\ (i + 1) * t = i * t + t /\ 0 * t = 0 /\ 1 * t = t
  /\ \A i, j, t \in Nat : i <= j => i * t <= j * t
  OBVIOUS

\* What the run checks follows.
LEMMA AlIsSound == AlInv => AlBudget /\ AlTraceAccounts /\ AlDoneIsClean /\ AlOwnService
  <1> SUFFICES ASSUME AlInv PROVE AlBudget /\ AlTraceAccounts
    BY DEF AlInv
  <1>1. AlBudget
    <2> SUFFICES ASSUME NEW l \in AlLoop PROVE alCount[l] <= AlMaxIterations * AlMaxTools /\ AlOf(l) = alCount[l]
      BY DEF AlBudget
    <2>1. alCount[l] \in Nat /\ alIteration[l] \in Nat /\ alIteration[l] <= AlMaxIterations /\ AlMaxIterations \in Nat /\ AlMaxTools \in Nat
      BY AlAssumption DEF AlInv, AlTypeOK
    <2>2. alCount[l] <= alIteration[l] * AlMaxTools /\ alCount[l] = AlOf(l)
      BY DEF AlInv, AlPlaced
    <2>3. alIteration[l] * AlMaxTools <= AlMaxIterations * AlMaxTools /\ alIteration[l] * AlMaxTools \in Nat /\ AlMaxIterations * AlMaxTools \in Nat
      BY <2>1, AlTurn
    <2> QED
      BY <2>1, <2>2, <2>3
  <1>2. AlTraceAccounts
    <2> SUFFICES ASSUME NEW l \in AlLoop
                 PROVE  /\ alOutcome[l] # {} /\ "result" \in alOutcome[l] => alSteps[l].calls = AlOf(l)
                        /\ alOutcome[l] = {"error"} => AlOf(l) - alSteps[l].calls <= AlMaxTools
                        /\ alHistory[l] <= AlOf(l)
      BY DEF AlTraceAccounts
    <2>1. AlPlaced(l) /\ alSteps[l].calls \in Nat /\ alCount[l] \in Nat /\ AlMaxTools \in Nat
      BY AlAssumption DEF AlInv, AlTypeOK
    <2> QED
      BY <2>1 DEF AlPlaced
  <1> QED
    BY <1>1, <1>2

\* Before they start the loops have done nothing.
LEMMA AlBegins == AlInit => AlInv
  <1> SUFFICES ASSUME AlInit PROVE AlInv
    OBVIOUS
  <1> USE AlAssumption DEF AlInit
  <1>1. AlTypeOK
    BY DEF AlTypeOK
  <1>2. AlTraces
    BY DEF AlTraces
  <1>3. \A l \in AlLoop : AlPlaced(l)
    BY AlTurn DEF AlPlaced, AlOf
  <1>4. AlDoneIsClean /\ AlOwnService /\ AlOwner
    BY DEF AlDoneIsClean, AlOwnService, AlOwner
  <1> QED
    BY <1>1, <1>2, <1>3, <1>4 DEF AlInv

\* What the types say of one loop.
LEMMA AlFacts ==
  ASSUME AlInv, NEW l \in AlLoop
  PROVE  /\ AlPlaced(l) /\ alIteration[l] \in 0..AlMaxIterations /\ alSpecs[l] \in 0..AlMaxTools /\ alStep[l] \in 0..AlMaxTools
         /\ alCount[l] \in Nat /\ alHistory[l] \in Nat /\ alResults[l].good \in Nat /\ alResults[l].bad \in Nat
         /\ alResults[l] \in [good : Nat, bad : Nat]
         /\ alSteps[l] \in [n : Nat, calls : Nat, state : {"none", "complete", "reasoning", "max_iterations"}]
         /\ alSteps[l].n \in Nat /\ alSteps[l].calls \in Nat /\ alSteps[l].n <= AlMaxIterations + 1
         /\ AlMaxIterations \in Nat \ {0} /\ AlMaxTools \in Nat \ {0} /\ alIteration[l] * AlMaxTools \in Nat
         /\ alOutcome[l] \subseteq {"result", "error"} /\ alAsked[l] \subseteq AlLoop /\ alOvertaken[l] \in BOOLEAN
  <1>1. AlMaxIterations \in Nat \ {0} /\ AlMaxTools \in Nat \ {0}
    BY AlAssumption
  <1>2. AlTypeOK /\ AlTraces /\ AlPlaced(l)
    BY DEF AlInv
  <1>3. alIteration[l] \in 0..AlMaxIterations
    BY <1>2 DEF AlTypeOK
  <1>4. alIteration[l] * AlMaxTools \in Nat
    BY <1>1, <1>3, AlTurn
  <1> QED
    BY <1>1, <1>2, <1>3, <1>4 DEF AlTypeOK, AlTraces

\* A loop that is not the one that goes on keeps its place.
LEMMA AlOthers ==
  ASSUME AlInv, NEW k \in AlLoop,
         alAt'[k] = alAt[k], alIteration'[k] = alIteration[k], alSpecs'[k] = alSpecs[k], alStep'[k] = alStep[k],
         alCount'[k] = alCount[k], alResults'[k] = alResults[k], alHistory'[k] = alHistory[k], alSteps'[k] = alSteps[k],
         alOutcome'[k] = alOutcome[k], alAsked'[k] = alAsked[k],
         alServed' = alServed,
         alService' = alService \/ alAt[k] = "idle" \/ alOvertaken'[k], alOvertaken[k] => alOvertaken'[k]
  PROVE  /\ AlPlaced(k)'
         /\ alAt'[k] = "finish" /\ alSteps'[k].state = "complete" /\ alIteration'[k] < AlMaxIterations =>
              alResults'[k].bad = 0 \/ alStep'[k] = 0
         /\ AlAsks(k)'
  <1>1. AlPlaced(k)'
    BY DEF AlInv, AlPlaced, AlOf
  <1>2. AlAsks(k)'
    BY DEF AlInv, AlOwnService, AlAsks
  <1> QED
    BY <1>1, <1>2 DEF AlInv, AlDoneIsClean

\* A step of one loop: where it goes is left to each action.
LEMMA AlMoves ==
  ASSUME AlTypeOK', AlTraces', AlOwner', \A k \in AlLoop :
         /\ AlPlaced(k)'
         /\ alAt'[k] = "finish" /\ alSteps'[k].state = "complete" /\ alIteration'[k] < AlMaxIterations =>
              alResults'[k].bad = 0 \/ alStep'[k] = 0
         /\ AlAsks(k)'
  PROVE  AlInv'
  BY DEF AlInv, AlDoneIsClean, AlOwnService, AlAsks

\* execute starts over a service that may be somebody else's.
LEMMA AlStartHolds ==
  ASSUME AlInv, NEW l \in AlLoop, AlStart(l)
  PROVE  AlInv'
  <1>0. AlTypeOK /\ AlTraces
    BY DEF AlInv
  <1>1. /\ alAt[l] = "idle" /\ alServed' = alServed
        /\ alAt' = [alAt EXCEPT ![l] = "select"] /\ alIteration' = [alIteration EXCEPT ![l] = 1]
        /\ \/ /\ l \in alServed /\ alService' = l
              /\ alOvertaken' = [k \in AlLoop |-> alOvertaken[k] \/ (k # l /\ alAt[k] # "idle")]
           \/ l \notin alServed /\ alService' = alService /\ alOvertaken' = alOvertaken
        /\ alSpecs' = alSpecs /\ alStep' = alStep /\ alCount' = alCount /\ alResults' = alResults /\ alHistory' = alHistory
        /\ alSteps' = alSteps /\ alOutcome' = alOutcome /\ alAsked' = alAsked
    BY DEF AlStart
  <1>2. 1 \in 0..AlMaxIterations
    BY AlAssumption
  <1>3. AlTypeOK'
    BY <1>0, <1>1, <1>2 DEF AlTypeOK
  <1>6. AlOwner'
    BY <1>1 DEF AlInv, AlOwner
  <1>4. AlTraces'
    BY <1>0, <1>1 DEF AlTraces
  <1>5. ASSUME NEW k \in AlLoop
        PROVE  /\ AlPlaced(k)'
               /\ alAt'[k] = "finish" /\ alSteps'[k].state = "complete" /\ alIteration'[k] < AlMaxIterations =>
                    alResults'[k].bad = 0 \/ alStep'[k] = 0
               /\ AlAsks(k)'
    <2>1. CASE k = l
      <3>1. alAt'[l] = "select" /\ alIteration'[l] = 1
        BY <1>0, <1>1 DEF AlTypeOK
      <3>2. 1 * AlMaxTools = AlMaxTools /\ AlMaxTools \in Nat /\ 0 * AlMaxTools = 0
        BY AlAssumption, AlTurn
      <3>5. /\ alCount[l] = 0 /\ alResults[l].good + alResults[l].bad = 0 /\ alHistory[l] <= 0 /\ alSteps[l].n = 0
            /\ alSteps[l].calls = 0 /\ alOutcome[l] = {} /\ alHistory[l] \in Nat
        <4>1. AlPlaced(l) /\ alHistory[l] \in Nat
          BY AlFacts
        <4>2. alCount[l] = 0 /\ AlOf(l) = 0 /\ alHistory[l] <= AlOf(l) /\ alSteps[l].n = 0 /\ alSteps[l].calls = AlOf(l)
              /\ alOutcome[l] = {}
          BY <1>1, <4>1 DEF AlPlaced
        <4> QED
          BY <4>1, <4>2 DEF AlOf
      <3>6. alIteration'[l] * AlMaxTools = AlMaxTools /\ 0 + AlMaxTools <= AlMaxTools /\ 0 <= AlMaxTools /\ 0 + 1 <= 1 /\ 1 >= 1
            /\ 0 + 0 = 0
        BY <3>1, <3>2
      <3>7. /\ alCount'[l] = 0 /\ AlOf(l)' = 0 /\ alHistory'[l] <= 0 /\ alSteps'[l].n = 0
            /\ alSteps'[l].calls = 0 /\ alOutcome'[l] = {} /\ (l \in alServed' => alService' = l)
        BY <1>1, <3>5 DEF AlOf
      <3>3. AlPlaced(l)'
        BY <1>1, <3>1, <3>6, <3>7 DEF AlPlaced
      <3>4. AlAsks(l)'
        <4>1. alAsked'[l] = alAsked[l] /\ (alOvertaken[l] => alOvertaken'[l]) /\ alServed' = alServed
          BY <1>1
        <4> QED
          BY <4>1 DEF AlInv, AlOwnService, AlAsks
      <3> QED
        BY <2>1, <3>1, <3>3, <3>4
    <2>2. CASE k # l
      <3>1. alAt'[k] = alAt[k] /\ alIteration'[k] = alIteration[k]
        BY <1>0, <1>1, <2>2 DEF AlTypeOK
      <3>2. (alService' = alService \/ alAt[k] = "idle" \/ alOvertaken'[k]) /\ (alOvertaken[k] => alOvertaken'[k])
        BY <1>1, <2>2
      <3> QED
        BY <1>1, <3>1, <3>2, AlOthers
    <2> QED
      BY <2>1, <2>2
  <1> QED
    BY <1>3, <1>4, <1>5, <1>6, AlMoves

\* A function that is left alone is one whose value at l is left.
LEMMA AlSame == \A f : \A S, T : f \in [S -> T] => \A l \in S : f = [f EXCEPT ![l] = f[l]]
  OBVIOUS

\* g is f but for the value of l.
AlSets(f, g, l, v) == g = [f EXCEPT ![l] = v]

\* The values that a step may give to its loop.
AlTypes(at, it, sp, st, cnt, good, bad, hist, n, calls, state, out) ==
  /\ at \in {"select", "invoke", "observe", "reason", "finish", "done"} /\ it \in 0..AlMaxIterations
  /\ sp \in 0..AlMaxTools /\ st \in 0..AlMaxTools /\ cnt \in Nat /\ good \in Nat /\ bad \in Nat
  /\ hist \in Nat /\ n \in 0..AlMaxIterations + 1 /\ calls \in Nat
  /\ state \in {"none", "complete", "reasoning", "max_iterations"}
  /\ out \in SUBSET {"result", "error"}

\* They fit together: the calls are counted, in the trace but for those of the step, and
\* within the budget.
AlFits(at, it, sp, st, cnt, good, bad, hist, n, calls, state, out) ==
  /\ cnt = good + bad /\ hist <= cnt /\ it >= 1 /\ cnt <= it * AlMaxTools
  /\ at = "select" => cnt + AlMaxTools <= it * AlMaxTools
  /\ at = "invoke" => sp >= 1 /\ st + sp <= AlMaxTools /\ cnt + sp <= it * AlMaxTools
  /\ at \notin {"finish", "done"} => n + 1 <= it
  /\ at = "finish" => n <= it
  /\ at \in {"select", "finish"} => calls = cnt
  /\ at \in {"invoke", "observe", "reason"} => cnt = calls + st
  /\ at # "done" => out = {}
  /\ at = "done" => ("result" \in out => calls = cnt) /\ (out = {"error"} => cnt <= calls + AlMaxTools)
  /\ at = "finish" /\ state = "complete" /\ it < AlMaxIterations => bad = 0 \/ st = 0

\* A step of a loop that gives it new values, which fit together, keeps the rest.
LEMMA AlStepHolds ==
  ASSUME AlInv, NEW l \in AlLoop, alAt[l] # "idle", NEW at, NEW it, NEW sp, NEW st, NEW cnt, NEW good, NEW bad, NEW hist,
         NEW n, NEW calls, NEW state, NEW out,
         AlTypes(at, it, sp, st, cnt, good, bad, hist, n, calls, state, out),
         AlFits(at, it, sp, st, cnt, good, bad, hist, n, calls, state, out),
         AlSets(alAt, alAt', l, at), AlSets(alIteration, alIteration', l, it),
         AlSets(alSpecs, alSpecs', l, sp), AlSets(alStep, alStep', l, st), AlSets(alCount, alCount', l, cnt),
         AlSets(alResults, alResults', l, [good |-> good, bad |-> bad]), AlSets(alHistory, alHistory', l, hist),
         AlSets(alSteps, alSteps', l, [n |-> n, calls |-> calls, state |-> state]),
         AlSets(alOutcome, alOutcome', l, out), alServed' = alServed, alService' = alService, alOvertaken' = alOvertaken,
         alAsked' = alAsked \/ AlSets(alAsked, alAsked', l, alAsked[l] \cup ({alService} \ {AlNoService}))
  PROVE  AlInv'
  <1> USE DEF AlTypes, AlFits, AlSets
  <1>0. AlTypeOK /\ AlTraces /\ AlPlaced(l)
    BY DEF AlInv
  <1>1. /\ alAt'[l] = at /\ alIteration'[l] = it /\ alSpecs'[l] = sp /\ alStep'[l] = st /\ alCount'[l] = cnt
        /\ alHistory'[l] = hist /\ alOutcome'[l] = out
    BY <1>0 DEF AlTypeOK
  <1>2. alResults'[l].good = good /\ alResults'[l].bad = bad
    BY <1>0 DEF AlTypeOK
  <1>3. alSteps'[l].n = n /\ alSteps'[l].calls = calls /\ alSteps'[l].state = state
    BY <1>0 DEF AlTraces
  <1>4. ASSUME NEW k \in AlLoop, k # l
        PROVE  /\ alAt'[k] = alAt[k] /\ alIteration'[k] = alIteration[k] /\ alSpecs'[k] = alSpecs[k] /\ alStep'[k] = alStep[k]
               /\ alCount'[k] = alCount[k] /\ alHistory'[k] = alHistory[k] /\ alOutcome'[k] = alOutcome[k]
               /\ alResults'[k] = alResults[k] /\ alSteps'[k] = alSteps[k] /\ alAsked'[k] = alAsked[k]
    BY <1>0, <1>4 DEF AlTypeOK, AlTraces
  <1>5. AlTypeOK'
    <2>1. alAt' \in [AlLoop -> {"idle", "select", "invoke", "observe", "reason", "finish", "done"}]
      BY <1>0 DEF AlTypeOK
    <2>2. alIteration' \in [AlLoop -> 0..AlMaxIterations] /\ alSpecs' \in [AlLoop -> 0..AlMaxTools]
          /\ alStep' \in [AlLoop -> 0..AlMaxTools] /\ alCount' \in [AlLoop -> Nat] /\ alHistory' \in [AlLoop -> Nat]
      BY <1>0 DEF AlTypeOK
    <2>3. alResults' \in [AlLoop -> [good : Nat, bad : Nat]]
      <3>1. [good |-> good, bad |-> bad] \in [good : Nat, bad : Nat]
        OBVIOUS
      <3> QED
        BY <1>0, <3>1 DEF AlTypeOK
    <2>4. ASSUME NEW k \in AlLoop PROVE alSteps'[k].n \in 0..AlMaxIterations + 1 /\ alSteps'[k].calls \in Nat
      BY <1>0, <1>3, <1>4 DEF AlTypeOK
    <2>5. alOutcome' \in [AlLoop -> SUBSET {"result", "error"}]
      BY <1>0 DEF AlTypeOK
    <2>6. alAsked' \in [AlLoop -> SUBSET AlLoop]
      <3>1. alAsked \in [AlLoop -> SUBSET AlLoop] /\ alService \in AlLoop \cup {AlNoService}
        BY <1>0 DEF AlTypeOK
      <3>2. alAsked[l] \cup ({alService} \ {AlNoService}) \in SUBSET AlLoop
        BY <3>1
      <3> QED
        BY <3>1, <3>2
    <2> QED
      BY <1>0, <2>1, <2>2, <2>3, <2>4, <2>5, <2>6 DEF AlTypeOK
  <1>6. AlTraces'
    <2>1. [n |-> n, calls |-> calls, state |-> state] \in
            [n : Nat, calls : Nat, state : {"none", "complete", "reasoning", "max_iterations"}]
      BY AlAssumption
    <2> QED
      BY <1>0, <2>1 DEF AlTraces
  <1>7. ASSUME NEW k \in AlLoop
        PROVE  /\ AlPlaced(k)'
               /\ alAt'[k] = "finish" /\ alSteps'[k].state = "complete" /\ alIteration'[k] < AlMaxIterations =>
                    alResults'[k].bad = 0 \/ alStep'[k] = 0
               /\ AlAsks(k)'
    <2>1. CASE k = l
      <3>1. l \in alServed => alService = l \/ alOvertaken[l]
        BY <1>0 DEF AlPlaced
      <3>2. AlPlaced(l)'
        BY <1>1, <1>2, <1>3, <3>1 DEF AlPlaced, AlOf
      <3>3. AlAsks(l)'
        <4>1. \/ alAsked'[l] = alAsked[l]
              \/ alAsked'[l] = alAsked[l] \cup ({alService} \ {AlNoService})
          BY <1>0 DEF AlTypeOK
        <4> QED
          BY <3>1, <4>1 DEF AlInv, AlOwnService, AlAsks, AlOwner
      <3> QED
        BY <1>1, <1>2, <1>3, <2>1, <3>2, <3>3
    <2>2. CASE k # l
      <3>1. /\ alAt'[k] = alAt[k] /\ alIteration'[k] = alIteration[k] /\ alSpecs'[k] = alSpecs[k] /\ alStep'[k] = alStep[k]
            /\ alCount'[k] = alCount[k] /\ alHistory'[k] = alHistory[k] /\ alOutcome'[k] = alOutcome[k]
            /\ alResults'[k] = alResults[k] /\ alSteps'[k] = alSteps[k] /\ alAsked'[k] = alAsked[k]
        BY <1>4, <2>2
      <3> QED
        BY <3>1, AlOthers
    <2> QED
      BY <2>1, <2>2
  <1>8. AlOwner'
    BY DEF AlInv, AlOwner
  <1> QED
    BY <1>5, <1>6, <1>7, <1>8, AlMoves

\* What is left alone, as a function with the value it has.
LEMMA AlKept ==
  ASSUME AlInv, NEW l \in AlLoop
  PROVE  /\ alAt = [alAt EXCEPT ![l] = alAt[l]] /\ alIteration = [alIteration EXCEPT ![l] = alIteration[l]]
         /\ alSpecs = [alSpecs EXCEPT ![l] = alSpecs[l]] /\ alStep = [alStep EXCEPT ![l] = alStep[l]]
         /\ alCount = [alCount EXCEPT ![l] = alCount[l]] /\ alHistory = [alHistory EXCEPT ![l] = alHistory[l]]
         /\ alOutcome = [alOutcome EXCEPT ![l] = alOutcome[l]]
         /\ alResults = [alResults EXCEPT ![l] = [good |-> alResults[l].good, bad |-> alResults[l].bad]]
         /\ alSteps = [alSteps EXCEPT ![l] = [n |-> alSteps[l].n, calls |-> alSteps[l].calls, state |-> alSteps[l].state]]
  <1>1. AlTypeOK /\ AlTraces
    BY DEF AlInv
  <1>2. alResults[l] = [good |-> alResults[l].good, bad |-> alResults[l].bad]
    BY <1>1 DEF AlTypeOK
  <1>3. alSteps[l] = [n |-> alSteps[l].n, calls |-> alSteps[l].calls, state |-> alSteps[l].state]
    BY <1>1 DEF AlTraces
  <1>4. alResults = [alResults EXCEPT ![l] = alResults[l]]
    BY <1>1 DEF AlTypeOK
  <1>5. alSteps = [alSteps EXCEPT ![l] = alSteps[l]]
    BY <1>1 DEF AlTraces
  <1>6. alAt = [alAt EXCEPT ![l] = alAt[l]] /\ alIteration = [alIteration EXCEPT ![l] = alIteration[l]]
    BY <1>1 DEF AlTypeOK
  <1>7. alSpecs = [alSpecs EXCEPT ![l] = alSpecs[l]] /\ alStep = [alStep EXCEPT ![l] = alStep[l]]
    BY <1>1 DEF AlTypeOK
  <1>8. alCount = [alCount EXCEPT ![l] = alCount[l]] /\ alHistory = [alHistory EXCEPT ![l] = alHistory[l]]
    BY <1>1 DEF AlTypeOK
  <1>9. alOutcome = [alOutcome EXCEPT ![l] = alOutcome[l]]
    BY <1>1 DEF AlTypeOK
  <1> QED
    BY <1>2, <1>3, <1>4, <1>5, <1>6, <1>7, <1>8, <1>9

\* select_tools, and the end of a loop without any.
LEMMA AlSelectHolds ==
  ASSUME AlInv, NEW l \in AlLoop, NEW n \in 0..AlMaxSpecs, AlSelect(l, n)
  PROVE  AlInv'
  <1> DEFINE sp == IF n > AlMaxTools THEN AlMaxTools ELSE n
             it == alIteration[l]  cnt == alCount[l]  s == alSteps[l]  g == alResults[l].good  b == alResults[l].bad
             at == IF n = 0 THEN "finish" ELSE "invoke"
             m == IF n = 0 THEN s.n + 1 ELSE s.n
             state == IF n = 0 THEN "complete" ELSE s.state
  <1>1. /\ alAt[l] = "select" /\ alAsked' = [alAsked EXCEPT ![l] = alAsked[l] \cup ({alService} \ {AlNoService})]
        /\ alSpecs' = [alSpecs EXCEPT ![l] = sp] /\ alStep' = [alStep EXCEPT ![l] = 0]
        /\ alAt' = [alAt EXCEPT ![l] = at]
        /\ alSteps' = IF n = 0 THEN [alSteps EXCEPT ![l] = [n |-> s.n + 1, calls |-> s.calls + 0, state |-> "complete"]] ELSE alSteps
        /\ alServed' = alServed /\ alService' = alService /\ alIteration' = alIteration /\ alCount' = alCount /\ alResults' = alResults
        /\ alHistory' = alHistory /\ alOutcome' = alOutcome /\ alOvertaken' = alOvertaken
    BY DEF AlSelect, AlAddStep
  <1>2. /\ AlPlaced(l) /\ it \in 0..AlMaxIterations /\ cnt \in Nat /\ alHistory[l] \in Nat
        /\ g \in Nat /\ b \in Nat
        /\ s \in [n : Nat, calls : Nat, state : {"none", "complete", "reasoning", "max_iterations"}]
        /\ AlMaxIterations \in Nat \ {0} /\ AlMaxTools \in Nat \ {0} /\ it * AlMaxTools \in Nat
        /\ alOutcome[l] \in SUBSET {"result", "error"}
    BY AlFacts
  <1>3. /\ cnt = AlOf(l) /\ alHistory[l] <= cnt /\ it >= 1 /\ cnt + AlMaxTools <= it * AlMaxTools
        /\ s.n + 1 <= it /\ s.calls = cnt /\ alOutcome[l] = {} /\ cnt <= it * AlMaxTools
    BY <1>1, <1>2 DEF AlPlaced
  <1>4. n \in Nat
    BY AlAssumption
  <1>5. sp \in 0..AlMaxTools /\ 0 \in 0..AlMaxTools /\ (n # 0 => sp >= 1) /\ sp <= AlMaxTools
    BY <1>2, <1>4
  <1>6. m \in 0..AlMaxIterations + 1 /\ state \in {"none", "complete", "reasoning", "max_iterations"} /\ s.calls \in Nat
    BY <1>2, <1>3, <1>4
  <1>7. alSteps' = [alSteps EXCEPT ![l] = [n |-> m, calls |-> s.calls, state |-> state]]
    <2>1. CASE n = 0
      <3>1. m = s.n + 1 /\ s.calls + 0 = s.calls /\ state = "complete"
        BY <1>2, <2>1
      <3> QED
        BY <1>1, <2>1, <3>1
    <2>2. CASE n # 0
      <3>1. alSteps = [alSteps EXCEPT ![l] = [n |-> s.n, calls |-> s.calls, state |-> s.state]]
        BY AlKept
      <3> QED
        BY <1>1, <2>2, <3>1
    <2> QED
      BY <2>1, <2>2
  <1>8. /\ alIteration' = [alIteration EXCEPT ![l] = it] /\ alCount' = [alCount EXCEPT ![l] = cnt]
        /\ alResults' = [alResults EXCEPT ![l] = [good |-> g, bad |-> b]]
        /\ alHistory' = [alHistory EXCEPT ![l] = alHistory[l]] /\ alOutcome' = [alOutcome EXCEPT ![l] = alOutcome[l]]
    BY <1>1, AlKept
  <1>9. /\ at \in {"select", "invoke", "observe", "reason", "finish", "done"}
        /\ cnt = g + b
        /\ at # "select" /\ at # "observe" /\ at # "reason" /\ at # "done"
        /\ at = "invoke" => sp >= 1 /\ 0 + sp <= AlMaxTools /\ cnt + sp <= it * AlMaxTools /\ m + 1 <= it /\ cnt = s.calls + 0
        /\ at = "finish" => m <= it
    BY <1>2, <1>3, <1>4, <1>5 DEF AlOf
  <1> HIDE DEF sp, it, cnt, s, at, m, state, g, b
  <1>10. /\ at \notin {"finish", "done"} => m + 1 <= it
         /\ at = "invoke" => sp >= 1 /\ 0 + sp <= AlMaxTools /\ cnt + sp <= it * AlMaxTools
         /\ at \in {"select", "finish"} => s.calls = cnt
         /\ at \in {"invoke", "observe", "reason"} => cnt = s.calls + 0
         /\ at = "finish" /\ state = "complete" /\ it < AlMaxIterations => b = 0 \/ 0 = 0
    BY <1>3, <1>9
  <1>20. AlTypes(at, it, sp, 0, cnt, g, b, alHistory[l], m, s.calls, state, alOutcome[l])
    BY <1>2, <1>5, <1>6, <1>9 DEF AlTypes
  <1>21. AlFits(at, it, sp, 0, cnt, g, b, alHistory[l], m, s.calls, state, alOutcome[l])
    BY <1>2, <1>3, <1>5, <1>9, <1>10 DEF AlFits
  <1>22. /\ AlSets(alAt, alAt', l, at) /\ AlSets(alIteration, alIteration', l, it)
        /\ AlSets(alSpecs, alSpecs', l, sp) /\ AlSets(alStep, alStep', l, 0) /\ AlSets(alCount, alCount', l, cnt)
        /\ AlSets(alResults, alResults', l, [good |-> g, bad |-> b]) /\ AlSets(alHistory, alHistory', l, alHistory[l])
        /\ AlSets(alSteps, alSteps', l, [n |-> m, calls |-> s.calls, state |-> state])
        /\ AlSets(alOutcome, alOutcome', l, alOutcome[l])
    BY <1>1, <1>7, <1>8 DEF AlSets
  <1>23. alAsked' = alAsked \/ AlSets(alAsked, alAsked', l, alAsked[l] \cup ({alService} \ {AlNoService}))
    BY <1>1 DEF AlSets
  <1> QED
    BY <1>1, <1>20, <1>21, <1>22, <1>23, AlStepHolds

\* invoke counts a call and keeps its result.
LEMMA AlInvokeHolds ==
  ASSUME AlInv, NEW l \in AlLoop, NEW end \in {"success", "failed", "raised"}, AlInvoke(l, end)
  PROVE  AlInv'
  <1> DEFINE it == alIteration[l]  cnt == alCount[l]  s == alSteps[l]  sp == alSpecs[l]  st == alStep[l]
             g == alResults[l].good  b == alResults[l].bad
             good == IF end = "success" THEN g + 1 ELSE g
             bad == IF end = "success" THEN b ELSE b + 1
             hist == IF end = "raised" THEN alHistory[l] ELSE alHistory[l] + 1
             at == IF sp = 1 THEN "observe" ELSE "invoke"
  <1>1. /\ alAt[l] = "invoke" /\ alCount' = [alCount EXCEPT ![l] = @ + 1]
        /\ alResults' = [alResults EXCEPT ![l] =
                    IF end = "success" THEN [good |-> g + 1, bad |-> b] ELSE [good |-> g, bad |-> b + 1]]
        /\ alHistory' = [alHistory EXCEPT ![l] = hist]
        /\ alStep' = [alStep EXCEPT ![l] = @ + 1] /\ alSpecs' = [alSpecs EXCEPT ![l] = @ - 1]
        /\ alAt' = [alAt EXCEPT ![l] = at]
        /\ alServed' = alServed /\ alService' = alService /\ alIteration' = alIteration /\ alSteps' = alSteps
        /\ alOutcome' = alOutcome /\ alAsked' = alAsked /\ alOvertaken' = alOvertaken
    BY DEF AlInvoke
  <1>2. /\ AlPlaced(l) /\ it \in 0..AlMaxIterations /\ cnt \in Nat /\ alHistory[l] \in Nat /\ g \in Nat /\ b \in Nat
        /\ sp \in 0..AlMaxTools /\ st \in 0..AlMaxTools
        /\ alResults[l] \in [good : Nat, bad : Nat]
        /\ s \in [n : Nat, calls : Nat, state : {"none", "complete", "reasoning", "max_iterations"}]
        /\ s.n \in Nat /\ s.n <= AlMaxIterations + 1
        /\ AlMaxIterations \in Nat \ {0} /\ AlMaxTools \in Nat \ {0} /\ it * AlMaxTools \in Nat
        /\ alOutcome[l] \in SUBSET {"result", "error"}
    BY AlFacts
  <1>3. /\ cnt = g + b /\ alHistory[l] <= cnt /\ it >= 1 /\ sp >= 1 /\ st + sp <= AlMaxTools /\ cnt + sp <= it * AlMaxTools
        /\ s.n + 1 <= it /\ cnt = s.calls + st /\ alOutcome[l] = {}
    BY <1>1, <1>2 DEF AlPlaced, AlOf
  <1>4. alResults' = [alResults EXCEPT ![l] = [good |-> good, bad |-> bad]]
    BY <1>1
  <1>5. /\ alIteration' = [alIteration EXCEPT ![l] = it] /\ alOutcome' = [alOutcome EXCEPT ![l] = alOutcome[l]]
        /\ alSteps' = [alSteps EXCEPT ![l] = [n |-> s.n, calls |-> s.calls, state |-> s.state]]
    BY <1>1, AlKept
  <1>6. /\ alCount' = [alCount EXCEPT ![l] = cnt + 1] /\ alStep' = [alStep EXCEPT ![l] = st + 1]
        /\ alSpecs' = [alSpecs EXCEPT ![l] = sp - 1]
    BY <1>1
  <1>7. /\ good \in Nat /\ bad \in Nat /\ hist \in Nat /\ cnt + 1 \in Nat /\ sp - 1 \in 0..AlMaxTools
        /\ st + 1 \in 0..AlMaxTools /\ s.n \in 0..AlMaxIterations + 1 /\ s.calls \in Nat
        /\ s.state \in {"none", "complete", "reasoning", "max_iterations"}
        /\ at \in {"select", "invoke", "observe", "reason", "finish", "done"}
    BY <1>2, <1>3
  <1>8. cnt + 1 = good + bad /\ hist <= cnt + 1 /\ cnt + 1 <= it * AlMaxTools /\ cnt + 1 = s.calls + (st + 1)
    BY <1>2, <1>3
  <1>9. at = "invoke" => sp - 1 >= 1 /\ (st + 1) + (sp - 1) <= AlMaxTools /\ (cnt + 1) + (sp - 1) <= it * AlMaxTools
    BY <1>2, <1>3
  <1>10. at # "select" /\ at # "finish" /\ at # "done"
    OBVIOUS
  <1> HIDE DEF sp, it, cnt, s, at, st, g, b, good, bad, hist
  <1>20. AlTypes(at, it, sp - 1, st + 1, cnt + 1, good, bad, hist, s.n, s.calls, s.state, alOutcome[l])
    BY <1>2, <1>7 DEF AlTypes
  <1>21. AlFits(at, it, sp - 1, st + 1, cnt + 1, good, bad, hist, s.n, s.calls, s.state, alOutcome[l])
    BY <1>3, <1>7, <1>8, <1>9, <1>10 DEF AlFits
  <1>22. /\ AlSets(alAt, alAt', l, at) /\ AlSets(alIteration, alIteration', l, it)
        /\ AlSets(alSpecs, alSpecs', l, sp - 1) /\ AlSets(alStep, alStep', l, st + 1) /\ AlSets(alCount, alCount', l, cnt + 1)
        /\ AlSets(alResults, alResults', l, [good |-> good, bad |-> bad]) /\ AlSets(alHistory, alHistory', l, hist)
        /\ AlSets(alSteps, alSteps', l, [n |-> s.n, calls |-> s.calls, state |-> s.state])
        /\ AlSets(alOutcome, alOutcome', l, alOutcome[l])
    BY <1>1, <1>4, <1>5, <1>6 DEF AlSets
  <1>23. alAsked' = alAsked \/ AlSets(alAsked, alAsked', l, alAsked[l] \cup ({alService} \ {AlNoService}))
    BY <1>1 DEF AlSets
  <1> QED
    BY <1>1, <1>20, <1>21, <1>22, <1>23, AlStepHolds

\* _store_observations, and an exception before it or in it.
LEMMA AlObserveHolds ==
  ASSUME AlInv, NEW l \in AlLoop, AlObserve(l) \/ AlFails(l)
  PROVE  AlInv'
  <1> DEFINE it == alIteration[l]  cnt == alCount[l]  s == alSteps[l]  sp == alSpecs[l]  st == alStep[l]
             g == alResults[l].good  b == alResults[l].bad
  <1>2. /\ AlPlaced(l) /\ it \in 0..AlMaxIterations /\ cnt \in Nat /\ alHistory[l] \in Nat /\ g \in Nat /\ b \in Nat
        /\ sp \in 0..AlMaxTools /\ st \in 0..AlMaxTools
        /\ s \in [n : Nat, calls : Nat, state : {"none", "complete", "reasoning", "max_iterations"}]
        /\ s.n \in Nat /\ s.n <= AlMaxIterations + 1
        /\ AlMaxIterations \in Nat \ {0} /\ AlMaxTools \in Nat \ {0} /\ it * AlMaxTools \in Nat
        /\ alOutcome[l] \in SUBSET {"result", "error"}
    BY AlFacts
  <1>3. /\ alIteration = [alIteration EXCEPT ![l] = it] /\ alSpecs = [alSpecs EXCEPT ![l] = sp]
        /\ alStep = [alStep EXCEPT ![l] = st] /\ alCount = [alCount EXCEPT ![l] = cnt]
        /\ alResults = [alResults EXCEPT ![l] = [good |-> g, bad |-> b]] /\ alHistory = [alHistory EXCEPT ![l] = alHistory[l]]
        /\ alSteps = [alSteps EXCEPT ![l] = [n |-> s.n, calls |-> s.calls, state |-> s.state]]
        /\ alOutcome = [alOutcome EXCEPT ![l] = alOutcome[l]]
    BY AlKept
  <1>4. /\ s.n \in 0..AlMaxIterations + 1 /\ s.calls \in Nat /\ s.state \in {"none", "complete", "reasoning", "max_iterations"}
        /\ {"error"} \in SUBSET {"result", "error"}
    BY <1>2
  <1>5. alAt[l] # "idle" => cnt = g + b /\ alHistory[l] <= cnt /\ it >= 1 /\ cnt <= it * AlMaxTools
    BY <1>2 DEF AlPlaced, AlOf
  <1>6. CASE AlObserve(l)
    <2>1. /\ alAt[l] = "observe" /\ alAt' = [alAt EXCEPT ![l] = "reason"]
          /\ alServed' = alServed /\ alService' = alService /\ alIteration' = alIteration /\ alSpecs' = alSpecs /\ alStep' = alStep
          /\ alCount' = alCount /\ alResults' = alResults /\ alHistory' = alHistory /\ alSteps' = alSteps
          /\ alOutcome' = alOutcome /\ alAsked' = alAsked /\ alOvertaken' = alOvertaken
      BY <1>6 DEF AlObserve
    <2>2. s.n + 1 <= it /\ cnt = s.calls + st /\ alOutcome[l] = {}
      BY <1>2, <1>5, <2>1 DEF AlPlaced, AlOf
    <2>3. "reason" \in {"select", "invoke", "observe", "reason", "finish", "done"}
      OBVIOUS
    <2> HIDE DEF sp, it, cnt, s, st, g, b
    <2>20. AlTypes("reason", it, sp, st, cnt, g, b, alHistory[l], s.n, s.calls, s.state, alOutcome[l])
      BY <1>2, <1>4, <2>3 DEF AlTypes
    <2>21. AlFits("reason", it, sp, st, cnt, g, b, alHistory[l], s.n, s.calls, s.state, alOutcome[l])
      BY <1>2, <1>5, <2>1, <2>2, <2>3 DEF AlFits
    <2>22. /\ AlSets(alAt, alAt', l, "reason") /\ AlSets(alIteration, alIteration', l, it)
          /\ AlSets(alSpecs, alSpecs', l, sp) /\ AlSets(alStep, alStep', l, st) /\ AlSets(alCount, alCount', l, cnt)
          /\ AlSets(alResults, alResults', l, [good |-> g, bad |-> b]) /\ AlSets(alHistory, alHistory', l, alHistory[l])
          /\ AlSets(alSteps, alSteps', l, [n |-> s.n, calls |-> s.calls, state |-> s.state])
          /\ AlSets(alOutcome, alOutcome', l, alOutcome[l])
      BY <1>3, <2>1 DEF AlSets
    <2>23. alAsked' = alAsked \/ AlSets(alAsked, alAsked', l, alAsked[l] \cup ({alService} \ {AlNoService}))
      BY <2>1 DEF AlSets
    <2> QED
      BY <2>1, <2>20, <2>21, <2>22, <2>23, AlStepHolds
  <1>7. CASE AlFails(l)
    <2>1. /\ alAt[l] \in {"select", "observe"} /\ alAt' = [alAt EXCEPT ![l] = "done"]
          /\ alOutcome' = [alOutcome EXCEPT ![l] = {"error"}]
          /\ alServed' = alServed /\ alService' = alService /\ alIteration' = alIteration /\ alSpecs' = alSpecs /\ alStep' = alStep
          /\ alCount' = alCount /\ alResults' = alResults /\ alHistory' = alHistory /\ alSteps' = alSteps
          /\ alAsked' = alAsked /\ alOvertaken' = alOvertaken
      BY <1>7 DEF AlFails
    <2>2. s.n + 1 <= it /\ cnt <= s.calls + AlMaxTools
      BY <1>2, <1>4, <1>5, <2>1 DEF AlPlaced, AlOf
    <2>3. "done" \in {"select", "invoke", "observe", "reason", "finish", "done"} /\ "result" \notin {"error"} /\ alAt[l] # "idle"
      BY <2>1
    <2> HIDE DEF sp, it, cnt, s, st, g, b
    <2>20. AlTypes("done", it, sp, st, cnt, g, b, alHistory[l], s.n, s.calls, s.state, {"error"})
      BY <1>2, <1>4, <2>3 DEF AlTypes
    <2>21. AlFits("done", it, sp, st, cnt, g, b, alHistory[l], s.n, s.calls, s.state, {"error"})
      BY <1>2, <1>5, <2>1, <2>2, <2>3 DEF AlFits
    <2>22. /\ AlSets(alAt, alAt', l, "done") /\ AlSets(alIteration, alIteration', l, it)
          /\ AlSets(alSpecs, alSpecs', l, sp) /\ AlSets(alStep, alStep', l, st) /\ AlSets(alCount, alCount', l, cnt)
          /\ AlSets(alResults, alResults', l, [good |-> g, bad |-> b]) /\ AlSets(alHistory, alHistory', l, alHistory[l])
          /\ AlSets(alSteps, alSteps', l, [n |-> s.n, calls |-> s.calls, state |-> s.state])
          /\ AlSets(alOutcome, alOutcome', l, {"error"})
      BY <1>3, <2>1 DEF AlSets
    <2>23. alAsked' = alAsked \/ AlSets(alAsked, alAsked', l, alAsked[l] \cup ({alService} \ {AlNoService}))
      BY <2>1 DEF AlSets
    <2> QED
      BY <2>1, <2>20, <2>21, <2>22, <2>23, AlStepHolds
  <1> QED
    BY <1>6, <1>7

\* should_continue, and the next iteration.
LEMMA AlReasonHolds ==
  ASSUME AlInv, NEW l \in AlLoop, NEW done \in BOOLEAN, AlReason(l, done)
  PROVE  AlInv'
  <1> DEFINE it == alIteration[l]  cnt == alCount[l]  s == alSteps[l]  sp == alSpecs[l]  st == alStep[l]
             g == alResults[l].good  b == alResults[l].bad
             ends == done \/ it = AlMaxIterations
             at == IF ends THEN "finish" ELSE "select"
             it2 == IF ends THEN it ELSE it + 1
             state == IF done THEN "complete" ELSE "reasoning"
  <1>1. /\ alAt[l] = "reason" /\ (done => b = 0)
        /\ alAsked' = [alAsked EXCEPT ![l] = IF AlMayEnd(l) THEN @ \cup ({alService} \ {AlNoService}) ELSE @]
        /\ alSteps' = [alSteps EXCEPT ![l] = [n |-> @.n + 1, calls |-> @.calls + st, state |-> state]]
        /\ alAt' = [alAt EXCEPT ![l] = at]
        /\ alIteration' = IF ends THEN alIteration ELSE [alIteration EXCEPT ![l] = it + 1]
        /\ alServed' = alServed /\ alService' = alService /\ alSpecs' = alSpecs /\ alStep' = alStep /\ alCount' = alCount
        /\ alResults' = alResults /\ alHistory' = alHistory /\ alOutcome' = alOutcome /\ alOvertaken' = alOvertaken
    BY DEF AlReason, AlAddStep, AlMayEnd
  <1>2. /\ AlPlaced(l) /\ it \in 0..AlMaxIterations /\ cnt \in Nat /\ alHistory[l] \in Nat /\ g \in Nat /\ b \in Nat
        /\ sp \in 0..AlMaxTools /\ st \in 0..AlMaxTools
        /\ s \in [n : Nat, calls : Nat, state : {"none", "complete", "reasoning", "max_iterations"}]
        /\ AlMaxIterations \in Nat \ {0} /\ AlMaxTools \in Nat \ {0} /\ it * AlMaxTools \in Nat
        /\ alOutcome[l] \in SUBSET {"result", "error"}
    BY AlFacts
  <1>3. /\ cnt = g + b /\ alHistory[l] <= cnt /\ it >= 1 /\ s.n + 1 <= it /\ cnt = s.calls + st
        /\ alOutcome[l] = {} /\ cnt <= it * AlMaxTools
    BY <1>1, <1>2 DEF AlPlaced, AlOf
  <1>4. (it + 1) * AlMaxTools = it * AlMaxTools + AlMaxTools
    BY <1>2, AlTurn
  <1>5. /\ alSpecs' = [alSpecs EXCEPT ![l] = sp] /\ alStep' = [alStep EXCEPT ![l] = st]
        /\ alCount' = [alCount EXCEPT ![l] = cnt] /\ alResults' = [alResults EXCEPT ![l] = [good |-> g, bad |-> b]]
        /\ alHistory' = [alHistory EXCEPT ![l] = alHistory[l]] /\ alOutcome' = [alOutcome EXCEPT ![l] = alOutcome[l]]
    BY <1>1, AlKept
  <1>6. alIteration' = [alIteration EXCEPT ![l] = it2]
    <2>1. alIteration = [alIteration EXCEPT ![l] = it]
      BY AlKept
    <2> QED
      BY <1>1, <2>1
  <1>7. alSteps' = [alSteps EXCEPT ![l] = [n |-> s.n + 1, calls |-> s.calls + st, state |-> state]]
    BY <1>1
  <1>8. alAsked' = alAsked \/ alAsked' = [alAsked EXCEPT ![l] = alAsked[l] \cup ({alService} \ {AlNoService})]
    <2>1. alAsked = [alAsked EXCEPT ![l] = alAsked[l]]
      BY DEF AlInv, AlTypeOK
    <2> QED
      BY <1>1, <2>1
  <1>9. /\ it2 \in 0..AlMaxIterations /\ it2 >= 1 /\ cnt <= it2 * AlMaxTools /\ s.n + 1 \in 0..AlMaxIterations + 1
        /\ s.calls + st \in Nat /\ state \in {"none", "complete", "reasoning", "max_iterations"}
        /\ at \in {"select", "invoke", "observe", "reason", "finish", "done"}
        /\ at = "select" => cnt + AlMaxTools <= it2 * AlMaxTools
        /\ at \notin {"finish", "done"} => (s.n + 1) + 1 <= it2
        /\ at = "finish" => s.n + 1 <= it2
    <2>1. CASE ends
      BY <1>2, <1>3, <2>1
    <2>2. CASE ~ends
      <3>1. it2 = it + 1 /\ at = "select" /\ it + 1 <= AlMaxIterations
        BY <1>2, <2>2
      <3> QED
        BY <1>2, <1>3, <1>4, <3>1
    <2> QED
      BY <2>1, <2>2
  <1>10. at # "invoke" /\ at # "observe" /\ at # "reason" /\ at # "done"
    OBVIOUS
  <1>11. at = "finish" /\ state = "complete" /\ it2 < AlMaxIterations => b = 0 \/ st = 0
    BY <1>1
  <1> HIDE DEF sp, it, cnt, s, at, st, g, b, ends, it2, state
  <1>12. at \in {"invoke", "observe", "reason"} => cnt = (s.calls + st) + st
    BY <1>10
  <1>13. /\ at = "invoke" => sp >= 1 /\ st + sp <= AlMaxTools /\ cnt + sp <= it2 * AlMaxTools
         /\ at = "done" => ("result" \in alOutcome[l] => s.calls + st = cnt)
                           /\ (alOutcome[l] = {"error"} => cnt <= (s.calls + st) + AlMaxTools)
         /\ at # "done" => alOutcome[l] = {}
         /\ at \in {"select", "finish"} => s.calls + st = cnt
    BY <1>3, <1>10
  <1>20. AlTypes(at, it2, sp, st, cnt, g, b, alHistory[l], s.n + 1, s.calls + st, state, alOutcome[l])
    BY <1>2, <1>9 DEF AlTypes
  <1>21. AlFits(at, it2, sp, st, cnt, g, b, alHistory[l], s.n + 1, s.calls + st, state, alOutcome[l])
    BY <1>3, <1>9, <1>11, <1>12, <1>13 DEF AlFits
  <1>22. /\ AlSets(alAt, alAt', l, at) /\ AlSets(alIteration, alIteration', l, it2)
        /\ AlSets(alSpecs, alSpecs', l, sp) /\ AlSets(alStep, alStep', l, st) /\ AlSets(alCount, alCount', l, cnt)
        /\ AlSets(alResults, alResults', l, [good |-> g, bad |-> b]) /\ AlSets(alHistory, alHistory', l, alHistory[l])
        /\ AlSets(alSteps, alSteps', l, [n |-> s.n + 1, calls |-> s.calls + st, state |-> state])
        /\ AlSets(alOutcome, alOutcome', l, alOutcome[l])
    BY <1>1, <1>5, <1>6, <1>7 DEF AlSets
  <1>23. alAsked' = alAsked \/ AlSets(alAsked, alAsked', l, alAsked[l] \cup ({alService} \ {AlNoService}))
    BY <1>8 DEF AlSets
  <1> QED
    BY <1>1, <1>20, <1>21, <1>22, <1>23, AlStepHolds

\* Behind the loop, the last step and the result.
LEMMA AlFinishHolds ==
  ASSUME AlInv, NEW l \in AlLoop, NEW stored \in BOOLEAN, AlFinish(l, stored)
  PROVE  AlInv'
  <1> DEFINE it == alIteration[l]  cnt == alCount[l]  s == alSteps[l]  sp == alSpecs[l]  st == alStep[l]
             g == alResults[l].good  b == alResults[l].bad
             m == IF it = AlMaxIterations THEN s.n + 1 ELSE s.n
             state == IF it = AlMaxIterations THEN "max_iterations" ELSE s.state
             out == IF stored THEN {"result"} ELSE {"result", "error"}
  <1>1. /\ alAt[l] = "finish" /\ alAt' = [alAt EXCEPT ![l] = "done"] /\ alOutcome' = [alOutcome EXCEPT ![l] = out]
        /\ alSteps' = IF it = AlMaxIterations
                        THEN [alSteps EXCEPT ![l] = [n |-> s.n + 1, calls |-> s.calls + 0, state |-> "max_iterations"]]
                        ELSE alSteps
        /\ alServed' = alServed /\ alService' = alService /\ alIteration' = alIteration /\ alSpecs' = alSpecs /\ alStep' = alStep
        /\ alCount' = alCount /\ alResults' = alResults /\ alHistory' = alHistory
        /\ alAsked' = alAsked /\ alOvertaken' = alOvertaken
    BY DEF AlFinish, AlAddStep
  <1>2. /\ AlPlaced(l) /\ it \in 0..AlMaxIterations /\ cnt \in Nat /\ alHistory[l] \in Nat /\ g \in Nat /\ b \in Nat
        /\ sp \in 0..AlMaxTools /\ st \in 0..AlMaxTools
        /\ s \in [n : Nat, calls : Nat, state : {"none", "complete", "reasoning", "max_iterations"}]
        /\ AlMaxIterations \in Nat \ {0} /\ AlMaxTools \in Nat \ {0} /\ it * AlMaxTools \in Nat
    BY AlFacts
  <1>3. /\ cnt = g + b /\ alHistory[l] <= cnt /\ it >= 1 /\ s.n <= it /\ s.calls = cnt /\ cnt <= it * AlMaxTools
    BY <1>1, <1>2 DEF AlPlaced, AlOf
  <1>4. /\ alIteration' = [alIteration EXCEPT ![l] = it] /\ alSpecs' = [alSpecs EXCEPT ![l] = sp]
        /\ alStep' = [alStep EXCEPT ![l] = st] /\ alCount' = [alCount EXCEPT ![l] = cnt]
        /\ alResults' = [alResults EXCEPT ![l] = [good |-> g, bad |-> b]]
        /\ alHistory' = [alHistory EXCEPT ![l] = alHistory[l]]
    BY <1>1, AlKept
  <1>5. alSteps' = [alSteps EXCEPT ![l] = [n |-> m, calls |-> s.calls, state |-> state]]
    <2>1. CASE it = AlMaxIterations
      <3>1. m = s.n + 1 /\ s.calls + 0 = s.calls /\ state = "max_iterations"
        BY <1>2, <2>1
      <3> QED
        BY <1>1, <2>1, <3>1
    <2>2. CASE it # AlMaxIterations
      <3>1. alSteps = [alSteps EXCEPT ![l] = [n |-> s.n, calls |-> s.calls, state |-> s.state]]
        BY AlKept
      <3> QED
        BY <1>1, <2>2, <3>1
    <2> QED
      BY <2>1, <2>2
  <1>6. /\ m \in 0..AlMaxIterations + 1 /\ s.calls \in Nat /\ state \in {"none", "complete", "reasoning", "max_iterations"}
        /\ out \in SUBSET {"result", "error"}
        /\ "done" \in {"select", "invoke", "observe", "reason", "finish", "done"}
    BY <1>2, <1>3
  <1>7. out # {"error"} /\ alAt[l] # "idle"
    BY <1>1
  <1> HIDE DEF sp, it, cnt, s, st, g, b, m, state, out
  <1>20. AlTypes("done", it, sp, st, cnt, g, b, alHistory[l], m, s.calls, state, out)
    BY <1>2, <1>6 DEF AlTypes
  <1>21. AlFits("done", it, sp, st, cnt, g, b, alHistory[l], m, s.calls, state, out)
    BY <1>2, <1>3, <1>7 DEF AlFits
  <1>22. /\ AlSets(alAt, alAt', l, "done") /\ AlSets(alIteration, alIteration', l, it)
        /\ AlSets(alSpecs, alSpecs', l, sp) /\ AlSets(alStep, alStep', l, st) /\ AlSets(alCount, alCount', l, cnt)
        /\ AlSets(alResults, alResults', l, [good |-> g, bad |-> b]) /\ AlSets(alHistory, alHistory', l, alHistory[l])
        /\ AlSets(alSteps, alSteps', l, [n |-> m, calls |-> s.calls, state |-> state])
        /\ AlSets(alOutcome, alOutcome', l, out)
    BY <1>1, <1>4, <1>5 DEF AlSets
  <1>23. alAsked' = alAsked \/ AlSets(alAsked, alAsked', l, alAsked[l] \cup ({alService} \ {AlNoService}))
    BY <1>1 DEF AlSets
  <1> QED
    BY <1>1, <1>7, <1>20, <1>21, <1>22, <1>23, AlStepHolds

\* Every step of every loop keeps all of them sound.
LEMMA AlHolds == AlInv /\ [AlNext]_alVars => AlInv'
  <1> SUFFICES ASSUME AlInv, [AlNext]_alVars PROVE AlInv'
    OBVIOUS
  <1>1. CASE AlNext
    <2>1. PICK l \in AlLoop : AlStart(l) \/ AlStep(l)
      BY <1>1 DEF AlNext
    <2>2. CASE AlStart(l)
      BY <2>2, AlStartHolds
    <2>3. CASE AlStep(l)
      <3>1. ASSUME NEW n \in 0..AlMaxSpecs, AlSelect(l, n) PROVE AlInv'
        BY <3>1, AlSelectHolds
      <3>2. ASSUME NEW end \in {"success", "failed", "raised"}, AlInvoke(l, end) PROVE AlInv'
        BY <3>2, AlInvokeHolds
      <3>3. ASSUME AlObserve(l) \/ AlFails(l) PROVE AlInv'
        BY <3>3, AlObserveHolds
      <3>4. ASSUME NEW b \in BOOLEAN, AlReason(l, b) PROVE AlInv'
        BY <3>4, AlReasonHolds
      <3>5. ASSUME NEW b \in BOOLEAN, AlFinish(l, b) PROVE AlInv'
        BY <3>5, AlFinishHolds
      <3> QED
        BY <2>3, <3>1, <3>2, <3>3, <3>4, <3>5 DEF AlStep
    <2> QED
      BY <2>1, <2>2, <2>3
  <1>2. CASE UNCHANGED alVars
    BY <1>2 DEF AlInv, AlTypeOK, AlTraces, AlPlaced, AlOf, AlDoneIsClean, AlOwnService, AlOwner, alVars
  <1> QED
    BY <1>1, <1>2

\* For any loops and any limits: no loop goes over its budget, the trace of each has
\* its calls, none is done after a failed step, none asks a service that is not its
\* caller's unless another was started meanwhile.
THEOREM LoopsAreSound ==
  AlInit /\ [][AlNext]_alVars => [](AlTypeOK /\ AlBudget /\ AlTraceAccounts /\ AlDoneIsClean /\ AlOwnService)
  <1>1. AlInit => AlInv
    BY AlBegins
  <1>2. AlInv /\ [AlNext]_alVars => AlInv'
    BY AlHolds
  <1>3. AlInv => AlTypeOK /\ AlBudget /\ AlTraceAccounts /\ AlDoneIsClean /\ AlOwnService
    BY AlIsSound DEF AlInv
  <1> QED
    BY <1>1, <1>2, <1>3, PTL

-----------------------------------------------------------------------------
\* Improvement loops.

\* What is logged of a loop.
ImPhase == {"generate", "critique", "improve"}

\* The entries of its log.
ImEntries == [loop : ImLoop, iteration : Nat, phase : ImPhase, solution : Nat]

\* The i-th entry of the log of loop l: the solution that is given, then for each
\* iteration the critique of the solution before it, and the one that it made.
ImIsEntry(l, i, e) ==
  /\ e \in ImEntries /\ e.loop = l
  /\ 2 * e.iteration = i \/ 2 * e.iteration + 1 = i
  /\ e.solution + 1 + e.iteration = i
  /\ e.phase = IF i = 1 THEN "generate" ELSE IF 2 * e.iteration = i THEN "critique" ELSE "improve"

\* A log whose entries are what their places say.
ImGoodLog(l, log) == log \in Seq(ImEntries) /\ \A i \in 1..Len(log) : ImIsEntry(l, i, log[i])

\* What explains the status of a loop that was left.
ImExplained(it, sol, c, status) ==
  CASE status = "converged" -> c.quality = "threshold" \/ (~c.issues /\ c.quality # "low" /\ ~ImPassing(c))
    [] status = "tests_passing" -> ImPassing(c) /\ c.quality # "threshold"
    [] status \in {"running", "max_iterations"} -> ~ImShouldStop(c) /\ it = ImMaxIterations /\ sol = ImMaxIterations
    [] status = "failed" -> sol < ImMaxIterations
    [] OTHER -> FALSE

\* Where a loop is says how long its log is and which solution it has.
ImFits(l, at, it, sol, c, log, status) ==
  /\ ImGoodLog(l, log)
  /\ at = "idle" => it = 0 /\ sol = 0 /\ status = "running" /\ log = << >> /\ c = ImNoCritique
  /\ at = "critique" => it >= 1 /\ sol + 1 = it /\ status = "running" /\ Len(log) + 1 = 2 * it
  /\ at = "improve" => it >= 1 /\ sol + 1 = it /\ status = "running" /\ Len(log) = 2 * it /\ ~ImShouldStop(c)
  /\ at \in {"left", "saving", "returned"} => ImExplained(it, sol, c, status)
  /\ at \in {"saving", "returned"} => status # "running"

\* The document of an iteration.
ImDoc(d) ==
  /\ d \in ImEntries
  /\ d.phase = IF d.iteration = 0 THEN "generate" ELSE "critique"
  /\ IF d.iteration = 0 THEN d.solution = 0 ELSE d.solution = d.iteration - 1

\* What is stored of an iteration belongs to a stored loop.
ImDocs == imLoopDocs \subseteq ImLoop /\ \A d \in imIterDocs : ImDoc(d) /\ d.loop \in imLoopDocs

\* The types, what is stored, and each loop's values, which fit together.
ImInv ==
  /\ ImTypeOK
  /\ \A l \in ImLoop : ImFits(l, imAt[l], imIteration[l], imSolution[l], imCritique[l], imLog[l], imStatus[l])
  /\ imLog = [l \in ImLoop |-> imLog[l]]
  /\ ImDocs

\* What the run checks follows.
LEMMA ImIsSound == ImInv => ImTypeOK /\ ImStatusExplained /\ ImStoredSolutions
  <1> SUFFICES ASSUME ImInv PROVE ImStatusExplained /\ ImStoredSolutions
    BY DEF ImInv
  <1>1. ImStatusExplained
    <2> SUFFICES ASSUME NEW l \in ImLoop, imAt[l] \in {"saving", "returned"}
                 PROVE  LET c == imCritique[l] IN
                        CASE imStatus[l] = "converged" -> c.quality = "threshold" \/ (~c.issues /\ c.quality # "low" /\ ~ImPassing(c))
                          [] imStatus[l] = "tests_passing" -> ImPassing(c) /\ c.quality # "threshold"
                          [] imStatus[l] = "max_iterations" -> /\ ~ImShouldStop(c)
                                                               /\ imIteration[l] = ImMaxIterations
                                                               /\ imSolution[l] = ImMaxIterations
                          [] imStatus[l] = "failed" -> imSolution[l] < ImMaxIterations
                          [] OTHER -> FALSE
      BY DEF ImStatusExplained
    <2>1. ImFits(l, imAt[l], imIteration[l], imSolution[l], imCritique[l], imLog[l], imStatus[l])
          /\ imStatus[l] \in {"running", "converged", "tests_passing", "max_iterations", "failed"}
      BY DEF ImInv, ImTypeOK
    <2> QED
      BY <2>1 DEF ImFits, ImExplained
  <1>2. ImStoredSolutions
    <2> SUFFICES ASSUME NEW d \in imIterDocs
                 PROVE  /\ d.loop \in imLoopDocs
                        /\ \A e \in imIterDocs : e.loop = d.loop /\ e.iteration = d.iteration => e = d
                        /\ d.iteration > 0 => d.solution = d.iteration - 1
      BY DEF ImStoredSolutions
    <2>1. ImDoc(d) /\ d.loop \in imLoopDocs
      BY DEF ImInv, ImDocs
    <2>2. ASSUME NEW e \in imIterDocs, e.loop = d.loop, e.iteration = d.iteration PROVE e = d
      <3>1. ImDoc(e)
        BY DEF ImInv, ImDocs
      <3>2. e.phase = d.phase /\ e.solution = d.solution
        BY <2>1, <2>2, <3>1 DEF ImDoc
      <3> QED
        BY <2>1, <2>2, <3>1, <3>2 DEF ImDoc, ImEntries
    <2> QED
      BY <2>1, <2>2 DEF ImDoc, ImEntries
  <1> QED
    BY <1>1, <1>2

\* Before they start the loops have logged nothing.
LEMMA ImBegins == ImInit => ImInv
  <1> SUFFICES ASSUME ImInit PROVE ImInv
    OBVIOUS
  <1>1. ImNoCritique \in ImCritique
    BY DEF ImNoCritique, ImCritique
  <1>2. ImTypeOK
    BY <1>1, ImAssumption DEF ImInit, ImTypeOK
  <1>3. ASSUME NEW l \in ImLoop
        PROVE ImFits(l, imAt[l], imIteration[l], imSolution[l], imCritique[l], imLog[l], imStatus[l])
    BY DEF ImInit, ImFits, ImGoodLog
  <1> QED
    BY <1>2, <1>3 DEF ImInv, ImInit, ImDocs

\* g is f but for the value of l.
ImSets(f, g, l, v) == g = [f EXCEPT ![l] = v]

\* A step of one loop that gives it new values, which fit together.
LEMMA ImStepHolds ==
  ASSUME ImInv, NEW l \in ImLoop,
         NEW at \in {"idle", "critique", "improve", "left", "saving", "returned", "raised"}, NEW it, NEW sol, NEW c \in ImCritique, NEW log,
         it \in 0..ImMaxIterations /\ sol \in 0..ImMaxIterations,
         NEW status \in {"running", "converged", "tests_passing", "max_iterations", "failed"},
         ImSets(imAt, imAt', l, at), ImSets(imIteration, imIteration', l, it),
         ImSets(imSolution, imSolution', l, sol), ImSets(imCritique, imCritique', l, c),
         ImSets(imLog, imLog', l, log), ImSets(imStatus, imStatus', l, status),
         ImFits(l, at, it, sol, c, log, status),
         ImDocs'
  PROVE  ImInv'
  <1>1. ImTypeOK /\ imLog = [k \in ImLoop |-> imLog[k]]
    BY DEF ImInv
  <1>2. /\ imAt'[l] = at /\ imIteration'[l] = it /\ imSolution'[l] = sol /\ imCritique'[l] = c /\ imLog'[l] = log
        /\ imStatus'[l] = status /\ imLog' = [k \in ImLoop |-> imLog'[k]]
    BY <1>1 DEF ImTypeOK, ImSets
  <1>3. ASSUME NEW k \in ImLoop, k # l
        PROVE  /\ imAt'[k] = imAt[k] /\ imIteration'[k] = imIteration[k] /\ imSolution'[k] = imSolution[k]
               /\ imCritique'[k] = imCritique[k] /\ imLog'[k] = imLog[k] /\ imStatus'[k] = imStatus[k]
    BY <1>1, <1>3 DEF ImTypeOK, ImSets
  <1>4. ImTypeOK'
    <2>1. imAt' \in [ImLoop -> {"idle", "critique", "improve", "left", "saving", "returned", "raised"}]
      BY <1>1 DEF ImTypeOK, ImSets
    <2>2. imIteration' \in [ImLoop -> 0..ImMaxIterations] /\ imSolution' \in [ImLoop -> 0..ImMaxIterations]
      BY <1>1 DEF ImTypeOK, ImSets
    <2>3. imCritique' \in [ImLoop -> ImCritique]
      BY <1>1 DEF ImTypeOK, ImSets
    <2>4. imStatus' \in [ImLoop -> {"running", "converged", "tests_passing", "max_iterations", "failed"}]
      BY <1>1 DEF ImTypeOK, ImSets
    <2>5. \A d \in imIterDocs' : d.loop \in ImLoop
      BY DEF ImDoc, ImEntries, ImDocs
    <2> QED
      BY <2>1, <2>2, <2>3, <2>4, <2>5 DEF ImTypeOK, ImDocs
  <1>5. ASSUME NEW k \in ImLoop
        PROVE  ImFits(k, imAt'[k], imIteration'[k], imSolution'[k], imCritique'[k], imLog'[k], imStatus'[k])
    <2>1. CASE k = l
      BY <1>2, <2>1
    <2>2. CASE k # l
      BY <1>3, <2>2 DEF ImInv
    <2> QED
      BY <2>1, <2>2
  <1> QED
    BY <1>2, <1>4, <1>5 DEF ImInv

\* What is left alone, and what is known of one loop.
LEMMA ImFacts ==
  ASSUME ImInv, NEW l \in ImLoop
  PROVE  /\ ImFits(l, imAt[l], imIteration[l], imSolution[l], imCritique[l], imLog[l], imStatus[l])
         /\ ImGoodLog(l, imLog[l]) /\ imLog[l] \in Seq(ImEntries) /\ Len(imLog[l]) \in Nat
         /\ imAt[l] \in {"idle", "critique", "improve", "left", "saving", "returned", "raised"}
         /\ imIteration[l] \in 0..ImMaxIterations /\ imSolution[l] \in 0..ImMaxIterations /\ imCritique[l] \in ImCritique
         /\ imStatus[l] \in {"running", "converged", "tests_passing", "max_iterations", "failed"} /\ ImMaxIterations \in Nat
         /\ imAt = [imAt EXCEPT ![l] = imAt[l]] /\ imIteration = [imIteration EXCEPT ![l] = imIteration[l]]
         /\ imSolution = [imSolution EXCEPT ![l] = imSolution[l]] /\ imCritique = [imCritique EXCEPT ![l] = imCritique[l]]
         /\ imLog = [imLog EXCEPT ![l] = imLog[l]] /\ imStatus = [imStatus EXCEPT ![l] = imStatus[l]]
         /\ ImDocs
  <1>1. ImTypeOK /\ imLog = [k \in ImLoop |-> imLog[k]] /\ ImMaxIterations \in Nat
    BY ImAssumption DEF ImInv
  <1>2. ImFits(l, imAt[l], imIteration[l], imSolution[l], imCritique[l], imLog[l], imStatus[l])
    BY DEF ImInv
  <1>3. ImGoodLog(l, imLog[l]) /\ imLog[l] \in Seq(ImEntries) /\ Len(imLog[l]) \in Nat
    BY <1>2 DEF ImFits, ImGoodLog
  <1>4. imAt = [imAt EXCEPT ![l] = imAt[l]] /\ imIteration = [imIteration EXCEPT ![l] = imIteration[l]]
    BY <1>1 DEF ImTypeOK
  <1>5. imSolution = [imSolution EXCEPT ![l] = imSolution[l]] /\ imCritique = [imCritique EXCEPT ![l] = imCritique[l]]
    BY <1>1 DEF ImTypeOK
  <1>6. imLog = [imLog EXCEPT ![l] = imLog[l]]
    BY <1>1
  <1>7. imStatus = [imStatus EXCEPT ![l] = imStatus[l]]
    BY <1>1 DEF ImTypeOK
  <1> QED
    BY <1>1, <1>2, <1>3, <1>4, <1>5, <1>6, <1>7 DEF ImTypeOK, ImInv

\* An entry at the end of a log.
LEMMA ImLogs ==
  ASSUME NEW l, NEW log, ImGoodLog(l, log), NEW e, ImIsEntry(l, Len(log) + 1, e)
  PROVE  ImGoodLog(l, Append(log, e)) /\ Len(Append(log, e)) = Len(log) + 1
  <1>1. e \in ImEntries /\ log \in Seq(ImEntries)
    BY DEF ImIsEntry, ImGoodLog
  <1> QED
    BY <1>1 DEF ImGoodLog

\* A step that moves a loop on, and leaves alone what it has made.
ImMovesTo(l, at) ==
  /\ imAt' = [imAt EXCEPT ![l] = at]
  /\ UNCHANGED <<imIteration, imSolution, imCritique, imLog, imStatus, imLoopDocs, imIterDocs>>

\* A step that only moves its loop on keeps what fits.
LEMMA ImMoves ==
  ASSUME ImInv, NEW l \in ImLoop, NEW at \in {"idle", "critique", "improve", "left", "saving", "returned", "raised"},
         ImMovesTo(l, at), ImFits(l, at, imIteration[l], imSolution[l], imCritique[l], imLog[l], imStatus[l])
  PROVE  ImInv'
  <1> DEFINE it == imIteration[l]  sol == imSolution[l]  c == imCritique[l]  log == imLog[l]  status == imStatus[l]
  <1>1. /\ it \in 0..ImMaxIterations /\ sol \in 0..ImMaxIterations /\ c \in ImCritique
        /\ status \in {"running", "converged", "tests_passing", "max_iterations", "failed"}
        /\ imIteration' = [imIteration EXCEPT ![l] = it] /\ imSolution' = [imSolution EXCEPT ![l] = sol]
        /\ imCritique' = [imCritique EXCEPT ![l] = c] /\ imLog' = [imLog EXCEPT ![l] = log]
        /\ imStatus' = [imStatus EXCEPT ![l] = status]
    BY ImFacts DEF ImMovesTo
  <1>2. ImDocs'
    BY ImFacts DEF ImDocs, ImMovesTo
  <1>3. ImFits(l, at, it, sol, c, log, status)
    OBVIOUS
  <1>20. /\ ImSets(imAt, imAt', l, at) /\ ImSets(imIteration, imIteration', l, it) /\ ImSets(imSolution, imSolution', l, sol)
         /\ ImSets(imCritique, imCritique', l, c) /\ ImSets(imLog, imLog', l, log) /\ ImSets(imStatus, imStatus', l, status)
    BY <1>1, <1>2, <1>3 DEF ImSets, ImMovesTo
  <1> HIDE DEF it, sol, c, log, status
  <1>21. /\ at \in {"idle", "critique", "improve", "left", "saving", "returned", "raised"}
         /\ it \in 0..ImMaxIterations /\ sol \in 0..ImMaxIterations /\ c \in ImCritique /\ ImDocs'
         /\ status \in {"running", "converged", "tests_passing", "max_iterations", "failed"}
    BY <1>1, <1>2, <1>3
  <1> QED
    BY <1>3, <1>20, <1>21, ImStepHolds

\* The first solution, or an exception for it.
LEMMA ImStartHolds ==
  ASSUME ImInv, NEW l \in ImLoop, NEW generated \in BOOLEAN, ImStart(l, generated)
  PROVE  ImInv'
  <1>1. /\ imAt[l] = "idle" /\ imSolution' = imSolution /\ imCritique' = imCritique /\ imStatus' = imStatus
        /\ imLoopDocs' = imLoopDocs /\ imIterDocs' = imIterDocs
    BY DEF ImStart
  <1>2. imIteration[l] = 0 /\ imSolution[l] = 0 /\ imStatus[l] = "running" /\ imLog[l] = << >> /\ imCritique[l] = ImNoCritique
    BY <1>1, ImFacts DEF ImFits
  <1>3. CASE generated
    <2> DEFINE e == ImEntry(l, 0, "generate", 0)
               it == IF ImMaxIterations = 0 THEN 0 ELSE 1
               at == IF ImMaxIterations = 0 THEN "left" ELSE "critique"
    <2>1. /\ imLog' = [imLog EXCEPT ![l] = <<e>>] /\ imIteration' = [imIteration EXCEPT ![l] = it]
          /\ imAt' = [imAt EXCEPT ![l] = at]
      BY <1>3 DEF ImStart
    <2>2. ImIsEntry(l, 1, e)
      BY DEF ImEntry, ImIsEntry, ImEntries, ImPhase
    <2>3. ImGoodLog(l, <<e>>) /\ Len(<<e>>) = 1
      BY <2>2 DEF ImGoodLog, ImIsEntry
    <2>4. ~ImShouldStop(ImNoCritique)
      BY DEF ImShouldStop, ImNoCritique, ImPassing
    <2>5. ImMaxIterations \in Nat
      BY ImAssumption
    <2> HIDE DEF e
    <2>6. ImFits(l, at, it, 0, ImNoCritique, <<e>>, "running")
      <3>1. CASE ImMaxIterations = 0
        BY <2>3, <2>4, <3>1 DEF ImFits, ImExplained
      <3>2. CASE ImMaxIterations # 0
        BY <2>3, <2>5, <3>2 DEF ImFits
      <3> QED
        BY <3>1, <3>2
    <2>7. it \in 0..ImMaxIterations /\ at \in {"idle", "critique", "improve", "left", "saving", "returned", "raised"}
      BY <2>5
    <2>8. /\ imSolution' = [imSolution EXCEPT ![l] = 0] /\ imCritique' = [imCritique EXCEPT ![l] = ImNoCritique]
          /\ imStatus' = [imStatus EXCEPT ![l] = "running"] /\ 0 \in 0..ImMaxIterations /\ ImNoCritique \in ImCritique
          /\ ImDocs'
      <3>1. /\ imSolution = [imSolution EXCEPT ![l] = imSolution[l]] /\ imCritique = [imCritique EXCEPT ![l] = imCritique[l]]
            /\ imStatus = [imStatus EXCEPT ![l] = imStatus[l]] /\ imSolution[l] \in 0..ImMaxIterations /\ imCritique[l] \in ImCritique
            /\ ImDocs
        BY ImFacts
      <3> QED
        BY <1>1, <1>2, <3>1 DEF ImDocs
    <2>20. /\ ImSets(imAt, imAt', l, at) /\ ImSets(imIteration, imIteration', l, it) /\ ImSets(imSolution, imSolution', l, 0)
           /\ ImSets(imCritique, imCritique', l, ImNoCritique) /\ ImSets(imLog, imLog', l, <<e>>) /\ ImSets(imStatus, imStatus', l, "running")
      BY <2>1, <2>6, <2>7, <2>8 DEF ImSets
    <2> HIDE DEF it, at
    <2> QED
      BY <2>1, <2>6, <2>7, <2>8, <2>20, ImStepHolds
  <1>4. CASE ~generated
    <2>1. imAt' = [imAt EXCEPT ![l] = "raised"] /\ imLog' = imLog /\ imIteration' = imIteration
      BY <1>4 DEF ImStart
    <2>2. ImFits(l, "raised", imIteration[l], imSolution[l], imCritique[l], imLog[l], imStatus[l])
      BY ImFacts DEF ImFits
    <2>3. "raised" \in {"idle", "critique", "improve", "left", "saving", "returned", "raised"}
      OBVIOUS
    <2> QED
      BY <1>1, <2>1, <2>2, <2>3, ImMoves DEF ImMovesTo
  <1> QED
    BY <1>3, <1>4

\* A critique of the solution, which may end the loop.
LEMMA ImCritiqueHolds ==
  ASSUME ImInv, NEW l \in ImLoop, NEW c \in ImCritique, ImCritiqueEnds(l, c)
  PROVE  ImInv'
  <1> DEFINE it == imIteration[l]  sol == imSolution[l]
             e == ImEntry(l, it, "critique", sol)
             log == Append(imLog[l], e)
             at == IF ImShouldStop(c) THEN "left" ELSE "improve"
             status == IF ImShouldStop(c) THEN ImTerminationStatus(c) ELSE imStatus[l]
  <1>1. /\ imAt[l] = "critique" /\ imCritique' = [imCritique EXCEPT ![l] = c] /\ imLog' = [imLog EXCEPT ![l] = log]
        /\ imAt' = [imAt EXCEPT ![l] = at]
        /\ imStatus' = IF ImShouldStop(c) THEN [imStatus EXCEPT ![l] = ImTerminationStatus(c)] ELSE imStatus
        /\ imIteration' = imIteration /\ imSolution' = imSolution /\ imLoopDocs' = imLoopDocs /\ imIterDocs' = imIterDocs
    BY DEF ImCritiqueEnds
  <1>2. /\ it \in 0..ImMaxIterations /\ sol \in 0..ImMaxIterations /\ it >= 1 /\ sol + 1 = it /\ imStatus[l] = "running"
        /\ Len(imLog[l]) + 1 = 2 * it /\ ImGoodLog(l, imLog[l]) /\ ImMaxIterations \in Nat
        /\ imStatus = [imStatus EXCEPT ![l] = imStatus[l]]
    BY <1>1, ImFacts DEF ImFits
  <1>3. ImIsEntry(l, Len(imLog[l]) + 1, e)
    BY <1>2 DEF ImEntry, ImIsEntry, ImEntries, ImPhase
  <1>4. ImGoodLog(l, log) /\ Len(log) = 2 * it
    <2> HIDE DEF e
    <2> QED
      BY <1>2, <1>3, ImLogs
  <1>5. imStatus' = [imStatus EXCEPT ![l] = status] /\ status \in {"running", "converged", "tests_passing", "max_iterations", "failed"}
    BY <1>1, <1>2 DEF ImTerminationStatus
  <1>6. at = "left" => ImExplained(it, sol, c, status)
    BY DEF ImExplained, ImShouldStop, ImTerminationStatus
  <1>7. ImFits(l, at, it, sol, c, log, status)
    BY <1>2, <1>4, <1>6 DEF ImFits
  <1>8. at \in {"idle", "critique", "improve", "left", "saving", "returned", "raised"}
    OBVIOUS
  <1>9. /\ imIteration' = [imIteration EXCEPT ![l] = it] /\ imSolution' = [imSolution EXCEPT ![l] = sol]
        /\ ImDocs'
    BY <1>1, ImFacts DEF ImDocs
  <1>20. /\ ImSets(imAt, imAt', l, at) /\ ImSets(imIteration, imIteration', l, it) /\ ImSets(imSolution, imSolution', l, sol)
         /\ ImSets(imCritique, imCritique', l, c) /\ ImSets(imLog, imLog', l, log) /\ ImSets(imStatus, imStatus', l, status)
    BY <1>1, <1>2, <1>5, <1>7, <1>8, <1>9 DEF ImSets
  <1> HIDE DEF it, sol, e, log, at, status
  <1>21. /\ at \in {"idle", "critique", "improve", "left", "saving", "returned", "raised"}
         /\ it \in 0..ImMaxIterations /\ sol \in 0..ImMaxIterations /\ c \in ImCritique /\ ImDocs'
         /\ status \in {"running", "converged", "tests_passing", "max_iterations", "failed"}
    BY <1>1, <1>2, <1>5, <1>7, <1>8, <1>9
  <1> QED
    BY <1>7, <1>20, <1>21, ImStepHolds

\* A better solution, for the next iteration.
LEMMA ImImproveHolds ==
  ASSUME ImInv, NEW l \in ImLoop, ImImproveEnds(l)
  PROVE  ImInv'
  <1> DEFINE it == imIteration[l]  sol == imSolution[l] + 1  c == imCritique[l]
             e == ImEntry(l, it, "improve", sol)
             log == Append(imLog[l], e)
             more == it < ImMaxIterations
             at == IF more THEN "critique" ELSE "left"
             next == IF more THEN it + 1 ELSE it
             status == imStatus[l]
  <1>1. /\ imAt[l] = "improve" /\ imSolution' = [imSolution EXCEPT ![l] = sol] /\ imLog' = [imLog EXCEPT ![l] = log]
        /\ imAt' = [imAt EXCEPT ![l] = at]
        /\ imIteration' = IF more THEN [imIteration EXCEPT ![l] = next] ELSE imIteration
        /\ imCritique' = imCritique /\ imStatus' = imStatus /\ imLoopDocs' = imLoopDocs /\ imIterDocs' = imIterDocs
    BY DEF ImImproveEnds
  <1>2. /\ it \in 0..ImMaxIterations /\ sol \in Nat /\ it >= 1 /\ sol = it /\ status = "running"
        /\ Len(imLog[l]) = 2 * it /\ ImGoodLog(l, imLog[l]) /\ ImMaxIterations \in Nat /\ ~ImShouldStop(c)
        /\ imIteration = [imIteration EXCEPT ![l] = it]
    BY <1>1, ImFacts DEF ImFits
  <1>3. ImIsEntry(l, Len(imLog[l]) + 1, e)
    BY <1>2 DEF ImEntry, ImIsEntry, ImEntries, ImPhase
  <1>4. ImGoodLog(l, log) /\ Len(log) = 2 * it + 1
    <2> HIDE DEF e
    <2> QED
      BY <1>2, <1>3, ImLogs
  <1>5. imIteration' = [imIteration EXCEPT ![l] = next] /\ next \in 0..ImMaxIterations /\ sol \in 0..ImMaxIterations
    BY <1>1, <1>2
  <1>6. at = "left" => ImExplained(next, sol, c, status)
    BY <1>2 DEF ImExplained
  <1>7. ImFits(l, at, next, sol, c, log, status)
    <2> HIDE DEF log, c, status
    <2> QED
      BY <1>2, <1>4, <1>6 DEF ImFits
  <1>8. at \in {"idle", "critique", "improve", "left", "saving", "returned", "raised"}
    OBVIOUS
  <1>9. /\ imCritique' = [imCritique EXCEPT ![l] = c] /\ imStatus' = [imStatus EXCEPT ![l] = status] /\ c \in ImCritique
        /\ status \in {"running", "converged", "tests_passing", "max_iterations", "failed"}
        /\ ImDocs'
    BY <1>1, ImFacts DEF ImDocs
  <1>20. /\ ImSets(imAt, imAt', l, at) /\ ImSets(imIteration, imIteration', l, next) /\ ImSets(imSolution, imSolution', l, sol)
         /\ ImSets(imCritique, imCritique', l, c) /\ ImSets(imLog, imLog', l, log) /\ ImSets(imStatus, imStatus', l, status)
    BY <1>1, <1>5, <1>7, <1>8, <1>9 DEF ImSets
  <1> HIDE DEF it, sol, e, log, at, next, c, status, more
  <1>21. /\ at \in {"idle", "critique", "improve", "left", "saving", "returned", "raised"}
         /\ next \in 0..ImMaxIterations /\ sol \in 0..ImMaxIterations /\ c \in ImCritique /\ ImDocs'
         /\ status \in {"running", "converged", "tests_passing", "max_iterations", "failed"}
    BY <1>1, <1>5, <1>7, <1>8, <1>9
  <1> QED
    BY <1>7, <1>20, <1>21, ImStepHolds

\* A model that fails ends the loop.
LEMMA ImFailsHolds ==
  ASSUME ImInv, NEW l \in ImLoop, NEW logged \in BOOLEAN, ImIterationFails(l, logged)
  PROVE  ImInv'
  <1> DEFINE it == imIteration[l]  sol == imSolution[l]  c == imCritique[l]
             e == ImEntry(l, it, imAt[l], IF imAt[l] = "improve" THEN sol + 1 ELSE sol)
             log == IF logged THEN Append(imLog[l], e) ELSE imLog[l]
  <1>1. /\ imAt[l] \in {"critique", "improve"} /\ imStatus' = [imStatus EXCEPT ![l] = "failed"]
        /\ imAt' = [imAt EXCEPT ![l] = "left"]
        /\ imLog' = IF logged THEN [imLog EXCEPT ![l] = log] ELSE imLog
        /\ imIteration' = imIteration /\ imSolution' = imSolution /\ imCritique' = imCritique
        /\ imLoopDocs' = imLoopDocs /\ imIterDocs' = imIterDocs
    BY DEF ImIterationFails
  <1>2. /\ it \in 0..ImMaxIterations /\ sol \in Nat /\ it >= 1 /\ sol + 1 = it /\ ImMaxIterations \in Nat
        /\ imAt[l] = "critique" => Len(imLog[l]) + 1 = 2 * it
        /\ imAt[l] = "improve" => Len(imLog[l]) = 2 * it
        /\ ImGoodLog(l, imLog[l]) /\ Len(imLog[l]) \in Nat /\ imLog = [imLog EXCEPT ![l] = imLog[l]]
    BY <1>1, ImFacts DEF ImFits
  <1>3. ImIsEntry(l, Len(imLog[l]) + 1, e)
    <2>1. CASE imAt[l] = "critique"
      BY <1>2, <2>1 DEF ImEntry, ImIsEntry, ImEntries, ImPhase
    <2>2. CASE imAt[l] = "improve"
      BY <1>2, <2>2 DEF ImEntry, ImIsEntry, ImEntries, ImPhase
    <2> QED
      BY <1>1, <2>1, <2>2
  <1>4. ImGoodLog(l, log)
    <2> HIDE DEF e
    <2> QED
      BY <1>2, <1>3, ImLogs
  <1>5. imLog' = [imLog EXCEPT ![l] = log]
    BY <1>1, <1>2
  <1>6. ImFits(l, "left", it, sol, c, log, "failed")
    <2> HIDE DEF log, c
    <2> QED
      BY <1>2, <1>4 DEF ImFits, ImExplained
  <1>7. /\ "left" \in {"idle", "critique", "improve", "left", "saving", "returned", "raised"}
        /\ "failed" \in {"running", "converged", "tests_passing", "max_iterations", "failed"}
    OBVIOUS
  <1>8. /\ imCritique' = [imCritique EXCEPT ![l] = c] /\ imIteration' = [imIteration EXCEPT ![l] = it]
        /\ imSolution' = [imSolution EXCEPT ![l] = sol] /\ c \in ImCritique /\ sol \in 0..ImMaxIterations
        /\ ImDocs'
    BY <1>1, ImFacts DEF ImDocs
  <1>20. /\ ImSets(imAt, imAt', l, "left") /\ ImSets(imIteration, imIteration', l, it) /\ ImSets(imSolution, imSolution', l, sol)
         /\ ImSets(imCritique, imCritique', l, c) /\ ImSets(imLog, imLog', l, log) /\ ImSets(imStatus, imStatus', l, "failed")
    BY <1>1, <1>2, <1>5, <1>6, <1>7, <1>8 DEF ImSets
  <1> HIDE DEF it, sol, e, log, c
  <1>21. /\ "left" \in {"idle", "critique", "improve", "left", "saving", "returned", "raised"}
         /\ it \in 0..ImMaxIterations /\ sol \in 0..ImMaxIterations /\ c \in ImCritique /\ ImDocs'
         /\ "failed" \in {"running", "converged", "tests_passing", "max_iterations", "failed"}
    BY <1>1, <1>2, <1>5, <1>6, <1>7, <1>8
  <1> QED
    BY <1>6, <1>20, <1>21, ImStepHolds

\* The status is set when the loop is left.
LEMMA ImLeaveHolds ==
  ASSUME ImInv, NEW l \in ImLoop, ImLeave(l)
  PROVE  ImInv'
  <1> DEFINE it == imIteration[l]  sol == imSolution[l]  c == imCritique[l]  log == imLog[l]
             status == IF imStatus[l] = "running" THEN "max_iterations" ELSE imStatus[l]
  <1>1. /\ imAt[l] = "left" /\ imStatus' = [imStatus EXCEPT ![l] = status] /\ imAt' = [imAt EXCEPT ![l] = "saving"]
        /\ imIteration' = imIteration /\ imSolution' = imSolution /\ imCritique' = imCritique /\ imLog' = imLog
        /\ imLoopDocs' = imLoopDocs /\ imIterDocs' = imIterDocs
    BY DEF ImLeave
  <1>2. /\ it \in 0..ImMaxIterations /\ sol \in 0..ImMaxIterations /\ ImGoodLog(l, log) /\ c \in ImCritique
        /\ ImExplained(it, sol, c, imStatus[l])
        /\ imStatus[l] \in {"running", "converged", "tests_passing", "max_iterations", "failed"}
    BY <1>1, ImFacts DEF ImFits
  <1>3. ImExplained(it, sol, c, status) /\ status # "running"
        /\ status \in {"running", "converged", "tests_passing", "max_iterations", "failed"}
    BY <1>2 DEF ImExplained
  <1>4. ImFits(l, "saving", it, sol, c, log, status)
    <2> HIDE DEF it, sol, c, log, status
    <2> QED
      BY <1>2, <1>3 DEF ImFits
  <1>5. "saving" \in {"idle", "critique", "improve", "left", "saving", "returned", "raised"}
    OBVIOUS
  <1>6. /\ imCritique' = [imCritique EXCEPT ![l] = c] /\ imIteration' = [imIteration EXCEPT ![l] = it]
        /\ imSolution' = [imSolution EXCEPT ![l] = sol] /\ imLog' = [imLog EXCEPT ![l] = log]
        /\ ImDocs'
    BY <1>1, ImFacts DEF ImDocs
  <1>20. /\ ImSets(imAt, imAt', l, "saving") /\ ImSets(imIteration, imIteration', l, it) /\ ImSets(imSolution, imSolution', l, sol)
         /\ ImSets(imCritique, imCritique', l, c) /\ ImSets(imLog, imLog', l, log) /\ ImSets(imStatus, imStatus', l, status)
    BY <1>1, <1>2, <1>3, <1>4, <1>5, <1>6 DEF ImSets
  <1> HIDE DEF it, sol, c, log, status
  <1>21. /\ "saving" \in {"idle", "critique", "improve", "left", "saving", "returned", "raised"}
         /\ it \in 0..ImMaxIterations /\ sol \in 0..ImMaxIterations /\ c \in ImCritique /\ ImDocs'
         /\ status \in {"running", "converged", "tests_passing", "max_iterations", "failed"}
    BY <1>1, <1>2, <1>3, <1>4, <1>5, <1>6
  <1> QED
    BY <1>4, <1>20, <1>21, ImStepHolds

\* What is added of a log is the first entry of each iteration, and that is the critique
\* of the solution before it.
LEMMA ImAdds ==
  ASSUME ImInv, NEW l \in ImLoop, NEW n \in 0..Len(imLog[l])
  PROVE  \A d \in ImAdded(l, n) : ImDoc(d) /\ d.loop = l
  <1> SUFFICES ASSUME NEW i \in 1..n, \A j \in 1..i - 1 : imLog[l][j].iteration # imLog[l][i].iteration
               PROVE  ImDoc(imLog[l][i]) /\ imLog[l][i].loop = l
    BY DEF ImAdded
  <1> DEFINE log == imLog[l]
  <1>1. Len(log) \in Nat /\ \A j \in 1..Len(log) : ImIsEntry(l, j, log[j])
    BY ImFacts DEF ImGoodLog
  <1>2. i \in 1..Len(log) /\ i \in Nat /\ ImIsEntry(l, i, log[i])
    BY <1>1
  <1> DEFINE m == log[i].iteration
  <1>3. m \in Nat /\ (2 * m = i \/ 2 * m + 1 = i) /\ log[i].solution \in Nat /\ log[i].solution + 1 + m = i
    BY <1>2 DEF ImIsEntry, ImEntries
  <1>4. i = 1 \/ 2 * m = i
    <2> SUFFICES ASSUME i # 1, 2 * m + 1 = i PROVE FALSE
      BY <1>3
    <2>1. i - 1 \in 1..Len(log) /\ i - 1 \in 1..i - 1
      BY <1>1, <1>2
    <2>2. ImIsEntry(l, i - 1, log[i - 1])
      BY <1>1, <2>1
    <2>3. log[i - 1].iteration \in Nat /\ (2 * log[i - 1].iteration = i - 1 \/ 2 * log[i - 1].iteration + 1 = i - 1)
      BY <2>2 DEF ImIsEntry, ImEntries
    <2>4. log[i - 1].iteration = m
      <3> DEFINE k == log[i - 1].iteration
      <3>1. k \in Nat /\ (2 * k = i - 1 \/ 2 * k + 1 = i - 1) /\ m \in Nat /\ i \in Nat
        BY <1>2, <1>3, <2>3
      <3> HIDE DEF m, k
      <3>2. k = m
        BY <3>1
      <3> QED
        BY <3>2 DEF k
    <2> QED
      BY <2>1, <2>4
  <1>5. log[i] \in ImEntries /\ log[i].loop = l /\ log[i].phase = IF i = 1 THEN "generate" ELSE IF 2 * m = i THEN "critique" ELSE "improve"
    BY <1>2 DEF ImIsEntry
  <1>6. (i = 1 <=> m = 0) /\ (m = 0 => log[i].solution = 0) /\ (m # 0 => log[i].solution = m - 1)
    <2>1. CASE i = 1
      BY <1>3, <2>1
    <2>2. CASE 2 * m = i
      <3>1. m # 0 /\ i # 1
        BY <1>2, <1>3, <2>2
      <3>2. log[i].solution = m - 1
        <4> DEFINE r == log[i].solution
        <4>1. m \in Nat /\ r \in Nat /\ r + 1 + m = i /\ i \in Nat
          BY <1>2, <1>3
        <4> HIDE DEF m, r
        <4>2. r = m - 1
          BY <2>2, <4>1
        <4> QED
          BY <4>2 DEF r
      <3> QED
        BY <3>1, <3>2
    <2> QED
      BY <1>4, <2>1, <2>2
  <1> QED
    BY <1>4, <1>5, <1>6 DEF ImDoc

\* The loop and its iterations are stored, as far as the database takes them.
LEMMA ImSaveHolds ==
  ASSUME ImInv, NEW l \in ImLoop, NEW n, ImSave(l, n)
  PROVE  ImInv'
  <1> DEFINE it == imIteration[l]  sol == imSolution[l]  c == imCritique[l]  log == imLog[l]  status == imStatus[l]
             at == IF n = Len(imLog[l]) THEN "returned" ELSE "raised"
  <1>1. /\ imAt[l] = "saving" /\ n \in 0..Len(imLog[l]) /\ imAt' = [imAt EXCEPT ![l] = at]
        /\ imLoopDocs' = imLoopDocs \cup {l} /\ imIterDocs' = imIterDocs \cup ImAdded(l, n)
        /\ imIteration' = imIteration /\ imSolution' = imSolution /\ imCritique' = imCritique /\ imLog' = imLog
        /\ imStatus' = imStatus
    BY DEF ImSave
  <1>2. /\ ImFits(l, "saving", it, sol, c, log, status)
        /\ it \in 0..ImMaxIterations /\ sol \in 0..ImMaxIterations /\ c \in ImCritique
        /\ status \in {"running", "converged", "tests_passing", "max_iterations", "failed"}
        /\ imIteration' = [imIteration EXCEPT ![l] = it] /\ imSolution' = [imSolution EXCEPT ![l] = sol]
        /\ imCritique' = [imCritique EXCEPT ![l] = c] /\ imLog' = [imLog EXCEPT ![l] = log]
        /\ imStatus' = [imStatus EXCEPT ![l] = status]
    BY <1>1, ImFacts
  <1>3. ImFits(l, at, it, sol, c, log, status)
    <2> HIDE DEF it, sol, c, log, status
    <2> QED
      BY <1>2 DEF ImFits
  <1>4. ImDocs'
    <2>1. ImDocs
      BY ImFacts
    <2>2. \A d \in ImAdded(l, n) : ImDoc(d) /\ d.loop = l
      BY <1>1, ImAdds
    <2> QED
      BY <1>1, <2>1, <2>2 DEF ImDocs
  <1>5. at \in {"idle", "critique", "improve", "left", "saving", "returned", "raised"}
    OBVIOUS
  <1>20. /\ ImSets(imAt, imAt', l, at) /\ ImSets(imIteration, imIteration', l, it) /\ ImSets(imSolution, imSolution', l, sol)
         /\ ImSets(imCritique, imCritique', l, c) /\ ImSets(imLog, imLog', l, log) /\ ImSets(imStatus, imStatus', l, status)
    BY <1>1, <1>2, <1>3, <1>4, <1>5 DEF ImSets
  <1> HIDE DEF it, sol, c, log, status, at
  <1>21. /\ at \in {"idle", "critique", "improve", "left", "saving", "returned", "raised"}
         /\ it \in 0..ImMaxIterations /\ sol \in 0..ImMaxIterations /\ c \in ImCritique /\ ImDocs'
         /\ status \in {"running", "converged", "tests_passing", "max_iterations", "failed"}
    BY <1>1, <1>2, <1>3, <1>4, <1>5
  <1> QED
    BY <1>3, <1>20, <1>21, ImStepHolds

\* A database that fails leaves them unstored.
LEMMA ImUnsavedHolds ==
  ASSUME ImInv, NEW l \in ImLoop, NEW end \in {"returned", "raised"}, ImUnsaved(l, end)
  PROVE  ImInv'
  <1>1. ImFits(l, "saving", imIteration[l], imSolution[l], imCritique[l], imLog[l], imStatus[l])
    <2>1. imAt[l] = "saving"
      BY DEF ImUnsaved
    <2> QED
      BY <2>1, ImFacts
  <1>2. ImFits(l, end, imIteration[l], imSolution[l], imCritique[l], imLog[l], imStatus[l])
    BY <1>1 DEF ImFits
  <1>3. end \in {"idle", "critique", "improve", "left", "saving", "returned", "raised"}
    OBVIOUS
  <1> QED
    BY <1>2, <1>3, ImMoves DEF ImUnsaved, ImMovesTo

\* Every step of every loop keeps all of them sound.
LEMMA ImHolds == ImInv /\ [ImNext]_imVars => ImInv'
  <1> SUFFICES ASSUME ImInv, [ImNext]_imVars PROVE ImInv'
    OBVIOUS
  <1>1. ASSUME NEW l \in ImLoop, NEW generated \in BOOLEAN, ImStart(l, generated) PROVE ImInv'
    BY <1>1, ImStartHolds
  <1>2. ASSUME NEW l \in ImLoop, NEW c \in ImCritique, ImCritiqueEnds(l, c) PROVE ImInv'
    BY <1>2, ImCritiqueHolds
  <1>3. ASSUME NEW l \in ImLoop, ImImproveEnds(l) PROVE ImInv'
    BY <1>3, ImImproveHolds
  <1>4. ASSUME NEW l \in ImLoop, ImLeave(l) PROVE ImInv'
    BY <1>4, ImLeaveHolds
  <1>5. ASSUME NEW l \in ImLoop, NEW logged \in BOOLEAN, ImIterationFails(l, logged) PROVE ImInv'
    BY <1>5, ImFailsHolds
  <1>6. ASSUME NEW l \in ImLoop, NEW n, ImSave(l, n) PROVE ImInv'
    BY <1>6, ImSaveHolds
  <1>7. ASSUME NEW l \in ImLoop, NEW end \in {"returned", "raised"}, ImUnsaved(l, end) PROVE ImInv'
    BY <1>7, ImUnsavedHolds
  <1>8. ASSUME NEW l \in ImLoop, ImDelete(l) PROVE ImInv'
    <2>1. /\ imLoopDocs' = imLoopDocs \ {l} /\ imIterDocs' = {d \in imIterDocs : d.loop # l}
          /\ imAt' = imAt /\ imIteration' = imIteration /\ imSolution' = imSolution /\ imCritique' = imCritique
          /\ imLog' = imLog /\ imStatus' = imStatus
      BY <1>8 DEF ImDelete
    <2>2. ImTypeOK'
      BY <2>1 DEF ImInv, ImTypeOK, ImDocs
    <2> QED
      BY <2>1, <2>2 DEF ImInv, ImDocs
  <1>9. CASE UNCHANGED imVars
    <2>1. ImTypeOK'
      BY <1>9 DEF ImInv, ImTypeOK, imVars
    <2> QED
      BY <1>9, <2>1 DEF ImInv, ImDocs, imVars
  <1> QED
    BY <1>1, <1>2, <1>3, <1>4, <1>5, <1>6, <1>7, <1>8, <1>9 DEF ImNext, ImStep

\* For any loops and any limit: a status says why the loop ended, and what is stored of
\* an iteration is the solution that it began with.
THEOREM ImprovementsAreExplained ==
  ImInit /\ [][ImNext]_imVars => [](ImTypeOK /\ ImStatusExplained /\ ImStoredSolutions)
  <1>1. ImInit => ImInv
    BY ImBegins
  <1>2. ImInv /\ [ImNext]_imVars => ImInv'
    BY ImHolds
  <1>3. ImInv => ImTypeOK /\ ImStatusExplained /\ ImStoredSolutions
    BY ImIsSound
  <1> QED
    BY <1>1, <1>2, <1>3, PTL

-----------------------------------------------------------------------------
\* Adapters and chats with the user's own keys.

\* The adapters of the registry.
AdNames == {"openai", "anthropic", "google", "groq", "openrouter", "together", "deepseek", "mistral", "xai", "ollama"}

\* How an adapter sees a refused key.
AdFits(name, a) ==
  /\ (a.refused \in {401, 403} /\ a.mapped = TRUE) \/ a.refused = 0
  /\ a.mapped \in BOOLEAN

\* Every adapter of the registry, and what it takes for a refused key.
LEMMA AdRegistered ==
  /\ DOMAIN AdAdapter = AdNames
  /\ \A name \in AdNames : AdFits(name, AdAdapter[name])
  <1>1. DOMAIN AdAdapter = AdNames
    BY DEF AdAdapter, AdNames
  <1>2. AdFits("openai", AdAdapter["openai"])
    <2>1. AdAdapter["openai"] = AdOpenAI
      BY DEF AdAdapter
    <2>2. AdFits("openai", AdOpenAI)
      BY DEF AdFits, AdOpenAI
    <2> QED
      BY <2>1, <2>2
  <1>3. AdFits("anthropic", AdAdapter["anthropic"])
    <2>1. AdAdapter["anthropic"] = AdAnthropic
      BY DEF AdAdapter
    <2>2. AdFits("anthropic", AdAnthropic)
      BY DEF AdFits, AdAnthropic
    <2> QED
      BY <2>1, <2>2
  <1>4. AdFits("google", AdAdapter["google"])
    <2>1. AdAdapter["google"] = AdGoogle
      BY DEF AdAdapter
    <2>2. AdFits("google", AdGoogle)
      BY DEF AdFits, AdGoogle
    <2> QED
      BY <2>1, <2>2
  <1>5. AdFits("groq", AdAdapter["groq"])
    <2>1. AdAdapter["groq"] = AdGroq
      BY DEF AdAdapter
    <2>2. AdFits("groq", AdGroq)
      BY DEF AdFits, AdGroq
    <2> QED
      BY <2>1, <2>2
  <1>6. AdFits("openrouter", AdAdapter["openrouter"])
    <2>1. AdAdapter["openrouter"] = AdOpenRouter
      BY DEF AdAdapter
    <2>2. AdFits("openrouter", AdOpenRouter)
      BY DEF AdFits, AdOpenRouter
    <2> QED
      BY <2>1, <2>2
  <1>7. AdFits("together", AdAdapter["together"])
    <2>1. AdAdapter["together"] = AdTogether
      BY DEF AdAdapter
    <2>2. AdFits("together", AdTogether)
      BY DEF AdFits, AdTogether
    <2> QED
      BY <2>1, <2>2
  <1>8. AdFits("deepseek", AdAdapter["deepseek"])
    <2>1. AdAdapter["deepseek"] = AdDeepSeek
      BY DEF AdAdapter
    <2>2. AdFits("deepseek", AdDeepSeek)
      BY DEF AdFits, AdDeepSeek
    <2> QED
      BY <2>1, <2>2
  <1>9. AdFits("mistral", AdAdapter["mistral"])
    <2>1. AdAdapter["mistral"] = AdMistral
      BY DEF AdAdapter
    <2>2. AdFits("mistral", AdMistral)
      BY DEF AdFits, AdMistral
    <2> QED
      BY <2>1, <2>2
  <1>10. AdFits("xai", AdAdapter["xai"])
    <2>1. AdAdapter["xai"] = AdXAI
      BY DEF AdAdapter
    <2>2. AdFits("xai", AdXAI)
      BY DEF AdFits, AdXAI
    <2> QED
      BY <2>1, <2>2
  <1>11. AdFits("ollama", AdAdapter["ollama"])
    <2>1. AdAdapter["ollama"] = AdOllama
      BY DEF AdAdapter
    <2>2. AdFits("ollama", AdOllama)
      BY DEF AdFits, AdOllama
    <2> QED
      BY <2>1, <2>2
  <1> QED
    BY <1>1, <1>2, <1>3, <1>4, <1>5, <1>6, <1>7, <1>8, <1>9, <1>10, <1>11 DEF AdNames

\* A key that a verification would find refused is one that chat gives up on.
LEMMA AdRefusedIsTold ==
  ASSUME NEW name \in DOMAIN AdAdapter, NEW answer \in AdRefusals
  PROVE  /\ AdVerdict(AdAdapter[name], answer) \in {"none", "invalid_api_key"}
         /\ AdVerdict(AdAdapter[name], answer) = "invalid_api_key" =>
              AdErrorOf(AdAdapter[name], answer) \in {"invalid_api_key", "expired_api_key"}
         /\ AdErrorOf(AdAdapter[name], answer) \in {"failed"} \cup {AdMapped(a) : a \in AdRefusals}
  <1>1. name \in AdNames
    BY AdRegistered
  <1> DEFINE r == AdAdapter[name].refused
             m == AdAdapter[name].mapped
  <1>2. (r \in {401, 403} /\ m = TRUE) \/ r = 0
    BY <1>1, AdRegistered DEF AdFits
  <1>3. answer.status \in {0, 400, 401, 403, 429, 500} /\ (answer.status = 0 => answer = AdNoAnswer)
    BY DEF AdRefusals, AdNoAnswer
  <1>4. ASSUME answer # AdNoAnswer, answer.status = r
        PROVE  AdErrorOf(AdAdapter[name], answer) \in {"invalid_api_key", "expired_api_key"}
    <2>1. r \in {401, 403} /\ m = TRUE
      BY <1>2, <1>3, <1>4
    <2>2. AdErrorOf(AdAdapter[name], answer) = AdMapped(answer)
      BY <1>4, <2>1 DEF AdErrorOf
    <2> QED
      BY <1>4, <2>1, <2>2 DEF AdMapped
  <1>5. AdErrorOf(AdAdapter[name], answer) \in {"failed"} \cup {AdMapped(a) : a \in AdRefusals}
    <2> DEFINE plain == [status |-> 400, type |-> "other", quota |-> FALSE]
    <2>1. plain \in AdRefusals
      BY DEF AdRefusals
    <2>2. AdMapped(plain) = "provider_error"
      BY DEF AdMapped
    <2>3. "provider_error" \in {AdMapped(a) : a \in AdRefusals}
      BY <2>1, <2>2
    <2>4. AdMapped(answer) \in {AdMapped(a) : a \in AdRefusals}
      OBVIOUS
    <2> QED
      BY <2>3, <2>4 DEF AdErrorOf
  <1> QED
    BY <1>4, <1>5 DEF AdVerdict

\* What a call may fail with.
BcErrors == {"none", "failed", "no_provider", "database", "decryption"} \cup {AdMapped(a) : a \in AdRefusals}

\* A call, whom it asked, what its reader was given, and whether it holds a key.
BcRecord ==
  [by : BcCaller \cup {"nobody"}, provider : BcProvider \cup {BcNone},
   at : {"idle", "lookup", "own", "system", "answered", "raised"}, uses : BcProvider \cup {BcNone},
   url : BOOLEAN, error : BcErrors, code : {"none", "invalid_api_key"}]

\* Where a call is says whom it asked, what its reader was given, and whether an adapter
\* is open.
BcFits(c, v, asked, read, open) ==
  /\ v \in BcRecord /\ asked \subseteq {"own", "system"}
  /\ read \in Seq({"own", "system"}) /\ Len(read) <= 2 /\ \A i, j \in 1..Len(read) : read[i] = read[j]
  /\ v.at \in {"idle", "lookup", "own"} => asked = {} /\ read = << >>
  /\ v.at = "own" => v.uses \in BcProvider
  /\ v.at = "system" => "system" \notin asked /\ \A i \in 1..Len(read) : read[i] = "system"
  /\ c \in open => v.at = "own"
  /\ v.by \in {"router_chat", "router_stream"} /\ (v.code = "invalid_api_key" \/ v.error \in BcForeign) =>
       "system" \notin asked /\ v.at = "raised"

\* The types, and each call's place.
BcInv ==
  /\ DOMAIN bcRows \subseteq BcProvider /\ bcRows \in [DOMAIN bcRows -> BOOLEAN] /\ bcSystem \in BOOLEAN
  /\ DOMAIN bcCall = BcChat /\ bcCall = [c \in BcChat |-> bcCall[c]]
  /\ DOMAIN bcAsked = BcChat /\ bcAsked = [c \in BcChat |-> bcAsked[c]]
  /\ DOMAIN bcReader = BcChat /\ bcReader = [c \in BcChat |-> bcReader[c]]
  /\ bcOpen \subseteq BcChat
  /\ \A c \in BcChat : BcFits(c, bcCall[c], bcAsked[c], bcReader[c], bcOpen)

\* What the run checks follows.
LEMMA BcIsSound == BcInv => BcTypeOK /\ BcKeyReleased /\ BcOneAnswer /\ BcRefusedKeyStops
  <1> SUFFICES ASSUME BcInv PROVE BcTypeOK /\ BcKeyReleased /\ BcOneAnswer /\ BcRefusedKeyStops
    OBVIOUS
  <1>1. BcTypeOK
    <2>1. ASSUME NEW c \in BcChat
          PROVE  /\ bcCall[c].at \in {"idle", "lookup", "own", "system", "answered", "raised"}
                 /\ bcCall[c].provider \in BcProvider \cup {BcNone} /\ bcCall[c].error \in BcErrors
                 /\ bcCall[c].code \in {"none", "invalid_api_key"}
                 /\ bcAsked[c] \subseteq {"own", "system"} /\ Len(bcReader[c]) <= 2
      <3>1. BcFits(c, bcCall[c], bcAsked[c], bcReader[c], bcOpen)
        BY DEF BcInv
      <3> QED
        BY <3>1 DEF BcFits, BcRecord
    <2>2. BcErrors = {"none", "failed", "no_provider"} \cup BcForeign \cup {AdMapped(a) : a \in AdRefusals}
      BY DEF BcErrors, BcForeign
    <2> QED
      BY <2>1, <2>2 DEF BcInv, BcTypeOK
  <1>2. BcKeyReleased /\ BcOneAnswer
    BY DEF BcInv, BcFits, BcKeyReleased, BcOneAnswer
  <1>3. BcRefusedKeyStops
    BY DEF BcInv, BcFits, BcRefusedKeyStops, BcOfRouter
  <1> QED
    BY <1>1, <1>2, <1>3

\* Before the first call nothing is asked.
LEMMA BcBegins == BcInit => BcInv
  <1> SUFFICES ASSUME BcInit PROVE BcInv
    OBVIOUS
  <1>1. PICK P \in SUBSET BcProvider : bcRows \in [P -> BOOLEAN]
    BY DEF BcInit
  <1>2. DOMAIN bcRows \subseteq BcProvider /\ bcRows \in [DOMAIN bcRows -> BOOLEAN] /\ bcSystem \in BOOLEAN
    BY <1>1 DEF BcInit
  <1>3. ASSUME NEW c \in BcChat
        PROVE  BcFits(c, bcCall[c], bcAsked[c], bcReader[c], bcOpen)
    <2> DEFINE v == [by |-> "nobody", provider |-> BcNone, at |-> "idle", uses |-> BcNone,
                     url |-> FALSE, error |-> "none", code |-> "none"]
    <2>1. bcCall[c] = v /\ bcAsked[c] = {} /\ bcReader[c] = << >> /\ c \notin bcOpen
      BY DEF BcInit
    <2>2. v \in BcRecord
      BY DEF BcRecord, BcErrors
    <2>3. BcFits(c, v, {}, << >>, {})
      BY <2>2 DEF BcFits, BcForeign
    <2> HIDE DEF v
    <2> QED
      BY <2>1, <2>3 DEF BcFits
  <1> QED
    BY <1>2, <1>3 DEF BcInit, BcInv

\* A step of one call leaves the others as they are.
LEMMA BcMoves ==
  ASSUME BcInv, NEW c \in BcChat, NEW v, NEW asked, NEW read, NEW O,
         bcCall' = [bcCall EXCEPT ![c] = v], bcAsked' = [bcAsked EXCEPT ![c] = asked],
         bcReader' = [bcReader EXCEPT ![c] = read], bcOpen' = O, O \ {c} = bcOpen \ {c},
         bcRows' = bcRows, bcSystem' = bcSystem, BcFits(c, v, asked, read, O)
  PROVE  BcInv'
  <1>1. ASSUME NEW d \in BcChat
        PROVE  BcFits(d, bcCall'[d], bcAsked'[d], bcReader'[d], O)
    <2>1. CASE d = c
      <3>1. bcCall'[d] = v /\ bcAsked'[d] = asked /\ bcReader'[d] = read
        BY <2>1 DEF BcInv
      <3> QED
        BY <2>1, <3>1
    <2>2. CASE d # c
      <3>1. bcCall'[d] = bcCall[d] /\ bcAsked'[d] = bcAsked[d] /\ bcReader'[d] = bcReader[d] /\ (d \in O <=> d \in bcOpen)
        BY <2>2 DEF BcInv
      <3>2. BcFits(d, bcCall[d], bcAsked[d], bcReader[d], bcOpen)
        BY DEF BcInv
      <3> QED
        BY <3>1, <3>2 DEF BcFits
    <2> QED
      BY <2>1, <2>2
  <1>2. /\ DOMAIN bcCall' = BcChat /\ bcCall' = [d \in BcChat |-> bcCall'[d]]
        /\ DOMAIN bcAsked' = BcChat /\ bcAsked' = [d \in BcChat |-> bcAsked'[d]]
        /\ DOMAIN bcReader' = BcChat /\ bcReader' = [d \in BcChat |-> bcReader'[d]]
    BY DEF BcInv
  <1>3. bcOpen' \subseteq BcChat
    BY DEF BcInv
  <1>4. DOMAIN bcRows' \subseteq BcProvider /\ bcRows' \in [DOMAIN bcRows' -> BOOLEAN] /\ bcSystem' \in BOOLEAN
    BY DEF BcInv
  <1>5. \A d \in BcChat : BcFits(d, bcCall'[d], bcAsked'[d], bcReader'[d], bcOpen')
    BY <1>1
  <1> QED
    BY <1>2, <1>3, <1>4, <1>5 DEF BcInv

\* What is known of a call, and of parts of it that are left alone.
LEMMA BcFacts ==
  ASSUME BcInv, NEW c \in BcChat
  PROVE  /\ BcFits(c, bcCall[c], bcAsked[c], bcReader[c], bcOpen)
         /\ bcCall[c] \in BcRecord
         /\ bcAsked = [bcAsked EXCEPT ![c] = bcAsked[c]] /\ bcReader = [bcReader EXCEPT ![c] = bcReader[c]]
         /\ \A at : /\ [bcCall EXCEPT ![c].at = at] = [bcCall EXCEPT ![c] = [bcCall[c] EXCEPT !.at = at]]
                    /\ [bcCall[c] EXCEPT !.at = at].at = at
                    /\ [bcCall[c] EXCEPT !.at = at].by = bcCall[c].by /\ [bcCall[c] EXCEPT !.at = at].uses = bcCall[c].uses
                    /\ [bcCall[c] EXCEPT !.at = at].error = bcCall[c].error
                    /\ [bcCall[c] EXCEPT !.at = at].code = bcCall[c].code
                    /\ at \in {"idle", "lookup", "own", "system", "answered", "raised"} =>
                         [bcCall[c] EXCEPT !.at = at] \in BcRecord
  <1>1. BcFits(c, bcCall[c], bcAsked[c], bcReader[c], bcOpen)
    BY DEF BcInv
  <1>2. bcCall[c] \in BcRecord
    BY <1>1 DEF BcFits
  <1>3. bcAsked = [bcAsked EXCEPT ![c] = bcAsked[c]] /\ bcReader = [bcReader EXCEPT ![c] = bcReader[c]]
    BY DEF BcInv
  <1>4. ASSUME NEW at
        PROVE  [bcCall EXCEPT ![c].at = at] = [bcCall EXCEPT ![c] = [bcCall[c] EXCEPT !.at = at]]
    OBVIOUS
  <1>5. ASSUME NEW at
        PROVE  /\ [bcCall[c] EXCEPT !.at = at].at = at
               /\ [bcCall[c] EXCEPT !.at = at].by = bcCall[c].by /\ [bcCall[c] EXCEPT !.at = at].uses = bcCall[c].uses
               /\ [bcCall[c] EXCEPT !.at = at].error = bcCall[c].error
               /\ [bcCall[c] EXCEPT !.at = at].code = bcCall[c].code
    BY <1>2 DEF BcRecord
  <1>6. ASSUME NEW at \in {"idle", "lookup", "own", "system", "answered", "raised"}
        PROVE  [bcCall[c] EXCEPT !.at = at] \in BcRecord
    BY <1>2 DEF BcRecord
  <1> QED
    BY <1>1, <1>2, <1>3, <1>4, <1>5, <1>6

\* A call begins.
LEMMA BcBeginHolds ==
  ASSUME BcInv, NEW c \in BcChat, NEW by \in BcCaller, NEW p \in BcProvider \cup {BcNone}, BcBegin(c, by, p)
  PROVE  BcInv'
  <1> DEFINE v == [by |-> by, provider |-> p, at |-> "lookup", uses |-> BcNone, url |-> FALSE, error |-> "none", code |-> "none"]
  <1>1. bcCall[c].at = "idle" /\ bcCall' = [bcCall EXCEPT ![c] = v]
        /\ bcRows' = bcRows /\ bcSystem' = bcSystem /\ bcOpen' = bcOpen /\ bcAsked' = bcAsked /\ bcReader' = bcReader
    BY DEF BcBegin
  <1>2. v \in BcRecord
    BY DEF BcRecord, BcErrors
  <1>3. BcFits(c, bcCall[c], bcAsked[c], bcReader[c], bcOpen)
    BY BcFacts
  <1>4. bcAsked[c] = {} /\ bcReader[c] = << >> /\ c \notin bcOpen
    BY <1>1, <1>3 DEF BcFits
  <1>5. BcFits(c, v, {}, << >>, {})
    BY <1>2 DEF BcFits, BcForeign
  <1> HIDE DEF v
  <1>6. BcFits(c, v, bcAsked[c], bcReader[c], bcOpen)
    BY <1>4, <1>5 DEF BcFits
  <1>7. bcAsked = [bcAsked EXCEPT ![c] = bcAsked[c]] /\ bcReader = [bcReader EXCEPT ![c] = bcReader[c]]
    BY BcFacts
  <1> QED
    BY <1>1, <1>6, <1>7, BcMoves


\* What becomes of a call that fails.
LEMMA BcErrorHolds ==
  ASSUME BcInv, NEW c \in BcChat, NEW asked, asked \subseteq {"own"}, NEW error \in BcErrors,
         NEW code \in {"none", "invalid_api_key"},
         code = "invalid_api_key" => error \in {"invalid_api_key", "expired_api_key"},
         bcCall[c].at \in {"lookup", "own"}, BcOnError(c, error, code),
         bcAsked' = [bcAsked EXCEPT ![c] = asked], bcReader' = bcReader, bcOpen' = bcOpen \ {c},
         bcRows' = bcRows, bcSystem' = bcSystem
  PROVE  BcInv'
  <1>0. PICK at \in {"system", "raised"} :
          /\ bcCall' = [bcCall EXCEPT ![c] = [bcCall[c] EXCEPT !.error = error, !.code = code, !.at = at]]
          /\ bcCall[c].by \in {"router_chat", "router_stream"} /\ (code = "invalid_api_key" \/ error \in BcForeign) =>
               at = "raised"
    <2> DEFINE at == IF ~BcOfRouter(c) \/ error = "no_provider" \/ (error \notin BcForeign /\ BcRetryable(error))
                     THEN "system" ELSE "raised"
    <2>1. bcCall' = [bcCall EXCEPT ![c].error = error, ![c].code = code, ![c].at = at]
      BY DEF BcOnError
    <2>2. c \in DOMAIN bcCall
      BY DEF BcInv
    <2>3. bcCall[c].by \in {"router_chat", "router_stream"} /\ (code = "invalid_api_key" \/ error \in BcForeign) => at = "raised"
      <3>1. error \in BcForeign => error # "no_provider"
        BY DEF BcForeign
      <3>2. code = "invalid_api_key" => error # "no_provider" /\ ~BcRetryable(error)
        BY DEF BcRetryable
      <3> QED
        BY <3>1, <3>2 DEF BcOfRouter
    <2>4. at \in {"system", "raised"}
      OBVIOUS
    <2> HIDE DEF at
    <2>5. bcCall' = [bcCall EXCEPT ![c] = [bcCall[c] EXCEPT !.error = error, !.code = code, !.at = at]]
      BY <2>1, <2>2
    <2> QED
      BY <2>3, <2>4, <2>5
  <1> DEFINE v == [bcCall[c] EXCEPT !.error = error, !.code = code, !.at = at]
  <1>1. bcCall' = [bcCall EXCEPT ![c] = v]
    BY <1>0
  <1>2. BcFits(c, bcCall[c], bcAsked[c], bcReader[c], bcOpen) /\ bcCall[c] \in BcRecord
    BY BcFacts
  <1>3. bcReader[c] = << >>
    BY <1>2 DEF BcFits
  <1>4. v \in BcRecord /\ v.at = at /\ v.error = error /\ v.code = code /\ v.by = bcCall[c].by
    BY <1>2 DEF BcRecord
  <1>6. v.by \in {"router_chat", "router_stream"} /\ (v.code = "invalid_api_key" \/ v.error \in BcForeign) => v.at = "raised"
    BY <1>0, <1>4
  <1> HIDE DEF v
  <1>7. BcFits(c, v, asked, << >>, {})
    BY <1>4, <1>6 DEF BcFits
  <1>8. BcFits(c, v, asked, bcReader[c], bcOpen \ {c})
    BY <1>3, <1>7 DEF BcFits
  <1>9. bcReader = [bcReader EXCEPT ![c] = bcReader[c]] /\ (bcOpen \ {c}) \ {c} = bcOpen \ {c}
    BY BcFacts
  <1> QED
    BY <1>1, <1>8, <1>9, BcMoves

\* The connection of the user is looked up, and its adapter made, or not.
LEMMA BcLookupHolds ==
  ASSUME BcInv, NEW c \in BcChat, BcLookup(c)
  PROVE  BcInv'
  <1>1. PICK p \in BcFound(c), url \in BOOLEAN :
          bcCall' = [bcCall EXCEPT ![c].at = "own", ![c].uses = p, ![c].url = url]
    BY DEF BcLookup
  <1>2. /\ bcCall[c].at = "lookup" /\ bcRows' = bcRows /\ bcSystem' = bcSystem /\ bcAsked' = bcAsked /\ bcReader' = bcReader
        /\ bcOpen' = bcOpen \cup {c}
    BY DEF BcLookup
  <1>3. BcFits(c, bcCall[c], bcAsked[c], bcReader[c], bcOpen) /\ bcCall[c] \in BcRecord
        /\ bcAsked = [bcAsked EXCEPT ![c] = bcAsked[c]] /\ bcReader = [bcReader EXCEPT ![c] = bcReader[c]]
    BY BcFacts
  <1>4. bcAsked[c] = {} /\ bcReader[c] = << >> /\ c \notin bcOpen
    BY <1>2, <1>3 DEF BcFits
  <1>5. p \in BcProvider
    BY <1>1 DEF BcInv, BcFound
  <1> DEFINE v == [bcCall[c] EXCEPT !.at = "own", !.uses = p, !.url = url]
  <1>6. bcCall' = [bcCall EXCEPT ![c] = v]
    <2>1. c \in DOMAIN bcCall
      BY DEF BcInv
    <2>2. [bcCall EXCEPT ![c].at = "own", ![c].uses = p, ![c].url = url] = [bcCall EXCEPT ![c] = v]
      BY <2>1
    <2> QED
      BY <1>1, <2>2
  <1>7. v \in BcRecord /\ v.at = "own" /\ v.uses = p /\ v.code = bcCall[c].code /\ v.error = bcCall[c].error /\ v.by = bcCall[c].by
    BY <1>3, <1>5 DEF BcRecord
  <1> HIDE DEF v
  <1>8. ~(bcCall[c].by \in {"router_chat", "router_stream"} /\ (bcCall[c].code = "invalid_api_key" \/ bcCall[c].error \in BcForeign))
    BY <1>2, <1>3 DEF BcFits
  <1>9. BcFits(c, v, {}, << >>, {c})
    BY <1>5, <1>7, <1>8 DEF BcFits
  <1>10. BcFits(c, v, bcAsked[c], bcReader[c], bcOpen \cup {c})
    BY <1>4, <1>9 DEF BcFits
  <1>11. (bcOpen \cup {c}) \ {c} = bcOpen \ {c}
    OBVIOUS
  <1> QED
    BY <1>2, <1>3, <1>6, <1>10, <1>11, BcMoves

\* It is not found, or no adapter can be made of it.
LEMMA BcLookupFailsHolds ==
  ASSUME BcInv, NEW c \in BcChat, NEW error \in {"no_provider"} \cup BcForeign, BcLookupFails(c, error)
  PROVE  BcInv'
  <1>1. /\ bcCall[c].at = "lookup" /\ bcRows' = bcRows /\ bcSystem' = bcSystem /\ bcAsked' = bcAsked /\ bcReader' = bcReader
        /\ bcOpen' = bcOpen /\ BcOnError(c, error, "none")
    BY DEF BcLookupFails
  <1>2. BcFits(c, bcCall[c], bcAsked[c], bcReader[c], bcOpen) /\ bcAsked = [bcAsked EXCEPT ![c] = bcAsked[c]]
    BY BcFacts
  <1>3. bcAsked[c] = {} /\ c \notin bcOpen
    BY <1>1, <1>2 DEF BcFits
  <1>4. error \in BcErrors
    BY DEF BcErrors, BcForeign
  <1>5. bcOpen' = bcOpen \ {c} /\ bcAsked' = [bcAsked EXCEPT ![c] = {}]
    BY <1>1, <1>2, <1>3
  <1> QED
    BY <1>1, <1>4, <1>5, BcErrorHolds

\* A provider of the user answers.
LEMMA BcOwnAnswersHolds ==
  ASSUME BcInv, NEW c \in BcChat, BcOwnAnswers(c)
  PROVE  BcInv'
  <1> DEFINE at == IF bcCall[c].by = "agent_chat" THEN "system" ELSE "answered"
             v == [bcCall[c] EXCEPT !.at = at]
             asked == bcAsked[c] \cup {"own"}
             read == IF BcStreams(c) THEN <<"own">> ELSE << >>
  <1>1. /\ bcCall[c].at = "own" /\ bcRows' = bcRows /\ bcSystem' = bcSystem
        /\ bcAsked' = [bcAsked EXCEPT ![c] = asked] /\ bcOpen' = bcOpen \ {c}
        /\ bcCall' = [bcCall EXCEPT ![c].at = at]
        /\ bcReader' = IF BcStreams(c) THEN [bcReader EXCEPT ![c] = Append(@, "own")] ELSE bcReader
    BY DEF BcOwnAnswers, BcTo
  <1>2. BcFits(c, bcCall[c], bcAsked[c], bcReader[c], bcOpen) /\ bcCall[c] \in BcRecord
        /\ bcReader = [bcReader EXCEPT ![c] = bcReader[c]]
        /\ [bcCall EXCEPT ![c].at = at] = [bcCall EXCEPT ![c] = v]
    BY BcFacts
  <1>3. bcAsked[c] = {} /\ bcReader[c] = << >>
    BY <1>1, <1>2 DEF BcFits
  <1>4. at \in {"system", "answered"}
    OBVIOUS
  <1>5. v \in BcRecord /\ v.at = at /\ v.code = bcCall[c].code /\ v.error = bcCall[c].error /\ v.by = bcCall[c].by
    BY <1>4, BcFacts
  <1>6. ~(v.by \in {"router_chat", "router_stream"} /\ (v.code = "invalid_api_key" \/ v.error \in BcForeign))
    BY <1>1, <1>2, <1>5 DEF BcFits
  <1>7. bcReader' = [bcReader EXCEPT ![c] = read]
    <2>1. CASE BcStreams(c)
      <3>1. Append(bcReader[c], "own") = <<"own">>
        BY <1>3
      <3> QED
        BY <1>1, <2>1, <3>1
    <2>2. CASE ~BcStreams(c)
      BY <1>1, <1>2, <1>3, <2>2
    <2> QED
      BY <2>1, <2>2
  <1>8. at = "system" => read = << >>
    BY DEF BcStreams
  <1>9. read \in {<< >>, <<"own">>} /\ asked = {"own"}
    BY <1>3
  <1> HIDE DEF v, at, asked, read
  <1>10. BcFits(c, v, asked, read, {})
    <2>1. read \in Seq({"own", "system"}) /\ Len(read) <= 2 /\ \A i, j \in 1..Len(read) : read[i] = read[j]
      <3>1. CASE read = << >>
        BY <3>1
      <3>2. CASE read = <<"own">>
        <4>1. <<"own">> \in Seq({"own", "system"}) /\ Len(<<"own">>) = 1
          OBVIOUS
        <4> QED
          BY <3>2, <4>1
      <3> QED
        BY <1>9, <3>1, <3>2
    <2>2. at = "system" => \A i \in 1..Len(read) : read[i] = "system"
      BY <1>8
    <2>3. asked \subseteq {"own", "system"} /\ "system" \notin asked
      BY <1>9
    <2> QED
      BY <1>4, <1>5, <1>6, <2>1, <2>2, <2>3 DEF BcFits
  <1>11. BcFits(c, v, asked, read, bcOpen \ {c}) /\ (bcOpen \ {c}) \ {c} = bcOpen \ {c}
    BY <1>10 DEF BcFits
  <1> QED
    BY <1>1, <1>2, <1>7, <1>11, BcMoves

\* A provider of the user fails, which may end the call.
LEMMA BcOwnFailsHolds ==
  ASSUME BcInv, NEW c \in BcChat, NEW answer \in AdRefusals, BcOwnFails(c, answer)
  PROVE  BcInv'
  <1> DEFINE error == BcOwnError(c, answer)
             code == BcVerdict(c, answer)
             asked == IF BcCanAsk(c) THEN bcAsked[c] \cup {"own"} ELSE bcAsked[c]
  <1>1. /\ bcCall[c].at = "own" /\ bcRows' = bcRows /\ bcSystem' = bcSystem /\ bcReader' = bcReader
        /\ bcAsked' = [bcAsked EXCEPT ![c] = asked] /\ bcOpen' = bcOpen \ {c} /\ BcOnError(c, error, code)
    BY DEF BcOwnFails
  <1>2. BcFits(c, bcCall[c], bcAsked[c], bcReader[c], bcOpen)
    BY BcFacts
  <1>3. bcAsked[c] = {} /\ bcCall[c].uses \in DOMAIN AdAdapter
    BY <1>1, <1>2, BcAssumption DEF BcFits
  <1>4. asked \in SUBSET {"own", "system"} /\ asked \subseteq {"own"}
    BY <1>3
  <1>5. code \in {"none", "invalid_api_key"} /\ (code = "invalid_api_key" => error \in {"invalid_api_key", "expired_api_key"})
        /\ error \in {"failed"} \cup {AdMapped(a) : a \in AdRefusals}
    BY <1>3, AdRefusedIsTold DEF BcOwnError, BcVerdict
  <1>6. error \in BcErrors
    BY <1>5 DEF BcErrors
  <1>7. BcOnError(c, error, code)
    BY <1>1
  <1>8. bcAsked' = [bcAsked EXCEPT ![c] = asked] /\ bcOpen' = bcOpen \ {c} /\ bcReader' = bcReader
        /\ bcRows' = bcRows /\ bcSystem' = bcSystem /\ bcCall[c].at \in {"lookup", "own"}
    BY <1>1
  <1> HIDE DEF error, code, asked
  <1> QED
    BY <1>7, <1>8, <1>4, <1>5, <1>6, BcErrorHolds

\* The program's own provider answers, piece by piece.
LEMMA BcSystemChunkHolds ==
  ASSUME BcInv, NEW c \in BcChat, BcSystemChunk(c)
  PROVE  BcInv'
  <1> DEFINE read == Append(bcReader[c], "system")
  <1>1. /\ bcCall[c].at = "system" /\ Len(bcReader[c]) < 2 /\ bcReader' = [bcReader EXCEPT ![c] = read]
        /\ bcRows' = bcRows /\ bcSystem' = bcSystem /\ bcCall' = bcCall /\ bcOpen' = bcOpen /\ bcAsked' = bcAsked
    BY DEF BcSystemChunk
  <1>2. BcFits(c, bcCall[c], bcAsked[c], bcReader[c], bcOpen)
        /\ bcAsked = [bcAsked EXCEPT ![c] = bcAsked[c]]
    BY BcFacts
  <1>3. bcCall = [bcCall EXCEPT ![c] = bcCall[c]]
    BY DEF BcInv
  <1>4. bcReader[c] \in Seq({"own", "system"}) /\ \A i \in 1..Len(bcReader[c]) : bcReader[c][i] = "system"
    BY <1>1, <1>2 DEF BcFits
  <1>5. read \in Seq({"own", "system"}) /\ Len(read) = Len(bcReader[c]) + 1 /\ \A i \in 1..Len(read) : read[i] = "system"
    <2>1. read \in Seq({"own", "system"}) /\ Len(read) = Len(bcReader[c]) + 1
      BY <1>4
    <2>2. ASSUME NEW i \in 1..Len(read) PROVE read[i] = "system"
      <3>1. CASE i \in 1..Len(bcReader[c])
        BY <1>4, <3>1
      <3>2. CASE i = Len(bcReader[c]) + 1
        BY <1>4, <3>2
      <3> QED
        BY <1>4, <2>1, <3>1, <3>2
    <2> QED
      BY <2>1, <2>2
  <1>6. Len(read) <= 2
    BY <1>1, <1>4, <1>5
  <1> HIDE DEF read
  <1>7. BcFits(c, bcCall[c], bcAsked[c], read, bcOpen)
    BY <1>1, <1>2, <1>5, <1>6 DEF BcFits
  <1> QED
    BY <1>1, <1>2, <1>3, <1>7, BcMoves

\* The program's own service ends, or raises.
LEMMA BcSystemEndsHolds ==
  ASSUME BcInv, NEW c \in BcChat, NEW end \in {"answered", "raised"}, BcSystemEnds(c, end)
  PROVE  BcInv'
  <1> DEFINE v == [bcCall[c] EXCEPT !.at = end]
             asked == IF BcSystemThere(c) THEN bcAsked[c] \cup {"system"} ELSE bcAsked[c]
  <1>1. /\ bcCall[c].at = "system" /\ bcReader' = bcReader /\ bcAsked' = [bcAsked EXCEPT ![c] = asked]
        /\ bcRows' = bcRows /\ bcSystem' = bcSystem /\ bcCall' = [bcCall EXCEPT ![c].at = end] /\ bcOpen' = bcOpen
    BY DEF BcSystemEnds, BcTo
  <1>2. BcFits(c, bcCall[c], bcAsked[c], bcReader[c], bcOpen)
        /\ bcReader = [bcReader EXCEPT ![c] = bcReader[c]] /\ bcCall' = [bcCall EXCEPT ![c] = v]
    BY <1>1, BcFacts
  <1>3. /\ v \in BcRecord /\ v.at = end /\ v.by = bcCall[c].by /\ v.code = bcCall[c].code /\ v.error = bcCall[c].error
    BY BcFacts
  <1>4. asked \subseteq {"own", "system"}
    BY <1>2 DEF BcFits
  <1> HIDE DEF v, asked
  <1>5. BcFits(c, v, asked, bcReader[c], bcOpen)
    BY <1>1, <1>2, <1>3, <1>4 DEF BcFits
  <1> QED
    BY <1>1, <1>2, <1>5, BcMoves

\* The user changes the connections meanwhile.
LEMMA BcRowsHold ==
  ASSUME BcInv, NEW p \in BcProvider, BcSetDefault(p) \/ BcRemove(p)
  PROVE  BcInv'
  <1>1. bcSystem' = bcSystem /\ bcCall' = bcCall /\ bcOpen' = bcOpen /\ bcAsked' = bcAsked /\ bcReader' = bcReader
    BY DEF BcSetDefault, BcRemove
  <1>2. DOMAIN bcRows' \subseteq BcProvider /\ bcRows' \in [DOMAIN bcRows' -> BOOLEAN]
    <2>1. CASE BcSetDefault(p)
      BY <2>1 DEF BcInv, BcSetDefault
    <2>2. CASE BcRemove(p)
      BY <2>2 DEF BcInv, BcRemove
    <2> QED
      BY <2>1, <2>2
  <1> QED
    BY <1>1, <1>2 DEF BcInv

\* Every step of every call keeps all of them sound.
LEMMA BcHolds == BcInv /\ [BcNext]_bcVars => BcInv'
  <1> SUFFICES ASSUME BcInv, [BcNext]_bcVars PROVE BcInv'
    OBVIOUS
  <1>1. CASE UNCHANGED bcVars
    BY <1>1 DEF bcVars, BcInv
  <1>2. CASE BcNext
    BY <1>2, BcRowsHold, BcBeginHolds, BcLookupHolds, BcLookupFailsHolds, BcOwnAnswersHolds, BcSystemChunkHolds, BcOwnFailsHolds,
       BcSystemEndsHolds DEF BcNext
  <1> QED
    BY <1>1, <1>2

\* Calls of models hold a key only while its provider is asked and give one answer, and
\* the router asks nobody behind a key that is refused or cannot be decrypted.
THEOREM ChatsAreSound ==
  BcInit /\ [][BcNext]_bcVars => [](BcTypeOK /\ BcKeyReleased /\ BcOneAnswer /\ BcRefusedKeyStops)
  BY BcBegins, BcHolds, BcIsSound, PTL

-----------------------------------------------------------------------------
\* The choice of a model.

\* Each model has a latency, measured or not.
MrLatencies == mrLatency \in [DOMAIN MrModel -> Nat]

\* Scores are integers, and the order of the models is total and strict.
LEMMA MrScoreType ==
  ASSUME MrLatencies, NEW m \in MrEnabled, NEW r \in MrRequest
  PROVE  MrScore(m, r) \in Int /\ m \in Nat /\ MrEstimate(m, r) \in Nat
  <1>1. /\ m \in DOMAIN MrModel /\ m \in Nat
        /\ MrModel[m] \in [caps : [DOMAIN MrRule -> Nat], context : Nat, input : Nat, output : Nat, base : Nat,
                           local : BOOLEAN]
        /\ r \in [task : DOMAIN MrRule, input : Nat, output : Nat, lowCost : BOOLEAN, lowLatency : BOOLEAN]
    BY MrAssumption
  <1>2. /\ MrModel[m].caps[r.task] \in Nat /\ MrModel[m].base \in Nat
        /\ MrModel[m].input \in Int /\ MrModel[m].output \in Int /\ r.input \in Int /\ r.output \in Nat
    BY <1>1
  <1>3. MrEstimate(m, r) \in Nat
    BY <1>1, <1>2 DEF MrEstimate, MrLatencies
  <1>9. MrCost(m, r) \in Int
    <2>1. \A x, y \in Int : x * y \in Int
      OBVIOUS
    <2>2. r.input * MrModel[m].input \in Int /\ r.output * MrModel[m].output \in Int
      BY <1>2, <2>1
    <2> QED
      BY <2>2 DEF MrCost
  <1>4. \A x \in Int : MrBonus(x) \in Int
    BY DEF MrBonus
  <1>5. MrBonus(20 - 2 * MrCost(m, r)) \in Int /\ MrBonus(20 - MrEstimate(m, r)) \in Int
    BY <1>3, <1>4, <1>9
  <1> DEFINE rule == MrRule[r.task]
             a == 20 * MrModel[m].caps[r.task] + 10
             b == IF r.lowCost \/ rule.maxCost # 0 THEN MrBonus(20 - 2 * MrCost(m, r)) ELSE 0
             c == IF r.lowLatency \/ rule.maxLatency # 0 THEN MrBonus(20 - MrEstimate(m, r)) ELSE 0
             d == IF MrModel[m].local THEN 4 ELSE 0
  <1>6. a \in Int /\ b \in Int /\ c \in Int /\ d \in Int
    BY <1>2, <1>5
  <1>7. MrScore(m, r) = a + b + c + d
    BY DEF MrScore
  <1> HIDE DEF a, b, c, d
  <1>8. a + b + c + d \in Int
    BY <1>6
  <1> QED
    BY <1>1, <1>3, <1>7, <1>8

\* The order of the models is strict and total.
LEMMA MrOrder ==
  ASSUME MrLatencies, NEW r \in MrRequest
  PROVE  /\ \A m \in MrEnabled : ~MrBefore(m, m, r)
         /\ \A m, n \in MrEnabled : m # n => MrBefore(m, n, r) \/ MrBefore(n, m, r)
         /\ \A m, n, k \in MrEnabled : MrBefore(m, n, r) /\ MrBefore(n, k, r) => MrBefore(m, k, r)
  <1>1. \A m \in MrEnabled : MrScore(m, r) \in Int /\ m \in Nat
    BY MrScoreType
  <1> QED
    BY <1>1 DEF MrBefore

\* How many models that can serve the request are before a model.
MrAhead(m, r) == {n \in MrScored(r) : MrBefore(n, m, r)}

\* Of two models the one that is before has fewer before it.
LEMMA MrRanks ==
  ASSUME MrLatencies, NEW r \in MrRequest, NEW m \in MrScored(r), NEW n \in MrScored(r)
  PROVE  /\ Cardinality(MrAhead(m, r)) \in Nat
         /\ MrBefore(m, n, r) => Cardinality(MrAhead(m, r)) < Cardinality(MrAhead(n, r))
  <1>1. MrScored(r) \subseteq MrEnabled /\ IsFiniteSet(MrEnabled)
    BY MrAssumption DEF MrScored
  <1>2. IsFiniteSet(MrScored(r))
    BY <1>1, FS_Subset
  <1>3. \A k \in MrScored(r) : IsFiniteSet(MrAhead(k, r))
    BY <1>2, FS_Subset DEF MrAhead
  <1>4. Cardinality(MrAhead(m, r)) \in Nat /\ Cardinality(MrAhead(n, r)) \in Nat
    BY <1>3, FS_CardinalityType
  <1>5. ASSUME MrBefore(m, n, r) PROVE Cardinality(MrAhead(m, r)) < Cardinality(MrAhead(n, r))
    <2>1. m \notin MrAhead(m, r)
      BY <1>1, MrOrder DEF MrAhead
    <2>2. MrAhead(m, r) \cup {m} \subseteq MrAhead(n, r)
      BY <1>1, <1>5, MrOrder DEF MrAhead
    <2>3. Cardinality(MrAhead(m, r) \cup {m}) = Cardinality(MrAhead(m, r)) + 1
      BY <1>3, <2>1, FS_AddElement
    <2>4. Cardinality(MrAhead(m, r) \cup {m}) <= Cardinality(MrAhead(n, r))
      BY <1>3, <2>2, FS_Subset
    <2> QED
      BY <1>4, <2>3, <2>4
  <1> QED
    BY <1>4, <1>5

\* The selected model is one of those that can serve the request, if any can, and none
\* of these is before it; without any it is one of the models there are, or none.
LEMMA MrSelectedIs ==
  ASSUME MrLatencies, NEW r \in MrRequest
  PROVE  /\ MrScored(r) # {} => MrSelected(r) \in MrScored(r) /\ MrAhead(MrSelected(r), r) = {}
         /\ MrScored(r) = {} => \/ mrFallback /\ MrSelected(r) \in MrEnabled
                                \/ (~mrFallback \/ MrEnabled = {}) /\ MrSelected(r) = 0
  <1>0. MrScored(r) \subseteq MrEnabled /\ MrEnabled \subseteq Nat
    BY MrAssumption DEF MrScored
  <1>1. ASSUME MrScored(r) # {}
        PROVE  MrSelected(r) \in MrScored(r) /\ MrAhead(MrSelected(r), r) = {}
    <2> DEFINE ranks == {Cardinality(MrAhead(m, r)) : m \in MrScored(r)}
    <2>1. ranks \subseteq Nat /\ ranks # {}
      BY <1>1, MrRanks
    <2>2. PICK x \in ranks : \A y \in ranks : x <= y
      BY <2>1, LeastOfSet
    <2>3. PICK m \in MrScored(r) : x = Cardinality(MrAhead(m, r))
      OBVIOUS
    <2>4. \A n \in MrScored(r) \ {m} : MrBefore(m, n, r)
      <3> SUFFICES ASSUME NEW n \in MrScored(r) \ {m} PROVE MrBefore(m, n, r)
        OBVIOUS
      <3>1. x <= Cardinality(MrAhead(n, r))
        BY <2>2
      <3>2. ~MrBefore(n, m, r)
        BY <2>3, <3>1, MrRanks
      <3> QED
        BY <1>0, <3>2, MrOrder
    <2> HIDE DEF ranks
    <2> DEFINE best == CHOOSE k \in MrScored(r) : \A n \in MrScored(r) \ {k} : MrBefore(k, n, r)
    <2>5. best \in MrScored(r) /\ \A n \in MrScored(r) \ {best} : MrBefore(best, n, r)
      BY <2>4
    <2>6. MrSelected(r) = best
      BY <1>1 DEF MrSelected
    <2> HIDE DEF best
    <2>7. \A n \in MrScored(r) : ~MrBefore(n, best, r)
      BY <1>0, <2>5, MrOrder
    <2> QED
      BY <2>5, <2>6, <2>7 DEF MrAhead
  <1>2. ASSUME MrScored(r) = {}
        PROVE  \/ mrFallback /\ MrSelected(r) \in MrEnabled
               \/ (~mrFallback \/ MrEnabled = {}) /\ MrSelected(r) = 0
    <2>1. CASE mrFallback /\ MrEnabled # {}
      <3>1. \E x \in MrEnabled : \A y \in MrEnabled : x <= y
        BY <1>0, <2>1, LeastOfSet
      <3>2. MrSelected(r) = CHOOSE m \in MrEnabled : \A n \in MrEnabled : m <= n
        BY <1>2, <2>1 DEF MrSelected
      <3> QED
        BY <2>1, <3>1, <3>2
    <2>2. CASE ~(mrFallback /\ MrEnabled # {})
      BY <1>2, <2>2 DEF MrSelected
    <2> QED
      BY <2>1, <2>2
  <1> QED
    BY <1>0, <1>1, <1>2

\* No more than three alternatives, since no two models have as many before them.
LEMMA MrFewAlternatives ==
  ASSUME MrLatencies, NEW r \in MrRequest
  PROVE  Cardinality(MrAlternatives(r)) <= 3
  <1> DEFINE A == MrAlternatives(r)
             f == [m \in A |-> Cardinality(MrAhead(m, r))]
  <1>0. MrScored(r) \subseteq MrEnabled /\ IsFiniteSet(MrEnabled) /\ A \subseteq MrScored(r)
    BY MrAssumption DEF MrScored, MrAlternatives
  <1>1. IsFiniteSet(A)
    BY <1>0, FS_Subset
  <1>2. f \in [A -> 1..3]
    BY DEF MrAlternatives, MrAhead
  <1>3. IsFiniteSet(1..3) /\ Cardinality(1..3) = 3
    <2>1. 1 \in Int /\ 3 \in Int
      OBVIOUS
    <2>2. IsFiniteSet(1..3) /\ Cardinality(1..3) = IF 1 > 3 THEN 0 ELSE 3 - 1 + 1
      BY ONLY <2>1, FS_Interval
    <2> QED
      BY <2>2
  <1>4. \A m, n \in A : m # n => f[m] # f[n]
    <2> SUFFICES ASSUME NEW m \in A, NEW n \in A, m # n PROVE f[m] # f[n]
      OBVIOUS
    <2>1. m \in MrScored(r) /\ n \in MrScored(r)
      BY <1>0
    <2>2. MrBefore(m, n, r) \/ MrBefore(n, m, r)
      BY <1>0, <2>1, MrOrder
    <2>3. Cardinality(MrAhead(m, r)) \in Nat /\ Cardinality(MrAhead(n, r)) \in Nat
      BY <2>1, MrRanks
    <2>4. Cardinality(MrAhead(m, r)) < Cardinality(MrAhead(n, r)) \/ Cardinality(MrAhead(n, r)) < Cardinality(MrAhead(m, r))
      BY <2>1, <2>2, MrRanks
    <2> QED
      BY <2>3, <2>4
  <1>5. Cardinality(A) \in Nat
    BY <1>1, FS_CardinalityType
  <1> HIDE DEF f, A
  <1>6. ~(Cardinality(1..3) < Cardinality(A))
    BY <1>1, <1>2, <1>3, <1>4, FS_PigeonHole
  <1> QED
    BY <1>3, <1>5, <1>6 DEF A

\* The types, and that what was routed fits: as they stand, inductive.
MrInv == MrTypeOK /\ MrSound

\* Before the first request nothing is routed.
LEMMA MrBegins == MrInit => MrInv
  <1> SUFFICES ASSUME MrInit PROVE MrInv
    OBVIOUS
  <1>1. MrTypeOK
    BY MrAssumption DEF MrInit, MrTypeOK, MrNoResult
  <1> QED
    BY <1>1 DEF MrInit, MrInv, MrSound

\* A request is routed, or none of the models may serve it.
LEMMA MrRouteHolds ==
  ASSUME MrInv, NEW r \in MrRequest, MrRoute(r)
  PROVE  MrInv'
  <1> DEFINE s == MrSelected(r)
             A == MrAlternatives(r)
  <1>1. mrResult' = [request |-> r, selected |-> s, alternatives |-> A]
        /\ mrLatency' = mrLatency /\ mrCounts' = mrCounts /\ mrFallback' = mrFallback
    BY DEF MrRoute
  <1>2. MrLatencies
    BY MrAssumption DEF MrInv, MrTypeOK, MrLatencies
  <1>3. /\ MrScored(r) # {} => s \in MrScored(r) /\ MrAhead(s, r) = {}
        /\ MrScored(r) = {} => \/ mrFallback /\ s \in MrEnabled
                               \/ (~mrFallback \/ MrEnabled = {}) /\ s = 0
    BY <1>2, MrSelectedIs
  <1>4. Cardinality(A) <= 3
    BY <1>2, MrFewAlternatives
  <1>5. A \subseteq MrScored(r) /\ MrScored(r) \subseteq MrEnabled /\ 0 \notin MrEnabled
    BY MrAssumption DEF MrScored, MrAlternatives
  <1>6. s \notin A
    <2>1. CASE MrScored(r) # {}
      <3>1. Cardinality(MrAhead(s, r)) = 0
        BY <1>3, <2>1, FS_EmptySet
      <3> QED
        BY <3>1 DEF MrAlternatives, MrAhead
    <2>2. CASE MrScored(r) = {}
      BY <1>5, <2>2
    <2> QED
      BY <2>1, <2>2
  <1>7. \A m \in MrScored(r) : MrFits(m, r)
    BY DEF MrScored, MrCanServe
  <1>8. MrRule[r.task].maxLatency = 0 /\ MrScored(r) = {} => \A m \in MrEnabled : ~MrFits(m, r)
    BY DEF MrScored, MrCanServe
  <1> HIDE DEF s, A
  <1>9. mrResult'.request = r /\ mrResult'.selected = s /\ mrResult'.alternatives = A
    BY <1>1
  <1>10. MrTypeOK'
    BY <1>1, <1>3, <1>5, <1>9 DEF MrInv, MrTypeOK
  <1>11. /\ \A m \in A : MrFits(m, r) /\ MrFits(s, r)
         /\ s # 0 /\ ~MrFits(s, r) => mrFallback /\ (MrRule[r.task].maxLatency = 0 => \A m \in MrEnabled : ~MrFits(m, r))
         /\ s = 0 => ~mrFallback \/ MrEnabled = {}
    BY <1>3, <1>5, <1>7, <1>8
  <1>12. MrSound'
    BY <1>1, <1>4, <1>6, <1>9, <1>11 DEF MrSound, MrFits, MrCost
  <1> QED
    BY <1>10, <1>12 DEF MrInv

\* Requests and measurements keep it.
LEMMA MrHolds == MrInv /\ [MrNext]_mrVars => MrInv'
  <1> SUFFICES ASSUME MrInv, [MrNext]_mrVars PROVE MrInv'
    OBVIOUS
  <1>1. CASE UNCHANGED mrVars
    BY <1>1 DEF mrVars, MrInv, MrTypeOK, MrSound, MrFits, MrCost
  <1>2. ASSUME NEW m \in DOMAIN MrModel, NEW latency \in MrMeasured, MrRecord(m, latency)
        PROVE  MrInv'
    <2>1. mrResult' = mrResult /\ mrFallback' = mrFallback
      BY <1>2 DEF MrRecord
    <2>2. MrTypeOK'
      BY <1>2, MrAssumption DEF MrRecord, MrInv, MrTypeOK
    <2>3. MrSound'
      BY <2>1 DEF MrInv, MrSound, MrFits, MrCost
    <2> QED
      BY <2>2, <2>3 DEF MrInv
  <1> QED
    BY <1>1, <1>2, MrRouteHolds DEF MrNext

\* What is offered fits the limits of context and cost, or is the fallback.
THEOREM RoutesAreSound ==
  MrInit /\ [][MrNext]_mrVars => [](MrTypeOK /\ MrSound)
  BY MrBegins, MrHolds, PTL DEF MrInv

-----------------------------------------------------------------------------
\* Projects.

\* The files that a project may have.
PgMayHave(stack) ==
  {PgMain(stack.language), PgPackages(stack.language), PgConfig(stack.language), <<".", "README.md">>,
   <<".", ".gitignore">>, PgTests, PgDockerfile, PgWorkflow}

\* Files of a sequence, and of two that are joined.
LEMMA PgJoined ==
  ASSUME NEW F, NEW s \in Seq(F), NEW t \in Seq(F)
  PROVE  s \o t \in Seq(F) /\ PgAll(s \o t) = PgAll(s) \cup PgAll(t)
  <1>1. s \o t \in Seq(F) /\ Len(s \o t) = Len(s) + Len(t)
    OBVIOUS
  <1>2. \A i \in 1..Len(s) : (s \o t)[i] = s[i]
    OBVIOUS
  <1>3. \A i \in 1..Len(t) : (s \o t)[Len(s) + i] = t[i]
    OBVIOUS
  <1>4. DOMAIN s = 1..Len(s) /\ DOMAIN t = 1..Len(t) /\ DOMAIN (s \o t) = 1..(Len(s) + Len(t)) /\ Len(s) \in Nat /\ Len(t) \in Nat
    BY <1>1
  <1>5. PgAll(s) \subseteq PgAll(s \o t)
    <2> SUFFICES ASSUME NEW i \in DOMAIN s PROVE s[i] \in PgAll(s \o t)
      BY DEF PgAll
    <2>1. i \in DOMAIN (s \o t) /\ (s \o t)[i] = s[i]
      BY <1>2, <1>4
    <2> QED
      BY <2>1 DEF PgAll
  <1>6. PgAll(t) \subseteq PgAll(s \o t)
    <2> SUFFICES ASSUME NEW i \in DOMAIN t PROVE t[i] \in PgAll(s \o t)
      BY DEF PgAll
    <2>1. Len(s) + i \in DOMAIN (s \o t) /\ (s \o t)[Len(s) + i] = t[i]
      BY <1>3, <1>4
    <2> QED
      BY <2>1 DEF PgAll
  <1>7. PgAll(s \o t) \subseteq PgAll(s) \cup PgAll(t)
    <2> SUFFICES ASSUME NEW i \in DOMAIN (s \o t) PROVE (s \o t)[i] \in PgAll(s) \cup PgAll(t)
      BY DEF PgAll
    <2>1. CASE i \in 1..Len(s)
      BY <1>2, <1>4, <2>1 DEF PgAll
    <2>2. CASE i \notin 1..Len(s)
      <3>1. i - Len(s) \in 1..Len(t) /\ i = Len(s) + (i - Len(s))
        BY <1>4, <2>2
      <3>2. (s \o t)[i] = t[i - Len(s)]
        BY <1>3, <3>1
      <3> QED
        BY <1>4, <3>1, <3>2 DEF PgAll
    <2> QED
      BY <2>1, <2>2
  <1> QED
    BY <1>1, <1>5, <1>6, <1>7

\* The files of a project of some stack.
LEMMA PgFilesAre ==
  ASSUME NEW stack
  PROVE  /\ PgFiles(stack) \in Seq(PgMayHave(stack))
         /\ PgAll(PgFiles(stack)) =
              {PgMain(stack.language), PgPackages(stack.language), PgConfig(stack.language), <<".", "README.md">>,
               <<".", ".gitignore">>, PgWorkflow}
              \cup (IF stack.language = "python" THEN {PgTests} ELSE {}) \cup (IF stack.docker THEN {PgDockerfile} ELSE {})
  <1> DEFINE F == PgMayHave(stack)
             main == PgMain(stack.language)
             packages == PgPackages(stack.language)
             config == PgConfig(stack.language)
             a == <<main, packages, config, <<".", "README.md">>, <<".", ".gitignore">>>>
             b == IF stack.language = "python" THEN <<PgTests>> ELSE << >>
             c == IF stack.docker THEN <<PgDockerfile>> ELSE << >>
             d == <<PgWorkflow>>
  <1>1. main \in F /\ packages \in F /\ config \in F
    BY DEF PgMayHave
  <1>2. <<".", "README.md">> \in F /\ <<".", ".gitignore">> \in F
    BY DEF PgMayHave
  <1>3. PgTests \in F /\ PgDockerfile \in F /\ PgWorkflow \in F
    BY DEF PgMayHave, PgTests, PgDockerfile, PgWorkflow
  <1> HIDE DEF main, packages, config, F
  <1>4. a \in Seq(F) /\ PgAll(a) = {main, packages, config, <<".", "README.md">>, <<".", ".gitignore">>}
    <2> DEFINE r == <<".", "README.md">>
               g == <<".", ".gitignore">>
    <2>0. r \in F /\ g \in F
      BY <1>2
    <2> HIDE DEF r, g
    <2>1. <<main, packages, config, r, g>> \in Seq(F)
      BY <1>1, <2>0
    <2>2. PgAll(<<main, packages, config, r, g>>) = {main, packages, config, r, g}
      BY DEF PgAll
    <2> QED
      BY <2>1, <2>2 DEF r, g
  <1>5. /\ b \in Seq(F)
        /\ PgAll(b) = IF stack.language = "python" THEN {PgTests} ELSE {}
    BY <1>3 DEF PgAll
  <1>6. c \in Seq(F) /\ PgAll(c) = IF stack.docker THEN {PgDockerfile} ELSE {}
    BY <1>3 DEF PgAll
  <1>7. d \in Seq(F) /\ PgAll(d) = {PgWorkflow}
    BY <1>3 DEF PgAll
  <1>8. PgFiles(stack) = a \o b \o c \o d
    BY DEF PgFiles, main, packages, config
  <1> HIDE DEF a, b, c, d
  <1>9. a \o b \in Seq(F) /\ PgAll(a \o b) = PgAll(a) \cup PgAll(b)
    BY <1>4, <1>5, PgJoined
  <1>10. a \o b \o c \in Seq(F) /\ PgAll(a \o b \o c) = PgAll(a) \cup PgAll(b) \cup PgAll(c)
    <2> DEFINE ab == a \o b
    <2>1. ab \in Seq(F) /\ c \in Seq(F) /\ PgAll(ab) = PgAll(a) \cup PgAll(b)
      BY <1>6, <1>9
    <2> HIDE DEF ab
    <2>2. ab \o c \in Seq(F) /\ PgAll(ab \o c) = PgAll(ab) \cup PgAll(c)
      BY <2>1, PgJoined
    <2> QED
      BY <2>1, <2>2 DEF ab
  <1>11. a \o b \o c \o d \in Seq(F) /\ PgAll(a \o b \o c \o d) = PgAll(a) \cup PgAll(b) \cup PgAll(c) \cup PgAll(d)
    <2> DEFINE ab == a \o b \o c
    <2>1. ab \in Seq(F) /\ d \in Seq(F) /\ PgAll(ab) = PgAll(a) \cup PgAll(b) \cup PgAll(c)
      BY <1>7, <1>10
    <2> HIDE DEF ab
    <2>2. ab \o d \in Seq(F) /\ PgAll(ab \o d) = PgAll(ab) \cup PgAll(d)
      BY <2>1, PgJoined
    <2> QED
      BY <2>1, <2>2 DEF ab
  <1>12. PgAll(PgFiles(stack)) = {main, packages, config, <<".", "README.md">>, <<".", ".gitignore">>}
           \cup (IF stack.language = "python" THEN {PgTests} ELSE {}) \cup (IF stack.docker THEN {PgDockerfile} ELSE {})
           \cup {PgWorkflow}
    BY <1>4, <1>5, <1>6, <1>7, <1>8, <1>11
  <1> QED
    BY <1>8, <1>11, <1>12 DEF main, packages, config, F

\* The names of the files differ where it matters.
LEMMA PgNames ==
  ASSUME NEW language
  PROVE  /\ PgTests \notin {PgMain(language), PgPackages(language), PgConfig(language), <<".", "README.md">>,
                            <<".", ".gitignore">>, PgWorkflow, PgDockerfile}
         /\ PgDockerReads(language) \subseteq {PgPackages(language), PgMain(language)}
         /\ PgWorkflowReads(language) \subseteq {PgPackages(language), PgTests}
         /\ PgTests \in PgWorkflowReads(language) => language = "python"
  <1>1. /\ PgMain(language)[2] # "test_main.py" /\ PgPackages(language)[2] # "test_main.py"
        /\ PgConfig(language)[2] # "test_main.py" /\ PgTests[2] = "test_main.py"
        /\ PgWorkflow[2] # "test_main.py" /\ PgDockerfile[2] # "test_main.py"
    BY DEF PgMain, PgPackages, PgConfig, PgTests, PgWorkflow, PgDockerfile
  <1>2. PgDockerReads(language) \subseteq {PgPackages(language), PgMain(language)}
    <2>1. CASE language = "python"
      BY <2>1 DEF PgDockerReads
    <2>2. CASE language = "typescript"
      BY <2>2 DEF PgDockerReads
    <2>3. CASE language = "go"
      BY <2>3 DEF PgDockerReads
    <2> QED
      BY <2>1, <2>2, <2>3 DEF PgDockerReads
  <1>3. PgWorkflowReads(language) \subseteq {PgPackages(language), PgTests}
    <2>1. CASE language = "python"
      BY <2>1 DEF PgWorkflowReads
    <2>2. CASE language \in {"typescript", "javascript", "go"}
      BY <2>2 DEF PgWorkflowReads
    <2> QED
      BY <2>1, <2>2 DEF PgWorkflowReads
  <1>4. PgTests \in PgWorkflowReads(language) => language = "python"
    <2>1. PgTests # PgPackages(language)
      BY <1>1
    <2>2. CASE language \in {"typescript", "javascript"}
      BY <2>1, <2>2 DEF PgWorkflowReads
    <2>3. CASE language = "go"
      BY <2>1, <2>3 DEF PgWorkflowReads
    <2> QED
      BY <2>2, <2>3 DEF PgWorkflowReads
  <1> QED
    BY <1>1, <1>2, <1>3, <1>4

\* The files are what the files name.
LEMMA PgFilesAreWhole ==
  ASSUME NEW stack
  PROVE  /\ PgDockerReads(stack.language) \subseteq PgAll(PgFiles(stack))
         /\ PgWorkflowReads(stack.language) \subseteq PgAll(PgFiles(stack))
         /\ PgTests \in PgAll(PgFiles(stack)) => PgServes(stack.language)
  <1> DEFINE l == stack.language
  <1>1. PgMain(l) \in PgAll(PgFiles(stack)) /\ PgPackages(l) \in PgAll(PgFiles(stack))
        /\ (l = "python" => PgTests \in PgAll(PgFiles(stack)))
    BY PgFilesAre
  <1>2. PgDockerReads(l) \subseteq PgAll(PgFiles(stack))
    BY <1>1, PgNames
  <1>3. PgWorkflowReads(l) \subseteq PgAll(PgFiles(stack))
    BY <1>1, PgNames
  <1>4. PgTests \in PgAll(PgFiles(stack)) => l = "python"
    BY PgFilesAre, PgNames
  <1>5. PgServes("python")
    BY DEF PgServes
  <1> QED
    BY <1>2, <1>3, <1>4, <1>5

\* Every directory is made before its files, except for JavaScript.
LEMMA PgDirectoriesFit ==
  ASSUME NEW stack, NEW f \in PgAll(PgFiles(stack)), stack.language # "javascript"
  PROVE  f[1] \in PgDirectories(stack.language) \cup {".", ".github"}
  <1> DEFINE l == stack.language
  <1>1. f \in {PgMain(l), PgPackages(l), PgConfig(l), <<".", "README.md">>, <<".", ".gitignore">>, PgWorkflow, PgDockerfile}
        \/ (f = PgTests /\ l = "python")
    BY PgFilesAre
  <1>2. PgPackages(l)[1] = "." /\ PgConfig(l)[1] = "."
    BY DEF PgPackages, PgConfig
  <1>3. PgWorkflow[1] = ".github" /\ PgDockerfile[1] = "." /\ PgTests[1] = "tests"
    BY DEF PgWorkflow, PgDockerfile, PgTests
  <1>4. PgMain(l)[1] \in PgDirectories(l) \cup {"."}
    BY DEF PgMain, PgDirectories
  <1>5. l = "python" => "tests" \in PgDirectories(l)
    BY DEF PgDirectories
  <1> QED
    BY <1>1, <1>2, <1>3, <1>4, <1>5


\* A generation that is stored: what it was made of, and how it ended.
PgMade(p, stack, room, whole) ==
  [project |-> p, stack |-> stack, room |-> room, status |-> IF whole THEN "completed" ELSE "failed",
   files |-> IF whole THEN PgAll(PgFiles(stack)) ELSE {}]

\* A project that is stored was made of its stack, and failed for want of room or for
\* JavaScript only.
PgEntry(e, dirs) ==
  \E p \in PgProject, stack \in PgStacks, room, whole \in BOOLEAN :
    /\ e = PgMade(p, stack, room, whole)
    /\ ~whole => ~room \/ stack.language = "javascript"
    /\ whole /\ stack.language = "javascript" => <<p, "src">> \in dirs

\* What is listed is there, and made of what it says.
PgInv ==
  /\ DOMAIN pgStore = PgGeneration /\ pgStore = [g \in PgGeneration |-> pgStore[g]]
  /\ \A g \in PgStored : PgEntry(pgStore[g], pgDirs)
  /\ pgTaken \subseteq PgStored
  /\ PgListedThere

\* A task of a milestone has its dependencies before it, in that milestone or an earlier
\* one, and what a project depends on it requires, except for motor.
LEMMA PgPlans ==
  /\ \A m \in DOMAIN PgMilestone : \A t \in PgMilestone[m] : \A d \in PgTaskDeps[t] :
       d < t /\ \E n \in 1..m : d \in PgMilestone[n]
  /\ \A stack : PgDependencies(stack) \subseteq PgRequirements(stack) \cup {"motor"}
  <1>1. ASSUME NEW stack PROVE PgDependencies(stack) \subseteq PgRequirements(stack) \cup {"motor"}
    <2>1. CASE stack.database = "postgresql"
      BY <2>1 DEF PgDependencies, PgRequirements
    <2>2. CASE stack.database = "mysql"
      BY <2>2 DEF PgDependencies, PgRequirements
    <2>3. CASE stack.database \notin {"postgresql", "mysql"}
      BY <2>3 DEF PgDependencies, PgRequirements
    <2> QED
      BY <2>1, <2>2, <2>3
  <1>2. ASSUME NEW m \in DOMAIN PgMilestone, NEW t \in PgMilestone[m], NEW d \in PgTaskDeps[t]
        PROVE  d < t /\ \E n \in 1..m : d \in PgMilestone[n]
    <2>1. m \in 1..4
      BY DEF PgMilestone
    <2>2. PgMilestone[1] = {1, 2} /\ PgMilestone[2] = {3, 4, 5} /\ PgMilestone[3] = {6, 7} /\ PgMilestone[4] = {8, 9}
      BY DEF PgMilestone
    <2>3. /\ PgTaskDeps[1] = {} /\ PgTaskDeps[2] = {1} /\ PgTaskDeps[3] = {1} /\ PgTaskDeps[4] = {3} /\ PgTaskDeps[5] = {3}
          /\ PgTaskDeps[6] = {4} /\ PgTaskDeps[7] = {4} /\ PgTaskDeps[8] = {4} /\ PgTaskDeps[9] = {8}
      BY DEF PgTaskDeps
    <2>4. CASE m = 1
      <3>1. (t = 1 \/ t = 2) /\ 1 \in 1..m
        BY <2>2, <2>4
      <3>2. t = 2 /\ d = 1
        BY <2>3, <3>1
      <3> QED
        BY <2>2, <3>1, <3>2
    <2>5. CASE m = 2
      <3>1. t \in {3, 4, 5} /\ 1 \in 1..m /\ 2 \in 1..m
        BY <2>2, <2>5
      <3>2. (t = 3 /\ d = 1) \/ (t \in {4, 5} /\ d = 3)
        BY <2>3, <3>1
      <3> QED
        BY <2>2, <3>1, <3>2
    <2>6. CASE m = 3
      <3>1. t \in {6, 7} /\ 2 \in 1..m
        BY <2>2, <2>6
      <3>2. d = 4
        BY <2>3, <3>1
      <3> QED
        BY <2>2, <3>1, <3>2
    <2>7. CASE m = 4
      <3>1. t \in {8, 9} /\ 2 \in 1..m /\ 4 \in 1..m
        BY <2>2, <2>7
      <3>2. (t = 8 /\ d = 4) \/ (t = 9 /\ d = 8)
        BY <2>3, <3>1
      <3> QED
        BY <2>2, <3>1, <3>2
    <2> QED
      BY <2>1, <2>4, <2>5, <2>6, <2>7
  <1> QED
    BY <1>1, <1>2

\* What a stored project says of itself.
LEMMA PgMadeIs ==
  ASSUME NEW p, NEW stack, NEW room, NEW whole
  PROVE  LET e == PgMade(p, stack, room, whole) IN
         /\ e.project = p /\ e.stack = stack /\ e.room = room
         /\ e.status = IF whole THEN "completed" ELSE "failed"
         /\ e.files = IF whole THEN PgAll(PgFiles(stack)) ELSE {}
         /\ e # PgNothing
  <1>1. "stack" \in DOMAIN PgMade(p, stack, room, whole) /\ "stack" \notin DOMAIN PgNothing
    BY DEF PgMade, PgNothing
  <1> QED
    BY <1>1 DEF PgMade

\* What the run checks follows.
LEMMA PgIsSound == PgInv => PgTypeOK /\ PgSound
  <1> SUFFICES ASSUME PgInv PROVE PgTypeOK /\ PgSound
    OBVIOUS
  <1>1. ASSUME NEW g \in PgStored
        PROVE  /\ pgStore[g].project \in PgProject /\ pgStore[g].status \in {"completed", "failed"}
               /\ pgStore[g].status = "completed" =>
                    /\ PgDockerReads(pgStore[g].stack.language) \subseteq pgStore[g].files
                    /\ PgWorkflowReads(pgStore[g].stack.language) \subseteq pgStore[g].files
                    /\ PgTests \in pgStore[g].files => PgServes(pgStore[g].stack.language)
               /\ pgStore[g].status = "failed" => ~pgStore[g].room \/ pgStore[g].stack.language = "javascript"
               /\ pgStore[g].status = "completed" /\ pgStore[g].stack.language = "javascript" =>
                    <<pgStore[g].project, "src">> \in pgDirs
    <2>1. PICK p \in PgProject, stack \in PgStacks, room \in BOOLEAN, whole \in BOOLEAN :
            /\ pgStore[g] = PgMade(p, stack, room, whole)
            /\ ~whole => ~room \/ stack.language = "javascript"
            /\ whole /\ stack.language = "javascript" => <<p, "src">> \in pgDirs
      BY DEF PgInv, PgEntry
    <2> DEFINE e == pgStore[g]
    <2>2. /\ e.project = p /\ e.stack = stack /\ e.room = room
          /\ e.status = IF whole THEN "completed" ELSE "failed"
          /\ e.files = IF whole THEN PgAll(PgFiles(stack)) ELSE {}
      BY <2>1, PgMadeIs
    <2> HIDE DEF e
    <2>3. /\ PgDockerReads(stack.language) \subseteq PgAll(PgFiles(stack))
          /\ PgWorkflowReads(stack.language) \subseteq PgAll(PgFiles(stack))
          /\ PgTests \in PgAll(PgFiles(stack)) => PgServes(stack.language)
      BY PgFilesAreWhole
    <2>4. CASE whole
      BY <2>1, <2>2, <2>3, <2>4 DEF e
    <2>5. CASE ~whole
      BY <2>1, <2>2, <2>5 DEF e
    <2> QED
      BY <2>4, <2>5
  <1>2. PgTypeOK
    BY <1>1 DEF PgInv, PgTypeOK
  <1>3. PgWhole
    BY <1>1 DEF PgWhole
  <1>4. PgFailures
    BY <1>1 DEF PgFailures
  <1>5. PgPlanSound
    BY PgPlans DEF PgPlanSound
  <1> QED
    BY <1>2, <1>3, <1>4, <1>5 DEF PgInv, PgSound

\* At the start no project is listed.
LEMMA PgBegins == PgInit => PgInv
  BY DEF PgInit, PgInv, PgListedThere, PgStored

\* What is written: all of it, if the disk takes it and every directory is there.
LEMMA PgWrites ==
  ASSUME NEW p, NEW stack, NEW room \in Nat
  PROVE  /\ PgWritten(p, stack, room) \subseteq DOMAIN PgFiles(stack)
         /\ PgWritten(p, stack, room) # DOMAIN PgFiles(stack) => room # Len(PgFiles(stack)) \/ stack.language = "javascript"
         /\ PgWritten(p, stack, room) = DOMAIN PgFiles(stack) /\ stack.language = "javascript" => <<p, "src">> \in pgDirs
  <1> DEFINE files == PgFiles(stack)
             stops == {i \in DOMAIN files : i > room \/ ~PgFits(p, stack, files[i])}
             n == Len(files)
  <1>0. files \in Seq(PgMayHave(stack))
    BY PgFilesAre
  <1>1. n \in Nat /\ DOMAIN files = 1..n
    BY <1>0
  <1>2. PgWritten(p, stack, room) = {i \in DOMAIN files : \A j \in stops : i < j}
    BY DEF PgWritten
  <1>3. ASSUME room = n, stack.language # "javascript"
        PROVE  PgWritten(p, stack, room) = DOMAIN files
    <2>1. \A i \in DOMAIN files : PgFits(p, stack, files[i])
      <3> SUFFICES ASSUME NEW i \in DOMAIN files PROVE PgFits(p, stack, files[i])
        OBVIOUS
      <3>1. files[i] \in PgAll(files)
        BY DEF PgAll
      <3>2. files[i][1] \in PgDirectories(stack.language) \cup {".", ".github"}
        BY <1>3, <3>1, PgDirectoriesFit
      <3> QED
        BY <3>2 DEF PgFits
    <2>2. \A i \in DOMAIN files : ~(i > room)
      BY <1>1, <1>3
    <2>3. stops = {}
      BY <2>1, <2>2
    <2> QED
      BY <1>2, <2>3
  <1>4. ASSUME PgWritten(p, stack, room) = DOMAIN files, stack.language = "javascript"
        PROVE  <<p, "src">> \in pgDirs
    <2>1. stops = {}
      <3> SUFFICES ASSUME NEW j \in stops PROVE FALSE
        OBVIOUS
      <3>1. j \in DOMAIN files /\ j \in Nat
        BY <1>1
      <3>2. j < j
        BY <1>2, <1>4, <3>1
      <3> QED
        BY <3>1, <3>2
    <2>2. PICK i \in DOMAIN files : files[i] = PgMain("javascript")
      <3>1. PgMain("javascript") \in PgAll(files)
        BY <1>4, PgFilesAre
      <3> QED
        BY <3>1 DEF PgAll
    <2>3. PgFits(p, stack, files[i])
      BY <2>1
    <2>4. files[i][1] = "src"
      BY <2>2 DEF PgMain
    <2>5. PgDirectories("javascript") = {}
      BY DEF PgDirectories
    <2> QED
      BY <1>4, <2>3, <2>4, <2>5 DEF PgFits
  <1> QED
    BY <1>2, <1>3, <1>4

\* More directories and more files take nothing from what is stored.
LEMMA PgGrows ==
  ASSUME PgInv, NEW p, NEW stack, NEW room, PgGenerateCode(p, stack, room)
  PROVE  /\ pgDirs \subseteq pgDirs' /\ pgDisk \subseteq pgDisk'
         /\ \A g \in PgStored : PgEntry(pgStore[g], pgDirs')
  <1>1. pgDirs \subseteq pgDirs' /\ pgDisk \subseteq pgDisk'
    BY DEF PgGenerateCode
  <1>2. ASSUME NEW g \in PgStored PROVE PgEntry(pgStore[g], pgDirs')
    <2>1. PgEntry(pgStore[g], pgDirs)
      BY DEF PgInv
    <2> QED
      BY <1>1, <2>1 DEF PgEntry
  <1> QED
    BY <1>1, <1>2

\* A stream shows files and stores none.
LEMMA PgStreamHolds ==
  ASSUME PgInv, NEW p, NEW stack, NEW room, PgStream(p, stack, room)
  PROVE  PgInv'
  <1>1. PgGenerateCode(p, stack, room) /\ pgStore' = pgStore /\ pgTaken' = pgTaken
    BY DEF PgStream
  <1>2. pgDirs \subseteq pgDirs' /\ pgDisk \subseteq pgDisk' /\ \A g \in PgStored : PgEntry(pgStore[g], pgDirs')
    BY <1>1, PgGrows
  <1>3. PgStored' = PgStored
    BY <1>1 DEF PgStored
  <1>4. PgListedThere'
    BY <1>1, <1>2, <1>3 DEF PgInv, PgListedThere
  <1> QED
    BY <1>1, <1>2, <1>3, <1>4 DEF PgInv

\* A generation writes its directories and files, and is listed whatever became of them.
LEMMA PgGenerateHolds ==
  ASSUME PgInv, NEW g \in PgGeneration, NEW p \in PgProject, NEW stack \in PgStacks, NEW room \in Nat,
         PgGenerate(g, p, stack, room)
  PROVE  PgInv'
  <1> DEFINE whole == PgWritten(p, stack, room) = DOMAIN PgFiles(stack)
             roomy == room = Len(PgFiles(stack))
             e == PgMade(p, stack, roomy, whole)
  <1>1. /\ g \notin PgStored /\ PgGenerateCode(p, stack, room) /\ pgTaken' = pgTaken
        /\ pgStore' = [pgStore EXCEPT ![g] = e]
    BY DEF PgGenerate, PgMade
  <1>2. pgDirs \subseteq pgDirs' /\ pgDisk \subseteq pgDisk' /\ \A h \in PgStored : PgEntry(pgStore[h], pgDirs')
    BY <1>1, PgGrows
  <1>3. e # PgNothing /\ e.project = p /\ e.files = IF whole THEN PgAll(PgFiles(stack)) ELSE {}
    <2>1. "stack" \in DOMAIN e /\ "stack" \notin DOMAIN PgNothing
      BY DEF PgMade, PgNothing
    <2>2. e.project = p /\ e.files = IF whole THEN PgAll(PgFiles(stack)) ELSE {}
      BY DEF PgMade
    <2> HIDE DEF e
    <2> QED
      BY <2>1, <2>2
  <1>4. PgEntry(e, pgDirs')
    <2>1. ~whole => ~roomy \/ stack.language = "javascript"
      BY PgWrites
    <2>2. whole /\ stack.language = "javascript" => <<p, "src">> \in pgDirs'
      BY <1>2, PgWrites
    <2>3. whole \in BOOLEAN /\ roomy \in BOOLEAN
      OBVIOUS
    <2> HIDE DEF whole, roomy
    <2> QED
      BY <2>1, <2>2, <2>3 DEF PgEntry
  <1>5. {p} \X e.files \subseteq pgDisk'
    <2> SUFFICES ASSUME NEW f \in e.files PROVE <<p, f>> \in pgDisk'
      OBVIOUS
    <2>1. whole /\ f \in PgAll(PgFiles(stack))
      BY <1>3
    <2>2. PICK i \in DOMAIN PgFiles(stack) : f = PgFiles(stack)[i]
      BY <2>1 DEF PgAll
    <2>3. i \in PgWritten(p, stack, room)
      BY <2>1, <2>2
    <2> QED
      BY <1>1, <2>2, <2>3 DEF PgGenerateCode
  <1> HIDE DEF e
  <1>6. DOMAIN pgStore' = PgGeneration /\ pgStore' = [h \in PgGeneration |-> pgStore'[h]]
    BY <1>1 DEF PgInv
  <1>7. pgStore'[g] = e /\ \A h \in PgGeneration \ {g} : pgStore'[h] = pgStore[h]
    BY <1>1 DEF PgInv
  <1>8. PgStored' = PgStored \cup {g}
    BY <1>3, <1>7 DEF PgStored
  <1>9. \A h \in PgStored' : PgEntry(pgStore'[h], pgDirs')
    <2> SUFFICES ASSUME NEW h \in PgStored' PROVE PgEntry(pgStore'[h], pgDirs')
      OBVIOUS
    <2>1. CASE h = g
      BY <1>4, <1>7, <2>1
    <2>2. CASE h # g
      <3>1. h \in PgStored /\ h \in PgGeneration
        BY <1>8, <2>2 DEF PgStored
      <3>2. pgStore'[h] = pgStore[h]
        BY <1>7, <2>2, <3>1
      <3> QED
        BY <1>2, <3>1, <3>2
    <2> QED
      BY <2>1, <2>2
  <1>10. pgTaken' \subseteq PgStored'
    BY <1>1, <1>8 DEF PgInv
  <1>11. PgListedThere'
    <2> SUFFICES ASSUME NEW h \in PgStored' \ pgTaken' PROVE {pgStore'[h].project} \X pgStore'[h].files \subseteq pgDisk'
      BY DEF PgListedThere
    <2>1. CASE h = g
      BY <1>3, <1>5, <1>7, <2>1
    <2>2. CASE h # g
      <3>1. h \in PgStored /\ h \in PgGeneration /\ h \notin pgTaken
        BY <1>1, <1>8, <2>2 DEF PgStored
      <3>2. pgStore'[h] = pgStore[h]
        BY <1>7, <2>2, <3>1
      <3>3. {pgStore[h].project} \X pgStore[h].files \subseteq pgDisk
        BY <3>1 DEF PgInv, PgListedThere
      <3> QED
        BY <1>2, <3>2, <3>3
    <2> QED
      BY <2>1, <2>2
  <1> QED
    BY <1>6, <1>9, <1>10, <1>11 DEF PgInv

\* What is deleted is not listed any more.
LEMMA PgDeleteHolds ==
  ASSUME PgInv, NEW g \in PgGeneration, PgDelete(g)
  PROVE  PgInv'
  <1> DEFINE mine == {pgStore[g].project} \X pgStore[g].files
  <1>1. /\ g \in PgStored /\ pgDisk' = pgDisk \ mine /\ pgStore' = [pgStore EXCEPT ![g] = PgNothing]
        /\ pgTaken' = {h \in PgStored \ {g} : h \in pgTaken \/ ({pgStore[h].project} \X pgStore[h].files) \cap mine # {}}
        /\ pgDirs' = pgDirs
    BY DEF PgDelete
  <1> HIDE DEF mine
  <1>2. DOMAIN pgStore' = PgGeneration /\ pgStore' = [h \in PgGeneration |-> pgStore'[h]]
    BY <1>1 DEF PgInv
  <1>3. pgStore'[g] = PgNothing /\ \A h \in PgGeneration \ {g} : pgStore'[h] = pgStore[h]
    BY <1>1 DEF PgInv
  <1>4. PgStored' = PgStored \ {g} /\ PgStored \subseteq PgGeneration
    BY <1>3 DEF PgStored
  <1>5. \A h \in PgStored' : PgEntry(pgStore'[h], pgDirs')
    <2> SUFFICES ASSUME NEW h \in PgStored' PROVE PgEntry(pgStore'[h], pgDirs')
      OBVIOUS
    <2>1. h \in PgStored /\ pgStore'[h] = pgStore[h]
      BY <1>3, <1>4
    <2> QED
      BY <1>1, <2>1 DEF PgInv
  <1>6. pgTaken' \subseteq PgStored'
    BY <1>1, <1>4
  <1>7. PgListedThere'
    <2> SUFFICES ASSUME NEW h \in PgStored' \ pgTaken' PROVE {pgStore'[h].project} \X pgStore'[h].files \subseteq pgDisk'
      BY DEF PgListedThere
    <2>1. h \in PgStored \ {g} /\ pgStore'[h] = pgStore[h]
      BY <1>3, <1>4
    <2>2. h \notin pgTaken /\ ({pgStore[h].project} \X pgStore[h].files) \cap mine = {}
      BY <1>1, <2>1
    <2>3. {pgStore[h].project} \X pgStore[h].files \subseteq pgDisk
      BY <2>1, <2>2 DEF PgInv, PgListedThere
    <2> DEFINE its == {pgStore[h].project} \X pgStore[h].files
    <2>4. its \cap mine = {} /\ its \subseteq pgDisk
      BY <2>2, <2>3
    <2> HIDE DEF its
    <2>5. its \subseteq pgDisk'
      BY <1>1, <2>4
    <2> QED
      BY <2>1, <2>5 DEF its
  <1> QED
    BY <1>2, <1>5, <1>6, <1>7 DEF PgInv

\* Every step keeps it.
LEMMA PgHolds == PgInv /\ [PgNext]_pgVars => PgInv'
  <1> SUFFICES ASSUME PgInv, [PgNext]_pgVars PROVE PgInv'
    OBVIOUS
  <1>1. CASE UNCHANGED pgVars
    BY <1>1 DEF pgVars, PgInv, PgListedThere, PgStored
  <1>2. ASSUME NEW p \in PgProject, NEW stack \in PgStacks, NEW room \in {1, Len(PgFiles(stack))},
               PgStream(p, stack, room) \/ \E g \in PgGeneration : PgGenerate(g, p, stack, room)
        PROVE  PgInv'
    <2>1. PgFiles(stack) \in Seq(PgMayHave(stack))
      BY PgFilesAre
    <2>2. room \in Nat
      BY <2>1
    <2> QED
      BY <1>2, <2>2, PgStreamHolds, PgGenerateHolds
  <1> QED
    BY <1>1, <1>2, PgDeleteHolds DEF PgNext

\* A project that is listed is there, with all that its own files name.
THEOREM ProjectsAreSound ==
  PgInit /\ [][PgNext]_pgVars => [](PgTypeOK /\ PgSound)
  BY PgBegins, PgHolds, PgIsSound, PTL

-----------------------------------------------------------------------------
\* Graphs of agents.

\* The trace of one agent.
AgTrace == [agent : AgTypes, error : BOOLEAN]

\* What is handed from node to node.
AgContexts ==
  [given : BOOLEAN, planned : BOOLEAN, plan : SUBSET AgTypes, searched : BOOLEAN, findings : Nat,
   step : AgTypes \cup {"nobody"}, last : AgTypes \cup {"nobody"}]

\* What the graphs are made of.  No plan has a step for anyone, so that nobody is given
\* one; before the first node there is nothing in the context but what was given.
AgInv ==
  /\ agNodes \in Seq(AgTypes) /\ agTraces \in Seq(AgTrace) /\ agContext \in AgContexts
  /\ agAt \in 0..(Len(AgFull) + 1) /\ Len(agNodes) <= Len(AgFull)
  /\ agAt # 0 => agNodes \in {AgPipeline, AgFull} /\ agAt <= Len(agNodes) + 1
  /\ Len(agTraces) <= Len(agNodes)
  /\ agContext.plan = {} /\ agContext.step = "nobody"
  /\ agAt = 1 => agContext = [AgEmpty EXCEPT !.given = agContext.given]
  /\ AgEveryNodeTraced
  /\ agContext.last # "nobody" => \E i \in DOMAIN agTraces : agTraces[i].agent = agContext.last
  /\ agContext.last = "planner" => agContext.given
  /\ agAt = 0 /\ agTraces = << >> => agContext.last = "nobody"

\* The graphs are sequences of agents.
LEMMA AgGraphs ==
  /\ AgPipeline \in Seq(AgTypes) /\ AgFull \in Seq(AgTypes) /\ Len(AgPipeline) = 3 /\ Len(AgFull) = 4
  /\ AgPipeline[1] = "planner" /\ AgFull[1] = "planner"
  /\ \A g \in {AgPipeline, AgFull} : \A i \in 2..Len(g) : g[i] \in AgTypes \ {"planner"}
  BY DEF AgPipeline, AgFull, AgTypes

\* What the run checks follows.
LEMMA AgIsSound == AgInv => AgTypeOK /\ AgSound
  BY DEF AgInv, AgTypeOK, AgSound, AgNothingStale, AgContexts

\* A graph starts at its first node, with nothing in the context but what is given.
LEMMA AgFresh ==
  ASSUME agNodes' \in {AgPipeline, AgFull}, NEW given \in BOOLEAN, agContext' = [AgEmpty EXCEPT !.given = given],
         agAt' = 1, agTraces' = << >>
  PROVE  AgInv'
  <1>1. agContext' \in AgContexts /\ agContext'.given = given /\ agContext'.plan = {} /\ agContext'.step = "nobody"
        /\ agContext'.last = "nobody"
    BY DEF AgEmpty, AgContexts
  <1>2. AgEveryNodeTraced'
    BY DEF AgEveryNodeTraced
  <1>3. agTraces' \in Seq(AgTrace) /\ Len(agTraces') = 0
    OBVIOUS
  <1>4. agNodes' \in Seq(AgTypes) /\ Len(agNodes') \in Nat /\ Len(agNodes') >= 3 /\ Len(agNodes') <= 4 /\ Len(AgFull) = 4
    <2>1. CASE agNodes' = AgPipeline
      BY <2>1, AgGraphs
    <2>2. CASE agNodes' = AgFull
      BY <2>2, AgGraphs
    <2> QED
      BY <2>1, <2>2
  <1>5. agContext' = [AgEmpty EXCEPT !.given = agContext'.given]
    BY <1>1
  <1>6. (agContext'.last = "planner" => agContext'.given) /\ agContext'.last = "nobody"
    BY <1>1
  <1>7. agAt' \in 0..(Len(AgFull) + 1) /\ Len(agNodes') <= Len(AgFull) /\ agAt' <= Len(agNodes') + 1 /\ Len(agTraces') <= Len(agNodes')
    BY <1>3, <1>4
  <1> QED
    BY <1>1, <1>2, <1>3, <1>4, <1>5, <1>6, <1>7 DEF AgInv

\* Before the first node nothing is traced.
LEMMA AgBegins == AgInit => AgInv
  <1> SUFFICES ASSUME AgInit PROVE AgInv
    OBVIOUS
  <1>0. PICK given \in BOOLEAN : agContext = [AgEmpty EXCEPT !.given = given]
    BY DEF AgInit
  <1>1. agContext \in AgContexts /\ agContext.given = given /\ agContext.plan = {} /\ agContext.step = "nobody"
        /\ agContext.last = "nobody"
    BY <1>0 DEF AgEmpty, AgContexts
  <1>2. AgEveryNodeTraced
    BY DEF AgInit, AgEveryNodeTraced
  <1>3. agTraces \in Seq(AgTrace) /\ Len(agTraces) = 0 /\ agAt = 1 /\ agNodes \in {AgPipeline, AgFull}
    BY DEF AgInit
  <1>4. agNodes \in Seq(AgTypes) /\ Len(agNodes) \in Nat /\ Len(agNodes) >= 3 /\ Len(agNodes) <= 4 /\ Len(AgFull) = 4
    <2>1. CASE agNodes = AgPipeline
      BY <2>1, AgGraphs
    <2>2. CASE agNodes = AgFull
      BY <2>2, AgGraphs
    <2> QED
      BY <1>3, <2>1, <2>2
  <1>5. agContext = [AgEmpty EXCEPT !.given = agContext.given]
    BY <1>0, <1>1
  <1>6. (agContext.last = "planner" => agContext.given) /\ agContext.last = "nobody"
    BY <1>1
  <1>7. agAt \in 0..(Len(AgFull) + 1) /\ Len(agNodes) <= Len(AgFull) /\ agAt <= Len(agNodes) + 1 /\ Len(agTraces) <= Len(agNodes)
    BY <1>3, <1>4
  <1> QED
    BY <1>1, <1>2, <1>3, <1>4, <1>5, <1>6, <1>7 DEF AgInv

\* What a node leaves of the context it is given.
LEMMA AgLeaves ==
  ASSUME NEW node \in AgTypes, NEW c \in AgContexts, NEW goesOn \in BOOLEAN, NEW error \in BOOLEAN,
         NEW d, d = AgAfter(node, AgLoopLeaves(node, AgBefore(node, c), goesOn), error),
         c.plan = {}, c.step = "nobody"
  PROVE  /\ d \in AgContexts /\ d.plan = {} /\ d.step = "nobody" /\ d.given = c.given
         /\ d.last \in {c.last, node} /\ (c = AgEmpty => d.last = "nobody")
  <1>1. AgBefore(node, c) = c
    BY DEF AgBefore
  <1> DEFINE e == AgLoopLeaves(node, c, goesOn)
  <1>2. /\ e \in AgContexts /\ e.plan = {} /\ e.step = "nobody" /\ e.given = c.given
        /\ e.last \in {c.last, node} /\ (c = AgEmpty => e.last = "nobody")
    BY DEF AgLoopLeaves, AgContexts, AgEmpty
  <1>3. d = AgAfter(node, e, error)
    BY <1>1
  <1> HIDE DEF e
  <1>4. CASE node = "planner"
    <2>1. d = [e EXCEPT !.planned = TRUE, !.plan = {}]
      BY <1>3, <1>4 DEF AgAfter, AgPlanner, AgPlanOf
    <2> QED
      BY <1>2, <2>1 DEF AgContexts
  <1>5. CASE node = "researcher"
    <2>1. d = [e EXCEPT !.searched = TRUE, !.findings = 0]
      BY <1>3, <1>5 DEF AgAfter, AgResearcher, AgFindingsOf
    <2>4. /\ e.given \in BOOLEAN /\ e.planned \in BOOLEAN /\ e.plan \in SUBSET AgTypes
          /\ e.step \in AgTypes \cup {"nobody"} /\ e.last \in AgTypes \cup {"nobody"}
      BY <1>2 DEF AgContexts
    <2>5. d = [given |-> e.given, planned |-> e.planned, plan |-> e.plan, searched |-> TRUE, findings |-> 0,
               step |-> e.step, last |-> e.last]
      BY <1>2, <2>1 DEF AgContexts
    <2>2. d \in AgContexts
      BY <2>4, <2>5 DEF AgContexts
    <2>3. d.plan = e.plan /\ d.step = e.step /\ d.given = e.given /\ d.last = e.last
      BY <1>2, <2>1 DEF AgContexts
    <2> QED
      BY <1>2, <2>2, <2>3
  <1>6. CASE node \notin {"planner", "researcher"}
    BY <1>2, <1>3, <1>6 DEF AgAfter
  <1> QED
    BY <1>4, <1>5, <1>6

\* A node runs, or raises.
LEMMA AgRunsHolds ==
  ASSUME AgInv, NEW goesOn \in BOOLEAN, NEW error \in BOOLEAN, AgRuns(goesOn, error)
  PROVE  AgInv'
  <1> DEFINE node == agNodes[agAt]
             entry == [agent |-> node, error |-> error]
  <1>1. /\ agAt \in 1..Len(agNodes) /\ agAt' = agAt + 1 /\ agNodes' = agNodes /\ agTraces' = Append(agTraces, entry)
        /\ agContext' = AgAfter(node, AgLoopLeaves(node, AgBefore(node, agContext), goesOn), error)
    BY DEF AgRuns, AgInv
  <1>2. agNodes \in {AgPipeline, AgFull} /\ Len(agTraces) = agAt - 1 /\ node \in AgTypes /\ entry \in AgTrace
    BY <1>1 DEF AgInv, AgEveryNodeTraced, AgTrace
  <1>3. /\ agContext' \in AgContexts /\ agContext'.plan = {} /\ agContext'.step = "nobody"
        /\ agContext'.given = agContext.given
        /\ agContext'.last \in {agContext.last, node} /\ (agContext = AgEmpty => agContext'.last = "nobody")
    BY <1>1, <1>2, AgLeaves DEF AgInv
  <1>4. /\ agTraces' \in Seq(AgTrace) /\ Len(agTraces') = agAt /\ agTraces'[agAt] = entry /\ agTraces' # << >>
        /\ \A i \in 1..agAt - 1 : agTraces'[i] = agTraces[i]
        /\ DOMAIN agTraces' = 1..agAt /\ DOMAIN agTraces = 1..agAt - 1
    BY <1>1, <1>2 DEF AgInv
  <1> HIDE DEF node, entry
  <1>5. entry.agent = node /\ node = agNodes[agAt]
    BY DEF entry, node
  <1>6. AgEveryNodeTraced'
    BY <1>1, <1>2, <1>4, <1>5 DEF AgInv, AgEveryNodeTraced
  <1>7. agContext'.last # "nobody" => \E i \in DOMAIN agTraces' : agTraces'[i].agent = agContext'.last
    <2>1. CASE agContext'.last = node
      BY <1>1, <1>4, <1>5, <2>1
    <2>2. CASE agContext'.last = agContext.last
      BY <1>1, <1>4, <2>2 DEF AgInv
    <2> QED
      BY <1>3, <2>1, <2>2
  <1>8. agContext'.last = "planner" => agContext'.given
    <2>1. CASE node = "planner"
      <3>0. Len(agNodes) \in Nat /\ (agAt # 1 => agAt \in 2..Len(agNodes))
        BY <1>1 DEF AgInv
      <3>1. agAt = 1
        BY <1>2, <1>5, <2>1, <3>0, AgGraphs
      <3>2. agContext = [AgEmpty EXCEPT !.given = agContext.given] /\ agContext.given \in BOOLEAN
        BY <3>1 DEF AgInv, AgContexts
      <3>3. agContext.given \/ agContext = AgEmpty
        BY <3>2 DEF AgEmpty
      <3> QED
        BY <1>3, <3>3
    <2>2. CASE node # "planner"
      BY <1>3, <2>2 DEF AgInv
    <2> QED
      BY <2>1, <2>2
  <1>9. agAt' # 1 /\ agAt' # 0 /\ agAt' <= Len(agNodes) + 1 /\ Len(agNodes) \in Nat /\ Len(agNodes) <= Len(AgFull) /\ Len(AgFull) = 4
        /\ agNodes \in Seq(AgTypes)
    BY <1>1, AgGraphs DEF AgInv
  <1>10. agAt' \in 0..(Len(AgFull) + 1) /\ Len(agTraces') <= Len(agNodes')
    BY <1>1, <1>4, <1>9
  <1> QED
    BY <1>1, <1>2, <1>3, <1>4, <1>6, <1>7, <1>8, <1>9, <1>10 DEF AgInv

\* A run in parallel leaves its own traces.
LEMMA AgParallelHolds ==
  ASSUME AgInv, NEW types \in {<< >>} \cup {<<a, b>> : a, b \in AgTypes}, AgRunParallel(types)
  PROVE  AgInv'
  <1>1. /\ agTraces' = << >> /\ agNodes' = types /\ agAt' = 0 /\ agContext' = AgEmpty
    BY DEF AgRunParallel
  <1>2. types \in Seq(AgTypes) /\ Len(types) \in Nat /\ Len(types) <= 2
    <2>1. CASE types = << >>
      BY <2>1
    <2>2. ASSUME NEW a \in AgTypes, NEW b \in AgTypes, types = <<a, b>> PROVE types \in Seq(AgTypes) /\ Len(types) = 2
      BY <2>2
    <2> QED
      BY <2>1, <2>2
  <1>3. AgEmpty \in AgContexts /\ AgEmpty.plan = {} /\ AgEmpty.step = "nobody" /\ AgEmpty.last = "nobody"
    BY DEF AgEmpty, AgContexts
  <1>4. AgEveryNodeTraced'
    BY <1>1 DEF AgEveryNodeTraced
  <1> QED
    BY <1>1, <1>2, <1>3, <1>4, AgGraphs DEF AgInv

\* Every node keeps it.
LEMMA AgHolds == AgInv /\ [AgNext]_agVars => AgInv'
  <1> SUFFICES ASSUME AgInv, [AgNext]_agVars PROVE AgInv'
    OBVIOUS
  <1>1. ASSUME NEW goesOn \in BOOLEAN, NEW error \in BOOLEAN, AgRuns(goesOn, error) PROVE AgInv'
    BY <1>1, AgRunsHolds
  <1>2. CASE AgRaises
    <2>1. agAt' = 0 /\ agNodes' = agNodes /\ agContext' = agContext /\ agTraces' = agTraces
      BY <1>2 DEF AgRaises
    <2>2. AgEveryNodeTraced'
      BY <2>1 DEF AgInv, AgEveryNodeTraced
    <2>3. agContext.last # "nobody" => agTraces # << >>
      BY DEF AgInv
    <2> QED
      BY <2>1, <2>2, <2>3 DEF AgInv
  <1>3. CASE AgRun
    BY <1>3, AgFresh DEF AgRun
  <1>4. ASSUME NEW types \in {<< >>} \cup {<<a, b>> : a, b \in AgTypes}, AgRunParallel(types) PROVE AgInv'
    BY <1>4, AgParallelHolds
  <1>5. CASE UNCHANGED agVars
    BY <1>5 DEF AgInv, AgEveryNodeTraced, agVars
  <1> QED
    BY <1>1, <1>2, <1>3, <1>4, <1>5 DEF AgNext

\* A graph leaves the trace of each node in its order, and no agent finds what is not its.
THEOREM GraphsAreTraced == AgInit /\ [][AgNext]_agVars => [](AgTypeOK /\ AgSound)
  <1>1. AgInit => AgInv
    BY AgBegins
  <1>2. AgInv /\ [AgNext]_agVars => AgInv'
    BY AgHolds
  <1>3. AgInv => AgTypeOK /\ AgSound
    BY AgIsSound
  <1> QED
    BY <1>1, <1>2, <1>3, PTL

-----------------------------------------------------------------------------
\* Browsers.

\* Where a request waits.
BrAts == {"idle", "starting", "launching", "context", "open_close", "open_new", "open_goto", "close_lock", "close_page",
          "close_context", "close_browser", "stop_lock", "stop_driver", "stuck"}

\* A request.
BrRequest == [at : BrAts, s : BrSession \cup {BrNobody}, page : 0..BrPages, driver : 0..BrDrivers]

\* The requests, and the pages in the table.
BrTyped == brReq \in [BrUser -> BrRequest] /\ \A s \in DOMAIN brTable : brTable[s] \in 0..BrPages

\* Where a request is says whether it has a session, whether it has the lock, and
\* whether its session is listed.  A session is launched by one request.
BrPlaced ==
  /\ \A a \in BrUser :
       /\ brReq[a].at \in {"idle", "starting", "stop_lock", "stop_driver", "stuck"} <=> brReq[a].s = BrNobody
       /\ brReq[a].at \in {"close_page", "close_context", "close_browser"} => brReq[a].s \in DOMAIN brTable
       /\ brReq[a].at = "close_browser" => brReq[a].s \notin brContext
       /\ brReq[a].at \in {"close_page", "close_context", "close_browser", "stop_driver", "stuck"} => brLock = a
       /\ brReq[a].at \in {"launching", "context"} => brReq[a].s \notin DOMAIN brTable
  /\ \A a, b \in BrUser :
       a # b /\ brReq[a].at \in {"launching", "context"} /\ brReq[b].at \in {"launching", "context"} => brReq[a].s # brReq[b].s

\* Whoever refers to a page refers to it for the same session.
BrRefers(p, s) ==
  \/ s \in DOMAIN brTable /\ brTable[s] = p
  \/ p \in DOMAIN brOpen /\ brOpen[p] = s
  \/ \E a \in BrUser : brReq[a].page = p /\ brReq[a].s = s

\* So each page is of one session.
BrOwned == \A p, s, t : p # 0 /\ BrRefers(p, s) /\ BrRefers(p, t) => s = t

\* The types, where requests wait, whose pages are, and what the run checks.
BrInv == BrTyped /\ BrTypeOK /\ BrPlaced /\ BrOwned /\ BrClosedIsClosed /\ BrListedRuns /\ BrDriverRuns

\* At the start nothing runs and nobody waits.
LEMMA BrBegins == BrInit => BrInv
  <1> SUFFICES ASSUME BrInit PROVE BrInv
    OBVIOUS
  <1> USE BrAssumption DEF BrInit, BrIdle
  <1>1. BrTyped
    BY DEF BrTyped, BrRequest, BrAts
  <1>2. BrTypeOK
    BY DEF BrTypeOK
  <1>3. BrPlaced
    BY DEF BrPlaced
  <1>4. BrOwned
    BY DEF BrOwned, BrRefers
  <1>5. BrClosedIsClosed /\ BrListedRuns /\ BrDriverRuns
    BY DEF BrClosedIsClosed, BrListedRuns, BrDriverRuns
  <1> QED
    BY <1>1, <1>2, <1>3, <1>4, <1>5 DEF BrInv

\* A request that becomes another one leaves the others as they are.
LEMMA BrReqIs ==
  ASSUME BrTyped, NEW a \in BrUser, NEW w \in BrRequest, brReq' = [brReq EXCEPT ![a] = w]
  PROVE  brReq' \in [BrUser -> BrRequest] /\ brReq'[a] = w /\ \A b \in BrUser \ {a} : brReq'[b] = brReq[b]
  BY DEF BrTyped

\* A request that waits elsewhere.
LEMMA BrToIs ==
  ASSUME BrTyped, NEW a \in BrUser, NEW at \in BrAts, BrTo(a, at)
  PROVE  /\ brReq' \in [BrUser -> BrRequest] /\ brReq'[a].at = at /\ brReq'[a].s = brReq[a].s
         /\ brReq'[a].page = brReq[a].page /\ brReq'[a].driver = brReq[a].driver
         /\ \A b \in BrUser \ {a} : brReq'[b] = brReq[b]
  BY DEF BrTyped, BrTo, BrRequest

\* A request that returns.
LEMMA BrReturnIs ==
  ASSUME BrTyped, NEW a \in BrUser, BrReturn(a)
  PROVE  /\ brReq' \in [BrUser -> BrRequest] /\ brReq'[a].at = "idle" /\ brReq'[a].s = BrNobody
         /\ brReq'[a].page = 0 /\ brReq'[a].driver = 0
         /\ \A b \in BrUser \ {a} : brReq'[b] = brReq[b]
  <1>1. BrIdle \in BrRequest
    BY BrAssumption DEF BrIdle, BrRequest, BrAts
  <1> QED
    BY <1>1, BrReqIs DEF BrReturn, BrIdle

\* References that are kept, and no new ones.
LEMMA BrOwnedKept ==
  ASSUME BrOwned, \A s \in DOMAIN brTable' : brTable'[s] = 0 \/ BrRefers(brTable'[s], s),
         \A p \in DOMAIN brOpen' : BrRefers(p, brOpen'[p]),
         \A a \in BrUser : brReq'[a].page = 0 \/ BrRefers(brReq'[a].page, brReq'[a].s)
  PROVE  BrOwned'
  <1>1. ASSUME NEW p, NEW s, p # 0, BrRefers(p, s)' PROVE BrRefers(p, s)
    <2>1. CASE s \in DOMAIN brTable' /\ brTable'[s] = p
      BY <1>1, <2>1
    <2>2. CASE p \in DOMAIN brOpen' /\ brOpen'[p] = s
      BY <2>2
    <2>3. CASE \E a \in BrUser : brReq'[a].page = p /\ brReq'[a].s = s
      BY <1>1, <2>3
    <2> QED
      BY <1>1, <2>1, <2>2, <2>3 DEF BrRefers
  <1>2. \A p, s, t : p # 0 /\ BrRefers(p, s)' /\ BrRefers(p, t)' => s = t
    BY <1>1 DEF BrOwned
  <1> QED
    BY <1>2 DEF BrOwned


\* A request that waits elsewhere with another page.
LEMMA BrToPageIs ==
  ASSUME BrTyped, NEW a \in BrUser, NEW at \in BrAts, NEW page \in 0..BrPages,
         brReq' = [brReq EXCEPT ![a].at = at, ![a].page = page]
  PROVE  /\ brReq' \in [BrUser -> BrRequest] /\ brReq'[a].at = at /\ brReq'[a].s = brReq[a].s /\ brReq'[a].page = page
         /\ \A b \in BrUser \ {a} : brReq'[b] = brReq[b]
  <1> DEFINE w == [brReq[a] EXCEPT !.at = at, !.page = page]
  <1>1. brReq' = [brReq EXCEPT ![a] = w]
    BY DEF BrTyped
  <1>2. w \in BrRequest /\ w.at = at /\ w.s = brReq[a].s /\ w.page = page
    BY DEF BrTyped, BrRequest
  <1> HIDE DEF w
  <1> QED
    BY <1>1, <1>2, BrReqIs

\* Whose a page is, and what is known of a request.
LEMMA BrOwners ==
  ASSUME BrInv
  PROVE  /\ \A s \in DOMAIN brTable : brTable[s] \in DOMAIN brOpen => brOpen[brTable[s]] = s
         /\ \A a \in BrUser : \A s \in DOMAIN brTable : brReq[a].page = brTable[s] /\ brTable[s] # 0 => brReq[a].s = s
         /\ \A p \in DOMAIN brOpen : p # 0 /\ p \in 1..BrPages
         /\ \A a \in BrUser : /\ brReq[a] \in BrRequest /\ brReq[a].at \in BrAts /\ brReq[a].page \in 0..BrPages
                              /\ brReq[a].s \in BrSession \/ brReq[a].at \in {"idle", "starting", "stop_lock", "stop_driver", "stuck"}
  <1>0. BrOwned /\ BrTypeOK /\ BrTyped /\ BrPlaced
    BY DEF BrInv
  <1>1. \A p \in DOMAIN brOpen : p # 0 /\ p \in 1..BrPages
    BY <1>0, BrAssumption DEF BrTypeOK
  <1>2. ASSUME NEW s \in DOMAIN brTable, brTable[s] \in DOMAIN brOpen
        PROVE  brOpen[brTable[s]] = s
    <2>1. BrRefers(brTable[s], s) /\ BrRefers(brTable[s], brOpen[brTable[s]])
      BY <1>2 DEF BrRefers
    <2>2. brTable[s] # 0
      BY <1>1, <1>2
    <2> QED
      BY <1>0, <2>1, <2>2 DEF BrOwned
  <1>3. ASSUME NEW a \in BrUser, NEW s \in DOMAIN brTable, brReq[a].page = brTable[s], brTable[s] # 0
        PROVE  brReq[a].s = s
    <2>1. BrRefers(brTable[s], s) /\ BrRefers(brTable[s], brReq[a].s)
      BY <1>3 DEF BrRefers
    <2> QED
      BY <1>0, <1>3, <2>1 DEF BrOwned
  <1>4. ASSUME NEW a \in BrUser
        PROVE  /\ brReq[a] \in BrRequest /\ brReq[a].at \in BrAts /\ brReq[a].page \in 0..BrPages
               /\ brReq[a].s \in BrSession \/ brReq[a].at \in {"idle", "starting", "stop_lock", "stop_driver", "stuck"}
    BY <1>0, BrAssumption DEF BrTyped, BrPlaced, BrRequest
  <1> QED
    BY <1>1, <1>2, <1>3, <1>4

\* chromium.launch returns.
LEMMA BrLaunchedHolds ==
  ASSUME BrInv, NEW a \in BrUser, BrLaunched(a)
  PROVE  BrInv'
  <1>0. BrTyped /\ BrTypeOK /\ BrPlaced /\ BrOwned /\ BrClosedIsClosed /\ BrListedRuns /\ BrDriverRuns
    BY DEF BrInv
  <1>1. /\ brReq[a].at = "launching" /\ brReq[a].driver \in brRunning /\ BrTo(a, "context")
        /\ brBrowser' = BrWith(brBrowser, brReq[a].s, brReq[a].driver)
        /\ brDriver' = brDriver /\ brRunning' = brRunning /\ brTable' = brTable /\ brContext' = brContext /\ brOpen' = brOpen /\ brLock' = brLock /\ brTouched' = brTouched
    BY DEF BrLaunched, BrAt
  <1>2. /\ brReq' \in [BrUser -> BrRequest] /\ brReq'[a].at = "context" /\ brReq'[a].s = brReq[a].s
        /\ brReq'[a].page = brReq[a].page /\ \A b \in BrUser \ {a} : brReq'[b] = brReq[b]
    <2>1. "context" \in BrAts
      BY DEF BrAts
    <2> QED
      BY <1>0, <1>1, <2>1, BrToIs
  <1>3. BrTyped'
    BY <1>0, <1>1, <1>2, BrOwners, BrAssumption DEF BrTyped, BrWith, BrLess
  <1>4. BrTypeOK'
    BY <1>0, <1>1, <1>2, BrOwners, BrAssumption DEF BrTypeOK, BrTyped, BrRequest, BrWith, BrLess
  <1>5. BrPlaced'
    BY <1>0, <1>1, <1>2, BrOwners, BrAssumption DEF BrPlaced, BrWith, BrLess
  <1>6. BrOwned'
    <2>1. \A b \in BrUser : brReq'[b].page = 0 \/ BrRefers(brReq'[b].page, brReq'[b].s)
      BY <1>1, <1>2 DEF BrRefers
    <2>2. \A p \in DOMAIN brOpen' : BrRefers(p, brOpen'[p])
      BY <1>1 DEF BrRefers, BrLess, BrWith
    <2>3. \A t \in DOMAIN brTable' : brTable'[t] = 0 \/ BrRefers(brTable'[t], t)
      BY <1>1 DEF BrRefers, BrLess, BrWith
    <2> QED
      BY <1>0, <2>1, <2>2, <2>3, BrOwnedKept
  <1>7. BrClosedIsClosed'
    BY <1>0, <1>1, <1>2, BrOwners, BrAssumption DEF BrClosedIsClosed, BrAt, BrPlaced, BrWith, BrLess
  <1>8. BrListedRuns'
    BY <1>0, <1>1, <1>2, BrOwners, BrAssumption DEF BrListedRuns, BrBusyWith, BrTyped, BrWith, BrLess
  <1>9. BrDriverRuns'
    BY <1>0, <1>1, <1>2, BrOwners, BrAssumption DEF BrDriverRuns, BrWith, BrLess
  <1> QED
    BY <1>3, <1>4, <1>5, <1>6, <1>7, <1>8, <1>9 DEF BrInv

\* new_context returns, and the session is listed without a page.
LEMMA BrContextMadeHolds ==
  ASSUME BrInv, NEW a \in BrUser, BrContextMade(a)
  PROVE  BrInv'
  <1>0. BrTyped /\ BrTypeOK /\ BrPlaced /\ BrOwned /\ BrClosedIsClosed /\ BrListedRuns /\ BrDriverRuns
    BY DEF BrInv
  <1>1. /\ brReq[a].at = "context" /\ brReq[a].s \in DOMAIN brBrowser /\ BrReturn(a)
        /\ brContext' = brContext \cup {brReq[a].s} /\ brTable' = BrWith(brTable, brReq[a].s, 0)
        /\ brDriver' = brDriver /\ brRunning' = brRunning /\ brBrowser' = brBrowser /\ brOpen' = brOpen /\ brLock' = brLock /\ brTouched' = brTouched
    BY DEF BrContextMade, BrAt
  <1>2. /\ brReq' \in [BrUser -> BrRequest] /\ brReq'[a].at = "idle" /\ brReq'[a].s = BrNobody
        /\ brReq'[a].page = 0 /\ \A b \in BrUser \ {a} : brReq'[b] = brReq[b]
    BY <1>0, <1>1, BrReturnIs
  <1>10. /\ DOMAIN brTable' = DOMAIN brTable \cup {brReq[a].s} /\ brTable'[brReq[a].s] = 0
         /\ \A t \in DOMAIN brTable : t # brReq[a].s => brTable'[t] = brTable[t]
    BY <1>1 DEF BrWith
  <1>3. BrTyped'
    BY <1>0, <1>2, <1>10, BrAssumption DEF BrTyped
  <1>4. BrTypeOK'
    BY <1>0, <1>1, <1>2, BrOwners, BrAssumption DEF BrTypeOK, BrTyped, BrRequest, BrWith, BrLess
  <1>5. BrPlaced'
    BY <1>0, <1>1, <1>2, BrOwners, BrAssumption DEF BrPlaced, BrWith, BrLess
  <1>6. BrOwned'
    <2>1. \A b \in BrUser : brReq'[b].page = 0 \/ BrRefers(brReq'[b].page, brReq'[b].s)
      BY <1>1, <1>2 DEF BrRefers
    <2>2. \A p \in DOMAIN brOpen' : BrRefers(p, brOpen'[p])
      BY <1>1 DEF BrRefers, BrLess, BrWith
    <2>3. \A t \in DOMAIN brTable' : brTable'[t] = 0 \/ BrRefers(brTable'[t], t)
      BY <1>10 DEF BrRefers
    <2> QED
      BY <1>0, <2>1, <2>2, <2>3, BrOwnedKept
  <1>7. BrClosedIsClosed'
    BY <1>0, <1>1, <1>2, BrOwners, BrAssumption DEF BrClosedIsClosed, BrAt, BrPlaced, BrWith, BrLess
  <1>8. BrListedRuns'
    BY <1>0, <1>1, <1>2, BrOwners, BrAssumption DEF BrListedRuns, BrBusyWith, BrTyped, BrWith, BrLess
  <1>9. BrDriverRuns'
    BY <1>0, <1>1, <1>2, BrOwners, BrAssumption DEF BrDriverRuns, BrWith, BrLess
  <1> QED
    BY <1>3, <1>4, <1>5, <1>6, <1>7, <1>8, <1>9 DEF BrInv

\* open_page has closed the page before.
LEMMA BrPageClosedHolds ==
  ASSUME BrInv, NEW a \in BrUser, BrPageClosed(a)
  PROVE  BrInv'
  <1>0. BrTyped /\ BrTypeOK /\ BrPlaced /\ BrOwned /\ BrClosedIsClosed /\ BrListedRuns /\ BrDriverRuns
    BY DEF BrInv
  <1>1. /\ brReq[a].at = "open_close" /\ brOpen' = BrLess(brOpen, {brReq[a].page})
        /\ brReq' = [brReq EXCEPT ![a].at = "open_new", ![a].page = 0]
        /\ brDriver' = brDriver /\ brRunning' = brRunning /\ brTable' = brTable /\ brBrowser' = brBrowser /\ brContext' = brContext /\ brLock' = brLock /\ brTouched' = brTouched
    BY DEF BrPageClosed, BrAt
  <1>2. /\ brReq' \in [BrUser -> BrRequest] /\ brReq'[a].at = "open_new" /\ brReq'[a].s = brReq[a].s
        /\ brReq'[a].page = 0 /\ \A b \in BrUser \ {a} : brReq'[b] = brReq[b]
    <2>1. "open_new" \in BrAts /\ 0 \in 0..BrPages
      BY <1>0, <1>1, BrAssumption DEF BrAts, BrTyped
    <2> QED
      BY <1>0, <1>1, <2>1, BrToPageIs
  <1>3. BrTyped'
    BY <1>0, <1>1, <1>2, BrOwners, BrAssumption DEF BrTyped, BrWith, BrLess
  <1>4. BrTypeOK'
    BY <1>0, <1>1, <1>2, BrOwners, BrAssumption DEF BrTypeOK, BrTyped, BrRequest, BrWith, BrLess
  <1>5. BrPlaced'
    BY <1>0, <1>1, <1>2, BrOwners, BrAssumption DEF BrPlaced, BrWith, BrLess
  <1>6. BrOwned'
    <2>1. \A b \in BrUser : brReq'[b].page = 0 \/ BrRefers(brReq'[b].page, brReq'[b].s)
      BY <1>1, <1>2 DEF BrRefers
    <2>2. \A p \in DOMAIN brOpen' : BrRefers(p, brOpen'[p])
      BY <1>1 DEF BrRefers, BrLess, BrWith
    <2>3. \A t \in DOMAIN brTable' : brTable'[t] = 0 \/ BrRefers(brTable'[t], t)
      BY <1>1 DEF BrRefers, BrLess, BrWith
    <2> QED
      BY <1>0, <2>1, <2>2, <2>3, BrOwnedKept
  <1>7. BrClosedIsClosed'
    BY <1>0, <1>1, <1>2, BrOwners, BrAssumption DEF BrClosedIsClosed, BrAt, BrPlaced, BrWith, BrLess
  <1>8. BrListedRuns'
    BY <1>0, <1>1, <1>2, BrOwners, BrAssumption DEF BrListedRuns, BrBusyWith, BrTyped, BrWith, BrLess
  <1>9. BrDriverRuns'
    BY <1>0, <1>1, <1>2, BrOwners, BrAssumption DEF BrDriverRuns, BrWith, BrLess
  <1> QED
    BY <1>3, <1>4, <1>5, <1>6, <1>7, <1>8, <1>9 DEF BrInv

\* close_session is called.
LEMMA BrCloseHolds ==
  ASSUME BrInv, NEW a \in BrUser, NEW s \in BrSession, BrClose(a, s)
  PROVE  BrInv'
  <1>0. BrTyped /\ BrTypeOK /\ BrPlaced /\ BrOwned /\ BrClosedIsClosed /\ BrListedRuns /\ BrDriverRuns
    BY DEF BrInv
  <1>1. /\ brReq[a].at = "idle"
        /\ brReq' = [brReq EXCEPT ![a] = [at |-> "close_lock", s |-> s, page |-> 0, driver |-> 0]]
        /\ brDriver' = brDriver /\ brRunning' = brRunning /\ brTable' = brTable /\ brBrowser' = brBrowser /\ brContext' = brContext /\ brOpen' = brOpen /\ brLock' = brLock /\ brTouched' = brTouched
    BY DEF BrClose, BrAt
  <1>2. /\ brReq' \in [BrUser -> BrRequest] /\ brReq'[a].at = "close_lock" /\ brReq'[a].s = s
        /\ brReq'[a].page = 0 /\ \A b \in BrUser \ {a} : brReq'[b] = brReq[b]
    <2>1. [at |-> "close_lock", s |-> s, page |-> 0, driver |-> 0] \in BrRequest
      BY <1>0, BrAssumption DEF BrRequest, BrAts
    <2> QED
      BY <1>0, <1>1, <2>1, BrReqIs
  <1>3. BrTyped'
    BY <1>0, <1>1, <1>2, BrOwners, BrAssumption DEF BrTyped, BrWith, BrLess
  <1>4. BrTypeOK'
    BY <1>0, <1>1, <1>2, BrOwners, BrAssumption DEF BrTypeOK, BrTyped, BrRequest, BrWith, BrLess
  <1>5. BrPlaced'
    BY <1>0, <1>1, <1>2, BrOwners, BrAssumption DEF BrPlaced, BrWith, BrLess
  <1>6. BrOwned'
    <2>1. \A b \in BrUser : brReq'[b].page = 0 \/ BrRefers(brReq'[b].page, brReq'[b].s)
      BY <1>1, <1>2 DEF BrRefers
    <2>2. \A p \in DOMAIN brOpen' : BrRefers(p, brOpen'[p])
      BY <1>1 DEF BrRefers, BrLess, BrWith
    <2>3. \A t \in DOMAIN brTable' : brTable'[t] = 0 \/ BrRefers(brTable'[t], t)
      BY <1>1 DEF BrRefers, BrLess, BrWith
    <2> QED
      BY <1>0, <2>1, <2>2, <2>3, BrOwnedKept
  <1>7. BrClosedIsClosed'
    BY <1>0, <1>1, <1>2, BrOwners, BrAssumption DEF BrClosedIsClosed, BrAt, BrPlaced, BrWith, BrLess
  <1>8. BrListedRuns'
    BY <1>0, <1>1, <1>2, BrOwners, BrAssumption DEF BrListedRuns, BrBusyWith, BrTyped, BrWith, BrLess
  <1>9. BrDriverRuns'
    BY <1>0, <1>1, <1>2, BrOwners, BrAssumption DEF BrDriverRuns, BrWith, BrLess
  <1> QED
    BY <1>3, <1>4, <1>5, <1>6, <1>7, <1>8, <1>9 DEF BrInv

\* A session that is new to everyone starts to be launched, by a driver that runs.
LEMMA BrLaunchWithHolds ==
  ASSUME BrInv, NEW a \in BrUser, NEW s \in BrSession, NEW d \in 1..BrDrivers, BrLaunchWith(a, s, d),
         brReq[a].at \in {"idle", "starting"}, brDriver' = d, d \in brRunning',
         brRunning \subseteq brRunning', brRunning' \subseteq 1..BrDrivers,
         brTable' = brTable, brBrowser' = brBrowser, brContext' = brContext, brOpen' = brOpen, brLock' = brLock
  PROVE  BrInv'
  <1>0. BrTyped /\ BrTypeOK /\ BrPlaced /\ BrOwned /\ BrClosedIsClosed /\ BrListedRuns /\ BrDriverRuns
    BY DEF BrInv
  <1>1. /\ s \notin DOMAIN brTable /\ s \notin DOMAIN brBrowser /\ \A b \in BrUser : brReq[b].s # s
        /\ brReq' = [brReq EXCEPT ![a] = [at |-> "launching", s |-> s, page |-> 0, driver |-> d]]
        /\ brTouched' = brTouched \ {s}
    BY DEF BrLaunchWith, BrFreshSession
  <1>2. /\ brReq' \in [BrUser -> BrRequest] /\ brReq'[a].at = "launching" /\ brReq'[a].s = s
        /\ brReq'[a].page = 0 /\ \A b \in BrUser \ {a} : brReq'[b] = brReq[b]
    <2>1. [at |-> "launching", s |-> s, page |-> 0, driver |-> d] \in BrRequest
      BY <1>0, BrAssumption DEF BrRequest, BrAts
    <2> QED
      BY <1>0, <1>1, <2>1, BrReqIs
  <1>3. BrTyped'
    BY <1>0, <1>2 DEF BrTyped
  <1>4. BrTypeOK'
    BY <1>0, <1>1, <1>2 DEF BrTypeOK
  <1>5. BrPlaced'
    BY <1>0, <1>1, <1>2, BrAssumption DEF BrPlaced
  <1>6. BrOwned'
    <2>1. \A b \in BrUser : brReq'[b].page = 0 \/ BrRefers(brReq'[b].page, brReq'[b].s)
      BY <1>1, <1>2 DEF BrRefers
    <2>2. \A p \in DOMAIN brOpen' : BrRefers(p, brOpen'[p])
      BY DEF BrRefers
    <2>3. \A t \in DOMAIN brTable' : brTable'[t] = 0 \/ BrRefers(brTable'[t], t)
      BY DEF BrRefers
    <2> QED
      BY <1>0, <2>1, <2>2, <2>3, BrOwnedKept
  <1>7. BrClosedIsClosed'
    BY <1>0, <1>1, <1>2 DEF BrClosedIsClosed, BrAt
  <1>8. BrListedRuns'
    BY <1>0, <1>1, <1>2 DEF BrListedRuns, BrBusyWith
  <1>9. BrDriverRuns'
    BY <1>0 DEF BrDriverRuns
  <1> QED
    BY <1>3, <1>4, <1>5, <1>6, <1>7, <1>8, <1>9 DEF BrInv

\* launch_browser finds no driver.
LEMMA BrStartingHolds ==
  ASSUME BrInv, NEW a \in BrUser, brReq[a].at = "idle", BrTo(a, "starting"), UNCHANGED <<brDriver, brRunning, brTable, brBrowser, brContext, brOpen, brLock, brTouched>>
  PROVE  BrInv'
  <1>0. BrTyped /\ BrTypeOK /\ BrPlaced /\ BrOwned /\ BrClosedIsClosed /\ BrListedRuns /\ BrDriverRuns
    BY DEF BrInv
  <1>1. /\ brReq[a].at = "idle" /\ BrTo(a, "starting")
        /\ brDriver' = brDriver /\ brRunning' = brRunning /\ brTable' = brTable /\ brBrowser' = brBrowser /\ brContext' = brContext /\ brOpen' = brOpen /\ brLock' = brLock /\ brTouched' = brTouched
    OBVIOUS
  <1>2. /\ brReq' \in [BrUser -> BrRequest] /\ brReq'[a].at = "starting" /\ brReq'[a].s = brReq[a].s
        /\ brReq'[a].page = brReq[a].page /\ \A b \in BrUser \ {a} : brReq'[b] = brReq[b]
    <2>1. "starting" \in BrAts
      BY DEF BrAts
    <2> QED
      BY <1>0, <1>1, <2>1, BrToIs
  <1>3. BrTyped'
    BY <1>0, <1>1, <1>2, BrOwners, BrAssumption DEF BrTyped, BrWith, BrLess
  <1>4. BrTypeOK'
    BY <1>0, <1>1, <1>2, BrOwners, BrAssumption DEF BrTypeOK, BrTyped, BrRequest, BrWith, BrLess
  <1>5. BrPlaced'
    BY <1>0, <1>1, <1>2, BrOwners, BrAssumption DEF BrPlaced, BrWith, BrLess
  <1>6. BrOwned'
    <2>1. \A b \in BrUser : brReq'[b].page = 0 \/ BrRefers(brReq'[b].page, brReq'[b].s)
      BY <1>1, <1>2 DEF BrRefers
    <2>2. \A p \in DOMAIN brOpen' : BrRefers(p, brOpen'[p])
      BY <1>1 DEF BrRefers, BrLess, BrWith
    <2>3. \A t \in DOMAIN brTable' : brTable'[t] = 0 \/ BrRefers(brTable'[t], t)
      BY <1>1 DEF BrRefers, BrLess, BrWith
    <2> QED
      BY <1>0, <2>1, <2>2, <2>3, BrOwnedKept
  <1>7. BrClosedIsClosed'
    BY <1>0, <1>1, <1>2, BrOwners, BrAssumption DEF BrClosedIsClosed, BrAt, BrPlaced, BrWith, BrLess
  <1>8. BrListedRuns'
    BY <1>0, <1>1, <1>2, BrOwners, BrAssumption DEF BrListedRuns, BrBusyWith, BrTyped, BrWith, BrLess
  <1>9. BrDriverRuns'
    BY <1>0, <1>1, <1>2, BrOwners, BrAssumption DEF BrDriverRuns, BrWith, BrLess
  <1> QED
    BY <1>3, <1>4, <1>5, <1>6, <1>7, <1>8, <1>9 DEF BrInv

\* launch_browser.
LEMMA BrLaunchHolds ==
  ASSUME BrInv, NEW a \in BrUser, BrLaunch(a)
  PROVE  BrInv'
  <1>1. CASE brDriver = 0
    <2>1. brReq[a].at = "idle" /\ BrTo(a, "starting")
      BY <1>1 DEF BrLaunch, BrAt
    <2>2. UNCHANGED <<brDriver, brRunning, brTable, brBrowser, brContext, brOpen, brLock, brTouched>>
      BY <1>1 DEF BrLaunch
    <2> QED
      BY <2>1, <2>2, BrStartingHolds
  <1>2. CASE brDriver # 0
    <2>1. PICK s \in BrSession : BrLaunchWith(a, s, brDriver)
      BY <1>2 DEF BrLaunch
    <2>2. brReq[a].at \in {"idle", "starting"}
      BY DEF BrLaunch, BrAt
    <2>3. /\ brDriver' = brDriver /\ brRunning' = brRunning /\ brTable' = brTable /\ brBrowser' = brBrowser
          /\ brContext' = brContext /\ brOpen' = brOpen /\ brLock' = brLock
      BY DEF BrLaunch
    <2>4. brDriver \in brRunning /\ brRunning \subseteq 1..BrDrivers
      BY <1>2 DEF BrInv, BrDriverRuns, BrTypeOK
    <2>5. brDriver \in 1..BrDrivers
      BY <2>4
    <2> QED
      BY <2>1, <2>2, <2>3, <2>4, <2>5, BrLaunchWithHolds
  <1> QED
    BY <1>1, <1>2

\* The first that is free is one of the free ones.
LEMMA BrFirst ==
  ASSUME NEW n \in Nat, NEW T, T \subseteq 1..n, T # {}
  PROVE  Min(T) \in T
  <1>1. T \subseteq Nat
    OBVIOUS
  <1>2. \E x \in T : \A y \in T : x <= y
    BY <1>1, LeastOfSet
  <1> QED
    BY <1>2 DEF Min

\* The driver starts, and the session is launched with it.
LEMMA BrStartedHolds ==
  ASSUME BrInv, NEW a \in BrUser, BrStarted(a)
  PROVE  BrInv'
  <1> DEFINE d == Min((1..BrDrivers) \ brRunning)
  <1>1. d \in (1..BrDrivers) \ brRunning
    BY BrFirst, BrAssumption DEF BrStarted
  <1>2. PICK s \in BrSession : BrLaunchWith(a, s, d)
    BY DEF BrStarted
  <1>3. /\ brDriver' = d /\ brRunning' = brRunning \cup {d} /\ brTable' = brTable /\ brBrowser' = brBrowser
        /\ brContext' = brContext /\ brOpen' = brOpen /\ brLock' = brLock
        /\ brReq[a].at \in {"idle", "starting"}
    BY DEF BrStarted, BrAt
  <1>4. brRunning \subseteq 1..BrDrivers
    BY DEF BrInv, BrTypeOK
  <1> HIDE DEF d
  <1> QED
    BY <1>1, <1>2, <1>3, <1>4, BrLaunchWithHolds

\* open_page looks its session up.
LEMMA BrOpenPageHolds ==
  ASSUME BrInv, NEW a \in BrUser, NEW s \in BrSession, BrOpenPage(a, s)
  PROVE  BrInv'
  <1>0. BrTyped /\ BrTypeOK /\ BrPlaced /\ BrOwned /\ BrClosedIsClosed /\ BrListedRuns /\ BrDriverRuns
    BY DEF BrInv
  <1>1. /\ brReq[a].at = "idle" /\ s \in DOMAIN brTable
        /\ brReq' = [brReq EXCEPT ![a] = [at |-> IF brTable[s] = 0 THEN "open_new" ELSE "open_close",
                                          s |-> s, page |-> brTable[s], driver |-> 0]]
        /\ brDriver' = brDriver /\ brRunning' = brRunning /\ brTable' = brTable /\ brBrowser' = brBrowser /\ brContext' = brContext /\ brOpen' = brOpen /\ brLock' = brLock /\ brTouched' = brTouched
    BY DEF BrOpenPage, BrAt
  <1>2. /\ brReq' \in [BrUser -> BrRequest] /\ brReq'[a].at = (IF brTable[s] = 0 THEN "open_new" ELSE "open_close") /\ brReq'[a].s = s
        /\ brReq'[a].page = brTable[s] /\ \A b \in BrUser \ {a} : brReq'[b] = brReq[b]
    <2>1. [at |-> (IF brTable[s] = 0 THEN "open_new" ELSE "open_close"), s |-> s, page |-> brTable[s], driver |-> 0] \in BrRequest
      BY <1>0, BrAssumption, <1>1 DEF BrRequest, BrAts, BrTyped
    <2> QED
      BY <1>0, <1>1, <2>1, BrReqIs
  <1>3. BrTyped'
    BY <1>0, <1>1, <1>2, BrOwners, BrAssumption DEF BrTyped, BrWith, BrLess
  <1>4. BrTypeOK'
    BY <1>0, <1>1, <1>2, BrOwners, BrAssumption DEF BrTypeOK, BrTyped, BrRequest, BrWith, BrLess
  <1>5. BrPlaced'
    <2>1. /\ brReq'[a].at \in {"open_new", "open_close"} /\ brReq'[a].s \in BrSession
          /\ \A b \in BrUser \ {a} : brReq'[b] = brReq[b]
      BY <1>2
    <2> QED
      BY <1>0, <1>1, <2>1, BrAssumption DEF BrPlaced
  <1>6. BrOwned'
    <2>1. \A b \in BrUser : brReq'[b].page = 0 \/ BrRefers(brReq'[b].page, brReq'[b].s)
      BY <1>1, <1>2 DEF BrRefers
    <2>2. \A p \in DOMAIN brOpen' : BrRefers(p, brOpen'[p])
      BY <1>1 DEF BrRefers, BrLess, BrWith
    <2>3. \A t \in DOMAIN brTable' : brTable'[t] = 0 \/ BrRefers(brTable'[t], t)
      BY <1>1 DEF BrRefers, BrLess, BrWith
    <2> QED
      BY <1>0, <2>1, <2>2, <2>3, BrOwnedKept
  <1>7. BrClosedIsClosed'
    BY <1>0, <1>1, <1>2, BrOwners, BrAssumption DEF BrClosedIsClosed, BrAt, BrPlaced, BrWith, BrLess
  <1>8. BrListedRuns'
    BY <1>0, <1>1, <1>2, BrOwners, BrAssumption DEF BrListedRuns, BrBusyWith, BrTyped, BrWith, BrLess
  <1>9. BrDriverRuns'
    BY <1>0, <1>1, <1>2, BrOwners, BrAssumption DEF BrDriverRuns, BrWith, BrLess
  <1> QED
    BY <1>3, <1>4, <1>5, <1>6, <1>7, <1>8, <1>9 DEF BrInv

\* new_page returns a page that nobody refers to yet.
LEMMA BrNewPageHolds ==
  ASSUME BrInv, NEW a \in BrUser, BrNewPage(a)
  PROVE  BrInv'
  <1>0. BrTyped /\ BrTypeOK /\ BrPlaced /\ BrOwned /\ BrClosedIsClosed /\ BrListedRuns /\ BrDriverRuns
    BY DEF BrInv
  <1> DEFINE S == {q \in 1..BrPages : BrFreshPage(q)}
  <1>19. PICK p : p = Min(S)
    OBVIOUS
  <1>1. /\ brReq[a].at = "open_new" /\ brReq[a].s \in brContext /\ S # {}
        /\ brOpen' = BrWith(brOpen, p, brReq[a].s)
        /\ brReq' = [brReq EXCEPT ![a].at = "open_goto", ![a].page = p]
        /\ brDriver' = brDriver /\ brRunning' = brRunning /\ brTable' = brTable /\ brBrowser' = brBrowser /\ brContext' = brContext /\ brLock' = brLock /\ brTouched' = brTouched
    BY <1>19 DEF BrNewPage, BrAt
  <1>20. p \in S
    BY <1>1, <1>19, BrFirst, BrAssumption
  <1>21. /\ p \in 1..BrPages /\ p # 0 /\ p \in 0..BrPages /\ p \notin DOMAIN brOpen
         /\ \A t \in DOMAIN brTable : brTable[t] # p
         /\ \A b \in BrUser : brReq[b].page # p
    BY <1>20, BrAssumption DEF BrFreshPage
  <1>22. /\ DOMAIN brOpen' = DOMAIN brOpen \cup {p} /\ brOpen'[p] = brReq[a].s
         /\ \A q \in DOMAIN brOpen : brOpen'[q] = brOpen[q]
    BY <1>1, <1>21 DEF BrWith
  <1>2. /\ brReq' \in [BrUser -> BrRequest] /\ brReq'[a].at = "open_goto" /\ brReq'[a].s = brReq[a].s
        /\ brReq'[a].page = p /\ \A b \in BrUser \ {a} : brReq'[b] = brReq[b]
    <2>1. "open_goto" \in BrAts /\ p \in 0..BrPages
      BY <1>21 DEF BrAts
    <2> QED
      BY <1>0, <1>1, <2>1, BrToPageIs
  <1>3. BrTyped'
    BY <1>0, <1>1, <1>2, BrOwners, BrAssumption DEF BrTyped, BrWith, BrLess
  <1>4. BrTypeOK'
    BY <1>0, <1>1, <1>2, <1>21, <1>22 DEF BrTypeOK
  <1>5. BrPlaced'
    BY <1>0, <1>1, <1>2, BrOwners, BrAssumption DEF BrPlaced, BrWith, BrLess
  <1>6. BrOwned'
    <2>1. \A t : ~BrRefers(p, t)
      BY <1>21 DEF BrRefers
    <2>2. \A q, t : q # p => (BrRefers(q, t)' => BrRefers(q, t) \/ (q = 0))
      <3> SUFFICES ASSUME NEW q, NEW t, q # p, BrRefers(q, t)' PROVE BrRefers(q, t) \/ q = 0
        OBVIOUS
      <3>1. CASE t \in DOMAIN brTable' /\ brTable'[t] = q
        BY <1>1, <3>1 DEF BrRefers
      <3>2. CASE q \in DOMAIN brOpen' /\ brOpen'[q] = t
        BY <1>22, <3>2 DEF BrRefers
      <3>3. CASE \E b \in BrUser : brReq'[b].page = q /\ brReq'[b].s = t
        BY <1>2, <3>3 DEF BrRefers
      <3> QED
        BY <3>1, <3>2, <3>3 DEF BrRefers
    <2>3. \A t : BrRefers(p, t)' => t = brReq[a].s
      <3> SUFFICES ASSUME NEW t, BrRefers(p, t)' PROVE t = brReq[a].s
        OBVIOUS
      <3>1. CASE t \in DOMAIN brTable' /\ brTable'[t] = p
        BY <1>1, <1>21, <3>1
      <3>2. CASE p \in DOMAIN brOpen' /\ brOpen'[p] = t
        BY <1>22, <3>2
      <3>3. CASE \E b \in BrUser : brReq'[b].page = p /\ brReq'[b].s = t
        BY <1>2, <1>21, <3>3
      <3> QED
        BY <3>1, <3>2, <3>3 DEF BrRefers
    <2>4. ASSUME NEW q, NEW s, NEW t, q # 0, BrRefers(q, s)', BrRefers(q, t)' PROVE s = t
      <3>1. CASE q = p
        BY <2>3, <2>4, <3>1
      <3>2. CASE q # p
        <4>1. BrRefers(q, s) /\ BrRefers(q, t)
          BY <2>2, <2>4, <3>2
        <4> QED
          BY <1>0, <2>4, <4>1 DEF BrOwned
      <3> QED
        BY <3>1, <3>2
    <2> QED
      BY <2>4 DEF BrOwned
  <1>7. BrClosedIsClosed'
    BY <1>0, <1>1, <1>2, <1>22 DEF BrClosedIsClosed, BrAt
  <1>8. BrListedRuns'
    BY <1>0, <1>1, <1>2, <1>21, <1>22, BrOwners DEF BrListedRuns, BrBusyWith
  <1>9. BrDriverRuns'
    BY <1>0, <1>1, <1>2, BrOwners, BrAssumption DEF BrDriverRuns, BrWith, BrLess
  <1> QED
    BY <1>3, <1>4, <1>5, <1>6, <1>7, <1>8, <1>9 DEF BrInv

\* goto returns, and the page is put into the table if its session is there still.
LEMMA BrWentToHolds ==
  ASSUME BrInv, NEW a \in BrUser, BrWentTo(a)
  PROVE  BrInv'
  <1>0. BrTyped /\ BrTypeOK /\ BrPlaced /\ BrOwned /\ BrClosedIsClosed /\ BrListedRuns /\ BrDriverRuns
    BY DEF BrInv
  <1>1. /\ brReq[a].at = "open_goto" /\ brReq[a].page \in DOMAIN brOpen /\ BrReturn(a)
        /\ brTable' = IF brReq[a].s \in DOMAIN brTable THEN [brTable EXCEPT ![brReq[a].s] = brReq[a].page] ELSE brTable
        /\ brDriver' = brDriver /\ brRunning' = brRunning /\ brBrowser' = brBrowser /\ brContext' = brContext /\ brOpen' = brOpen /\ brLock' = brLock /\ brTouched' = brTouched
    BY DEF BrWentTo, BrAt
  <1>2. /\ brReq' \in [BrUser -> BrRequest] /\ brReq'[a].at = "idle" /\ brReq'[a].s = BrNobody
        /\ brReq'[a].page = 0 /\ \A b \in BrUser \ {a} : brReq'[b] = brReq[b]
    BY <1>0, <1>1, BrReturnIs
  <1>10. /\ DOMAIN brTable' = DOMAIN brTable
         /\ \A t \in DOMAIN brTable : t # brReq[a].s => brTable'[t] = brTable[t]
         /\ brReq[a].s \in DOMAIN brTable => brTable'[brReq[a].s] = brReq[a].page
    BY <1>1
  <1>3. BrTyped'
    BY <1>0, <1>2, <1>10, BrOwners DEF BrTyped
  <1>4. BrTypeOK'
    BY <1>0, <1>1, <1>2, <1>10 DEF BrTypeOK
  <1>5. BrPlaced'
    BY <1>0, <1>1, <1>2, <1>10 DEF BrPlaced
  <1>6. BrOwned'
    <2>1. \A b \in BrUser : brReq'[b].page = 0 \/ BrRefers(brReq'[b].page, brReq'[b].s)
      BY <1>1, <1>2 DEF BrRefers
    <2>2. \A p \in DOMAIN brOpen' : BrRefers(p, brOpen'[p])
      BY <1>1 DEF BrRefers, BrLess, BrWith
    <2>3. \A t \in DOMAIN brTable' : brTable'[t] = 0 \/ BrRefers(brTable'[t], t)
      <3> SUFFICES ASSUME NEW t \in DOMAIN brTable' PROVE brTable'[t] = 0 \/ BrRefers(brTable'[t], t)
        OBVIOUS
      <3>1. CASE t = brReq[a].s
        BY <1>10, <3>1 DEF BrRefers
      <3>2. CASE t # brReq[a].s
        BY <1>10, <3>2 DEF BrRefers
      <3> QED
        BY <3>1, <3>2
    <2> QED
      BY <1>0, <2>1, <2>2, <2>3, BrOwnedKept
  <1>7. BrClosedIsClosed'
    BY <1>0, <1>1, <1>2, <1>10 DEF BrClosedIsClosed, BrAt
  <1>8. BrListedRuns'
    BY <1>0, <1>1, <1>2, <1>10 DEF BrListedRuns, BrBusyWith
  <1>9. BrDriverRuns'
    BY <1>0, <1>1, <1>2, BrOwners, BrAssumption DEF BrDriverRuns, BrWith, BrLess
  <1> QED
    BY <1>3, <1>4, <1>5, <1>6, <1>7, <1>8, <1>9 DEF BrInv

\* A request that finds nothing to do under the lock returns.
LEMMA BrReturnHolds ==
  ASSUME BrInv, NEW a \in BrUser, brReq[a].at \in {"close_lock", "stop_lock"}, BrReturn(a),
         UNCHANGED <<brDriver, brRunning, brTable, brBrowser, brContext, brOpen, brLock, brTouched>>
  PROVE  BrInv'
  <1>0. BrTyped /\ BrTypeOK /\ BrPlaced /\ BrOwned /\ BrClosedIsClosed /\ BrListedRuns /\ BrDriverRuns
    BY DEF BrInv
  <1>1. /\ brReq[a].at \in {"close_lock", "stop_lock"} /\ BrReturn(a)
        /\ brDriver' = brDriver /\ brRunning' = brRunning /\ brTable' = brTable /\ brBrowser' = brBrowser /\ brContext' = brContext /\ brOpen' = brOpen /\ brLock' = brLock /\ brTouched' = brTouched
    OBVIOUS
  <1>2. /\ brReq' \in [BrUser -> BrRequest] /\ brReq'[a].at = "idle" /\ brReq'[a].s = BrNobody
        /\ brReq'[a].page = 0 /\ \A b \in BrUser \ {a} : brReq'[b] = brReq[b]
    BY <1>0, <1>1, BrReturnIs
  <1>3. BrTyped'
    BY <1>0, <1>1, <1>2, BrOwners, BrAssumption DEF BrTyped, BrWith, BrLess
  <1>4. BrTypeOK'
    BY <1>0, <1>1, <1>2, BrOwners, BrAssumption DEF BrTypeOK, BrTyped, BrRequest, BrWith, BrLess
  <1>5. BrPlaced'
    BY <1>0, <1>1, <1>2, BrOwners, BrAssumption DEF BrPlaced, BrWith, BrLess
  <1>6. BrOwned'
    <2>1. \A b \in BrUser : brReq'[b].page = 0 \/ BrRefers(brReq'[b].page, brReq'[b].s)
      BY <1>1, <1>2 DEF BrRefers
    <2>2. \A p \in DOMAIN brOpen' : BrRefers(p, brOpen'[p])
      BY <1>1 DEF BrRefers, BrLess, BrWith
    <2>3. \A t \in DOMAIN brTable' : brTable'[t] = 0 \/ BrRefers(brTable'[t], t)
      BY <1>1 DEF BrRefers, BrLess, BrWith
    <2> QED
      BY <1>0, <2>1, <2>2, <2>3, BrOwnedKept
  <1>7. BrClosedIsClosed'
    BY <1>0, <1>1, <1>2, BrOwners, BrAssumption DEF BrClosedIsClosed, BrAt, BrPlaced, BrWith, BrLess
  <1>8. BrListedRuns'
    BY <1>0, <1>1, <1>2, BrOwners, BrAssumption DEF BrListedRuns, BrBusyWith, BrTyped, BrWith, BrLess
  <1>9. BrDriverRuns'
    BY <1>0, <1>1, <1>2, BrOwners, BrAssumption DEF BrDriverRuns, BrWith, BrLess
  <1> QED
    BY <1>3, <1>4, <1>5, <1>6, <1>7, <1>8, <1>9 DEF BrInv

\* close_session has the lock and finds its session.
LEMMA BrLockedHolds ==
  ASSUME BrInv, NEW a \in BrUser, NEW at \in {"close_context", "close_page"}, NEW page, page = brTable[brReq[a].s], at = "close_page" <=> page # 0,
         brReq[a].s \in DOMAIN brTable, brReq[a].at = "close_lock", brLock = BrNobody, brLock' = a,
         brReq' = [brReq EXCEPT ![a].at = at, ![a].page = page],
         UNCHANGED <<brDriver, brRunning, brTable, brBrowser, brContext, brOpen, brTouched>>
  PROVE  BrInv'
  <1>0. BrTyped /\ BrTypeOK /\ BrPlaced /\ BrOwned /\ BrClosedIsClosed /\ BrListedRuns /\ BrDriverRuns
    BY DEF BrInv
  <1>1. brDriver' = brDriver /\ brRunning' = brRunning /\ brTable' = brTable /\ brBrowser' = brBrowser /\ brContext' = brContext /\ brOpen' = brOpen /\ brTouched' = brTouched
    OBVIOUS
  <1>20. at \in BrAts /\ page \in 0..BrPages
    BY <1>0 DEF BrAts, BrTyped
  <1>2. /\ brReq' \in [BrUser -> BrRequest] /\ brReq'[a].at = at /\ brReq'[a].s = brReq[a].s
        /\ brReq'[a].page = page /\ \A b \in BrUser \ {a} : brReq'[b] = brReq[b]
    <2> DEFINE w == [brReq[a] EXCEPT !.at = at, !.page = page]
    <2>1. brReq' = [brReq EXCEPT ![a] = w]
      BY <1>0 DEF BrTyped
    <2>2. w \in BrRequest /\ w.at = at /\ w.s = brReq[a].s /\ w.page = page
      BY <1>0, <1>20 DEF BrTyped, BrRequest
    <2> HIDE DEF w
    <2>3. brReq' \in [BrUser -> BrRequest] /\ brReq'[a] = w /\ \A b \in BrUser \ {a} : brReq'[b] = brReq[b]
      BY <1>0, <2>1, <2>2, BrReqIs
    <2> QED
      BY <2>2, <2>3
  <1>3. BrTyped'
    BY <1>0, <1>1, <1>2, BrOwners, BrAssumption DEF BrTyped, BrWith, BrLess
  <1>4. BrTypeOK'
    BY <1>0, <1>1, <1>2, BrOwners, BrAssumption DEF BrTypeOK, BrTyped, BrRequest, BrWith, BrLess
  <1>5. BrPlaced'
    BY <1>0, <1>1, <1>2, BrOwners, BrAssumption DEF BrPlaced, BrWith, BrLess
  <1>6. BrOwned'
    <2>1. \A b \in BrUser : brReq'[b].page = 0 \/ BrRefers(brReq'[b].page, brReq'[b].s)
      BY <1>1, <1>2 DEF BrRefers
    <2>2. \A p \in DOMAIN brOpen' : BrRefers(p, brOpen'[p])
      BY <1>1 DEF BrRefers, BrLess, BrWith
    <2>3. \A t \in DOMAIN brTable' : brTable'[t] = 0 \/ BrRefers(brTable'[t], t)
      BY <1>1 DEF BrRefers, BrLess, BrWith
    <2> QED
      BY <1>0, <2>1, <2>2, <2>3, BrOwnedKept
  <1>7. BrClosedIsClosed'
    BY <1>0, <1>1, <1>2, BrOwners, BrAssumption DEF BrClosedIsClosed, BrAt, BrPlaced, BrWith, BrLess
  <1>8. BrListedRuns'
    BY <1>0, <1>1, <1>2, BrOwners, BrAssumption DEF BrListedRuns, BrBusyWith, BrTyped, BrWith, BrLess
  <1>9. BrDriverRuns'
    BY <1>0, <1>1, <1>2, BrOwners, BrAssumption DEF BrDriverRuns, BrWith, BrLess
  <1> QED
    BY <1>3, <1>4, <1>5, <1>6, <1>7, <1>8, <1>9 DEF BrInv

\* close_session gets the lock.
LEMMA BrCloseLockedHolds ==
  ASSUME BrInv, NEW a \in BrUser, BrCloseLocked(a)
  PROVE  BrInv'
  <1>1. CASE brReq[a].s \in DOMAIN brTable
    <2> DEFINE page == brTable[brReq[a].s]
    <2> DEFINE at == IF page = 0 THEN "close_context" ELSE "close_page"
    <2>1. /\ brLock = BrNobody /\ brLock' = a /\ brReq[a].at = "close_lock"
          /\ brReq' = [brReq EXCEPT ![a].at = at, ![a].page = page]
      BY <1>1 DEF BrCloseLocked, BrAt
    <2>3. at \in {"close_context", "close_page"} /\ (at = "close_page" <=> page # 0) /\ page = brTable[brReq[a].s]
      OBVIOUS
    <2> HIDE DEF at, page
    <2>2. UNCHANGED <<brDriver, brRunning, brTable, brBrowser, brContext, brOpen, brTouched>>
      BY DEF BrCloseLocked
    <2> QED
      BY <1>1, <2>1, <2>2, <2>3, BrLockedHolds
  <1>2. CASE brReq[a].s \notin DOMAIN brTable
    <2>1. brReq[a].at \in {"close_lock", "stop_lock"} /\ BrReturn(a)
      BY <1>2 DEF BrCloseLocked, BrAt
    <2>2. UNCHANGED <<brDriver, brRunning, brTable, brBrowser, brContext, brOpen, brLock, brTouched>>
      BY <1>2 DEF BrCloseLocked
    <2> QED
      BY <2>1, <2>2, BrReturnHolds
  <1> QED
    BY <1>1, <1>2

\* It closes the page of the table.
LEMMA BrClosePageHolds ==
  ASSUME BrInv, NEW a \in BrUser, BrClosePage(a)
  PROVE  BrInv'
  <1>0. BrTyped /\ BrTypeOK /\ BrPlaced /\ BrOwned /\ BrClosedIsClosed /\ BrListedRuns /\ BrDriverRuns
    BY DEF BrInv
  <1>1. /\ brReq[a].at = "close_page" /\ brOpen' = BrLess(brOpen, {brReq[a].page})
        /\ brReq' = [brReq EXCEPT ![a].at = "close_context", ![a].page = 0]
        /\ brDriver' = brDriver /\ brRunning' = brRunning /\ brTable' = brTable /\ brBrowser' = brBrowser /\ brContext' = brContext /\ brLock' = brLock /\ brTouched' = brTouched
    BY DEF BrClosePage, BrAt
  <1>2. /\ brReq' \in [BrUser -> BrRequest] /\ brReq'[a].at = "close_context" /\ brReq'[a].s = brReq[a].s
        /\ brReq'[a].page = 0 /\ \A b \in BrUser \ {a} : brReq'[b] = brReq[b]
    <2>1. "close_context" \in BrAts /\ 0 \in 0..BrPages
      BY <1>0, <1>1, BrAssumption DEF BrAts, BrTyped
    <2> QED
      BY <1>0, <1>1, <2>1, BrToPageIs
  <1>3. BrTyped'
    BY <1>0, <1>1, <1>2, BrOwners, BrAssumption DEF BrTyped, BrWith, BrLess
  <1>4. BrTypeOK'
    BY <1>0, <1>1, <1>2, BrOwners, BrAssumption DEF BrTypeOK, BrTyped, BrRequest, BrWith, BrLess
  <1>5. BrPlaced'
    BY <1>0, <1>1, <1>2, BrOwners, BrAssumption DEF BrPlaced, BrWith, BrLess
  <1>6. BrOwned'
    <2>1. \A b \in BrUser : brReq'[b].page = 0 \/ BrRefers(brReq'[b].page, brReq'[b].s)
      BY <1>1, <1>2 DEF BrRefers
    <2>2. \A p \in DOMAIN brOpen' : BrRefers(p, brOpen'[p])
      BY <1>1 DEF BrRefers, BrLess, BrWith
    <2>3. \A t \in DOMAIN brTable' : brTable'[t] = 0 \/ BrRefers(brTable'[t], t)
      BY <1>1 DEF BrRefers, BrLess, BrWith
    <2> QED
      BY <1>0, <2>1, <2>2, <2>3, BrOwnedKept
  <1>7. BrClosedIsClosed'
    BY <1>0, <1>1, <1>2, BrOwners, BrAssumption DEF BrClosedIsClosed, BrAt, BrPlaced, BrWith, BrLess
  <1>8. BrListedRuns'
    BY <1>0, <1>1, <1>2, BrOwners, BrAssumption DEF BrListedRuns, BrBusyWith, BrTyped, BrWith, BrLess
  <1>9. BrDriverRuns'
    BY <1>0, <1>1, <1>2, BrOwners, BrAssumption DEF BrDriverRuns, BrWith, BrLess
  <1> QED
    BY <1>3, <1>4, <1>5, <1>6, <1>7, <1>8, <1>9 DEF BrInv

\* It closes the context, and all pages with it.
LEMMA BrCloseContextHolds ==
  ASSUME BrInv, NEW a \in BrUser, BrCloseContext(a)
  PROVE  BrInv'
  <1>0. BrTyped /\ BrTypeOK /\ BrPlaced /\ BrOwned /\ BrClosedIsClosed /\ BrListedRuns /\ BrDriverRuns
    BY DEF BrInv
  <1>1. /\ brReq[a].at = "close_context" /\ brContext' = brContext \ {brReq[a].s}
        /\ brOpen' = BrLess(brOpen, BrPagesOf({brReq[a].s})) /\ BrTo(a, "close_browser")
        /\ brDriver' = brDriver /\ brRunning' = brRunning /\ brTable' = brTable /\ brBrowser' = brBrowser /\ brLock' = brLock /\ brTouched' = brTouched
    BY DEF BrCloseContext, BrAt
  <1>2. /\ brReq' \in [BrUser -> BrRequest] /\ brReq'[a].at = "close_browser" /\ brReq'[a].s = brReq[a].s
        /\ brReq'[a].page = brReq[a].page /\ \A b \in BrUser \ {a} : brReq'[b] = brReq[b]
    <2>1. "close_browser" \in BrAts
      BY DEF BrAts
    <2> QED
      BY <1>0, <1>1, <2>1, BrToIs
  <1>10. /\ DOMAIN brOpen' = {p \in DOMAIN brOpen : brOpen[p] # brReq[a].s}
         /\ \A p \in DOMAIN brOpen' : brOpen'[p] = brOpen[p]
    BY <1>1 DEF BrLess, BrPagesOf
  <1>3. BrTyped'
    BY <1>0, <1>1, <1>2, BrOwners, BrAssumption DEF BrTyped, BrWith, BrLess
  <1>4. BrTypeOK'
    BY <1>0, <1>1, <1>2, <1>10 DEF BrTypeOK
  <1>5. BrPlaced'
    BY <1>0, <1>1, <1>2, BrOwners, BrAssumption DEF BrPlaced, BrWith, BrLess
  <1>6. BrOwned'
    <2>1. \A b \in BrUser : brReq'[b].page = 0 \/ BrRefers(brReq'[b].page, brReq'[b].s)
      BY <1>1, <1>2 DEF BrRefers
    <2>2. \A p \in DOMAIN brOpen' : BrRefers(p, brOpen'[p])
      BY <1>10 DEF BrRefers
    <2>3. \A t \in DOMAIN brTable' : brTable'[t] = 0 \/ BrRefers(brTable'[t], t)
      BY <1>1 DEF BrRefers, BrLess, BrWith
    <2> QED
      BY <1>0, <2>1, <2>2, <2>3, BrOwnedKept
  <1>7. BrClosedIsClosed'
    <2>1. brContext' \subseteq DOMAIN brTable'
      BY <1>0, <1>1 DEF BrClosedIsClosed
    <2>2. \A p \in DOMAIN brOpen' : brOpen'[p] \in brContext'
      BY <1>0, <1>1, <1>10 DEF BrClosedIsClosed
    <2>3. \A t \in DOMAIN brBrowser' \ DOMAIN brTable' : t \in brTouched' \/ \E b \in BrUser : brReq'[b].s = t /\ brReq'[b].at = "context"
      BY <1>0, <1>1, <1>2 DEF BrClosedIsClosed, BrAt
    <2> QED
      BY <2>1, <2>2, <2>3 DEF BrClosedIsClosed, BrAt
  <1>8. BrListedRuns'
    BY <1>0, <1>1, <1>2, <1>10, BrOwners DEF BrListedRuns, BrBusyWith
  <1>9. BrDriverRuns'
    BY <1>0, <1>1, <1>2, BrOwners, BrAssumption DEF BrDriverRuns, BrWith, BrLess
  <1> QED
    BY <1>3, <1>4, <1>5, <1>6, <1>7, <1>8, <1>9 DEF BrInv

\* It closes the browser, takes the session out and releases the lock.
LEMMA BrCloseBrowserHolds ==
  ASSUME BrInv, NEW a \in BrUser, BrCloseBrowser(a)
  PROVE  BrInv'
  <1>0. BrTyped /\ BrTypeOK /\ BrPlaced /\ BrOwned /\ BrClosedIsClosed /\ BrListedRuns /\ BrDriverRuns
    BY DEF BrInv
  <1>1. /\ brReq[a].at = "close_browser" /\ brBrowser' = BrLess(brBrowser, {brReq[a].s})
        /\ brTable' = BrLess(brTable, {brReq[a].s}) /\ brLock' = BrNobody /\ BrReturn(a)
        /\ brDriver' = brDriver /\ brRunning' = brRunning /\ brContext' = brContext /\ brOpen' = brOpen /\ brTouched' = brTouched
    BY DEF BrCloseBrowser, BrAt
  <1>2. /\ brReq' \in [BrUser -> BrRequest] /\ brReq'[a].at = "idle" /\ brReq'[a].s = BrNobody
        /\ brReq'[a].page = 0 /\ \A b \in BrUser \ {a} : brReq'[b] = brReq[b]
    BY <1>0, <1>1, BrReturnIs
  <1>10. /\ DOMAIN brTable' = DOMAIN brTable \ {brReq[a].s} /\ \A t \in DOMAIN brTable' : brTable'[t] = brTable[t]
         /\ DOMAIN brBrowser' = DOMAIN brBrowser \ {brReq[a].s}
    BY <1>1 DEF BrLess
  <1>3. BrTyped'
    BY <1>0, <1>2, <1>10 DEF BrTyped
  <1>4. BrTypeOK'
    BY <1>0, <1>1, <1>2, <1>10, BrAssumption DEF BrTypeOK, BrPlaced
  <1>5. BrPlaced'
    BY <1>0, <1>1, <1>2, <1>10, BrAssumption DEF BrPlaced
  <1>6. BrOwned'
    <2>1. \A b \in BrUser : brReq'[b].page = 0 \/ BrRefers(brReq'[b].page, brReq'[b].s)
      BY <1>1, <1>2 DEF BrRefers
    <2>2. \A p \in DOMAIN brOpen' : BrRefers(p, brOpen'[p])
      BY <1>1 DEF BrRefers, BrLess, BrWith
    <2>3. \A t \in DOMAIN brTable' : brTable'[t] = 0 \/ BrRefers(brTable'[t], t)
      BY <1>10 DEF BrRefers
    <2> QED
      BY <1>0, <2>1, <2>2, <2>3, BrOwnedKept
  <1>7. BrClosedIsClosed'
    BY <1>0, <1>1, <1>2, <1>10 DEF BrClosedIsClosed, BrAt, BrPlaced
  <1>8. BrListedRuns'
    <2> SUFFICES ASSUME NEW t \in (DOMAIN brTable \ brTouched)'
                 PROVE  /\ t \in DOMAIN brBrowser'
                        /\ t \in brContext' \/ BrBusyWith(t, {"close_browser"})'
                        /\ \/ brTable'[t] \in DOMAIN brOpen' \cup {0}
                           \/ BrBusyWith(t, {"open_new", "open_goto", "close_context", "close_browser"})'
      BY DEF BrListedRuns
    <2>1. t # brReq[a].s /\ t \in DOMAIN brTable \ brTouched /\ brTable'[t] = brTable[t]
      BY <1>1, <1>10
    <2>2. \A b \in BrUser : brReq[b].s = t => brReq'[b] = brReq[b]
      BY <1>2, <2>1
    <2>3. t \in DOMAIN brBrowser'
      BY <1>0, <1>10, <2>1 DEF BrListedRuns
    <2>4. t \in brContext' \/ BrBusyWith(t, {"close_browser"})'
      BY <1>0, <1>1, <2>1, <2>2 DEF BrListedRuns, BrBusyWith
    <2>5. \/ brTable'[t] \in DOMAIN brOpen' \cup {0}
          \/ BrBusyWith(t, {"open_new", "open_goto", "close_context", "close_browser"})'
      BY <1>0, <1>1, <2>1, <2>2 DEF BrListedRuns, BrBusyWith
    <2> QED
      BY <2>3, <2>4, <2>5
  <1>9. BrDriverRuns'
    BY <1>0, <1>1, <1>2, BrOwners, BrAssumption DEF BrDriverRuns, BrWith, BrLess
  <1> QED
    BY <1>3, <1>4, <1>5, <1>6, <1>7, <1>8, <1>9 DEF BrInv

\* stop is called.
LEMMA BrStopHolds ==
  ASSUME BrInv, NEW a \in BrUser, BrStop(a)
  PROVE  BrInv'
  <1>0. BrTyped /\ BrTypeOK /\ BrPlaced /\ BrOwned /\ BrClosedIsClosed /\ BrListedRuns /\ BrDriverRuns
    BY DEF BrInv
  <1>1. /\ brReq[a].at = "idle" /\ BrTo(a, "stop_lock")
        /\ brDriver' = brDriver /\ brRunning' = brRunning /\ brTable' = brTable /\ brBrowser' = brBrowser /\ brContext' = brContext /\ brOpen' = brOpen /\ brLock' = brLock /\ brTouched' = brTouched
    BY DEF BrStop, BrAt
  <1>2. /\ brReq' \in [BrUser -> BrRequest] /\ brReq'[a].at = "stop_lock" /\ brReq'[a].s = brReq[a].s
        /\ brReq'[a].page = brReq[a].page /\ \A b \in BrUser \ {a} : brReq'[b] = brReq[b]
    <2>1. "stop_lock" \in BrAts
      BY DEF BrAts
    <2> QED
      BY <1>0, <1>1, <2>1, BrToIs
  <1>3. BrTyped'
    BY <1>0, <1>1, <1>2, BrOwners, BrAssumption DEF BrTyped, BrWith, BrLess
  <1>4. BrTypeOK'
    BY <1>0, <1>1, <1>2, BrOwners, BrAssumption DEF BrTypeOK, BrTyped, BrRequest, BrWith, BrLess
  <1>5. BrPlaced'
    BY <1>0, <1>1, <1>2, BrOwners, BrAssumption DEF BrPlaced, BrWith, BrLess
  <1>6. BrOwned'
    <2>1. \A b \in BrUser : brReq'[b].page = 0 \/ BrRefers(brReq'[b].page, brReq'[b].s)
      BY <1>1, <1>2 DEF BrRefers
    <2>2. \A p \in DOMAIN brOpen' : BrRefers(p, brOpen'[p])
      BY <1>1 DEF BrRefers, BrLess, BrWith
    <2>3. \A t \in DOMAIN brTable' : brTable'[t] = 0 \/ BrRefers(brTable'[t], t)
      BY <1>1 DEF BrRefers, BrLess, BrWith
    <2> QED
      BY <1>0, <2>1, <2>2, <2>3, BrOwnedKept
  <1>7. BrClosedIsClosed'
    BY <1>0, <1>1, <1>2, BrOwners, BrAssumption DEF BrClosedIsClosed, BrAt, BrPlaced, BrWith, BrLess
  <1>8. BrListedRuns'
    BY <1>0, <1>1, <1>2, BrOwners, BrAssumption DEF BrListedRuns, BrBusyWith, BrTyped, BrWith, BrLess
  <1>9. BrDriverRuns'
    BY <1>0, <1>1, <1>2, BrOwners, BrAssumption DEF BrDriverRuns, BrWith, BrLess
  <1> QED
    BY <1>3, <1>4, <1>5, <1>6, <1>7, <1>8, <1>9 DEF BrInv

\* stop has the lock.
LEMMA BrStopHeldHolds ==
  ASSUME BrInv, NEW a \in BrUser, NEW at \in {"stuck", "stop_driver"}, NEW d, d = brDriver,
         brReq[a].at = "stop_lock", brLock = BrNobody, brLock' = a,
         brReq' = [brReq EXCEPT ![a].at = at, ![a].driver = d],
         UNCHANGED <<brDriver, brRunning, brTable, brBrowser, brContext, brOpen, brTouched>>
  PROVE  BrInv'
  <1>0. BrTyped /\ BrTypeOK /\ BrPlaced /\ BrOwned /\ BrClosedIsClosed /\ BrListedRuns /\ BrDriverRuns
    BY DEF BrInv
  <1>1. brDriver' = brDriver /\ brRunning' = brRunning /\ brTable' = brTable /\ brBrowser' = brBrowser /\ brContext' = brContext /\ brOpen' = brOpen /\ brTouched' = brTouched
    OBVIOUS
  <1>20. at \in BrAts /\ d \in 0..BrDrivers
    BY <1>0 DEF BrAts, BrTypeOK
  <1>2. /\ brReq' \in [BrUser -> BrRequest] /\ brReq'[a].at = at /\ brReq'[a].s = brReq[a].s
        /\ brReq'[a].page = brReq[a].page /\ \A b \in BrUser \ {a} : brReq'[b] = brReq[b]
    <2> DEFINE w == [brReq[a] EXCEPT !.at = at, !.driver = d]
    <2>1. brReq' = [brReq EXCEPT ![a] = w]
      BY <1>0 DEF BrTyped
    <2>2. w \in BrRequest /\ w.at = at /\ w.s = brReq[a].s /\ w.page = brReq[a].page
      BY <1>0, <1>20 DEF BrTyped, BrRequest
    <2> HIDE DEF w
    <2>3. brReq' \in [BrUser -> BrRequest] /\ brReq'[a] = w /\ \A b \in BrUser \ {a} : brReq'[b] = brReq[b]
      BY <1>0, <2>1, <2>2, BrReqIs
    <2> QED
      BY <2>2, <2>3
  <1>3. BrTyped'
    BY <1>0, <1>1, <1>2, BrOwners, BrAssumption DEF BrTyped, BrWith, BrLess
  <1>4. BrTypeOK'
    BY <1>0, <1>1, <1>2, BrOwners, BrAssumption DEF BrTypeOK, BrTyped, BrRequest, BrWith, BrLess
  <1>5. BrPlaced'
    BY <1>0, <1>1, <1>2, BrOwners, BrAssumption DEF BrPlaced, BrWith, BrLess
  <1>6. BrOwned'
    <2>1. \A b \in BrUser : brReq'[b].page = 0 \/ BrRefers(brReq'[b].page, brReq'[b].s)
      BY <1>1, <1>2 DEF BrRefers
    <2>2. \A p \in DOMAIN brOpen' : BrRefers(p, brOpen'[p])
      BY <1>1 DEF BrRefers, BrLess, BrWith
    <2>3. \A t \in DOMAIN brTable' : brTable'[t] = 0 \/ BrRefers(brTable'[t], t)
      BY <1>1 DEF BrRefers, BrLess, BrWith
    <2> QED
      BY <1>0, <2>1, <2>2, <2>3, BrOwnedKept
  <1>7. BrClosedIsClosed'
    BY <1>0, <1>1, <1>2, BrOwners, BrAssumption DEF BrClosedIsClosed, BrAt, BrPlaced, BrWith, BrLess
  <1>8. BrListedRuns'
    BY <1>0, <1>1, <1>2, BrOwners, BrAssumption DEF BrListedRuns, BrBusyWith, BrTyped, BrWith, BrLess
  <1>9. BrDriverRuns'
    BY <1>0, <1>1, <1>2, BrOwners, BrAssumption DEF BrDriverRuns, BrWith, BrLess
  <1> QED
    BY <1>3, <1>4, <1>5, <1>6, <1>7, <1>8, <1>9 DEF BrInv

\* stop gets the lock.
LEMMA BrStopLockedHolds ==
  ASSUME BrInv, NEW a \in BrUser, BrStopLocked(a)
  PROVE  BrInv'
  <1>1. CASE brTable # << >> \/ brDriver # 0
    <2> DEFINE d == brDriver
    <2> DEFINE at == IF brTable # << >> THEN "stuck" ELSE "stop_driver"
    <2>1. /\ brLock = BrNobody /\ brLock' = a /\ brReq[a].at = "stop_lock"
          /\ brReq' = [brReq EXCEPT ![a].at = at, ![a].driver = d]
      BY <1>1 DEF BrStopLocked, BrAt
    <2>2. UNCHANGED <<brDriver, brRunning, brTable, brBrowser, brContext, brOpen, brTouched>>
      BY DEF BrStopLocked
    <2>3. at \in {"stuck", "stop_driver"} /\ d = brDriver
      OBVIOUS
    <2> HIDE DEF at, d
    <2> QED
      BY <2>1, <2>2, <2>3, BrStopHeldHolds
  <1>2. CASE ~(brTable # << >> \/ brDriver # 0)
    <2>1. brReq[a].at \in {"close_lock", "stop_lock"} /\ BrReturn(a)
      BY <1>2 DEF BrStopLocked, BrAt
    <2>2. UNCHANGED <<brDriver, brRunning, brTable, brBrowser, brContext, brOpen, brLock, brTouched>>
      BY <1>2 DEF BrStopLocked
    <2> QED
      BY <2>1, <2>2, BrReturnHolds
  <1> QED
    BY <1>1, <1>2

\* The driver ends, and with it what it launched.
LEMMA BrDriverStoppedHolds ==
  ASSUME BrInv, NEW a \in BrUser, BrDriverStopped(a)
  PROVE  BrInv'
  <1>0. BrTyped /\ BrTypeOK /\ BrPlaced /\ BrOwned /\ BrClosedIsClosed /\ BrListedRuns /\ BrDriverRuns
    BY DEF BrInv
  <1> DEFINE its == {s \in DOMAIN brBrowser : brBrowser[s] = brReq[a].driver}
  <1>1. /\ brReq[a].at = "stop_driver" /\ brRunning' = brRunning \ {brReq[a].driver} /\ brDriver' = 0
        /\ brBrowser' = BrLess(brBrowser, its) /\ brContext' = brContext \ its
        /\ brOpen' = BrLess(brOpen, BrPagesOf(its)) /\ brTouched' = brTouched \cup its /\ brLock' = BrNobody
        /\ BrReturn(a) /\ brTable' = brTable
    BY DEF BrDriverStopped, BrAt
  <1>20. its \subseteq DOMAIN brBrowser
    OBVIOUS
  <1> HIDE DEF its
  <1>2. /\ brReq' \in [BrUser -> BrRequest] /\ brReq'[a].at = "idle" /\ brReq'[a].s = BrNobody
        /\ brReq'[a].page = 0 /\ \A b \in BrUser \ {a} : brReq'[b] = brReq[b]
    BY <1>0, <1>1, BrReturnIs
  <1>10. /\ DOMAIN brOpen' = {p \in DOMAIN brOpen : brOpen[p] \notin its}
         /\ \A p \in DOMAIN brOpen' : brOpen'[p] = brOpen[p]
         /\ DOMAIN brBrowser' = DOMAIN brBrowser \ its
    BY <1>1 DEF BrLess, BrPagesOf
  <1>3. BrTyped'
    BY <1>0, <1>1, <1>2, BrOwners, BrAssumption DEF BrTyped, BrWith, BrLess
  <1>4. BrTypeOK'
    <2>1. \A b \in BrUser : brReq'[b].at # "stuck"
      <3>1. brLock = a
        BY <1>0, <1>1 DEF BrPlaced
      <3> QED
        BY <1>0, <1>2, <3>1 DEF BrTypeOK
    <2>2. brDriver' \in 0..BrDrivers
      BY <1>1, BrAssumption
    <2>3. brRunning' \subseteq 1..BrDrivers /\ DOMAIN brTable' \subseteq BrSession
      BY <1>0, <1>1 DEF BrTypeOK
    <2>4. DOMAIN brBrowser' \subseteq BrSession /\ DOMAIN brOpen' \subseteq 1..BrPages
      BY <1>0, <1>10 DEF BrTypeOK
    <2>5. brTouched' \subseteq BrSession
      BY <1>0, <1>1, <1>20 DEF BrTypeOK
    <2> QED
      BY <2>1, <2>2, <2>3, <2>4, <2>5 DEF BrTypeOK
  <1>5. BrPlaced'
    BY <1>0, <1>1, <1>2, BrOwners, BrAssumption DEF BrPlaced, BrWith, BrLess
  <1>6. BrOwned'
    <2>1. \A b \in BrUser : brReq'[b].page = 0 \/ BrRefers(brReq'[b].page, brReq'[b].s)
      BY <1>1, <1>2 DEF BrRefers
    <2>2. \A p \in DOMAIN brOpen' : BrRefers(p, brOpen'[p])
      BY <1>10 DEF BrRefers
    <2>3. \A t \in DOMAIN brTable' : brTable'[t] = 0 \/ BrRefers(brTable'[t], t)
      BY <1>1 DEF BrRefers, BrLess, BrWith
    <2> QED
      BY <1>0, <2>1, <2>2, <2>3, BrOwnedKept
  <1>7. BrClosedIsClosed'
    <2>1. brContext' \subseteq DOMAIN brTable'
      BY <1>0, <1>1 DEF BrClosedIsClosed
    <2>2. \A p \in DOMAIN brOpen' : brOpen'[p] \in brContext'
      BY <1>0, <1>1, <1>10 DEF BrClosedIsClosed
    <2>3. \A t \in DOMAIN brBrowser' \ DOMAIN brTable' : t \in brTouched' \/ \E b \in BrUser : brReq'[b].s = t /\ brReq'[b].at = "context"
      BY <1>0, <1>1, <1>2, <1>10 DEF BrClosedIsClosed, BrAt
    <2> QED
      BY <2>1, <2>2, <2>3 DEF BrClosedIsClosed, BrAt
  <1>8. BrListedRuns'
    <2> SUFFICES ASSUME NEW t \in (DOMAIN brTable \ brTouched)'
                 PROVE  /\ t \in DOMAIN brBrowser'
                        /\ t \in brContext' \/ BrBusyWith(t, {"close_browser"})'
                        /\ \/ brTable'[t] \in DOMAIN brOpen' \cup {0}
                           \/ BrBusyWith(t, {"open_new", "open_goto", "close_context", "close_browser"})'
      BY DEF BrListedRuns
    <2>1. t \in DOMAIN brTable \ brTouched /\ t \notin its /\ brTable'[t] = brTable[t]
      BY <1>1
    <2>2. \A b \in BrUser : brReq[b].s = t => brReq'[b] = brReq[b]
      BY <1>0, <1>1, <1>2, <2>1, BrAssumption DEF BrPlaced, BrTypeOK
    <2>3. t \in DOMAIN brBrowser'
      BY <1>0, <1>10, <2>1 DEF BrListedRuns
    <2>4. t \in brContext' \/ BrBusyWith(t, {"close_browser"})'
      BY <1>0, <1>1, <2>1, <2>2 DEF BrListedRuns, BrBusyWith
    <2>5. \/ brTable'[t] \in DOMAIN brOpen' \cup {0}
          \/ BrBusyWith(t, {"open_new", "open_goto", "close_context", "close_browser"})'
      BY <1>0, <1>10, <2>1, <2>2, BrOwners DEF BrListedRuns, BrBusyWith
    <2> QED
      BY <2>3, <2>4, <2>5
  <1>9. BrDriverRuns'
    BY <1>1 DEF BrDriverRuns
  <1> QED
    BY <1>3, <1>4, <1>5, <1>6, <1>7, <1>8, <1>9 DEF BrInv

\* A call of Playwright raises, and the lock is released.
LEMMA BrRaisesHolds ==
  ASSUME BrInv, NEW a \in BrUser, BrRaises(a)
  PROVE  BrInv'
  <1>0. BrTyped /\ BrTypeOK /\ BrPlaced /\ BrOwned /\ BrClosedIsClosed /\ BrListedRuns /\ BrDriverRuns
    BY DEF BrInv
  <1>1. /\ brReq[a].at \notin {"idle", "close_lock", "stop_lock", "stuck"}
        /\ brLock' = (IF brLock = a THEN BrNobody ELSE brLock)
        /\ brTouched' = (IF brReq[a].s = BrNobody THEN brTouched ELSE brTouched \cup {brReq[a].s})
        /\ BrReturn(a) /\ brDriver' = brDriver /\ brRunning' = brRunning /\ brTable' = brTable /\ brBrowser' = brBrowser /\ brContext' = brContext /\ brOpen' = brOpen
    BY DEF BrRaises, BrAt
  <1>2. /\ brReq' \in [BrUser -> BrRequest] /\ brReq'[a].at = "idle" /\ brReq'[a].s = BrNobody
        /\ brReq'[a].page = 0 /\ \A b \in BrUser \ {a} : brReq'[b] = brReq[b]
    BY <1>0, <1>1, BrReturnIs
  <1>3. BrTyped'
    BY <1>0, <1>1, <1>2, BrOwners, BrAssumption DEF BrTyped, BrWith, BrLess
  <1>4. BrTypeOK'
    BY <1>0, <1>1, <1>2, BrAssumption, BrOwners DEF BrTypeOK, BrTyped, BrRequest
  <1>5. BrPlaced'
    BY <1>0, <1>1, <1>2, BrOwners, BrAssumption DEF BrPlaced, BrWith, BrLess
  <1>6. BrOwned'
    <2>1. \A b \in BrUser : brReq'[b].page = 0 \/ BrRefers(brReq'[b].page, brReq'[b].s)
      BY <1>1, <1>2 DEF BrRefers
    <2>2. \A p \in DOMAIN brOpen' : BrRefers(p, brOpen'[p])
      BY <1>1 DEF BrRefers, BrLess, BrWith
    <2>3. \A t \in DOMAIN brTable' : brTable'[t] = 0 \/ BrRefers(brTable'[t], t)
      BY <1>1 DEF BrRefers, BrLess, BrWith
    <2> QED
      BY <1>0, <2>1, <2>2, <2>3, BrOwnedKept
  <1>7. BrClosedIsClosed'
    BY <1>0, <1>1, <1>2, BrAssumption DEF BrClosedIsClosed, BrAt, BrPlaced, BrTypeOK
  <1>8. BrListedRuns'
    BY <1>0, <1>1, <1>2, BrOwners, BrAssumption DEF BrListedRuns, BrBusyWith, BrTyped, BrWith, BrLess
  <1>9. BrDriverRuns'
    BY <1>0, <1>1, <1>2, BrOwners, BrAssumption DEF BrDriverRuns, BrWith, BrLess
  <1> QED
    BY <1>3, <1>4, <1>5, <1>6, <1>7, <1>8, <1>9 DEF BrInv

\* Every step of every request keeps it.
LEMMA BrHolds == BrInv /\ [BrNext]_brVars => BrInv'
  <1> SUFFICES ASSUME BrInv, [BrNext]_brVars PROVE BrInv'
    OBVIOUS
  <1>1. CASE BrNext
    <2>1. PICK a \in BrUser :
            \/ BrStep(a) \/ BrStop(a) \/ BrLaunch(a)
            \/ \E s \in BrSession : BrOpenPage(a, s) \/ BrClose(a, s)
      BY <1>1 DEF BrNext
    <2>2. CASE BrStep(a)
      BY <2>2, BrStartedHolds, BrLaunchedHolds, BrContextMadeHolds, BrPageClosedHolds, BrNewPageHolds, BrWentToHolds,
         BrCloseLockedHolds, BrClosePageHolds, BrCloseContextHolds, BrCloseBrowserHolds, BrStopLockedHolds,
         BrDriverStoppedHolds, BrRaisesHolds DEF BrStep
    <2>3. CASE BrStop(a)
      BY <2>3, BrStopHolds
    <2>4. CASE BrLaunch(a)
      BY <2>4, BrLaunchHolds
    <2>5. CASE \E s \in BrSession : BrOpenPage(a, s) \/ BrClose(a, s)
      BY <2>5, BrOpenPageHolds, BrCloseHolds
    <2> QED
      BY <2>1, <2>2, <2>3, <2>4, <2>5
  <1>2. CASE UNCHANGED brVars
    BY <1>2 DEF brVars, BrInv, BrTyped, BrTypeOK, BrPlaced, BrOwned, BrRefers, BrClosedIsClosed, BrAt, BrListedRuns,
       BrBusyWith, BrDriverRuns
  <1> QED
    BY <1>1, <1>2

\* Whatever is launched, opened, closed and stopped at once, what is closed is closed, a
\* listed session runs, and so does the driver that the tool launches with
\* (tools/browser/tool.py).
THEOREM BrowsersAreSound == BrInit /\ [][BrNext]_brVars => [](BrTypeOK /\ BrSound)
  <1>1. BrInv => BrTypeOK /\ BrSound
    BY DEF BrInv, BrSound
  <1> QED
    BY <1>1, BrBegins, BrHolds, PTL

-----------------------------------------------------------------------------
\* Tools.

\* The calls of tools.
TtCalls ==
  [TtCaller -> [name : TtName \cup {TtNobody}, type : {"none", "native", "function", "mcp"},
                by : TtServer \cup {TtNobody, "native", "function"},
                at : {"idle", "called", "success", "failed", "timeout"}]]

\* The program's names are in the table of tools as they were put there; a server has the
\* names it offers while it is up, and what is served of a name is up and offers it.
TtInv ==
  /\ TtTypeOK /\ ttCall \in TtCalls
  /\ ttUp \subseteq TtServer
  /\ \A n \in TtNative : ttTable[n] = "native"
  /\ \A n \in TtName \ TtNative : ttTable[n] # "native"
  /\ \A n \in TtFunction \ TtNative : ttTable[n] = TtNobody
  /\ \A n \in TtName : ttTable[n] \in TtServer => n \in TtOffers[ttTable[n]]
  /\ ttOwned = [s \in TtServer |-> IF s \in ttUp THEN TtOffers[s] ELSE {}]
  /\ \A n \in TtName : ttServed[n] \in TtServer => ttServed[n] \in ttUp /\ n \in TtOffers[ttServed[n]]
  /\ \A s \in ttUp : \A n \in TtOffers[s] \ ttTaken : ttServed[n] # TtNobody

\* The program's tools have names.
LEMMA TtNames == /\ TtNative \subseteq TtName /\ TtFunction \subseteq TtName
                 /\ \A s \in TtServer : TtOffers[s] \subseteq TtName
  BY DEF TtName

\* Where a call goes by the type that the loop finds.
LEMMA TtGoes ==
  ASSUME TtInv, NEW n \in TtName
  PROVE  TtReached(n) = IF n \in TtNative THEN "native" ELSE IF n \in TtFunction THEN "function" ELSE ttServed[n]
  <1>1. ttTable[n] \in TtServer \cup {TtNobody, "native"}
    BY DEF TtInv, TtTypeOK
  <1>2. CASE n \in TtNative
    BY <1>2, TtAssumption DEF TtInv, TtReached, TtTakes, TtType
  <1>3. CASE n \in TtFunction \ TtNative
    BY <1>3, TtAssumption DEF TtInv, TtReached, TtTakes, TtType
  <1>4. CASE n \notin TtNative \cup TtFunction
    BY <1>1, <1>4, TtAssumption DEF TtInv, TtReached, TtTakes, TtType
  <1> QED
    BY <1>2, <1>3, <1>4

\* What the run checks follows.
LEMMA TtIsSound == TtInv => TtTypeOK /\ TtSound
  <1> SUFFICES ASSUME TtInv PROVE TtOnePlace /\ TtReachable /\ TtListed
    BY DEF TtInv, TtSound
  <1>0. ttServed \in [TtName -> TtServer \cup {TtNobody}] /\ ttTable \in [TtName -> TtServer \cup {TtNobody, "native"}]
    BY DEF TtInv, TtTypeOK
  <1>1. TtOnePlace
    BY TtGoes DEF TtOnePlace
  <1>2. TtReachable
    <2> SUFFICES ASSUME NEW s \in ttUp, NEW n \in TtOffers[s] \ (TtNative \cup TtFunction \cup ttTaken)
                 PROVE  TtReached(n) \in ttUp /\ n \in TtOffers[TtReached(n)]
      BY DEF TtReachable
    <2>1. n \in TtName /\ s \in TtServer
      BY TtNames DEF TtInv
    <2>2. TtReached(n) = ttServed[n]
      BY <2>1, TtGoes
    <2>3. ttServed[n] # TtNobody
      BY DEF TtInv
    <2> QED
      BY <1>0, <2>1, <2>2, <2>3 DEF TtInv
  <1>3. TtListed
    <2> SUFFICES ASSUME NEW n \in TtName
                 PROVE  /\ TtReached(n) \in TtServer => TtReached(n) \in ttUp
                        /\ ttTable[n] \in TtServer => n \notin TtNative \cup TtFunction /\ n \in TtOffers[ttTable[n]]
      BY DEF TtListed
    <2>1. TtReached(n) \in TtServer => TtReached(n) = ttServed[n]
      BY TtGoes, TtAssumption
    <2> QED
      BY <2>1, TtAssumption DEF TtInv
  <1> QED
    BY <1>1, <1>2, <1>3

\* At the start the tables hold what the program registers.
LEMMA TtBegins == TtInit => TtInv
  <1> SUFFICES ASSUME TtInit PROVE TtInv
    OBVIOUS
  <1>1. TtTypeOK
    BY DEF TtInit, TtTypeOK, TtNoCall
  <1>2. ttCall \in TtCalls
    BY DEF TtInit, TtCalls, TtNoCall
  <1> QED
    BY <1>1, <1>2, TtAssumption, TtNames DEF TtInit, TtInv

\* A server comes up with the names it offers.
LEMMA TtUpHolds ==
  ASSUME TtInv, NEW s \in TtServer, TtUp(s)
  PROVE  TtInv'
  <1>1. /\ s \notin ttUp /\ ttUp' = ttUp \cup {s}
        /\ ttServed' = [n \in TtName |-> IF n \in TtOffers[s] THEN s ELSE ttServed[n]]
        /\ ttOwned' = [ttOwned EXCEPT ![s] = @ \cup TtOffers[s]]
        /\ ttTaken' = ttTaken \ TtOffers[s]
        /\ ttTable' = ttTable /\ ttReady' = ttReady /\ ttCall' = ttCall
    BY DEF TtUp
  <1>2. TtTypeOK'
    BY <1>1 DEF TtInv, TtTypeOK
  <1>3. ttOwned' = [r \in TtServer |-> IF r \in ttUp' THEN TtOffers[r] ELSE {}]
    BY <1>1 DEF TtInv
  <1>4. \A n \in TtName : ttServed'[n] \in TtServer => ttServed'[n] \in ttUp' /\ n \in TtOffers[ttServed'[n]]
    BY <1>1 DEF TtInv
  <1>5. ASSUME NEW r \in ttUp', NEW n \in TtOffers[r] \ ttTaken' PROVE ttServed'[n] # TtNobody
    <2>1. n \in TtName
      BY <1>1, TtNames DEF TtInv
    <2> QED
      BY <1>1, <2>1, TtAssumption DEF TtInv
  <1> QED
    BY <1>1, <1>2, <1>3, <1>4, <1>5 DEF TtInv

\* A server goes, and its names with it.
LEMMA TtDownHolds ==
  ASSUME TtInv, NEW s \in TtServer, TtDown(s)
  PROVE  TtInv'
  <1>1. /\ s \in ttUp /\ ttUp' = ttUp \ {s} /\ ttOwned[s] = TtOffers[s]
        /\ ttServed' = [n \in TtName |-> IF n \in TtOffers[s] THEN TtNobody ELSE ttServed[n]]
        /\ ttOwned' = [ttOwned EXCEPT ![s] = {}]
        /\ ttTaken' = ttTaken \cup {n \in TtOffers[s] : \E r \in ttUp \ {s} : n \in TtOffers[r]}
        /\ ttTable' = ttTable /\ ttReady' = ttReady /\ ttCall' = ttCall
    BY DEF TtDown, TtInv
  <1>2. TtTypeOK'
    BY <1>1 DEF TtInv, TtTypeOK
  <1>3. ttOwned' = [r \in TtServer |-> IF r \in ttUp' THEN TtOffers[r] ELSE {}]
    BY <1>1 DEF TtInv
  <1>4. \A n \in TtName : ttServed'[n] \in TtServer => ttServed'[n] \in ttUp' /\ n \in TtOffers[ttServed'[n]]
    BY <1>1, TtAssumption DEF TtInv
  <1>5. ASSUME NEW r \in ttUp', NEW n \in TtOffers[r] \ ttTaken' PROVE ttServed'[n] # TtNobody
    <2>1. n \in TtName /\ n \notin TtOffers[s]
      BY <1>1, TtNames DEF TtInv
    <2> QED
      BY <1>1, <2>1 DEF TtInv
  <1> QED
    BY <1>1, <1>2, <1>3, <1>4, <1>5 DEF TtInv

\* Every step keeps it.
LEMMA TtHolds == TtInv /\ [TtNext]_ttVars => TtInv'
  <1> SUFFICES ASSUME TtInv, [TtNext]_ttVars PROVE TtInv'
    OBVIOUS
  <1>1. ASSUME NEW s \in TtServer, TtUp(s) \/ TtDown(s) PROVE TtInv'
    BY <1>1, TtUpHolds, TtDownHolds
  <1>2. CASE TtSync
    <2>1. /\ ttTable' = [n \in TtName |-> IF ttTable[n] = TtNobody /\ n \notin TtFunction THEN ttServed[n] ELSE ttTable[n]]
          /\ ttUp' = ttUp /\ ttServed' = ttServed /\ ttOwned' = ttOwned /\ ttCall' = ttCall /\ ttTaken' = ttTaken
      BY <1>2 DEF TtSync
    <2>2. TtTypeOK'
      BY <2>1 DEF TtInv, TtTypeOK
    <2>3. /\ \A n \in TtNative : ttTable'[n] = "native"
          /\ \A n \in TtName \ TtNative : ttTable'[n] # "native"
          /\ \A n \in TtFunction \ TtNative : ttTable'[n] = TtNobody
          /\ \A n \in TtName : ttTable'[n] \in TtServer => n \in TtOffers[ttTable'[n]]
      BY <2>1, TtNames, TtAssumption DEF TtInv, TtTypeOK
    <2> QED
      BY <2>1, <2>2, <2>3 DEF TtInv
  <1>3. ASSUME NEW c \in TtCaller, TtEnds(c) \/ \E n \in TtName : TtInvoke(c, n) PROVE TtInv'
    <2>1. /\ ttTable' = ttTable /\ ttUp' = ttUp /\ ttServed' = ttServed /\ ttOwned' = ttOwned /\ ttTaken' = ttTaken
      BY <1>3 DEF TtEnds, TtInvoke
    <2>2. ttCall' \in TtCalls
      <3>1. ASSUME NEW end \in {"success", "failed", "timeout"}, ttCall' = [ttCall EXCEPT ![c].at = end]
            PROVE  ttCall' \in TtCalls
        BY <3>1 DEF TtInv, TtCalls
      <3>2. ASSUME NEW n \in TtName, TtInvoke(c, n) PROVE ttCall' \in TtCalls
        <4> DEFINE by == TtTakes(n, TtType(n))
                   r == [name |-> n, type |-> TtType(n), by |-> by, at |-> IF by = TtNobody THEN "failed" ELSE "called"]
        <4>1. by = TtReached(n)
          BY DEF TtReached
        <4>2. by \in TtServer \cup {TtNobody, "native", "function"}
          BY <4>1, TtGoes DEF TtInv, TtTypeOK
        <4>3. TtType(n) \in {"none", "native", "function", "mcp"}
          BY DEF TtType
        <4>4. ttCall' = [ttCall EXCEPT ![c] = r]
          BY <3>2 DEF TtInvoke
        <4> HIDE DEF by
        <4> QED
          BY <4>2, <4>3, <4>4 DEF TtInv, TtCalls
      <3> QED
        BY <1>3, <3>1, <3>2 DEF TtEnds
    <2>3. TtTypeOK'
      BY <2>1, <2>2 DEF TtInv, TtTypeOK, TtCalls
    <2> QED
      BY <2>1, <2>2, <2>3 DEF TtInv
  <1>4. CASE UNCHANGED ttVars
    <2>1. TtTypeOK'
      BY <1>4 DEF TtInv, TtTypeOK, ttVars
    <2> QED
      BY <1>4, <2>1 DEF TtInv, ttVars
  <1> QED
    BY <1>1, <1>2, <1>3, <1>4 DEF TtNext

\* For any servers, whatever they offer and whenever they come and go: a name is reached
\* in one place, and at a server that is up.
THEOREM ToolsAreReached == TtInit /\ [][TtNext]_ttVars => [](TtTypeOK /\ TtSound)
  <1>1. TtInit => TtInv
    BY TtBegins
  <1>2. TtInv /\ [TtNext]_ttVars => TtInv'
    BY TtHolds
  <1>3. TtInv => TtTypeOK /\ TtSound
    BY TtIsSound
  <1> QED
    BY <1>1, <1>2, <1>3, PTL

-----------------------------------------------------------------------------
\* The specification that the run checks: one component moves, the others rest.

\* The invariants of the components, whichever of them moves.
AgentsInv ==
  part \in Parts /\ PtInv /\ WfInv /\ AlInv /\ ImInv /\ BcInv /\ MrInv /\ PgInv /\ AgInv /\ BrInv /\ TtInv

\* Each component starts with its invariant.
LEMMA AgentsBegin == Init => AgentsInv
  <1> SUFFICES ASSUME Init PROVE AgentsInv
    OBVIOUS
  <1>1. /\ part \in Parts /\ PtInit /\ WfInit /\ AlInit /\ ImInit /\ BcInit /\ MrInit /\ PgInit /\ AgInit
        /\ BrInit /\ TtInit
    BY DEF Init
  <1> QED
    BY <1>1, PtBegins, WfBegins, AlBegins, ImBegins, BcBegins, MrBegins, PgBegins, AgBegins, BrBegins, TtBegins
       DEF AgentsInv

\* A step is one of each component, or leaves it as it is.
LEMMA AgentsSteps ==
  ASSUME [Next]_vars
  PROVE  /\ part' = part
         /\ [PtNext]_ptVars /\ [WfNext]_wfVars /\ [AlNext]_alVars /\ [ImNext]_imVars /\ [BcNext]_bcVars
         /\ [MrNext]_mrVars /\ [PgNext]_pgVars /\ [AgNext]_agVars /\ [BrNext]_brVars /\ [TtNext]_ttVars
  BY DEF Next, vars

\* The invariants are kept.
LEMMA AgentsHold == AgentsInv /\ [Next]_vars => AgentsInv'
  <1> SUFFICES ASSUME AgentsInv, [Next]_vars PROVE AgentsInv'
    OBVIOUS
  <1>1. part' \in Parts
    BY AgentsSteps DEF AgentsInv
  <1>2. PtInv' /\ WfInv' /\ AlInv' /\ ImInv' /\ BcInv'
    BY AgentsSteps, PtHolds, WfHolds, AlHolds, ImHolds, BcHolds DEF AgentsInv
  <1>3. MrInv' /\ PgInv' /\ AgInv' /\ BrInv' /\ TtInv'
    BY AgentsSteps, MrHolds, PgHolds, AgHolds, BrHolds, TtHolds DEF AgentsInv
  <1> QED
    BY <1>1, <1>2, <1>3 DEF AgentsInv

\* In every state the variables of the component that moves have their types.
THEOREM AgentsTyped == Spec => []TypeOK
  <1>1. AgentsInv => TypeOK
    <2> SUFFICES ASSUME AgentsInv PROVE TypeOK
      OBVIOUS
    <2>1. PtTypeOK /\ WfTypeOK /\ AlTypeOK /\ MrTypeOK /\ BrTypeOK
      BY DEF AgentsInv, PtInv, WfInv, AlInv, MrInv, BrInv
    <2>2. ImTypeOK /\ BcTypeOK /\ PgTypeOK /\ AgTypeOK /\ TtTypeOK
      BY ImIsSound, BcIsSound, PgIsSound, AgIsSound, TtIsSound DEF AgentsInv
    <2>3. part \in Parts
      BY DEF AgentsInv
    <2> QED
      BY <2>1, <2>2, <2>3 DEF Parts, TypeOK
  <1> QED
    BY <1>1, AgentsBegin, AgentsHold, PTL DEF Spec

\* Loops of agents keep to their budget, account for their calls, and are not done after
\* a failed step (agents/reasoning_loop.py).
THEOREM LoopsStaySound == Spec => []LoopsSound
  <1>1. AgentsInv => LoopsSound
    BY AlIsSound DEF AgentsInv, LoopsSound
  <1> QED
    BY <1>1, AgentsBegin, AgentsHold, PTL DEF Spec

\* What agents do in parts is sound: tasks, workflows, improvements, projects, graphs,
\* browsers and tools.
THEOREM WorkStaysSound == Spec => []WorkSound
  <1>1. AgentsInv => WorkSound
    <2> SUFFICES ASSUME AgentsInv PROVE WorkSound
      OBVIOUS
    <2>1. PtDependenciesFirst /\ WfAnswerSound
      BY DEF AgentsInv, PtInv, WfInv
    <2>2. ImStatusExplained /\ ImStoredSolutions
      BY ImIsSound DEF AgentsInv
    <2>3. PgSound /\ AgSound
      BY PgIsSound, AgIsSound DEF AgentsInv
    <2>4. BrSound /\ TtSound
      BY TtIsSound DEF AgentsInv, BrInv, BrSound
    <2> QED
      BY <2>1, <2>2, <2>3, <2>4 DEF WorkSound
  <1> QED
    BY <1>1, AgentsBegin, AgentsHold, PTL DEF Spec

\* Calls of models are sound: keys are released, a call has one answer, the router asks
\* nobody behind a refused key, and a selected model keeps the limits of the request or
\* is the fallback.
THEOREM ChatsStaySound == Spec => []ChatsSound
  <1>1. AgentsInv => ChatsSound
    <2> SUFFICES ASSUME AgentsInv PROVE ChatsSound
      OBVIOUS
    <2>1. BcKeyReleased /\ BcOneAnswer /\ BcRefusedKeyStops
      BY BcIsSound DEF AgentsInv
    <2>2. MrSound
      BY DEF AgentsInv, MrInv
    <2> QED
      BY <2>1, <2>2 DEF ChatsSound
  <1> QED
    BY <1>1, AgentsBegin, AgentsHold, PTL DEF Spec
=============================================================================
