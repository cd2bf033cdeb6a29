------------------------- MODULE BlockingQueue_proofs -------------------------
(***************************************************************************)
(* util::BlockingQueue for any number of consumers, any elements and any   *)
(* budget; first, what TotalSize returns when an element is appended to a  *)
(* sequence or its head is taken, the facts that keep mCurrentSize exact.  *)
(* TotalSize is recursive; each induction is on the least counterexample,  *)
(* a natural number (LeastOfSet).                                          *)
(***************************************************************************)
EXTENDS BlockingQueue, WellFoundedInduction, FiniteSetTheorems, TLAPS

(* A non-empty set of natural numbers has a least element. *)
LEMMA LeastOfSet ==
  ASSUME NEW T, T \subseteq Nat, T # {}
  PROVE  \E n \in T : \A m \in T : n <= m
<1> DEFINE R == {ss \in Nat \X Nat : ss[1] < ss[2]}
<1>1. R = OpToRel(<, Nat)
  BY DEF OpToRel
<1>2. IsWellFoundedOn(R, Nat)
  BY ONLY <1>1, NatLessThanWellFounded, Zenon
<1>3. PICK n \in T : \A m \in T : ~(<<m, n>> \in R)
  <2> HIDE DEF R
  <2> QED BY <1>2, WFMin
<1>4. ASSUME NEW m \in T PROVE n <= m
  <2>1. <<m, n>> \notin R /\ <<m, n>> \in Nat \X Nat
    BY <1>3
  <2>2. ~(m < n)
    BY <2>1
  <2>3. QED BY <2>1, <2>2
<1>5. QED BY <1>3, <1>4

(* The recursion of PrefixSize, as a predicate on the first n sizes. *)
Recurs(S, q, p, n) ==
  /\ p[0] = 0
  /\ \A i \in 1 .. n : p[i] = p[i - 1] + S[q[i]]

Sums(S, q, p, n) == p \in [0 .. n -> Nat] /\ Recurs(S, q, p, n)

(* The recursion has a solution for every prefix of the sequence. *)
LEMMA SumsExist ==
  ASSUME NEW E, NEW S \in [E -> Nat], NEW q \in Seq(E), NEW n \in 0 .. Len(q)
  PROVE  \E p : Sums(S, q, p, n)
<1> DEFINE T == {k \in 0 .. Len(q) : ~ \E p : Sums(S, q, p, k)}
<1>1. SUFFICES ASSUME T # {} PROVE FALSE
  OBVIOUS
<1>2. PICK k \in T : \A m \in T : k <= m
  <2>1. T \subseteq Nat
    OBVIOUS
  <2> HIDE DEF T
  <2>2. QED BY <1>1, <2>1, LeastOfSet
<1>3. k # 0
  <2>1. Sums(S, q, [i \in 0 .. 0 |-> 0], 0)
    BY DEF Sums, Recurs
  <2>2. QED BY <2>1
<1>4. k - 1 \in 0 .. Len(q) /\ k - 1 \notin T
  <2>1. k \in 1 .. Len(q)
    BY <1>3
  <2>2. k - 1 \notin T
    <3> HIDE DEF T
    <3> QED BY <1>2, <2>1
  <2>3. QED BY <2>1, <2>2
<1>5. PICK p : Sums(S, q, p, k - 1)
  BY <1>4
<1>6. S[q[k]] \in Nat
  BY <1>3
<1> DEFINE r == [i \in 0 .. k |-> IF i = k THEN p[k - 1] + S[q[k]] ELSE p[i]]
<1>7. Sums(S, q, r, k)
  <2>1. r \in [0 .. k -> Nat]
    BY <1>3, <1>5, <1>6 DEF Sums, Recurs
  <2>2. r[0] = 0
    BY <1>3, <1>5 DEF Sums, Recurs
  <2>3. ASSUME NEW i \in 1 .. k PROVE r[i] = r[i - 1] + S[q[i]]
    BY <1>3, <1>5 DEF Sums, Recurs
  <2>4. QED BY <2>1, <2>2, <2>3 DEF Sums, Recurs
<1>8. QED BY <1>7

(* Two solutions agree wherever both are defined. *)
LEMMA SumsAgree ==
  ASSUME NEW S, NEW q, NEW n \in Nat, NEW f, NEW p,
         Recurs(S, q, f, n),
         Sums(S, q, p, n)
  PROVE  \A i \in 0 .. n : f[i] = p[i]
<1> DEFINE T == {k \in 0 .. n : f[k] # p[k]}
<1>1. SUFFICES ASSUME T # {} PROVE FALSE
  OBVIOUS
<1>2. PICK k \in T : \A m \in T : k <= m
  <2>1. T \subseteq Nat
    OBVIOUS
  <2> HIDE DEF T
  <2>2. QED BY <1>1, <2>1, LeastOfSet
<1>3. k \in 1 .. n
  BY DEF Sums, Recurs
<1>4. k - 1 \in 0 .. n /\ k - 1 \notin T
  <2> HIDE DEF T
  <2> QED BY <1>2, <1>3
<1>5. f[k - 1] = p[k - 1]
  BY <1>4
<1>6. f[k] = f[k - 1] + S[q[k]] /\ p[k] = p[k - 1] + S[q[k]]
  BY <1>3 DEF Sums, Recurs
<1>7. QED BY <1>5, <1>6

(* PrefixSize is the solution of its recursion on the whole sequence. *)
LEMMA PrefixSizeSums ==
  ASSUME NEW E, NEW S \in [E -> Nat], NEW q \in Seq(E)
  PROVE  Sums(S, q, PrefixSize(S, q), Len(q))
<1> DEFINE Body(p) == [i \in 0 .. Len(q) |-> IF i = 0 THEN 0 ELSE p[i - 1] + S[q[i]]]
           f == PrefixSize(S, q)
<1>1. PICK p : Sums(S, q, p, Len(q))
  BY SumsExist
<1>2. p = Body(p)
  <2>1. \A i \in 0 .. Len(q) : p[i] = Body(p)[i]
    BY <1>1 DEF Sums, Recurs
  <2>2. QED BY <1>1, <2>1 DEF Sums, Recurs
<1>3. f = CHOOSE g : g = Body(g)
  BY DEF PrefixSize
<1>4. f = Body(f)
  <2> HIDE DEF Body, f
  <2> QED BY <1>2, <1>3
<1>5. Recurs(S, q, f, Len(q))
  <2> HIDE DEF f
  <2> QED BY <1>4 DEF Recurs
<1>6. \A i \in 0 .. Len(q) : f[i] = p[i]
  <2>1. Len(q) \in Nat
    OBVIOUS
  <2> HIDE DEF f
  <2>2. QED BY <1>1, <1>5, <2>1, SumsAgree
<1>7. f \in [0 .. Len(q) -> Nat]
  <2> HIDE DEF f
  <2>1. f = [i \in 0 .. Len(q) |-> f[i]]
    BY <1>4
  <2>2. QED BY <1>1, <1>6, <2>1 DEF Sums, Recurs
<1>8. QED BY <1>5, <1>7 DEF Sums, Recurs

(* Any solution on the whole sequence gives its total. *)
LEMMA SumsTotal ==
  ASSUME NEW E, NEW S \in [E -> Nat], NEW q \in Seq(E), NEW p, Sums(S, q, p, Len(q))
  PROVE  TotalSize(S, q) = p[Len(q)]
<1> DEFINE f == PrefixSize(S, q)
<1>1. Sums(S, q, f, Len(q))
  BY PrefixSizeSums
<1>2. Recurs(S, q, f, Len(q))
  BY <1>1 DEF Sums
<1>3. f[Len(q)] = p[Len(q)]
  <2>1. Len(q) \in Nat
    OBVIOUS
  <2> HIDE DEF f
  <2>2. \A i \in 0 .. Len(q) : f[i] = p[i]
    BY <1>2, <2>1, SumsAgree
  <2>3. QED BY <2>1, <2>2
<1>4. QED BY <1>3 DEF TotalSize

(* The memory of a sequence is a natural number. *)
LEMMA TotalSizeNat ==
  ASSUME NEW E, NEW S \in [E -> Nat], NEW q \in Seq(E)
  PROVE  TotalSize(S, q) \in Nat
<1>1. PrefixSize(S, q) \in [0 .. Len(q) -> Nat]
  BY PrefixSizeSums DEF Sums
<1>2. Len(q) \in 0 .. Len(q)
  OBVIOUS
<1> HIDE DEF PrefixSize
<1>3. QED BY <1>1, <1>2 DEF TotalSize

(* An empty sequence takes no memory. *)
LEMMA TotalSizeEmpty ==
  ASSUME NEW E, NEW S \in [E -> Nat]
  PROVE  TotalSize(S, <<>>) = 0
<1>1. <<>> \in Seq(E) /\ Len(<<>>) = 0
  OBVIOUS
<1>2. Sums(S, <<>>, PrefixSize(S, <<>>), 0)
  BY <1>1, PrefixSizeSums
<1>3. PrefixSize(S, <<>>)[0] = 0
  BY <1>2 DEF Sums, Recurs
<1>4. QED BY <1>1, <1>3 DEF TotalSize

(* Appending an element adds its size. *)
LEMMA TotalSizeAppend ==
  ASSUME NEW E, NEW S \in [E -> Nat], NEW q \in Seq(E), NEW e \in E
  PROVE  TotalSize(S, Append(q, e)) = TotalSize(S, q) + S[e]
<1> DEFINE a == Append(q, e)
           n == Len(q)
           f == PrefixSize(S, q)
           r == [i \in 0 .. n + 1 |-> IF i = n + 1 THEN f[n] + S[e] ELSE f[i]]
<1>1. Sums(S, q, f, n)
  BY PrefixSizeSums
<1>2. a \in Seq(E) /\ Len(a) = n + 1 /\ a[n + 1] = e /\ \A i \in 1 .. n : a[i] = q[i]
  OBVIOUS
<1>3. Sums(S, a, r, n + 1)
  <2>0. n \in Nat /\ S[e] \in Nat
    OBVIOUS
  <2> HIDE DEF a, f, n
  <2>1. r \in [0 .. n + 1 -> Nat]
    BY <1>1, <2>0 DEF Sums, Recurs
  <2>2. r[0] = 0
    BY <1>1, <2>0 DEF Sums, Recurs
  <2>3. ASSUME NEW i \in 1 .. n + 1 PROVE r[i] = r[i - 1] + S[a[i]]
    <3>1. CASE i = n + 1
      BY <1>1, <1>2, <2>0, <3>1 DEF Sums, Recurs
    <3>2. CASE i \in 1 .. n
      <4>1. r[i] = f[i] /\ r[i - 1] = f[i - 1] /\ a[i] = q[i]
        BY <1>2, <2>0, <3>2
      <4>2. QED BY <1>1, <3>2, <4>1 DEF Sums, Recurs
    <3>3. QED BY <2>0, <3>1, <3>2
  <2>4. QED BY <2>1, <2>2, <2>3 DEF Sums, Recurs
<1>4. TotalSize(S, a) = r[n + 1]
  <2> HIDE DEF a, r, n
  <2> QED BY <1>2, <1>3, SumsTotal
<1>5. QED BY <1>4 DEF TotalSize

(* Taking the head subtracts its size, which is at most the total. *)
LEMMA TotalSizeTail ==
  ASSUME NEW E, NEW S \in [E -> Nat], NEW q \in Seq(E), q # <<>>
  PROVE  /\ TotalSize(S, Tail(q)) = TotalSize(S, q) - S[Head(q)]
         /\ S[Head(q)] <= TotalSize(S, q)
<1> DEFINE t == Tail(q)
           n == Len(t)
           f == PrefixSize(S, t)
           h == S[Head(q)]
           r == [i \in 0 .. n + 1 |-> IF i = 0 THEN 0 ELSE h + f[i - 1]]
<1>1. t \in Seq(E) /\ Len(q) = n + 1 /\ (\A i \in 1 .. n : t[i] = q[i + 1]) /\ h = S[q[1]] /\ h \in Nat
  OBVIOUS
<1>2. Sums(S, t, f, n)
  BY <1>1, PrefixSizeSums
<1>3. Sums(S, q, r, n + 1)
  <2>0. n \in Nat
    BY <1>1
  <2> HIDE DEF t, f, h, n
  <2>1. r \in [0 .. n + 1 -> Nat] /\ r[0] = 0
    BY <1>1, <1>2, <2>0 DEF Sums, Recurs
  <2>2. ASSUME NEW i \in 1 .. n + 1 PROVE r[i] = r[i - 1] + S[q[i]]
    <3>1. CASE i = 1
      BY <1>1, <1>2, <2>0, <3>1 DEF Sums, Recurs
    <3>2. CASE i \in 2 .. n + 1
      <4>1. i - 1 \in 1 .. n /\ q[i] = t[i - 1]
        BY <1>1, <2>0, <3>2
      <4>2. f[i - 1] = f[i - 2] + S[t[i - 1]]
        BY <1>2, <2>0, <4>1 DEF Sums, Recurs
      <4>3. f[i - 2] \in Nat /\ f[i - 1] \in Nat
        BY <1>1, <1>2, <2>0, <3>2 DEF Sums, Recurs
      <4>4. S[q[i]] \in Nat
        BY <1>1
      <4>5. r[i] = h + f[i - 1] /\ r[i - 1] = h + f[i - 2]
        BY <1>1, <2>0, <3>2
      <4>6. QED BY <1>1, <4>1, <4>2, <4>3, <4>4, <4>5
    <3>3. QED BY <2>0, <3>1, <3>2
  <2>3. QED BY <2>1, <2>2 DEF Sums, Recurs
<1>4. TotalSize(S, q) = r[n + 1]
  <2> HIDE DEF r, n, t
  <2> QED BY <1>1, <1>3, SumsTotal
<1>5. TotalSize(S, q) = h + TotalSize(S, t)
  BY <1>1, <1>4 DEF TotalSize
<1>6. TotalSize(S, t) \in Nat
  BY <1>1, TotalSizeNat
<1>7. QED BY <1>1, <1>5, <1>6
-----------------------------------------------------------------------------

Inv == TypeOK /\ Accounting

(* removeLocked() takes from the running size what leaves the queue.         *)
LEMMA RemoveLockedKeepsSize ==
  ASSUME Inv, NEW c \in Consumers, mQueue # <<>>, RemoveLocked(c)
  PROVE  /\ mQueue' \in Seq(Elements)
         /\ mCurrentSize' \in 0 .. MaxByteSize
         /\ mCurrentSize' = TotalSize(ElementSize, mQueue')
         /\ result' \in [Consumers -> Elements \cup {NullPtr}]
<1>1. /\ mQueue \in Seq(Elements) /\ Head(mQueue) \in Elements
      /\ Tail(mQueue) \in Seq(Elements) /\ ElementSize[Head(mQueue)] \in Nat
  BY ElementsAssumption DEF Inv, TypeOK
<1>2. /\ TotalSize(ElementSize, Tail(mQueue)) = mCurrentSize - ElementSize[Head(mQueue)]
      /\ ElementSize[Head(mQueue)] <= mCurrentSize
  BY ElementsAssumption, TotalSizeTail DEF Inv, TypeOK, Accounting
<1>3. QED
  BY <1>1, <1>2, ElementsAssumption DEF Inv, TypeOK, RemoveLocked

(* The constructed queue is empty and its running size is 0.                 *)
LEMMA InvInit == Init => Inv
<1>1. TotalSize(ElementSize, <<>>) = 0
  BY ElementsAssumption, TotalSizeEmpty
<1>2. ASSUME Init PROVE TypeOK
  <2>1. mOpen \in BOOLEAN /\ added \in BOOLEAN
    BY <1>2, Zenon DEF Init
  <2>2. mQueue \in Seq(Elements) /\ mCurrentSize \in 0 .. MaxByteSize
    BY <1>2, ElementsAssumption DEF Init
  <2>3. /\ pc \in [Consumers -> {"idle", "waiting", "woken", "aborted"}]
        /\ result \in [Consumers -> Elements \cup {NullPtr}]
    BY <1>2 DEF Init
  <2>4. QED BY <2>1, <2>2, <2>3 DEF TypeOK
<1>3. Init => Accounting
  BY <1>1 DEF Init, Accounting
<1>4. QED
  BY <1>2, <1>3 DEF Inv

(* No method call, and no interleaving of them, makes the size drift.        *)
LEMMA InvStep == Inv /\ [Next]_vars => Inv'
<1> SUFFICES ASSUME Inv, [Next]_vars PROVE Inv'
  OBVIOUS
<1> USE ElementsAssumption
<1>1. CASE Open
  BY <1>1 DEF Open, Inv, TypeOK, Accounting
<1>2. CASE Close
  BY <1>2 DEF Close, NotifyAll, Inv, TypeOK, Accounting
<1>3. CASE Clear
  BY <1>3, TotalSizeEmpty DEF Clear, Inv, TypeOK, Accounting
<1>4. ASSUME NEW e \in Elements, Add(e) PROVE Inv'
  <2>1. CASE mOpen /\ Fits(e)
    <3>1. mQueue' = Append(mQueue, e) /\ mCurrentSize' = mCurrentSize + ElementSize[e]
      BY <1>4, <2>1 DEF Add
    <3>2. mCurrentSize' \in 0 .. MaxByteSize /\ mQueue' \in Seq(Elements)
      BY <2>1, <3>1 DEF Fits, Inv, TypeOK
    <3>3. mCurrentSize' = TotalSize(ElementSize, mQueue')
      <4>1. TotalSize(ElementSize, Append(mQueue, e)) = TotalSize(ElementSize, mQueue) + ElementSize[e]
        BY TotalSizeAppend DEF Inv, TypeOK
      <4>2. QED BY <3>1, <4>1 DEF Inv, Accounting
    <3>4. pc' \in [Consumers -> {"idle", "waiting", "woken", "aborted"}]
      BY <1>4 DEF Add, NotifyOne, Waiting, Inv, TypeOK
    <3>5. added' \in BOOLEAN /\ mOpen' \in BOOLEAN /\ result' = result
      BY <1>4 DEF Add, Fits, Inv, TypeOK
    <3>6. QED BY <3>2, <3>3, <3>4, <3>5 DEF Inv, TypeOK, Accounting
  <2>2. CASE ~(mOpen /\ Fits(e))
    BY <1>4, <2>2 DEF Add, Inv, TypeOK, Accounting
  <2>3. QED BY <2>1, <2>2
<1>5. ASSUME NEW c \in Consumers, Remove(c) PROVE Inv'
  <2>1. CASE mQueue # <<>>
    BY <1>5, <2>1, RemoveLockedKeepsSize DEF Remove, Inv, TypeOK, Accounting
  <2>2. CASE mQueue = <<>>
    BY <1>5, <2>2 DEF Remove, ReturnNull, Inv, TypeOK, Accounting
  <2>3. QED BY <2>1, <2>2
<1>6. ASSUME NEW c \in Consumers, Resume(c) PROVE Inv'
  <2>1. CASE mQueue # <<>>
    BY <1>6, <2>1, RemoveLockedKeepsSize DEF Resume, Inv, TypeOK, Accounting
  <2>2. CASE mQueue = <<>>
    BY <1>6, <2>2 DEF Resume, ReturnNull, Inv, TypeOK, Accounting
  <2>3. QED BY <2>1, <2>2
<1>7. ASSUME NEW c \in Consumers, SpuriousWakeup(c) PROVE Inv'
  BY <1>7 DEF SpuriousWakeup, Inv, TypeOK, Accounting
<1>8. CASE UNCHANGED vars
  BY <1>8 DEF vars, Inv, TypeOK, Accounting
<1>9. QED
  BY <1>1, <1>2, <1>3, <1>4, <1>5, <1>6, <1>7, <1>8 DEF Next, Step

(* Every reachable state is well typed and the running size is exactly the   *)
(* memory of the queued elements, for all element sizes and budgets.         *)
THEOREM SizeIsExact == Spec => [](TypeOK /\ Accounting)
<1>1. Init => Inv
  BY InvInit
<1>2. Inv /\ [Next]_vars => Inv'
  BY InvStep
<1>3. Inv => TypeOK /\ Accounting
  BY DEF Inv
<1>4. QED BY <1>1, <1>2, <1>3, PTL DEF Spec
-----------------------------------------------------------------------------
(* The woken threads are a finite set; waking or serving one counts for one. *)
LEMMA WokenFinite ==
  ASSUME NEW S \in SUBSET Consumers
  PROVE  /\ IsFiniteSet(S) /\ Cardinality(S) \in Nat
         /\ \A c \in Consumers \ S : Cardinality(S \cup {c}) = Cardinality(S) + 1
         /\ \A c \in S : Cardinality(S \ {c}) = Cardinality(S) - 1
<1>1. IsFiniteSet(S)
  BY ConsumersAssumption, FS_Subset
<1>2. QED
  BY <1>1, FS_CardinalityType, FS_AddElement, FS_RemoveElement

WaitInv == NoneBlockedWhenClosed /\ NoLostWakeup

\* What a step does to the two sets of threads the invariant speaks of.
Wakes(c) == c \in Waiting /\ Woken' = Woken \cup {c} /\ Waiting' = Waiting \ {c}
Leaves(c) == c \in Woken /\ Woken' = Woken \ {c} /\ Waiting' = Waiting

(* No step strands a waiter: close() wakes all of them, and an add() that    *)
(* finds a waiter wakes one for the element it adds.                         *)
LEMMA WaitInvStep ==
  ASSUME TypeOK, TypeOK', WaitInv, [Next]_vars
  PROVE  WaitInv'
<1> USE DEF TypeOK
<1>0. /\ Woken \in SUBSET Consumers /\ Cardinality(Woken) \in Nat
      /\ Woken' \in SUBSET Consumers /\ Cardinality(Woken') \in Nat
      /\ Len(mQueue) \in Nat
  <2>1. Woken \in SUBSET Consumers /\ Woken' \in SUBSET Consumers
    BY DEF Woken
  <2>2. QED BY <2>1, WokenFinite
<1>1. CASE Open
  BY <1>1 DEF Open, WaitInv, NoneBlockedWhenClosed, NoLostWakeup, Waiting, Woken
<1>2. CASE Close
  <2>1. CASE mOpen
    <3>1. Waiting' = {}
      BY <1>2, <2>1 DEF Close, NotifyAll, Waiting
    <3>2. QED BY <3>1 DEF WaitInv, NoneBlockedWhenClosed, NoLostWakeup
  <2>2. CASE ~mOpen
    BY <1>2, <2>2 DEF Close, WaitInv, NoneBlockedWhenClosed, NoLostWakeup, Waiting, Woken
  <2>3. QED BY <2>1, <2>2
<1>3. CASE Clear
  <2>1. Len(mQueue') = 0 /\ Waiting' = Waiting /\ mOpen' = mOpen
    BY <1>3 DEF Clear, Waiting
  <2>2. QED BY <1>0, <2>1 DEF WaitInv, NoneBlockedWhenClosed, NoLostWakeup
<1>4. ASSUME NEW e \in Elements, Add(e) PROVE WaitInv'
  <2>1. CASE mOpen /\ Fits(e)
    <3>1. mOpen' /\ Len(mQueue') = Len(mQueue) + 1 /\ NotifyOne
      BY <1>4, <2>1 DEF Add
    <3>2. CASE Waiting = {} /\ UNCHANGED pc
      BY <3>1, <3>2 DEF WaitInv, NoneBlockedWhenClosed, NoLostWakeup, Waiting
    <3>3. CASE \E c \in Waiting : pc' = [pc EXCEPT ![c] = "woken"]
      <4>1. PICK c \in Waiting : Wakes(c)
        BY <3>3 DEF Wakes, Waiting, Woken
      <4>2. c \in Consumers \ Woken
        BY DEF Waiting, Woken
      <4>3. Cardinality(Woken') = Cardinality(Woken) + 1
        BY <1>0, <4>1, <4>2, WokenFinite DEF Wakes
      <4>4. QED
        BY <1>0, <3>1, <4>1, <4>3 DEF WaitInv, NoneBlockedWhenClosed, NoLostWakeup, Wakes
    <3>4. QED BY <3>1, <3>2, <3>3 DEF NotifyOne
  <2>2. CASE ~(mOpen /\ Fits(e))
    BY <1>4, <2>2 DEF Add, WaitInv, NoneBlockedWhenClosed, NoLostWakeup, Waiting, Woken
  <2>3. QED BY <2>1, <2>2
<1>5. ASSUME NEW c \in Consumers, Remove(c) PROVE WaitInv'
  <2>1. CASE mQueue # <<>>
    <3>1. Len(mQueue') = Len(mQueue) - 1 /\ UNCHANGED <<pc, mOpen>>
      BY <1>5, <2>1 DEF Remove, RemoveLocked
    <3>2. QED
      BY <1>0, <3>1 DEF WaitInv, NoneBlockedWhenClosed, NoLostWakeup, Waiting, Woken
  <2>2. CASE mQueue = <<>>
    <3>1. Len(mQueue') = 0 /\ mOpen' = mOpen /\ (~mOpen => pc' = pc)
      BY <1>5, <2>2 DEF Remove, ReturnNull
    <3>2. QED
      BY <1>0, <3>1 DEF WaitInv, NoneBlockedWhenClosed, NoLostWakeup, Waiting, Woken
  <2>3. QED BY <2>1, <2>2
<1>6. ASSUME NEW c \in Consumers, Resume(c) PROVE WaitInv'
  <2>1. Leaves(c) /\ mOpen' = mOpen
    BY <1>6 DEF Resume, Leaves, Waiting, Woken
  <2>2. Cardinality(Woken') = Cardinality(Woken) - 1
    BY <1>0, <2>1, WokenFinite DEF Leaves
  <2>3. CASE mQueue # <<>>
    <3>1. Len(mQueue') = Len(mQueue) - 1
      BY <1>6, <2>3 DEF Resume, RemoveLocked
    <3>2. QED
      BY <1>0, <2>1, <2>2, <3>1 DEF WaitInv, NoneBlockedWhenClosed, NoLostWakeup, Leaves
  <2>4. CASE mQueue = <<>>
    <3>1. Len(mQueue') = 0
      BY <1>6, <2>4 DEF Resume, ReturnNull
    <3>2. QED
      BY <1>0, <2>1, <3>1 DEF WaitInv, NoneBlockedWhenClosed, NoLostWakeup, Leaves
  <2>5. QED BY <2>3, <2>4
<1>7. ASSUME NEW c \in Consumers, SpuriousWakeup(c) PROVE WaitInv'
  <2>1. Wakes(c) /\ UNCHANGED <<mOpen, mQueue>>
    BY <1>7 DEF SpuriousWakeup, Wakes, Waiting, Woken
  <2>2. c \in Consumers \ Woken
    BY <2>1 DEF Wakes, Waiting, Woken
  <2>3. Cardinality(Woken') = Cardinality(Woken) + 1
    BY <1>0, <2>1, <2>2, WokenFinite DEF Wakes
  <2>4. QED
    BY <1>0, <2>1, <2>3 DEF WaitInv, NoneBlockedWhenClosed, NoLostWakeup, Wakes
<1>8. CASE UNCHANGED vars
  BY <1>8 DEF vars, WaitInv, NoneBlockedWhenClosed, NoLostWakeup, Waiting, Woken
<1>9. QED
  BY <1>1, <1>2, <1>3, <1>4, <1>5, <1>6, <1>7, <1>8 DEF Next, Step

(* No wake-up is lost and close() leaves nobody asleep, for any number of    *)
(* consumers and in spite of spurious wake-ups and re-openings.              *)
THEOREM WakeupsSuffice == Spec => [](NoneBlockedWhenClosed /\ NoLostWakeup)
<1>1. Init => WaitInv
  <2>1. Init => Waiting = {}
    BY DEF Init, Waiting
  <2>2. QED BY <2>1 DEF WaitInv, NoneBlockedWhenClosed, NoLostWakeup
<1>2. TypeOK /\ TypeOK' /\ WaitInv /\ [Next]_vars => WaitInv'
  BY WaitInvStep
<1>3. WaitInv => NoneBlockedWhenClosed /\ NoLostWakeup
  BY DEF WaitInv
<1>4. Spec => []TypeOK
  BY SizeIsExact, PTL
<1>5. QED BY <1>1, <1>2, <1>3, <1>4, PTL DEF Spec
-----------------------------------------------------------------------------
\* Why a woken consumer that is alone finds an element or a closed queue.
SoleConsumer ==
  Quiescent /\ ~SpuriousWakeups /\ \A c, d \in Consumers : c = d

WokenInv ==
  /\ Running
  /\ \A c \in Consumers : pc[c] = "woken" => mQueue # <<>> \/ ~mOpen

(* With one consumer that nobody resets under, a notified consumer finds an  *)
(* element or a closed queue.                                                *)
LEMMA WokenInvStep ==
  ASSUME SoleConsumer, TypeOK, WokenInv, [Next]_vars
  PROVE  WokenInv'
<1> USE DEF TypeOK, SoleConsumer
<1>1. CASE Open \/ Clear
  <2>1. Waiting \cup Woken = {}
    BY <1>1 DEF Open, Clear, MayReset
  <2>2. QED
    BY <1>1, <2>1 DEF Open, Clear, WokenInv, Running, Woken
<1>2. CASE Close
  BY <1>2 DEF Close, NotifyAll, WokenInv, Running
<1>3. ASSUME NEW e \in Elements, Add(e) PROVE WokenInv'
  <2>1. CASE mOpen /\ Fits(e)
    <3>1. mQueue' # <<>>
      BY <1>3, <2>1 DEF Add
    <3>2. \A c \in Consumers : pc'[c] # "aborted"
      BY <1>3 DEF Add, NotifyOne, Waiting, WokenInv, Running
    <3>3. QED BY <3>1, <3>2 DEF WokenInv, Running
  <2>2. CASE ~(mOpen /\ Fits(e))
    BY <1>3, <2>2 DEF Add, WokenInv, Running
  <2>3. QED BY <2>1, <2>2
<1>4. ASSUME NEW c \in Consumers, Remove(c) PROVE WokenInv'
  <2>1. \A d \in Consumers : pc'[d] \in {"idle", "waiting"}
    BY <1>4 DEF Remove
  <2>2. QED BY <2>1 DEF WokenInv, Running
<1>5. ASSUME NEW c \in Consumers, Resume(c) PROVE WokenInv'
  <2>1. \A d \in Consumers : pc'[d] = "idle"
    BY <1>5 DEF Resume, WokenInv
  <2>2. QED BY <2>1 DEF WokenInv, Running
<1>6. ASSUME NEW c \in Consumers, SpuriousWakeup(c) PROVE WokenInv'
  BY <1>6 DEF SpuriousWakeup
<1>7. CASE UNCHANGED vars
  BY <1>7 DEF vars, WokenInv, Running
<1>8. QED
  BY <1>1, <1>2, <1>3, <1>4, <1>5, <1>6, <1>7 DEF Next, Step

(* remove()'s assertion holds under the three conditions its comment leaves  *)
(* out: one consumer, no spurious wake-up, and no open() or clear() while    *)
(* that consumer is inside remove().                                         *)
THEOREM SoleConsumerIsSafe == SoleConsumer => (Spec => []QueueNotEmptyAfterWait)
<1> SUFFICES ASSUME SoleConsumer PROVE Spec => []QueueNotEmptyAfterWait
  OBVIOUS
<1>1. Init => WokenInv
  BY DEF Init, WokenInv, Running
<1>2. TypeOK /\ WokenInv /\ [Next]_vars => WokenInv'
  BY WokenInvStep
<1>3. WokenInv => QueueNotEmptyAfterWait
  BY DEF WokenInv, QueueNotEmptyAfterWait
<1>4. Spec => []TypeOK
  BY SizeIsExact, PTL
<1>5. QED BY <1>1, <1>2, <1>3, <1>4, PTL DEF Spec
-----------------------------------------------------------------------------
(* Every step of the queue is a step of the bounded FIFO or a stutter: a     *)
(* remove() that waits and resumes is one Take in the end.                   *)
LEMMA PromiseStep ==
  ASSUME Inv, [Next]_vars
  PROVE  [Promise!Next]_(Promise!vars)
<1> USE DEF Inv, TypeOK, Accounting
<1> USE DEF Promise!Next, Promise!vars
<1>1. CASE Open
  BY <1>1 DEF Open, Promise!SetOpen
<1>2. CASE Close
  <2>1. {c \in Consumers : pc[c] # "idle"}' = {c \in Consumers : pc[c] # "idle"}
    BY <1>2 DEF Close, NotifyAll
  <2>2. Promise!SetOpen(FALSE)
    BY <1>2, <2>1 DEF Close, Promise!SetOpen
  <2>3. QED BY <2>2
<1>3. CASE Clear
  BY <1>3 DEF Clear, Promise!Discard
<1>4. ASSUME NEW e \in Elements, Add(e) PROVE Promise!Put(e) \/ Promise!Refuse(e)
  <2>1. ElementSize[e] \in Nat /\ mCurrentSize \in Nat /\ MaxByteSize \in Nat
    BY ElementsAssumption
  <2>2. {c \in Consumers : pc[c] # "idle"}' = {c \in Consumers : pc[c] # "idle"}
    BY <1>4 DEF Add, NotifyOne, Waiting
  <2>3. Promise!TotalSize(ElementSize, mQueue) = mCurrentSize
    BY DEF Promise!TotalSize, Promise!PrefixSize, TotalSize, PrefixSize
  <2>4. CASE mOpen /\ Fits(e)
    <3>1. added' = TRUE
      BY <1>4, <2>4, Zenon DEF Add
    <3>2. Promise!TotalSize(ElementSize, mQueue) + ElementSize[e] <= MaxByteSize
      BY <2>1, <2>3, <2>4 DEF Fits
    <3>3. mQueue' = Append(mQueue, e) /\ UNCHANGED <<mOpen, result>>
      BY <1>4, <2>4 DEF Add
    <3>4. QED BY <2>2, <2>4, <3>1, <3>2, <3>3 DEF Promise!Put
  <2>5. CASE ~(mOpen /\ Fits(e))
    <3>1. added' = FALSE
      BY <1>4, <2>5, Zenon DEF Add
    <3>2. ~mOpen \/ Promise!TotalSize(ElementSize, mQueue) + ElementSize[e] > MaxByteSize
      BY <2>1, <2>3, <2>5 DEF Fits
    <3>3. UNCHANGED <<mQueue, mOpen, result>>
      BY <1>4, <2>5 DEF Add
    <3>4. QED BY <2>2, <3>1, <3>2, <3>3 DEF Promise!Refuse
  <2>6. QED BY <2>4, <2>5
<1>5. ASSUME NEW c \in Consumers, Remove(c)
      PROVE Promise!Take(c) \/ Promise!TakeNothing(c) \/ Promise!Block(c)
  <2>1. CASE mQueue # <<>>
    BY <1>5, <2>1 DEF Remove, RemoveLocked, Promise!Take
  <2>2. CASE mQueue = <<>> /\ ~mOpen
    BY <1>5, <2>2 DEF Remove, ReturnNull, Promise!TakeNothing
  <2>3. CASE mQueue = <<>> /\ mOpen
    BY <1>5, <2>3 DEF Remove, Promise!Block
  <2>4. QED BY <2>1, <2>2, <2>3
<1>6. ASSUME NEW c \in Consumers, Resume(c)
      PROVE [Promise!Take(c) \/ Promise!TakeNothing(c)]_(Promise!vars)
  <2>1. CASE mQueue # <<>>
    BY <1>6, <2>1 DEF Resume, RemoveLocked, Promise!Take
  <2>2. CASE mQueue = <<>> /\ ~mOpen
    BY <1>6, <2>2 DEF Resume, ReturnNull, Promise!TakeNothing
  <2>3. CASE mQueue = <<>> /\ mOpen
    BY <1>6, <2>3 DEF Resume
  <2>4. QED BY <2>1, <2>2, <2>3
<1>7. ASSUME NEW c \in Consumers, SpuriousWakeup(c) PROVE UNCHANGED Promise!vars
  BY <1>7 DEF SpuriousWakeup
<1>8. CASE UNCHANGED vars
  BY <1>8 DEF vars
<1>9. QED
  BY <1>1, <1>2, <1>3, <1>4, <1>5, <1>6, <1>7, <1>8 DEF Next, Step

(* The queue with its mutex, condition variable and running size implements  *)
(* the bounded FIFO its users rely on, for all constants.                    *)
THEOREM QueueImplementsPromise == Spec => ImplementsElementQueue
<1>1. Init => Promise!Init
  BY DEF Init, Promise!Init
<1>2. Inv /\ [Next]_vars => [Promise!Next]_(Promise!vars)
  BY PromiseStep
<1>3. Spec => []Inv
  BY SizeIsExact, PTL DEF Inv
<1>4. QED BY <1>1, <1>2, <1>3, PTL DEF Spec, ImplementsElementQueue, Promise!Spec
=============================================================================
