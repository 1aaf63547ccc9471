------------------------ MODULE OperationQueueProofs ------------------------
(***************************************************************************)
(* Proofs about OperationQueue for every set of operations and every       *)
(* maxCount: type correctness, the state in which Stop leaves the queue,   *)
(* and the implementation of LossyQueue.                                   *)
(***************************************************************************)
EXTENDS OperationQueue, TLAPS

LEMMA MaxCountIsPositive == MaxCount \in Nat /\ MaxCount > 0
  BY MaxCountAssumption

\* A full list is not empty: maxCount is positive.
LEMMA FullIsNotEmpty ==
    ASSUME TypeOK, Len(opList) >= MaxCount
    PROVE  opList # <<>>
  <1>1. Len(opList) # 0
    BY MaxCountIsPositive DEF TypeOK
  <1> QED
    BY <1>1

LEMMA TypeStep == TypeOK /\ [Next]_vars => TypeOK'
  <1> SUFFICES ASSUME TypeOK, [Next]_vars
               PROVE  TypeOK'
    OBVIOUS
  <1> USE MaxCountIsPositive DEF TypeOK, WorkerStates, OwnerStates
  <1>1. CASE Run
    BY <1>1 DEF Run
  <1>2. CASE StopBegin
    <2>1. ToSet(opList) \subseteq Ops
      BY DEF ToSet
    <2>2. opList' \in Seq(Ops) /\ Len(opList') = 0
      BY <1>2 DEF StopBegin
    <2>3. lost' \in SUBSET Ops
      BY <1>2, <2>1 DEF StopBegin
    <2>4. Len(opList') <= MaxCount
      BY <2>2
    <2>5. /\ isRunning' \in BOOLEAN /\ owner' \in OwnerStates /\ worker' \in WorkerStates
          /\ op' \in Ops \cup {NoOp} /\ pushed' \in SUBSET Ops /\ begun' \in Seq(Ops)
      BY <1>2 DEF StopBegin
    <2> QED
      BY <2>2, <2>3, <2>4, <2>5
  <1>3. CASE StopJoin
    BY <1>3 DEF StopJoin
  <1>4. ASSUME NEW o \in Ops, Push(o)
        PROVE  TypeOK'
    <2>1. CASE Len(opList) < MaxCount
      <3>1. Append(opList, o) \in Seq(Ops) /\ Len(Append(opList, o)) = Len(opList) + 1
        OBVIOUS
      <3>2. /\ opList' = Append(opList, o) /\ pushed' = pushed \cup {o}
            /\ UNCHANGED <<isRunning, worker, op, owner, begun, lost>>
        BY <1>4, <2>1 DEF Push
      <3>3. opList' \in Seq(Ops) /\ Len(opList') <= MaxCount
        BY <2>1, <3>1, <3>2
      <3> QED
        BY <3>2, <3>3
    <2>2. CASE Len(opList) >= MaxCount
      <3>1. opList # <<>>
        BY <2>2, FullIsNotEmpty
      <3>2. /\ Tail(opList) \in Seq(Ops) /\ Len(Tail(opList)) = Len(opList) - 1
            /\ Head(opList) \in Ops
        BY <3>1
      <3>3. Append(Tail(opList), o) \in Seq(Ops)
            /\ Len(Append(Tail(opList), o)) = Len(opList)
        BY <3>2
      <3>4. Head(opList) \in Ops
        BY <3>2
      <3>5. /\ opList' = Append(Tail(opList), o) /\ pushed' = pushed \cup {o}
            /\ lost' = lost \cup {Head(opList)}
            /\ UNCHANGED <<isRunning, worker, op, owner, begun>>
        BY <1>4, <2>2 DEF Push
      <3>6. opList' \in Seq(Ops) /\ Len(opList') <= MaxCount
        BY <3>3, <3>5
      <3>7. lost' \in SUBSET Ops /\ pushed' \in SUBSET Ops
        BY <3>4, <3>5
      <3> QED
        BY <3>5, <3>6, <3>7
    <2> QED
      BY <2>1, <2>2
  <1>5. CASE WorkerTest
    BY <1>5 DEF WorkerTest
  <1>6. CASE WorkerPop
    <2>1. CASE opList = <<>>
      BY <1>6, <2>1 DEF WorkerPop
    <2>2. CASE opList # <<>>
      <3>1. Head(opList) \in Ops /\ Tail(opList) \in Seq(Ops)
            /\ Len(Tail(opList)) = Len(opList) - 1
        BY <2>2
      <3>2. Append(begun, Head(opList)) \in Seq(Ops)
        BY <3>1
      <3>3. /\ opList' = Tail(opList)
            /\ begun' = Append(begun, Head(opList)) /\ op' = Head(opList)
        BY <1>6, <2>2 DEF WorkerPop
      <3>4. opList' \in Seq(Ops) /\ Len(opList') <= MaxCount
        BY <3>1, <3>3
      <3>5. /\ isRunning' \in BOOLEAN /\ owner' \in OwnerStates /\ worker' \in WorkerStates
            /\ pushed' \in SUBSET Ops /\ lost' \in SUBSET Ops
        BY <1>6, <2>2 DEF WorkerPop
      <3>6. begun' \in Seq(Ops) /\ op' \in Ops \cup {NoOp}
        BY <3>1, <3>2, <3>3
      <3> QED
        BY <3>4, <3>5, <3>6
    <2> QED
      BY <2>1, <2>2
  <1>7. CASE WorkerDone
    BY <1>7 DEF WorkerDone
  <1>8. CASE WorkerWake
    BY <1>8 DEF WorkerWake
  <1>9. CASE UNCHANGED vars
    BY <1>9 DEF vars
  <1> QED
    BY <1>1, <1>2, <1>3, <1>4, <1>5, <1>6, <1>7, <1>8, <1>9 DEF Next, Worker

\* Type correctness, and the bound maxCount on the list, for every maxCount.
THEOREM TypeCorrect == Spec => []TypeOK
  <1>1. ASSUME Init PROVE TypeOK
    <2>1. opList \in Seq(Ops) /\ Len(opList) <= MaxCount
      BY <1>1, MaxCountIsPositive DEF Init
    <2>2. begun \in Seq(Ops)
      BY <1>1 DEF Init
    <2>3. pushed \in SUBSET Ops /\ lost \in SUBSET Ops
      BY <1>1 DEF Init
    <2>4. worker \in WorkerStates /\ owner \in OwnerStates /\ isRunning \in BOOLEAN
      BY <1>1 DEF Init, WorkerStates, OwnerStates
    <2>5. op \in Ops \cup {NoOp}
      BY <1>1 DEF Init
    <2> QED
      BY <2>1, <2>2, <2>3, <2>4, <2>5 DEF TypeOK
  <1> QED
    BY <1>1, TypeStep, PTL DEF Spec

-----------------------------------------------------------------------------
(* Stop *)

\* Push and Stop agree, under listMutex, on what a stopped queue holds.
StoppedIsEmpty == isRunning \/ opList = <<>>

\* The phases the flag, the worker thread and the caller of Stop go through
\* together: what QuietWhenStopped needs to be inductive.
Phases ==
    /\ (worker = "exec") = (op # NoOp)
    /\ isRunning => owner = "idle" /\ worker \notin {"none", "exited"}
    /\ owner = "joining" => worker # "none"
    /\ ~isRunning /\ owner = "idle" => worker = "none"

LEMMA PhasesStep ==
    TypeOK /\ StoppedIsEmpty /\ Phases /\ [Next]_vars => (StoppedIsEmpty /\ Phases)'
  <1> SUFFICES ASSUME TypeOK, StoppedIsEmpty, Phases, [Next]_vars
               PROVE  (StoppedIsEmpty /\ Phases)'
    OBVIOUS
  <1> USE NoOpAssumption DEF TypeOK, WorkerStates, OwnerStates, StoppedIsEmpty, Phases
  <1>1. CASE Run
    BY <1>1 DEF Run
  <1>2. CASE StopBegin
    BY <1>2 DEF StopBegin
  <1>3. CASE StopJoin
    BY <1>3 DEF StopJoin
  <1>4. ASSUME NEW o \in Ops, Push(o)
        PROVE  (StoppedIsEmpty /\ Phases)'
    BY <1>4 DEF Push
  <1>5. CASE WorkerTest
    BY <1>5 DEF WorkerTest
  <1>6. CASE WorkerPop
    <2>1. CASE opList = <<>>
      BY <1>6, <2>1 DEF WorkerPop
    <2>2. CASE opList # <<>>
      <3>1. Head(opList) \in Ops
        BY <2>2
      <3> QED
        BY <1>6, <2>2, <3>1 DEF WorkerPop
    <2> QED
      BY <2>1, <2>2
  <1>7. CASE WorkerDone
    BY <1>7 DEF WorkerDone
  <1>8. CASE WorkerWake
    BY <1>8 DEF WorkerWake
  <1>9. CASE UNCHANGED vars
    BY <1>9 DEF vars
  <1> QED
    BY <1>1, <1>2, <1>3, <1>4, <1>5, <1>6, <1>7, <1>8, <1>9 DEF Next, Worker

\* A stopped queue is empty, and once Stop has returned the worker thread is
\* gone and runs nothing: the guarantee OnDestroy and UnInit rely on.
THEOREM StopIsQuiet == Spec => []QuietWhenStopped
  <1>1. Init => StoppedIsEmpty /\ Phases
    BY DEF Init, StoppedIsEmpty, Phases
  <1>2. StoppedIsEmpty /\ Phases => QuietWhenStopped
    BY DEF StoppedIsEmpty, Phases, QuietWhenStopped
  <1> QED
    BY <1>1, <1>2, PhasesStep, TypeCorrect, PTL DEF Spec

-----------------------------------------------------------------------------
(* Refinement *)

LEMMA RefinementStep == TypeOK /\ [Next]_vars => [LQ!Next]_(LQ!vars)
  <1> SUFFICES ASSUME TypeOK, [Next]_vars
               PROVE  [LQ!Next]_(LQ!vars)
    OBVIOUS
  <1>1. CASE Run
    BY <1>1 DEF Run, LQ!Next, LQ!Open
  <1>2. CASE StopBegin
    BY <1>2 DEF StopBegin, LQ!Next, LQ!Close, ToSet, LQ!ToSet
  <1>3. CASE StopJoin
    BY <1>3 DEF StopJoin, LQ!vars
  <1>4. ASSUME NEW o \in Ops, Push(o)
        PROVE  LQ!Next
    <2>1. LQ!AcceptWithRoom(o) \/ LQ!AcceptInsteadOfOldest(o)
      BY <1>4 DEF Push, LQ!AcceptWithRoom, LQ!AcceptInsteadOfOldest
    <2> QED
      BY <2>1 DEF LQ!Next
  <1>5. CASE WorkerTest
    BY <1>5 DEF WorkerTest, LQ!vars
  <1>6. CASE WorkerPop
    BY <1>6 DEF WorkerPop, LQ!Next, LQ!Start, LQ!vars
  <1>7. CASE WorkerDone
    BY <1>7 DEF WorkerDone, LQ!vars
  <1>8. CASE WorkerWake
    BY <1>8 DEF WorkerWake, LQ!vars
  <1>9. CASE UNCHANGED vars
    BY <1>9 DEF vars, LQ!vars
  <1> QED
    BY <1>1, <1>2, <1>3, <1>4, <1>5, <1>6, <1>7, <1>8, <1>9 DEF Next, Worker

\* Whatever the interleaving of owner, pushers and worker, the queue behaves
\* as the bounded queue that gives up its oldest operation when full.
THEOREM QueueImplementsLossyQueue == Spec => Implements
  <1>1. Init => LQ!Init
    BY DEF Init, LQ!Init
  <1> QED
    BY <1>1, RefinementStep, TypeCorrect, PTL DEF Spec, Implements, LQ!Spec

-----------------------------------------------------------------------------
(* No operation is lost without being given up, or runs twice               *)

\* Append adds one member, at the end.
LEMMA AppendFacts ==
    ASSUME NEW s \in Seq(Ops), NEW o \in Ops
    PROVE  /\ ToSet(Append(s, o)) = ToSet(s) \cup {o}
           /\ IsInjective(s) /\ o \notin ToSet(s) => IsInjective(Append(s, o))
  <1>1. /\ DOMAIN s = 1..Len(s) /\ Len(s) \in Nat
        /\ DOMAIN Append(s, o) = 1..Len(s) + 1
        /\ \A i \in 1..Len(s) : Append(s, o)[i] = s[i]
        /\ Append(s, o)[Len(s) + 1] = o
    OBVIOUS
  <1>2. ToSet(Append(s, o)) \subseteq ToSet(s) \cup {o}
    BY <1>1 DEF ToSet
  <1>3. o \in ToSet(Append(s, o)) /\ ToSet(s) \subseteq ToSet(Append(s, o))
    BY <1>1 DEF ToSet
  <1>4. IsInjective(s) /\ o \notin ToSet(s) => IsInjective(Append(s, o))
    BY <1>1 DEF IsInjective, ToSet
  <1> QED
    BY <1>2, <1>3, <1>4

\* Taking the first operation of a list leaves the others.
LEMMA HeadTailFacts ==
    ASSUME NEW s \in Seq(Ops), s # <<>>
    PROVE  /\ Head(s) \in Ops /\ Tail(s) \in Seq(Ops)
           /\ ToSet(s) = ToSet(Tail(s)) \cup {Head(s)}
           /\ IsInjective(s) => IsInjective(Tail(s)) /\ Head(s) \notin ToSet(Tail(s))
  <1>1. /\ Head(s) \in Ops /\ Tail(s) \in Seq(Ops)
        /\ Len(s) \in Nat \ {0} /\ Head(s) = s[1]
        /\ DOMAIN s = 1..Len(s) /\ DOMAIN Tail(s) = 1..Len(s) - 1
        /\ \A i \in 1..Len(s) - 1 : Tail(s)[i] = s[i + 1]
    OBVIOUS
  <1>2. Head(s) \in ToSet(s) /\ ToSet(Tail(s)) \subseteq ToSet(s)
    BY <1>1 DEF ToSet
  <1>3. ToSet(s) \subseteq ToSet(Tail(s)) \cup {Head(s)}
    <2> SUFFICES ASSUME NEW i \in 1..Len(s), i # 1
                 PROVE  s[i] \in ToSet(Tail(s))
      BY <1>1 DEF ToSet
    <2>1. i - 1 \in 1..Len(s) - 1 /\ Tail(s)[i - 1] = s[i]
      BY <1>1
    <2> QED
      BY <1>1, <2>1 DEF ToSet
  <1>4. IsInjective(s) => IsInjective(Tail(s)) /\ Head(s) \notin ToSet(Tail(s))
    BY <1>1 DEF IsInjective, ToSet
  <1> QED
    BY <1>1, <1>2, <1>3, <1>4

LEMMA EmptyFacts == ToSet(<<>>) = {} /\ IsInjective(<<>>)
  BY DEF ToSet, IsInjective

\* Every operation that Push accepted waits, was begun or was given up, one of
\* the three and once only.
EachOnce ==
    /\ pushed = ToSet(begun) \cup lost \cup ToSet(opList)
    /\ IsInjective(begun) /\ IsInjective(opList)
    /\ ToSet(begun) \cap lost = {}
    /\ (ToSet(begun) \cup lost) \cap ToSet(opList) = {}

LEMMA EachOnceStep == TypeOK /\ EachOnce /\ [Next]_vars => EachOnce'
  <1> SUFFICES ASSUME TypeOK, EachOnce, [Next]_vars
               PROVE  EachOnce'
    OBVIOUS
  <1>1. CASE UNCHANGED <<opList, pushed, begun, lost>>
    BY <1>1 DEF EachOnce
  <1>2. CASE StopBegin
    <2>1. /\ opList' = <<>> /\ lost' = lost \cup ToSet(opList)
          /\ UNCHANGED <<pushed, begun>>
      BY <1>2 DEF StopBegin
    <2>2. ToSet(opList') = {} /\ IsInjective(opList')
      BY <2>1, EmptyFacts
    <2> QED
      BY <2>1, <2>2 DEF EachOnce
  <1>3. ASSUME NEW o \in Ops, Push(o)
        PROVE  EachOnce'
    <2>1. o \notin ToSet(begun) \cup lost \cup ToSet(opList)
          /\ pushed' = pushed \cup {o} /\ begun' = begun
      BY <1>3 DEF Push, EachOnce
    <2>2. CASE opList' = Append(opList, o) /\ UNCHANGED lost
      <3>1. ToSet(opList') = ToSet(opList) \cup {o} /\ IsInjective(opList')
        BY <2>1, <2>2, AppendFacts DEF TypeOK, EachOnce
      <3> QED
        BY <2>1, <2>2, <3>1 DEF EachOnce
    <2>3. CASE /\ Len(opList) >= MaxCount
               /\ opList' = Append(Tail(opList), o) /\ lost' = lost \cup {Head(opList)}
      <3>1. /\ Tail(opList) \in Seq(Ops) /\ IsInjective(Tail(opList))
            /\ ToSet(opList) = ToSet(Tail(opList)) \cup {Head(opList)}
            /\ Head(opList) \notin ToSet(Tail(opList))
        BY <2>3, FullIsNotEmpty, HeadTailFacts DEF TypeOK, EachOnce
      <3>2. ToSet(opList') = ToSet(Tail(opList)) \cup {o} /\ IsInjective(opList')
        BY <2>1, <2>3, <3>1, AppendFacts
      <3> QED
        BY <2>1, <2>3, <3>1, <3>2 DEF EachOnce
    <2> QED
      BY <1>3, <2>2, <2>3 DEF Push
  <1>4. CASE WorkerPop
    <2>1. CASE opList # <<>>
      <3>1. /\ opList' = Tail(opList) /\ begun' = Append(begun, Head(opList))
            /\ UNCHANGED <<pushed, lost>>
        BY <1>4, <2>1 DEF WorkerPop
      <3>2. /\ Head(opList) \in Ops /\ IsInjective(Tail(opList))
            /\ ToSet(opList) = ToSet(Tail(opList)) \cup {Head(opList)}
            /\ Head(opList) \notin ToSet(Tail(opList))
        BY <2>1, HeadTailFacts DEF TypeOK, EachOnce
      <3>3. ToSet(begun') = ToSet(begun) \cup {Head(opList)} /\ IsInjective(begun')
        BY <3>1, <3>2, AppendFacts DEF TypeOK, EachOnce
      <3> QED
        BY <3>1, <3>2, <3>3 DEF EachOnce
    <2> QED
      BY <1>1, <1>4, <2>1 DEF WorkerPop
  <1> QED
    BY <1>1, <1>2, <1>3, <1>4
    DEF Next, Worker, Run, StopJoin, WorkerTest, WorkerDone, WorkerWake, vars

\* Whatever the interleaving, nothing that was accepted disappears, runs twice,
\* or runs after an overflow or Stop has given it up.
THEOREM EachOperationOnce == Spec => []EachOnce
  <1>1. Init => EachOnce
    <2> SUFFICES ASSUME Init PROVE EachOnce
      OBVIOUS
    <2> QED
      BY EmptyFacts DEF Init, EachOnce
  <1> QED
    BY <1>1, EachOnceStep, TypeCorrect, PTL DEF Spec
=============================================================================
