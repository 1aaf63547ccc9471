--------------------------- MODULE OperationQueue ---------------------------
(***************************************************************************)
(* services/print_service/src/operation_queue.cpp: the queue through which *)
(* a vendor driver runs its callbacks on a thread of its own.              *)
(*                                                                         *)
(* Actors: the owner of the driver (Run from OnCreate, Stop from OnDestroy *)
(* and UnInit, one call at a time), the threads that push operations, and  *)
(* the worker thread Run starts.  listMutex makes Push, Pop and the first  *)
(* half of Stop atomic; the worker's test of isRunning is outside of it.   *)
(*                                                                         *)
(* opList is kept with the next operation to run first: opList.back() in   *)
(* the code, Head here.  begun, lost and pushed record history.            *)
(***************************************************************************)
EXTENDS Naturals, Sequences, FiniteSets, SequencesExt

CONSTANTS Ops,       \* the operations pushed, each at most once
          MaxCount,  \* maxCount, 100 in the code
          NoOp       \* the worker holds no operation

ASSUME MaxCountAssumption == MaxCount \in Nat \ {0}
ASSUME NoOpAssumption == NoOp \notin Ops

VARIABLES isRunning,  \* the atomic flag
          opList,     \* waiting operations, the next one to run first
          worker,     \* where the worker thread is
          op,         \* the worker's local variable op
          owner,      \* whether a call of Stop waits to join the worker
          pushed,     \* history: operations Push accepted
          begun,      \* history: operations the worker called, in order
          lost        \* history: operations pop_back or clear discarded

vars == <<isRunning, opList, worker, op, owner, pushed, begun, lost>>

WorkerStates == {"none", "test", "pop", "exec", "wait", "exited"}
OwnerStates == {"idle", "joining"}

Init == /\ isRunning = FALSE
        /\ opList = <<>>
        /\ worker = "none"
        /\ op = NoOp
        /\ owner = "idle"
        /\ pushed = {}
        /\ begun = <<>>
        /\ lost = {}

-----------------------------------------------------------------------------
(* Mutated forms of the actions below: each run property is tested against   *)
(* the one that should break it.                                             *)

\* the overflow discards the newest waiting operation (pop_front)
Push_DropsNewest(o) ==
    /\ o \notin pushed
    /\ isRunning
    /\ pushed' = pushed \cup {o}
    /\ \/ /\ Len(opList) < MaxCount
          /\ opList' = Append(opList, o)
          /\ UNCHANGED lost
       \/ /\ Len(opList) >= MaxCount
          /\ opList' = [opList EXCEPT ![Len(opList)] = o]
          /\ lost' = lost \cup {opList[Len(opList)]}
    /\ UNCHANGED <<isRunning, worker, op, owner, begun>>

\* opList.clear() is missing
StopBegin_KeepsList == /\ owner = "idle"
                       /\ isRunning
                       /\ isRunning' = FALSE
                       /\ owner' = "joining"
                       /\ UNCHANGED <<opList, worker, op, pushed, begun, lost>>

\* the worker thread is detached instead of joined
StopJoin_NoJoin == /\ owner = "joining"
                   /\ owner' = "idle"
                   /\ UNCHANGED <<isRunning, opList, worker, op, pushed, begun, lost>>

\* the wait has no timeout and Stop does not notify
WorkerWake_OnlyByPush ==
    /\ worker = "wait"
    /\ opList # <<>>
    /\ worker' = "test"
    /\ UNCHANGED <<isRunning, opList, op, owner, pushed, begun, lost>>

-----------------------------------------------------------------------------
(* The owner's calls *)

\* Run: the compare-exchange succeeds and the worker thread is created.
\* A second Run finds the flag set and changes nothing.
Run == /\ owner = "idle"
       /\ ~isRunning
       /\ isRunning' = TRUE
       /\ worker' = "test"
       /\ UNCHANGED <<opList, op, owner, pushed, begun, lost>>

\* Stop, the part under listMutex: clear the flag and the list.
StopBegin == /\ owner = "idle"
             /\ isRunning
             /\ isRunning' = FALSE
             /\ opList' = <<>>
             /\ lost' = lost \cup ToSet(opList)
             /\ owner' = "joining"
             /\ UNCHANGED <<worker, op, pushed, begun>>

\* Stop: opThread.join() returns once the worker left its loop.
StopJoin == /\ owner = "joining"
            /\ worker = "exited"
            /\ worker' = "none"
            /\ owner' = "idle"
            /\ UNCHANGED <<isRunning, opList, op, pushed, begun, lost>>

-----------------------------------------------------------------------------
(* Push, by any thread *)

\* Push refuses when the queue is not running: the state is unchanged.
\* A full list loses its back, the operation that was to run next.
Push(o) ==
    /\ o \notin pushed
    /\ isRunning
    /\ pushed' = pushed \cup {o}
    /\ \/ /\ Len(opList) < MaxCount
          /\ opList' = Append(opList, o)
          /\ UNCHANGED lost
       \/ /\ Len(opList) >= MaxCount
          /\ opList' = Append(Tail(opList), o)
          /\ lost' = lost \cup {Head(opList)}
    /\ UNCHANGED <<isRunning, worker, op, owner, begun>>

-----------------------------------------------------------------------------
(* The worker thread *)

\* while (isRunning)
WorkerTest == /\ worker = "test"
              /\ worker' = IF isRunning THEN "pop" ELSE "exited"
              /\ UNCHANGED <<isRunning, opList, op, owner, pushed, begun, lost>>

\* Pop under listMutex, then op() or a wait.
WorkerPop ==
    /\ worker = "pop"
    /\ \/ /\ opList = <<>>
          /\ worker' = "wait"
          /\ UNCHANGED <<opList, op, begun>>
       \/ /\ opList # <<>>
          /\ op' = Head(opList)
          /\ opList' = Tail(opList)
          /\ begun' = Append(begun, Head(opList))
          /\ worker' = "exec"
    /\ UNCHANGED <<isRunning, owner, pushed, lost>>

\* op() returns.
WorkerDone == /\ worker = "exec"
              /\ op' = NoOp
              /\ worker' = "test"
              /\ UNCHANGED <<isRunning, opList, owner, pushed, begun, lost>>

\* syncWait.Wait returns: notified, woken for no reason, or after one second.
WorkerWake == /\ worker = "wait"
              /\ worker' = "test"
              /\ UNCHANGED <<isRunning, opList, op, owner, pushed, begun, lost>>

Worker == WorkerTest \/ WorkerPop \/ WorkerDone \/ WorkerWake

Next == \/ Run
        \/ StopBegin
        \/ StopJoin
        \/ \E o \in Ops : Push(o)
        \/ Worker

Spec == Init /\ [][Next]_vars

\* The worker thread is scheduled, its wait is bounded by CHECK_OP_INTERVAL_MS
\* and an operation returns; join returns when the thread has ended.  Nothing
\* is assumed of who calls Run, Stop and Push.
FairSpec == Spec /\ WF_vars(Worker) /\ WF_vars(StopJoin)

-----------------------------------------------------------------------------
(* Properties *)

\* Every variable has its type and the list never exceeds maxCount.
TypeOK == /\ isRunning \in BOOLEAN
          /\ opList \in Seq(Ops) /\ Len(opList) <= MaxCount
          /\ worker \in WorkerStates
          /\ op \in Ops \cup {NoOp}
          /\ owner \in OwnerStates
          /\ pushed \in SUBSET Ops
          /\ begun \in Seq(Ops)
          /\ lost \in SUBSET Ops

\* A stopped queue holds no operation: Push tests isRunning and Stop clears the
\* list under the same mutex, so none is left for the worker of the next life
\* of the driver.  And when Stop has returned no operation is in execution and
\* none will start before the next Run: OnDestroy may free what they refer to.
QuietWhenStopped ==
    /\ isRunning \/ opList = <<>>
    /\ ~isRunning /\ owner = "idle" => worker = "none" /\ op = NoOp

\* Every accepted operation is begun or given up: nothing waits for ever.
AcceptedIsResolved ==
    \A o \in Ops : o \in pushed ~> o \in ToSet(begun) \cup lost

\* Stop returns, whatever the other threads do in the meantime.
StopReturns == owner = "joining" ~> owner = "idle"

\* The queue implements the abstract one.
LQ == INSTANCE LossyQueue WITH open <- isRunning, pending <- opList,
                               Capacity <- MaxCount
Implements == LQ!Spec
=============================================================================
