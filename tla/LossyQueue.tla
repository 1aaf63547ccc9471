----------------------------- MODULE LossyQueue -----------------------------
(***************************************************************************)
(* What an operation queue promises to its users: operations are started   *)
(* in the order in which they were accepted, each at most once; when the   *)
(* queue is full the oldest waiting operation is given up for the new one; *)
(* closing gives up everything that waits.  Nothing is said of threads.    *)
(***************************************************************************)
EXTENDS Naturals, Sequences, SequencesExt

CONSTANTS Ops,      \* operations a client may hand over, each at most once
          Capacity  \* waiting operations the queue may hold

VARIABLES open,     \* whether operations are accepted
          pending,  \* accepted operations not started, the oldest first
          begun,    \* started operations, in the order of their start
          lost      \* accepted operations that will never be started

vars == <<open, pending, begun, lost>>

Init == /\ open = FALSE
        /\ pending = <<>>
        /\ begun = <<>>
        /\ lost = {}

Open == /\ ~open
        /\ open' = TRUE
        /\ UNCHANGED <<pending, begun, lost>>

Close == /\ open
         /\ open' = FALSE
         /\ pending' = <<>>
         /\ lost' = lost \cup ToSet(pending)
         /\ UNCHANGED begun

AcceptWithRoom(op) ==
    /\ open
    /\ Len(pending) < Capacity
    /\ pending' = Append(pending, op)
    /\ UNCHANGED <<open, begun, lost>>

AcceptInsteadOfOldest(op) ==
    /\ open
    /\ Len(pending) >= Capacity
    /\ pending' = Append(Tail(pending), op)
    /\ lost' = lost \cup {Head(pending)}
    /\ UNCHANGED <<open, begun>>

Start == /\ pending # <<>>
         /\ pending' = Tail(pending)
         /\ begun' = Append(begun, Head(pending))
         /\ UNCHANGED <<open, lost>>

Next == \/ Open
        \/ Close
        \/ \E op \in Ops : AcceptWithRoom(op) \/ AcceptInsteadOfOldest(op)
        \/ Start

Spec == Init /\ [][Next]_vars
=============================================================================
