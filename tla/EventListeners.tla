--------------------------- MODULE EventListeners ---------------------------
(***************************************************************************)
(* EventListenerMgr: the callbacks that processes register with the print  *)
(* service, the count that limits them, and their removal when they are    *)
(* unregistered, when their job is over, or when their process dies.       *)
(*                                                                         *)
(* Actors: client processes (On, Off, RegisterExtCallback), the delayed    *)
(* tasks of the service's own handler, and the death notices of IPC.       *)
(* Every function runs under mutex_, so each is one step.                  *)
(*                                                                         *)
(* held is registeredListeners_ flattened: one entry for each listener.    *)
(* A printer or extension callback holds one listener, a print job         *)
(* callback one for each job id.  A process belongs to one user and only   *)
(* registers objects of its own.  A print job callback left without jobs   *)
(* is not kept: it matches no query.                                       *)
(*                                                                         *)
(* External, IPC: AddDeathRecipient on an object of a dead process fails;  *)
(* a process that dies causes one notice for each recipient that its       *)
(* objects have then; a call sent before the death may arrive after it.    *)
(***************************************************************************)
EXTENDS Naturals, FiniteSets

CONSTANTS Pids,          \* client processes
          Names,         \* the callback objects that a process creates
          JobIds,
          Extensions,    \* extension ids
          PrinterTypes,  \* event types with one listener per process
          ExtTypes,      \* event types of extensions
          MaxListeners,  \* MAX_LISTENERS_COUNT
          MaxTasks,      \* bound: tasks waiting at a time
          NoSub

ASSUME MaxAssumption == MaxListeners \in Nat

VARIABLES held,     \* registeredListeners_
          counter,  \* counter_
          alive,    \* whether a process lives
          late,     \* its call that arrives after its death
          notices,  \* object -> death notices not yet handled
          posted    \* tasks that unregister the listener of a finished job

vars == <<held, counter, alive, late, notices, posted>>

StateType == "PRINT_JOB_STATE_CALLBACK"
AdapterType == "PRINT_JOB_CALLBACK_ADAPTER"
JobTypes == {StateType, AdapterType}
Types == PrinterTypes \cup ExtTypes \cup JobTypes

ASSUME TypesAssumption == (PrinterTypes \cup ExtTypes) \cap JobTypes = {}

Objects == Pids \X Names
Entries == [pid : Pids, type : Types, sub : JobIds \cup Extensions \cup {NoSub},
            obj : Objects, watched : BOOLEAN]

-----------------------------------------------------------------------------
(* Helpers *)

\* FindCallback: what the callback of a process for an event type holds
Callback(p, t) == {e \in held : e.pid = p /\ e.type = t}

\* the listener of one job in that callback
OfJob(p, t, j) == {e \in Callback(p, t) : e.sub = j}

\* AddDeathRecipient succeeds only while the process lives
Listener(p, t, s, o) ==
    [pid |-> p, type |-> t, sub |-> s, obj |-> o, watched |-> alive[p]]

\* mutant: a replaced listener is counted again
Register_CountsAgain(old, new) ==
    \/ /\ counter < MaxListeners
       /\ held' = (held \ old) \cup {new}
       /\ counter' = counter + 1
    \/ /\ counter >= MaxListeners
       /\ UNCHANGED <<held, counter>>

\* mutant: the new listener gets no death recipient when it replaces another
Register_UnwatchedReplacement(old, new) ==
    \/ /\ old # {}
       /\ held' = (held \ old) \cup {[new EXCEPT !.watched = FALSE]}
       /\ UNCHANGED counter
    \/ /\ old = {} /\ counter < MaxListeners
       /\ held' = held \cup {new}
       /\ counter' = counter + 1
    \/ /\ old = {} /\ counter >= MaxListeners
       /\ UNCHANGED <<held, counter>>

\* the old listener and its death recipient are replaced, or a new listener is
\* added and counted, unless there are too many
Register(old, new) ==
    \/ /\ old # {}
       /\ held' = (held \ old) \cup {new}
       /\ UNCHANGED counter
    \/ /\ old = {} /\ counter < MaxListeners
       /\ held' = held \cup {new}
       /\ counter' = counter + 1
    \/ /\ old = {} /\ counter >= MaxListeners
       /\ UNCHANGED <<held, counter>>

\* listeners leave with their death recipients and are no longer counted
Clear(gone) == /\ held' = held \ gone
               /\ counter' = counter - Cardinality(gone)

\* a call arrives from a process that lives, or did when it sent it
Calls(p) == \/ alive[p] /\ UNCHANGED late
            \/ late[p] = "sent" /\ late' = [late EXCEPT ![p] = "handled"]

Watched(o) == {e \in held : e.obj = o /\ e.watched}
-----------------------------------------------------------------------------
(* Calls of the client processes *)

\* On with a printer event type
RegisterPrinterListener(p, t, n) ==
    /\ Calls(p)
    /\ Register(Callback(p, t), Listener(p, t, NoSub, <<p, n>>))
    /\ UNCHANGED <<alive, notices, posted>>

\* RegisterExtCallback: the id of the extension is replaced with the listener
RegisterExtensionListener(p, t, x, n) ==
    /\ Calls(p)
    /\ Register(Callback(p, t), Listener(p, t, x, <<p, n>>))
    /\ UNCHANGED <<alive, notices, posted>>

\* On with a task id
RegisterPrintJobListener(p, t, j, n) ==
    /\ Calls(p)
    /\ Register(OfJob(p, t, j), Listener(p, t, j, <<p, n>>))
    /\ UNCHANGED <<alive, notices, posted>>

\* Off with a printer event type
UnRegisterPrinterListener(p, t) ==
    /\ Calls(p)
    /\ Callback(p, t) # {}
    /\ Clear(Callback(p, t))
    /\ UNCHANGED <<alive, notices, posted>>

\* Off with a task id, called by a client
UnRegisterPrintJobListener(p, t, j) ==
    /\ Calls(p)
    /\ OfJob(p, t, j) # {}
    /\ Clear(OfJob(p, t, j))
    /\ UNCHANGED <<alive, notices, posted>>
-----------------------------------------------------------------------------
(* The service *)

\* the state COMPLETED of a job is told; its listener goes some time later
HandleJobStateChanged(j) ==
    /\ Cardinality(posted) < MaxTasks
    /\ posted' = posted \cup {<<StateType, j>>}
    /\ UNCHANGED <<held, counter, alive, late, notices>>

\* the spooler closed or the job ended, and somebody listens
notifyAdapterJobChanged(j) ==
    /\ Cardinality(posted) < MaxTasks
    /\ \E e \in held : e.type = AdapterType /\ e.sub = j
    /\ posted' = posted \cup {<<AdapterType, j>>}
    /\ UNCHANGED <<held, counter, alive, late, notices>>

\* the delayed task calls with the pid of the service, which has no callback of
\* its own: the first listener found for the job is deleted, whoever holds it
DeletePrintJobListener(t, j) ==
    /\ <<t, j>> \in posted
    /\ posted' = posted \ {<<t, j>>}
    /\ LET listeners == {e \in held : e.type = t /\ e.sub = j} IN
       \/ \E e \in listeners : Clear({e})
       \/ listeners = {} /\ UNCHANGED <<held, counter>>
    /\ UNCHANGED <<alive, late, notices>>

\* mutant: a notice removes only a callback that has no other listener
OnRemoteListenerDied_OnlySole(o) ==
    /\ notices[o] > 0
    /\ notices' = [notices EXCEPT ![o] = @ - 1]
    /\ \/ \E e \in held : /\ e.obj = o /\ Callback(e.pid, e.type) = {e}
                          /\ Clear({e})
       \/ /\ \A e \in held : e.obj = o => Callback(e.pid, e.type) # {e}
          /\ UNCHANGED <<held, counter>>
    /\ UNCHANGED <<alive, late, posted>>

\* one notice removes the first callback that holds the object, with all the
\* listeners of that callback
OnRemoteListenerDied(o) ==
    /\ notices[o] > 0
    /\ notices' = [notices EXCEPT ![o] = @ - 1]
    /\ \/ \E e \in held : e.obj = o /\ Clear(Callback(e.pid, e.type))
       \/ (\A e \in held : e.obj # o) /\ UNCHANGED <<held, counter>>
    /\ UNCHANGED <<alive, late, posted>>

\* external: a process dies
Die(p) ==
    /\ alive[p]
    /\ alive' = [alive EXCEPT ![p] = FALSE]
    /\ \E call \in {"none", "sent"} : late' = [late EXCEPT ![p] = call]
    /\ notices' = [o \in Objects |-> IF o[1] = p THEN Cardinality(Watched(o))
                                                 ELSE notices[o]]
    /\ UNCHANGED <<held, counter, posted>>
-----------------------------------------------------------------------------
Init == /\ held = {}
        /\ counter = 0
        /\ alive = [p \in Pids |-> TRUE]
        /\ late = [p \in Pids |-> "none"]
        /\ notices = [o \in Objects |-> 0]
        /\ posted = {}

ClientNext(p) ==
    \/ \E t \in PrinterTypes :
          \/ \E n \in Names : RegisterPrinterListener(p, t, n)
          \/ UnRegisterPrinterListener(p, t)
    \/ \E t \in ExtTypes, x \in Extensions, n \in Names :
          RegisterExtensionListener(p, t, x, n)
    \/ \E t \in JobTypes, j \in JobIds :
          \/ \E n \in Names : RegisterPrintJobListener(p, t, j, n)
          \/ UnRegisterPrintJobListener(p, t, j)
    \/ Die(p)

ServiceNext ==
    \/ \E j \in JobIds : HandleJobStateChanged(j) \/ notifyAdapterJobChanged(j)
    \/ \E t \in JobTypes, j \in JobIds : DeletePrintJobListener(t, j)
    \/ \E o \in Objects : OnRemoteListenerDied(o)

Next == (\E p \in Pids : ClientNext(p)) \/ ServiceNext

Spec == Init /\ [][Next]_vars

\* IPC delivers every notice
FairSpec == Spec /\ \A o \in Objects : WF_vars(OnRemoteListenerDied(o))
-----------------------------------------------------------------------------
(* Properties *)

TypeOK ==
    /\ held \subseteq Entries
    /\ counter \in Nat
    /\ alive \in [Pids -> BOOLEAN]
    /\ late \in [Pids -> {"none", "sent", "handled"}]
    /\ notices \in [Objects -> Nat]
    /\ posted \subseteq JobTypes \X JobIds

\* counter_ is the number of listeners held, through replacements, removals
\* and deaths: it neither leaks places of the MAX_LISTENERS_COUNT nor wraps
\* below zero, and the limit holds.
CounterIsExact == /\ IsFiniteSet(held)
                  /\ counter = Cardinality(held)
                  /\ counter <= MaxListeners

\* Every listener of a dead process has a notice of its own to come, also when
\* the process registered one object several times or replaced listeners,
\* unless the process had a registration on its way when it died.
DeadAreNoticed ==
    \A o \in Objects : ~alive[o[1]] /\ late[o[1]] # "handled" =>
        /\ \A e \in held : e.obj = o => e.watched
        /\ Cardinality(Watched(o)) <= notices[o]

\* The listeners of a dead process all go, however its notices interleave with
\* the tasks of the service and the calls of other processes.
DeadAreForgotten ==
    \A p \in Pids : ~alive[p] /\ late[p] = "none"
                        ~> \A e \in held : e.pid # p
=============================================================================
