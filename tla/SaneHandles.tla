----------------------------- MODULE SaneHandles ----------------------------
(***************************************************************************)
(* services/sane_service: the process that owns the scanner drivers.       *)
(* SaneServerManager keeps one opened scanner, the slot scannerHandle_,    *)
(* and SafeSANEAPI serialises the calls of the SANE library with one mutex *)
(* for each open handle.                                                   *)
(*                                                                         *)
(* Actors: the threads that serve the calls of the scan service.  The slot *)
(* is read and written under scannerHandleLock_ (slotLock), held by a      *)
(* close and by the unload while they wait for the handle's mutex.         *)
(* handleMutexesLock_ and globalLock_ are held for one step each, so they  *)
(* need no variable.  A handle is named by its address, which sane_open    *)
(* may return again once the handle is closed; the mutexes that            *)
(* AddHandleMutex makes are numbered, and number 0 is no mutex.            *)
(*                                                                         *)
(* Two variables are history: latest and exited are written and never      *)
(* tested by an action; the properties use them to tell a call that has    *)
(* been overtaken, or cut off by sane_exit, from one that has not.         *)
(*                                                                         *)
(* sane_init, sane_cancel, sane_get_devices, a sane_open that fails and an *)
(* open of the scanner in the slot change nothing kept here.  Every call   *)
(* of the library returns in the end: that is an assumption about the      *)
(* driver.                                                                 *)
(***************************************************************************)
EXTENDS Naturals

CONSTANTS Threads,         \* binder threads of the service
          Scanners,        \* scanner ids
          MaxOpens,        \* bound: successful calls of sane_open
          NoThread, NoScanner

ASSUME ThreadAssumption == NoThread \notin Threads
ASSUME ScannerAssumption == NoScanner \notin Scanners
ASSUME OpensAssumption == MaxOpens \in Nat

VARIABLES opened,      \* handles open in the library
          slot,        \* scannerHandle_
          slotLock,    \* who holds scannerHandleLock_ for several steps
          registered,  \* handleMutexes_: handle -> mutex
          holder,      \* mutex -> thread that holds it
          mutexes,     \* mutexes made so far
          pc,          \* where a thread is
          handle,      \* its local variable handle
          mutex,       \* its local variable mutexPtr
          todo,        \* SaneCloseAllHandles: handles still to be closed
          latest,      \* history: handle -> the last mutex made for it
          exited       \* history: handles that sane_exit closed and sane_open
                       \* has not returned since

library == <<opened, exited>>
locks == <<registered, holder, mutexes, latest>>
locals == <<pc, handle, mutex>>
vars == <<opened, slot, slotLock, registered, holder, mutexes, pc, handle, mutex,
          todo, latest, exited>>

Handles == 1..MaxOpens
Mutexes == Handles
NullOr(S) == S \cup {0}
NoSlot == [scanner |-> NoScanner, handle |-> 0]
Slots == [scanner : Scanners, handle : Handles] \cup {NoSlot}

Calling == {"find", "lock", "check", "call"}
Closing == {"close", "unload", "unload close"}

Init == /\ opened = {}
        /\ slot = NoSlot
        /\ slotLock = NoThread
        /\ registered = [h \in Handles |-> 0]
        /\ holder = [m \in Mutexes |-> NoThread]
        /\ mutexes = 0
        /\ pc = [t \in Threads |-> "idle"]
        /\ handle = [t \in Threads |-> 0]
        /\ mutex = [t \in Threads |-> 0]
        /\ todo = {}
        /\ latest = [h \in Handles |-> 0]
        /\ exited = {}

Registered == {h \in Handles : registered[h] # 0}
SlotIsFree == slotLock = NoThread

\* the thread answers its caller, and its local variables are gone
Answer(t) ==
    /\ pc' = [pc EXCEPT ![t] = "idle"]
    /\ handle' = [handle EXCEPT ![t] = 0]
    /\ mutex' = [mutex EXCEPT ![t] = 0]

-----------------------------------------------------------------------------
(* Mutated forms of the actions below.                                      *)

\* no second look at the table once the mutex is held
Recheck_Trusts(t) ==
    /\ pc[t] = "check"
    /\ pc' = [pc EXCEPT ![t] = "call"]
    /\ UNCHANGED <<library, slot, slotLock, locks, handle, mutex, todo>>

\* the handle in the slot is the only one the unload closes
Unload_SlotOnly(t) ==
    /\ pc[t] = "idle"
    /\ SlotIsFree
    /\ slotLock' = t
    /\ slot' = NoSlot
    /\ todo' = Registered \cap {slot.handle}
    /\ pc' = [pc EXCEPT ![t] = "unload"]
    /\ UNCHANGED <<library, locks, handle, mutex>>

\* the mutex stays in the table while the close waits for it
CloseBegin_KeepsMutex(t, s) ==
    /\ pc[t] = "idle"
    /\ SlotIsFree
    /\ slot.scanner = s
    /\ slotLock' = t
    /\ handle' = [handle EXCEPT ![t] = slot.handle]
    /\ mutex' = [mutex EXCEPT ![t] = registered[slot.handle]]
    /\ pc' = [pc EXCEPT ![t] = "close"]
    /\ UNCHANGED <<library, slot, locks, todo>>

-----------------------------------------------------------------------------
(* The library as a whole                                                   *)

\* sane_exit closes whatever is open; handleMutexes_ and the slot keep it
Exit ==
    /\ opened' = {}
    /\ exited' = exited \cup opened

\* it waits for no call and for no close: it takes globalLock_ only
SaneExit ==
    /\ Exit
    /\ UNCHANGED <<slot, slotLock, locks, locals, todo>>

\* SaneOpen that succeeds: a new mutex for the address, and the slot forgets the
\* scanner that was open before; its handle stays open and registered
SaneOpen(s, h) ==
    /\ SlotIsFree
    /\ slot.scanner # s
    /\ mutexes < MaxOpens
    /\ h \notin opened
    /\ opened' = opened \cup {h}
    /\ exited' = exited \ {h}
    /\ mutexes' = mutexes + 1
    /\ registered' = [registered EXCEPT ![h] = mutexes + 1]
    /\ latest' = [latest EXCEPT ![h] = mutexes + 1]
    /\ slot' = [scanner |-> s, handle |-> h]
    /\ UNCHANGED <<slotLock, holder, locals, todo>>

-----------------------------------------------------------------------------
(* A call on the open scanner: start, read, parameters, options             *)

\* GetScanHandle
Begin(t, s) ==
    /\ pc[t] = "idle"
    /\ SlotIsFree
    /\ slot.scanner = s
    /\ handle' = [handle EXCEPT ![t] = slot.handle]
    /\ pc' = [pc EXCEPT ![t] = "find"]
    /\ UNCHANGED <<library, slot, slotLock, locks, mutex, todo>>

\* GetHandleMutex: a handle that is closed has none
FindMutex(t) ==
    /\ pc[t] = "find"
    /\ \/ /\ handle[t] \in Registered
          /\ mutex' = [mutex EXCEPT ![t] = registered[handle[t]]]
          /\ pc' = [pc EXCEPT ![t] = "lock"]
          /\ UNCHANGED handle
       \/ /\ handle[t] \notin Registered
          /\ Answer(t)
    /\ UNCHANGED <<library, slot, slotLock, locks, todo>>

LockMutex(t) ==
    /\ pc[t] = "lock"
    /\ holder[mutex[t]] = NoThread
    /\ holder' = [holder EXCEPT ![mutex[t]] = t]
    /\ pc' = [pc EXCEPT ![t] = "check"]
    /\ UNCHANGED <<library, slot, slotLock, registered, mutexes, latest,
                   handle, mutex, todo>>

\* the handle may have been closed while the thread waited
Recheck(t) ==
    /\ pc[t] = "check"
    /\ \/ /\ handle[t] \in Registered
          /\ pc' = [pc EXCEPT ![t] = "call"]
          /\ UNCHANGED <<holder, handle, mutex>>
       \/ /\ handle[t] \notin Registered
          /\ holder' = [holder EXCEPT ![mutex[t]] = NoThread]
          /\ Answer(t)
    /\ UNCHANGED <<library, slot, slotLock, registered, mutexes, latest, todo>>

\* a read without data and the first half of a control call go round again; a
\* call of one half is one that never does
GoRound(t) ==
    /\ pc' = [pc EXCEPT ![t] = "find"]
    /\ mutex' = [mutex EXCEPT ![t] = 0]
    /\ UNCHANGED handle

\* the library call returns
Return(t) ==
    /\ pc[t] = "call"
    /\ holder' = [holder EXCEPT ![mutex[t]] = NoThread]
    /\ Answer(t) \/ GoRound(t)
    /\ UNCHANGED <<library, slot, slotLock, registered, mutexes, latest, todo>>

-----------------------------------------------------------------------------
(* Closing                                                                  *)

\* RemoveHandleMutex: from now on no call finds the mutex
Remove(t, h) ==
    /\ handle' = [handle EXCEPT ![t] = h]
    /\ mutex' = [mutex EXCEPT ![t] = registered[h]]
    /\ registered' = [registered EXCEPT ![h] = 0]
    /\ UNCHANGED <<holder, mutexes, latest>>

\* sane_close under the mutex the thread has removed
CloseHandle(t) ==
    /\ holder[mutex[t]] = NoThread
    /\ opened' = opened \ {handle[t]}
    /\ UNCHANGED <<exited, locks>>

CloseBegin(t, s) ==
    /\ pc[t] = "idle"
    /\ SlotIsFree
    /\ slot.scanner = s
    /\ slotLock' = t
    /\ Remove(t, slot.handle)
    /\ pc' = [pc EXCEPT ![t] = "close"]
    /\ UNCHANGED <<library, slot, todo>>

CloseEnd(t) ==
    /\ pc[t] = "close"
    /\ CloseHandle(t)
    /\ slot' = NoSlot
    /\ slotLock' = NoThread
    /\ Answer(t)
    /\ UNCHANGED todo

\* UnloadSystemAbility up to the cancels: the handles to close are those
\* registered now
Unload(t) ==
    /\ pc[t] = "idle"
    /\ SlotIsFree
    /\ slotLock' = t
    /\ slot' = NoSlot
    /\ todo' = Registered
    /\ pc' = [pc EXCEPT ![t] = "unload"]
    /\ UNCHANGED <<library, locks, handle, mutex>>

UnloadRemove(t, h) ==
    /\ pc[t] = "unload"
    /\ h \in todo
    /\ Remove(t, h)
    /\ todo' = todo \ {h}
    /\ pc' = [pc EXCEPT ![t] = "unload close"]
    /\ UNCHANGED <<library, slot, slotLock>>

UnloadClose(t) ==
    /\ pc[t] = "unload close"
    /\ CloseHandle(t)
    /\ handle' = [handle EXCEPT ![t] = 0]
    /\ mutex' = [mutex EXCEPT ![t] = 0]
    /\ pc' = [pc EXCEPT ![t] = "unload"]
    /\ UNCHANGED <<slot, slotLock, todo>>

\* SaneExit, the temporary files, and the thread that has the process unloaded
UnloadExit(t) ==
    /\ pc[t] = "unload"
    /\ todo = {}
    /\ Exit
    /\ slotLock' = NoThread
    /\ Answer(t)
    /\ UNCHANGED <<slot, locks, todo>>

-----------------------------------------------------------------------------
CallStep(t) == FindMutex(t) \/ LockMutex(t) \/ Recheck(t) \/ Return(t)

CloseStep(t) ==
    \/ CloseEnd(t)
    \/ \E h \in Handles : UnloadRemove(t, h)
    \/ UnloadClose(t)
    \/ UnloadExit(t)

Next ==
    \/ SaneExit
    \/ \E s \in Scanners, h \in Handles : SaneOpen(s, h)
    \/ \E t \in Threads :
          \/ \E s \in Scanners : Begin(t, s)
          \/ \E s \in Scanners : CloseBegin(t, s)
          \/ Unload(t)
          \/ CallStep(t)
          \/ CloseStep(t)

Spec == Init /\ [][Next]_vars

\* threads run, mutexes are granted, and calls of the library return
FairSpec == Spec /\ \A t \in Threads : WF_vars(CallStep(t)) /\ WF_vars(CloseStep(t))

-----------------------------------------------------------------------------
TypeOK ==
    /\ opened \subseteq Handles
    /\ slot \in Slots
    /\ slotLock \in Threads \cup {NoThread}
    /\ registered \in [Handles -> NullOr(Mutexes)]
    /\ holder \in [Mutexes -> Threads \cup {NoThread}]
    /\ mutexes \in NullOr(Mutexes)
    /\ pc \in [Threads -> {"idle"} \cup Calling \cup Closing]
    /\ handle \in [Threads -> NullOr(Handles)]
    /\ mutex \in [Threads -> NullOr(Mutexes)]
    /\ todo \subseteq Handles
    /\ latest \in [Handles -> NullOr(Mutexes)]
    /\ exited \subseteq Handles

\* since the call looked up its mutex the handle was closed and sane_open has
\* returned the address again
Overtaken(t) == mutex[t] # latest[handle[t]]

\* A call of the library in progress has its handle for itself.  The handle is
\* open, unless sane_exit closed it, and every other call in progress on that
\* address looked up its mutex before the address was returned again.  A close
\* and sane_exit come in between the lookup of the handle, the lookup of its
\* mutex, the wait for it and the call (SafeSANEAPI::SaneStart ...).
UsedAlone ==
    \A t \in Threads : pc[t] = "call" /\ ~Overtaken(t) =>
        /\ handle[t] \in opened \cup exited
        /\ \A u \in Threads \ {t} :
              pc[u] = "call" /\ handle[u] = handle[t] => Overtaken(u)

\* When the unload calls sane_exit no handle is open, whichever scanners were
\* opened, replaced in the slot and cut off by an earlier sane_exit (SaneOpen keeps
\* the handle it replaces open); and the only calls still in progress are those
\* overtaken by a new opening at their address, whose mutex is no longer known.
ExitFindsNothingOpen ==
    \A t \in Threads : pc[t] = "unload" /\ todo = {} =>
        /\ opened = {}
        /\ \A u \in Threads : pc[u] = "call" => Overtaken(u)

\* A close, and an unload, ends although it holds the lock of the slot while
\* it waits for calls that are in progress, and although reads go round until
\* there is data; and a read whose handle is closed ends, unless the address is
\* registered again before it looks.
CloseStopsTheReader ==
    \A t \in Threads :
        /\ pc[t] \in Closing ~> pc[t] = "idle"
        /\ pc[t] \in Calling /\ handle[t] \notin Registered
              ~> pc[t] = "idle" \/ handle[t] \in Registered
=============================================================================
