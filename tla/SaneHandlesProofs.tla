-------------------------- MODULE SaneHandlesProofs -------------------------
(***************************************************************************)
(* Proofs about SaneHandles for any number of threads, scanners and opens, *)
(* with a library that may return the address of a closed handle again and *)
(* with sane_exit at any moment.  Inv says which handles the service still *)
(* knows and who may hold what at each point of a call or a close.         *)
(***************************************************************************)
EXTENDS SaneHandles, TLAPS

\* 0 names neither a handle nor a mutex
LEMMA NumberFacts == 0 \notin Handles
  BY OpensAssumption DEF Handles

\* the slot has a handle exactly when it has a scanner
LEMMA SlotFacts ==
    ASSUME slot \in Slots, NEW s \in Scanners, slot.scanner = s
    PROVE  slot # NoSlot /\ slot.handle \in Handles
  BY ScannerAssumption DEF Slots, NoSlot

-----------------------------------------------------------------------------
(* Type correctness                                                         *)

LEMMA InitTypeOK == Init => TypeOK
  BY ZenonT(60) DEF Init, TypeOK, Slots, NullOr, Mutexes

LEMMA NextTypeOK == TypeOK /\ [Next]_vars => TypeOK'
<1> SUFFICES ASSUME TypeOK, [Next]_vars PROVE TypeOK'
  OBVIOUS
<1> USE DEF TypeOK, NullOr, Mutexes
<1>1. CASE SaneExit
  BY <1>1 DEF SaneExit, Exit, locks, locals
<1>2. ASSUME NEW s \in Scanners, NEW h \in Handles, SaneOpen(s, h) PROVE TypeOK'
  <2>1. mutexes + 1 \in Handles
    BY <1>2, OpensAssumption DEF SaneOpen, Handles
  <2> QED
    BY <2>1, <1>2 DEF SaneOpen, locals, Slots
<1>3. ASSUME NEW t \in Threads, NEW s \in Scanners, Begin(t, s) PROVE TypeOK'
  <2>1. slot.handle \in Handles
    BY <1>3, SlotFacts DEF Begin
  <2> QED
    BY <2>1, <1>3 DEF Begin, library, locks, Calling
<1>4. ASSUME NEW t \in Threads, NEW s \in Scanners, CloseBegin(t, s) PROVE TypeOK'
  <2>1. slot.handle \in Handles
    BY <1>4, SlotFacts DEF CloseBegin
  <2> QED
    BY <2>1, <1>4 DEF CloseBegin, Remove, library, Closing
<1>5. ASSUME NEW t \in Threads, Unload(t) PROVE TypeOK'
  BY <1>5 DEF Unload, library, locks, Registered, Slots, Closing
<1>6. ASSUME NEW t \in Threads, FindMutex(t) PROVE TypeOK'
  BY <1>6 DEF FindMutex, Answer, Registered, library, locks, Calling
<1>7. ASSUME NEW t \in Threads, LockMutex(t) PROVE TypeOK'
  BY <1>7 DEF LockMutex, library, Calling
<1>8. ASSUME NEW t \in Threads, Recheck(t) PROVE TypeOK'
  BY <1>8 DEF Recheck, Answer, library, Calling
<1>9. ASSUME NEW t \in Threads, Return(t) PROVE TypeOK'
  BY <1>9 DEF Return, GoRound, Answer, library, Calling
<1>10. ASSUME NEW t \in Threads, CloseEnd(t) PROVE TypeOK'
  BY <1>10 DEF CloseEnd, CloseHandle, Answer, locks, Slots
<1>11. ASSUME NEW t \in Threads, NEW h \in Handles, UnloadRemove(t, h) PROVE TypeOK'
  BY <1>11 DEF UnloadRemove, Remove, library, Closing
<1>12. ASSUME NEW t \in Threads, UnloadClose(t) PROVE TypeOK'
  BY <1>12 DEF UnloadClose, CloseHandle, locks, Closing
<1>13. ASSUME NEW t \in Threads, UnloadExit(t) PROVE TypeOK'
  BY <1>13 DEF UnloadExit, Exit, Answer, locks
<1>14. CASE UNCHANGED vars
  BY <1>14 DEF vars
<1> QED
  BY <1>1, <1>2, <1>3, <1>4, <1>5, <1>6, <1>7, <1>8, <1>9, <1>10, <1>11, <1>12,
     <1>13, <1>14 DEF Next, CallStep, CloseStep

\* Every variable of the service keeps its type through every interleaving of
\* calls, closes, exits and unloads.
THEOREM TypeCorrect == Spec => []TypeOK
  BY InitTypeOK, NextTypeOK, PTL DEF Spec

-----------------------------------------------------------------------------
(* The invariant                                                            *)

Locking == {"lock", "check", "call", "close", "unload close"}
Removing == {"close", "unload close"}
InCall == {"check", "call"}

\* the service knows a handle while it is in the table, or while the thread that
\* took it out of the table waits to close it
Known(h) == \/ registered[h] # 0
            \/ \E t \in Threads : pc[t] \in Removing /\ handle[t] = h

\* what is known is open, unless sane_exit closed it, and what is open is known
KnownIsOpen ==
    \A h \in Handles : /\ Known(h) => h \in opened \cup exited
                       /\ h \in opened => Known(h)

\* the table has the last mutex made for an address, and numbers are given in order
TableIsLatest ==
    \A h \in Handles : registered[h] \in {0, latest[h]} /\ latest[h] <= mutexes

\* the slot has a registered handle while nobody is closing it
SlotIsRegistered ==
    slotLock = NoThread /\ slot # NoSlot => registered[slot.handle] # 0

\* A mutex is held by a call that waits for nothing: the next thing it does is
\* to look at the table or to return from the library.
HeldInCalls ==
    \A m \in Mutexes : holder[m] # NoThread =>
        pc[holder[m]] \in InCall /\ mutex[holder[m]] = m

\* What a thread relies on at each point: who closes has the lock of the slot; who
\* wants a mutex has looked it up; a call holds its mutex, and its handle is known
\* unless it is overtaken; the handle that is being closed is out of the table and
\* its mutex is still the last one of its address; and an unload has emptied the slot
\* and has all that is registered to close.
ThreadInv(t) ==
    /\ pc[t] \in Closing <=> slotLock = t
    /\ pc[t] \in Locking => handle[t] \in Handles /\ mutex[t] \in 1..mutexes
    /\ pc[t] \in InCall => holder[mutex[t]] = t
    /\ pc[t] = "call" /\ ~Overtaken(t) => Known(handle[t])
    /\ pc[t] \in Removing => registered[handle[t]] = 0 /\ ~Overtaken(t)
    /\ pc[t] \in {"unload", "unload close"} => todo = Registered /\ slot = NoSlot

Inv == /\ TypeOK
       /\ KnownIsOpen
       /\ TableIsLatest
       /\ SlotIsRegistered
       /\ HeldInCalls
       /\ \A t \in Threads : ThreadInv(t)

\* what a step does to the local variables: thread t moves, the others stay
Local(t, q, h, m) ==
    /\ pc'[t] = q /\ handle'[t] = h /\ mutex'[t] = m
    /\ \A u \in Threads : u # t =>
          pc'[u] = pc[u] /\ handle'[u] = handle[u] /\ mutex'[u] = mutex[u]

LEMMA InitInv == Init => Inv
<1> SUFFICES ASSUME Init PROVE Inv
  OBVIOUS
<1>1. TypeOK
  BY InitTypeOK
<1>2. KnownIsOpen /\ TableIsLatest /\ SlotIsRegistered /\ HeldInCalls
  BY DEF Init, KnownIsOpen, Known, TableIsLatest, SlotIsRegistered, HeldInCalls, Removing
<1>3. \A t \in Threads : ThreadInv(t)
  BY ThreadAssumption DEF Init, ThreadInv, Locking, Removing, InCall, Closing
<1> QED
  BY <1>1, <1>2, <1>3 DEF Inv

\* mutexes known to a thread have numbers that were given
LEMMA MutexFacts == Inv => 1..mutexes \subseteq Mutexes
  BY OpensAssumption DEF Inv, TypeOK, NullOr, Mutexes, Handles

-----------------------------------------------------------------------------
(* Calls                                                                    *)

\* A thread that is not in a call holds no mutex, so its steps concern no holder.
LEMMA HeldStays ==
    ASSUME Inv, NEW t \in Threads, NEW q, NEW h, NEW m, Local(t, q, h, m),
           pc[t] \notin InCall, UNCHANGED holder
    PROVE  HeldInCalls'
<1> SUFFICES ASSUME NEW n \in Mutexes, holder[n] # NoThread
             PROVE  pc'[holder[n]] \in InCall /\ mutex'[holder[n]] = n
  BY DEF HeldInCalls
<1>1. /\ holder[n] \in Threads
      /\ pc[holder[n]] \in InCall /\ mutex[holder[n]] = n
  BY DEF HeldInCalls, Inv, TypeOK
<1> QED
  BY <1>1 DEF Local

\* A step of a call leaves the handles, the table and the slot alone.
LEMMA CallKeeps ==
    ASSUME Inv, TypeOK', HeldInCalls',
           NEW t \in Threads, NEW q, NEW h, NEW m, Local(t, q, h, m),
           UNCHANGED <<opened, exited, slot, slotLock, registered, mutexes, latest, todo>>,
           pc[t] \notin Closing, q \notin Closing,
           q \in Locking => h \in Handles /\ m \in 1..mutexes,
           q \in InCall => holder'[m] = t,
           q = "call" => registered[h] # 0,
           \A u \in Threads \ {t} : pc[u] \in InCall => holder'[mutex[u]] = u
    PROVE  Inv'
<1> USE DEF Local
<1>1. \A g \in Handles : Known(g)' <=> Known(g)
  BY DEF Known, Removing, Closing
<1>2. KnownIsOpen' /\ TableIsLatest' /\ SlotIsRegistered'
  BY <1>1 DEF Inv, KnownIsOpen, TableIsLatest, SlotIsRegistered
<1>3. ThreadInv(t)'
  <2>1. slotLock # t /\ q \notin Removing /\ q \notin {"unload", "unload close"}
    BY DEF Inv, ThreadInv, Closing, Removing
  <2>2. q = "call" => Known(h)'
    BY DEF Known
  <2> QED
    BY <2>1, <2>2 DEF ThreadInv
<1>4. ASSUME NEW u \in Threads, u # t PROVE ThreadInv(u)'
  <2>1. ThreadInv(u) /\ pc'[u] = pc[u] /\ handle'[u] = handle[u] /\ mutex'[u] = mutex[u]
    BY <1>4 DEF Inv
  <2>2. pc[u] \in Locking => handle[u] \in Handles
    BY <2>1 DEF ThreadInv
  <2>3. pc[u] \in InCall => holder'[mutex'[u]] = u
    BY <1>4, <2>1
  <2> QED
    BY <1>1, <2>1, <2>2, <2>3 DEF ThreadInv, Overtaken, Registered, Locking
<1> QED
  BY <1>2, <1>3, <1>4 DEF Inv

\* who leaves a call gives back its own mutex and no other
LEMMA GiveBack ==
    ASSUME Inv, NEW t \in Threads, NEW q, NEW h, NEW m, Local(t, q, h, m),
           pc[t] \in InCall, holder' = [holder EXCEPT ![mutex[t]] = NoThread]
    PROVE  /\ HeldInCalls'
           /\ \A u \in Threads \ {t} : pc[u] \in InCall => holder'[mutex[u]] = u
<1>0. TypeOK /\ HeldInCalls /\ \A u \in Threads : ThreadInv(u)
  BY DEF Inv
<1>1. mutex[t] \in Mutexes /\ holder[mutex[t]] = t
  BY MutexFacts DEF Inv, ThreadInv, InCall, Locking
<1>2. HeldInCalls'
  <2> SUFFICES ASSUME NEW n \in Mutexes, holder'[n] # NoThread
               PROVE  pc'[holder'[n]] \in InCall /\ mutex'[holder'[n]] = n
    BY DEF HeldInCalls
  <2>1. n # mutex[t] /\ holder'[n] = holder[n]
    BY <1>0, <1>1 DEF TypeOK
  <2>2. holder[n] \in Threads /\ pc[holder[n]] \in InCall /\ mutex[holder[n]] = n
    BY <1>0, <2>1 DEF TypeOK, HeldInCalls
  <2> QED
    BY <2>1, <2>2 DEF Local
<1>3. ASSUME NEW u \in Threads \ {t}, pc[u] \in InCall PROVE holder'[mutex[u]] = u
  <2>1. holder[mutex[u]] = u /\ mutex[u] \in Mutexes
    BY <1>0, <1>3, MutexFacts DEF ThreadInv, InCall, Locking
  <2> QED
    BY <1>0, <1>1, <1>3, <2>1 DEF TypeOK
<1> QED
  BY <1>2, <1>3

LEMMA BeginInv ==
    ASSUME Inv, NEW t \in Threads, NEW s \in Scanners, Begin(t, s) PROVE Inv'
<1>0. TypeOK /\ TypeOK'
  BY NextTypeOK DEF Inv, Next
<1>1. /\ pc[t] = "idle"
      /\ UNCHANGED <<opened, exited, slot, slotLock, registered, holder, mutexes, latest, todo>>
  BY DEF Begin, library, locks
<1>2. Local(t, "find", slot.handle, mutex[t])
  BY <1>0 DEF Begin, Local, TypeOK
<1>3. HeldInCalls'
  BY <1>1, <1>2, HeldStays DEF InCall
<1>4. \A u \in Threads \ {t} : pc[u] \in InCall => holder'[mutex[u]] = u
  BY <1>1 DEF Inv, ThreadInv
<1> QED
  BY <1>0, <1>1, <1>2, <1>3, <1>4, CallKeeps DEF Closing, Locking, InCall

LEMMA CallStepInv ==
    ASSUME Inv, NEW t \in Threads, CallStep(t) PROVE Inv'
<1>0. TypeOK /\ TypeOK' /\ ThreadInv(t) /\ TableIsLatest
  BY NextTypeOK DEF Inv, Next
<1>1. /\ pc[t] \in {"find", "lock", "check", "call"}
      /\ UNCHANGED <<opened, exited, slot, slotLock, registered, mutexes, latest, todo>>
  BY DEF CallStep, FindMutex, LockMutex, Recheck, Return, library, locks
<1>2. ASSUME UNCHANGED holder
      PROVE  \A u \in Threads \ {t} : pc[u] \in InCall => holder'[mutex[u]] = u
  BY <1>2 DEF Inv, ThreadInv
<1>3. CASE FindMutex(t)
  <2>1. pc[t] = "find" /\ UNCHANGED holder
    BY <1>3 DEF FindMutex, locks
  <2>2. \/ Local(t, "idle", 0, 0)
        \/ handle[t] \in Registered /\ Local(t, "lock", handle[t], registered[handle[t]])
    BY <1>0, <1>3 DEF FindMutex, Answer, Local, TypeOK
  <2>3. HeldInCalls'
    BY <2>1, <2>2, HeldStays DEF InCall
  <2>4. CASE Local(t, "idle", 0, 0)
    BY <1>0, <1>1, <1>2, <2>1, <2>3, <2>4, CallKeeps DEF Closing, Locking, InCall
  <2>5. CASE handle[t] \in Registered /\ Local(t, "lock", handle[t], registered[handle[t]])
    <3>1. handle[t] \in Handles /\ registered[handle[t]] \in 1..mutexes
      BY <1>0, <2>5, OpensAssumption
      DEF Registered, TableIsLatest, TypeOK, NullOr, Mutexes, Handles
    <3>2. \E h \in Handles, m \in 1..mutexes : Local(t, "lock", h, m)
      BY <2>5, <3>1
    <3>3. \A u \in Threads \ {t} : pc[u] \in InCall => holder'[mutex[u]] = u
      BY <1>2, <2>1
    <3> QED
      BY <1>0, <1>1, <2>1, <2>3, <3>2, <3>3, CallKeeps DEF Closing, InCall
  <2> QED
    BY <2>2, <2>4, <2>5
<1>4. CASE LockMutex(t)
  <2>1. /\ pc[t] = "lock" /\ holder[mutex[t]] = NoThread
        /\ handle[t] \in Handles /\ mutex[t] \in 1..mutexes /\ mutex[t] \in Mutexes
    BY <1>0, <1>4, MutexFacts DEF LockMutex, ThreadInv, Locking
  <2>2. Local(t, "check", handle[t], mutex[t])
    BY <1>0, <1>4 DEF LockMutex, Local, TypeOK
  <2>3. \A n \in Mutexes : holder'[n] = IF n = mutex[t] THEN t ELSE holder[n]
    BY <1>0, <1>4, <2>1 DEF LockMutex, TypeOK
  <2>4. HeldInCalls'
    <3> SUFFICES ASSUME NEW n \in Mutexes, holder'[n] # NoThread
                 PROVE  pc'[holder'[n]] \in InCall /\ mutex'[holder'[n]] = n
      BY DEF HeldInCalls
    <3>1. n # mutex[t] => /\ holder[n] \in Threads
                          /\ pc[holder[n]] \in InCall /\ mutex[holder[n]] = n
      BY <1>0, <2>3 DEF TypeOK, Inv, HeldInCalls
    <3> QED
      BY <2>1, <2>2, <2>3, <3>1 DEF Local, InCall
  <2>5. ASSUME NEW u \in Threads \ {t}, pc[u] \in InCall PROVE holder'[mutex[u]] = u
    <3>1. holder[mutex[u]] = u /\ mutex[u] \in Mutexes
      BY <2>5, MutexFacts DEF Inv, ThreadInv, InCall, Locking
    <3> QED
      BY <2>1, <2>3, <3>1, ThreadAssumption
  <2> QED
    BY <1>0, <1>1, <2>1, <2>2, <2>3, <2>4, <2>5, CallKeeps DEF Closing, Locking, InCall
<1>5. ASSUME Recheck(t) \/ Return(t), UNCHANGED holder PROVE Inv'
  <2>1. pc[t] \in InCall /\ mutex[t] \in Mutexes /\ holder[mutex[t]] = t
    BY <1>0, <1>5, MutexFacts DEF Recheck, Return, ThreadInv, InCall, Locking
  <2>2. ~(holder' = [holder EXCEPT ![mutex[t]] = NoThread])
    BY <1>0, <1>5, <2>1, ThreadAssumption DEF TypeOK
  <2>3. pc[t] = "check" /\ handle[t] \in Registered /\ Local(t, "call", handle[t], mutex[t])
    BY <1>0, <1>5, <2>2 DEF Recheck, Return, Local, TypeOK
  <2>4. HeldInCalls'
    <3> SUFFICES ASSUME NEW n \in Mutexes, holder[n] # NoThread
                 PROVE  pc'[holder[n]] \in InCall /\ mutex'[holder[n]] = n
      BY <1>5 DEF HeldInCalls
    <3>1. holder[n] \in Threads /\ pc[holder[n]] \in InCall /\ mutex[holder[n]] = n
      BY <1>0 DEF TypeOK, Inv, HeldInCalls
    <3> QED
      BY <2>3, <3>1 DEF Local, InCall
  <2>5. handle[t] \in Handles /\ mutex[t] \in 1..mutexes
    BY <1>0, <2>1 DEF ThreadInv, InCall, Locking
  <2> QED
    BY <1>0, <1>1, <1>2, <1>5, <2>1, <2>3, <2>4, <2>5, CallKeeps DEF Closing, InCall, Registered
<1>6. ASSUME Recheck(t) \/ Return(t), holder' = [holder EXCEPT ![mutex[t]] = NoThread]
      PROVE  Inv'
  <2>1. pc[t] \in InCall /\ mutex[t] \in Mutexes /\ holder[mutex[t]] = t
    BY <1>0, <1>6, MutexFacts DEF Recheck, Return, ThreadInv, InCall, Locking
  <2>2. \E q \in {"idle", "find"}, h \in {0, handle[t]} : Local(t, q, h, 0)
    <3>1. ~UNCHANGED holder
      BY <1>0, <1>6, <2>1, ThreadAssumption DEF TypeOK
    <3> QED
      BY <1>0, <1>6, <3>1 DEF Recheck, Return, GoRound, Answer, Local, TypeOK
  <2> QED
    BY <1>0, <1>1, <1>6, <2>1, <2>2, GiveBack, CallKeeps DEF Closing, Locking, InCall
<1> QED
  BY <1>3, <1>4, <1>5, <1>6 DEF CallStep, Recheck, Return

-----------------------------------------------------------------------------
(* Closing                                                                  *)

\* While one thread has the lock of the slot no other one closes.  What the thread
\* closes is in no call that has not been overtaken.
LEMMA CloserKeeps ==
    ASSUME Inv, TypeOK',
           NEW t \in Threads, NEW q, NEW h, NEW m, Local(t, q, h, m),
           UNCHANGED <<holder, mutexes, latest>>,
           pc[t] \notin InCall, slotLock \in {t, NoThread}, slotLock' \in {t, NoThread},
           KnownIsOpen', TableIsLatest', SlotIsRegistered',
           \A u \in Threads \ {t} : pc[u] = "call" /\ ~Overtaken(u) => Known(handle[u])',
           q \notin InCall, q \in Closing <=> slotLock' = t,
           q \in Locking => h \in Handles /\ m \in 1..mutexes,
           q \in Removing => registered'[h] = 0 /\ m = latest[h],
           q \in {"unload", "unload close"} => todo' = Registered' /\ slot' = NoSlot
    PROVE  Inv'
<1> USE DEF Local
<1>1. ThreadInv(t)'
  BY DEF ThreadInv, Overtaken, InCall
<1>2. ASSUME NEW u \in Threads, u # t PROVE ThreadInv(u)'
  <2>0. slotLock # u /\ slotLock' # u
    <3>1. u # NoThread
      BY ThreadAssumption
    <3> QED
      BY <1>2, <3>1
  <2>1. ThreadInv(u) /\ pc'[u] = pc[u] /\ handle'[u] = handle[u] /\ mutex'[u] = mutex[u]
    BY <1>2 DEF Inv
  <2>2. pc[u] \notin Closing
    BY <2>0, <2>1 DEF ThreadInv
  <2>3. pc[u] \notin Removing /\ pc[u] \notin {"unload", "unload close"}
    BY <2>2 DEF Removing, Closing
  <2>4. Overtaken(u)' <=> Overtaken(u)
    BY <2>1 DEF Overtaken
  <2>5. pc[u] = "call" /\ ~Overtaken(u) => Known(handle[u])'
    BY <1>2
  <2> QED
    BY <2>0, <2>1, <2>2, <2>3, <2>4, <2>5 DEF ThreadInv
<1> QED
  BY <1>1, <1>2, HeldStays DEF Inv

\* Taking one handle out of the table, to close it next, keeps it known.
LEMMA RemoveKnows ==
    ASSUME Inv, TypeOK', NEW t \in Threads, NEW h \in Handles, NEW q \in Removing,
           Local(t, q, h, registered[h]), pc[t] \notin Removing, registered[h] # 0,
           registered' = [registered EXCEPT ![h] = 0], UNCHANGED <<opened, exited>>
    PROVE  /\ KnownIsOpen'
           /\ \A u \in Threads \ {t} : pc[u] = "call" /\ ~Overtaken(u) => Known(handle[u])'
<1>1. \A g \in Handles : registered'[g] = IF g = h THEN 0 ELSE registered[g]
  BY DEF Inv, TypeOK
<1>2. \A g \in Handles : Known(g)' <=> Known(g)
  BY <1>1 DEF Known, Local
<1>3. KnownIsOpen'
  BY <1>2 DEF Inv, KnownIsOpen
<1>4. ASSUME NEW u \in Threads \ {t}, pc[u] = "call", ~Overtaken(u)
      PROVE  Known(handle[u])'
  BY <1>2, <1>4 DEF Inv, ThreadInv, Locking, Local
<1> QED
  BY <1>3, <1>4

\* The close of a handle waits for the call that holds its last mutex, so every call
\* still in progress on that address is overtaken.
LEMMA CloseKnows ==
    ASSUME Inv, TypeOK', NEW t \in Threads, pc[t] \in Removing, slotLock = t,
           NEW q, Local(t, q, 0, 0), q \notin Removing,
           holder[mutex[t]] = NoThread, opened' = opened \ {handle[t]},
           UNCHANGED <<exited, registered>>
    PROVE  /\ KnownIsOpen'
           /\ \A u \in Threads \ {t} : pc[u] = "call" /\ ~Overtaken(u) => Known(handle[u])'
<1>1. /\ registered[handle[t]] = 0 /\ mutex[t] = latest[handle[t]]
      /\ handle[t] \in Handles
  BY DEF Inv, ThreadInv, Overtaken, Removing, Locking
<1>2. ASSUME NEW u \in Threads \ {t} PROVE pc[u] \notin Removing
  BY <1>2 DEF Inv, ThreadInv, Removing, Closing
<1>3. \A g \in Handles : Known(g)' <=> Known(g) /\ g # handle[t]
  BY <1>1, <1>2 DEF Known, Local
<1>4. KnownIsOpen'
  BY <1>3 DEF Inv, KnownIsOpen
<1>5. ASSUME NEW u \in Threads \ {t}, pc[u] = "call", ~Overtaken(u)
      PROVE  Known(handle[u])'
  <2>1. /\ holder[mutex[u]] = u /\ u # NoThread /\ mutex[u] = latest[handle[u]]
        /\ handle[u] \in Handles /\ Known(handle[u])
    BY <1>5, ThreadAssumption DEF Inv, ThreadInv, Overtaken, InCall, Locking
  <2>2. handle[u] # handle[t]
    BY <1>1, <2>1
  <2> QED
    BY <1>3, <1>5, <2>1, <2>2 DEF Local
<1> QED
  BY <1>4, <1>5

\* sane_exit leaves what is known among the handles that are open or that it closed
LEMMA ExitKnows ==
    ASSUME Inv, Exit, \A g \in Handles : Known(g)' <=> Known(g) PROVE KnownIsOpen'
  BY DEF Inv, KnownIsOpen, Exit

LEMMA CloseStepInv ==
    ASSUME Inv, NEW t \in Threads, CloseStep(t) PROVE Inv'
<1>0. TypeOK /\ TypeOK' /\ TableIsLatest /\ ThreadInv(t)
  BY NextTypeOK DEF Inv, Next
<1>1. pc[t] \in Closing /\ slotLock = t /\ pc[t] \notin InCall /\ t # NoThread
  BY <1>0, ThreadAssumption
  DEF CloseStep, CloseEnd, UnloadRemove, UnloadClose, UnloadExit, ThreadInv, Closing, InCall
<1>2. CASE CloseEnd(t)
  <2>1. /\ pc[t] \in Removing /\ holder[mutex[t]] = NoThread
        /\ opened' = opened \ {handle[t]}
        /\ slot' = NoSlot /\ slotLock' = NoThread
        /\ UNCHANGED <<exited, registered, holder, mutexes, latest>>
    BY <1>2 DEF CloseEnd, CloseHandle, locks, Removing
  <2>2. Local(t, "idle", 0, 0)
    BY <1>0, <1>2 DEF CloseEnd, Answer, Local, TypeOK
  <2>3. SlotIsRegistered' /\ TableIsLatest'
    BY <1>0, <2>1 DEF SlotIsRegistered, TableIsLatest
  <2>4. /\ KnownIsOpen'
        /\ \A u \in Threads \ {t} : pc[u] = "call" /\ ~Overtaken(u) => Known(handle[u])'
    BY <1>0, <1>1, <2>1, <2>2, CloseKnows DEF Removing
  <2> QED
    BY <1>0, <1>1, <2>1, <2>2, <2>3, <2>4, CloserKeeps
    DEF Closing, Locking, Removing, InCall
<1>3. ASSUME NEW h \in Handles, UnloadRemove(t, h) PROVE Inv'
  <2>1. /\ pc[t] = "unload" /\ h \in Registered /\ slot = NoSlot /\ todo = Registered
        /\ todo' = todo \ {h} /\ registered' = [registered EXCEPT ![h] = 0]
        /\ UNCHANGED <<opened, exited, slot, slotLock, holder, mutexes, latest>>
    BY <1>0, <1>3 DEF UnloadRemove, Remove, ThreadInv, library
  <2>2. registered[h] # 0 /\ registered[h] = latest[h] /\ registered[h] \in 1..mutexes
    BY <1>0, <2>1, OpensAssumption
    DEF Registered, TableIsLatest, TypeOK, NullOr, Mutexes, Handles
  <2>3. Local(t, "unload close", h, registered[h])
    BY <1>0, <1>3 DEF UnloadRemove, Remove, Local, TypeOK
  <2>4. \A g \in Handles : registered'[g] = IF g = h THEN 0 ELSE registered[g]
    BY <1>0, <2>1 DEF TypeOK
  <2>5. SlotIsRegistered' /\ TableIsLatest' /\ todo' = Registered'
    BY <1>0, <1>1, <2>1, <2>4 DEF SlotIsRegistered, TableIsLatest, Registered
  <2>6. /\ KnownIsOpen'
        /\ \A u \in Threads \ {t} : pc[u] = "call" /\ ~Overtaken(u) => Known(handle[u])'
    BY <1>0, <2>1, <2>2, <2>3, RemoveKnows DEF Removing
  <2>7. "unload close" \in Closing /\ "unload close" \notin InCall
    BY DEF Closing, InCall
  <2>8. registered'[h] = 0
    BY <2>4
  <2> QED
    BY <1>0, <1>1, <2>1, <2>2, <2>3, <2>5, <2>6, <2>7, <2>8, CloserKeeps
<1>4. CASE UnloadClose(t)
  <2>1. /\ pc[t] = "unload close" /\ slot = NoSlot /\ todo = Registered
        /\ holder[mutex[t]] = NoThread /\ opened' = opened \ {handle[t]}
        /\ UNCHANGED <<exited, slot, slotLock, holder, registered, mutexes, latest, todo>>
    BY <1>0, <1>4 DEF UnloadClose, CloseHandle, locks, ThreadInv
  <2>2. Local(t, "unload", 0, 0)
    BY <1>0, <1>4 DEF UnloadClose, Local, TypeOK
  <2>3. SlotIsRegistered' /\ TableIsLatest' /\ Registered' = Registered
    BY <1>0, <2>1 DEF SlotIsRegistered, TableIsLatest, Registered
  <2>4. /\ KnownIsOpen'
        /\ \A u \in Threads \ {t} : pc[u] = "call" /\ ~Overtaken(u) => Known(handle[u])'
    BY <1>0, <1>1, <2>1, <2>2, CloseKnows DEF Removing
  <2> QED
    BY <1>0, <1>1, <2>1, <2>2, <2>3, <2>4, CloserKeeps
    DEF Closing, Locking, Removing, InCall
<1>5. CASE UnloadExit(t)
  <2>1. /\ pc[t] = "unload" /\ slot = NoSlot /\ slotLock' = NoThread
        /\ UNCHANGED <<slot, holder, registered, mutexes, latest>>
    BY <1>0, <1>5 DEF UnloadExit, locks, ThreadInv
  <2>2. Local(t, "idle", 0, 0)
    BY <1>0, <1>5 DEF UnloadExit, Answer, Local, TypeOK
  <2>3. SlotIsRegistered' /\ TableIsLatest'
    BY <1>0, <2>1 DEF SlotIsRegistered, TableIsLatest
  <2>4. \A g \in Handles : Known(g)' <=> Known(g)
    BY <2>1, <2>2 DEF Known, Local, Removing
  <2>5. KnownIsOpen'
    BY <1>5, <2>4, ExitKnows DEF UnloadExit
  <2>6. ASSUME NEW u \in Threads \ {t}, pc[u] = "call", ~Overtaken(u)
        PROVE  Known(handle[u])'
    BY <2>2, <2>4, <2>6 DEF Inv, ThreadInv, Locking, Local
  <2> QED
    BY <1>0, <1>1, <2>1, <2>2, <2>3, <2>5, <2>6, CloserKeeps
    DEF Closing, Locking, Removing, InCall
<1> QED
  BY <1>2, <1>3, <1>4, <1>5 DEF CloseStep

LEMMA CloseBeginInv ==
    ASSUME Inv, NEW t \in Threads, NEW s \in Scanners, CloseBegin(t, s) PROVE Inv'
<1>0. TypeOK /\ TypeOK' /\ TableIsLatest
  BY NextTypeOK DEF Inv, Next
<1>1. slot.handle \in Handles /\ slot # NoSlot
  BY <1>0, SlotFacts DEF CloseBegin, TypeOK
<1>2. /\ pc[t] = "idle" /\ slotLock = NoThread /\ slotLock' = t /\ t # NoThread
      /\ registered' = [registered EXCEPT ![slot.handle] = 0]
      /\ UNCHANGED <<opened, exited, holder, mutexes, latest>>
  BY ThreadAssumption DEF CloseBegin, Remove, SlotIsFree, library
<1>3. registered[slot.handle] # 0
  BY <1>1, <1>2 DEF Inv, SlotIsRegistered
<1>4. Local(t, "close", slot.handle, registered[slot.handle])
  BY <1>0 DEF CloseBegin, Remove, Local, TypeOK
<1>5. /\ registered[slot.handle] = latest[slot.handle]
      /\ registered[slot.handle] \in 1..mutexes
  BY <1>0, <1>1, <1>3, OpensAssumption DEF TableIsLatest, TypeOK, NullOr, Mutexes, Handles
<1>6. \A g \in Handles : registered'[g] = IF g = slot.handle THEN 0 ELSE registered[g]
  BY <1>0, <1>2 DEF TypeOK
<1>7. SlotIsRegistered' /\ TableIsLatest' /\ registered'[slot.handle] = 0
  BY <1>0, <1>1, <1>2, <1>6 DEF SlotIsRegistered, TableIsLatest
<1>8. /\ KnownIsOpen'
      /\ \A u \in Threads \ {t} : pc[u] = "call" /\ ~Overtaken(u) => Known(handle[u])'
  BY <1>0, <1>1, <1>2, <1>3, <1>4, RemoveKnows DEF Removing
<1> QED
  <2>1. /\ "close" \in Closing /\ "close" \notin InCall /\ pc[t] \notin InCall
        /\ "close" \notin {"unload", "unload close"}
    BY <1>2 DEF Closing, InCall
  <2>2. slot.handle \in Handles /\ registered[slot.handle] \in 1..mutexes
    BY <1>1, <1>5
  <2> QED
    BY <1>0, <1>2, <1>4, <1>5, <1>7, <1>8, <2>1, <2>2, CloserKeeps

LEMMA UnloadInv ==
    ASSUME Inv, NEW t \in Threads, Unload(t) PROVE Inv'
<1>0. TypeOK /\ TypeOK' /\ TableIsLatest
  BY NextTypeOK DEF Inv, Next
<1>1. /\ pc[t] = "idle" /\ slotLock = NoThread /\ slotLock' = t /\ t # NoThread
      /\ slot' = NoSlot /\ todo' = Registered
      /\ UNCHANGED <<opened, exited, registered, holder, mutexes, latest>>
  BY ThreadAssumption DEF Unload, SlotIsFree, library, locks
<1>2. Local(t, "unload", handle[t], mutex[t])
  BY <1>0 DEF Unload, Local, TypeOK
<1>3. \A g \in Handles : Known(g)' <=> Known(g)
  BY <1>1, <1>2 DEF Known, Local, Removing
<1>4. SlotIsRegistered' /\ TableIsLatest' /\ KnownIsOpen' /\ todo' = Registered'
  BY <1>0, <1>1, <1>3 DEF SlotIsRegistered, TableIsLatest, Inv, KnownIsOpen, Registered
<1>5. ASSUME NEW u \in Threads \ {t}, pc[u] = "call", ~Overtaken(u)
      PROVE  Known(handle[u])'
  BY <1>2, <1>3, <1>5 DEF Inv, ThreadInv, Locking, Local
<1> QED
  <2>1. /\ "unload" \in Closing /\ "unload" \notin InCall /\ pc[t] \notin InCall
        /\ "unload" \notin Locking /\ "unload" \notin Removing
    BY <1>1 DEF Closing, Locking, Removing, InCall
  <2> QED
    BY <1>0, <1>1, <1>2, <1>4, <1>5, <2>1, CloserKeeps

-----------------------------------------------------------------------------
(* The library as a whole                                                   *)

LEMMA ExitInv == ASSUME Inv, SaneExit PROVE Inv'
<1>0. TypeOK /\ TypeOK'
  BY NextTypeOK DEF Inv, Next
<1>1. UNCHANGED <<slot, slotLock, registered, holder, mutexes, latest, pc, handle, mutex, todo>>
  BY DEF SaneExit, locks, locals
<1>2. \A g \in Handles : Known(g)' <=> Known(g)
  BY <1>1 DEF Known
<1>3. KnownIsOpen'
  BY <1>2, ExitKnows DEF SaneExit
<1>4. ASSUME NEW t \in Threads PROVE ThreadInv(t)'
  <2>1. ThreadInv(t) /\ (Known(handle[t]) => Known(handle[t])')
    BY <1>1 DEF Inv, Known
  <2> QED
    BY <1>1, <2>1 DEF ThreadInv, Overtaken, Registered
<1> QED
  BY <1>0, <1>1, <1>3, <1>4 DEF Inv, TableIsLatest, SlotIsRegistered, HeldInCalls

\* A new opening overtakes every call that still has an older mutex of its address.
LEMMA OpenInv ==
    ASSUME Inv, NEW s \in Scanners, NEW h \in Handles, SaneOpen(s, h) PROVE Inv'
<1>0. TypeOK /\ TypeOK' /\ TableIsLatest
  BY NextTypeOK DEF Inv, Next
<1>1. /\ slotLock = NoThread
      /\ UNCHANGED <<slotLock, holder, pc, handle, mutex, todo>>
      /\ slot' = [scanner |-> s, handle |-> h]
      /\ opened' = opened \cup {h} /\ exited' = exited \ {h}
      /\ mutexes' = mutexes + 1 /\ mutexes \in Nat /\ mutexes + 1 # 0
      /\ \A g \in Handles : /\ registered'[g] = IF g = h THEN mutexes + 1 ELSE registered[g]
                            /\ latest'[g] = IF g = h THEN mutexes + 1 ELSE latest[g]
  BY <1>0, OpensAssumption DEF SaneOpen, SlotIsFree, locals, TypeOK, NullOr, Mutexes, Handles
<1>2. ASSUME NEW u \in Threads PROVE ThreadInv(u) /\ pc[u] \notin Closing
  BY <1>1, <1>2, ThreadAssumption DEF Inv, ThreadInv
<1>3. \A g \in Handles : Known(g)' <=> Known(g) \/ g = h
  BY <1>1, <1>2 DEF Known, Removing, Closing
<1>4. KnownIsOpen'
  BY <1>1, <1>3 DEF Inv, KnownIsOpen
<1>5. TableIsLatest'
  BY <1>0, <1>1, OpensAssumption DEF TableIsLatest, TypeOK, NullOr, Mutexes, Handles
<1>6. SlotIsRegistered' /\ HeldInCalls'
  BY <1>1 DEF SlotIsRegistered, Inv, HeldInCalls
<1>7. ASSUME NEW u \in Threads PROVE ThreadInv(u)'
  <2>1. ThreadInv(u) /\ pc[u] \notin Closing
    BY <1>2
  <2>2. pc[u] \in Locking => mutex[u] \in 1..mutexes' /\ handle[u] \in Handles
                             /\ mutex[u] # mutexes + 1
    <3>1. \A n \in 1..mutexes : n \in 1..mutexes' /\ n # mutexes + 1
      BY <1>1
    <3> QED
      BY <2>1, <3>1 DEF ThreadInv
  <2>3. pc[u] = "call" /\ ~Overtaken(u)' => ~Overtaken(u) /\ Known(handle[u])'
    BY <1>1, <1>3, <2>1, <2>2 DEF ThreadInv, Overtaken, Locking
  <2> QED
    BY <1>1, <2>1, <2>2, <2>3 DEF ThreadInv, Closing, Removing
<1> QED
  BY <1>0, <1>4, <1>5, <1>6, <1>7 DEF Inv

LEMMA NextInv == Inv /\ [Next]_vars => Inv'
<1> SUFFICES ASSUME Inv, [Next]_vars PROVE Inv'
  OBVIOUS
<1>1. CASE UNCHANGED vars
  <2>1. TypeOK'
    BY NextTypeOK DEF Inv
  <2>2. \A g : Known(g)' <=> Known(g)
    BY <1>1 DEF vars, Known
  <2>3. KnownIsOpen' /\ TableIsLatest' /\ SlotIsRegistered' /\ HeldInCalls'
    BY <1>1, <2>2
    DEF Inv, vars, KnownIsOpen, TableIsLatest, SlotIsRegistered, HeldInCalls
  <2>4. ASSUME NEW t \in Threads PROVE ThreadInv(t)'
    <3>1. ThreadInv(t) /\ (Known(handle[t]) => Known(handle[t])')
      BY <1>1 DEF Inv, vars, Known
    <3> QED
      BY <1>1, <3>1 DEF vars, ThreadInv, Overtaken, Registered
  <2> QED
    BY <2>1, <2>3, <2>4 DEF Inv
<1> QED
  BY <1>1, ExitInv, OpenInv, BeginInv, CloseBeginInv, UnloadInv, CallStepInv, CloseStepInv
  DEF Next

-----------------------------------------------------------------------------
(* What the properties say                                                  *)

LEMMA InvUsedAlone == Inv => UsedAlone
<1> SUFFICES ASSUME Inv, NEW t \in Threads, pc[t] = "call", ~Overtaken(t)
             PROVE  /\ handle[t] \in opened \cup exited
                    /\ \A u \in Threads \ {t} :
                          pc[u] = "call" /\ handle[u] = handle[t] => Overtaken(u)
  BY DEF UsedAlone
<1>1. /\ handle[t] \in Handles /\ Known(handle[t])
      /\ holder[mutex[t]] = t /\ mutex[t] = latest[handle[t]]
  BY DEF Inv, ThreadInv, Locking, InCall, Overtaken
<1>2. ASSUME NEW u \in Threads \ {t}, pc[u] = "call", handle[u] = handle[t]
      PROVE  Overtaken(u)
  <2>1. holder[mutex[u]] = u
    BY <1>2 DEF Inv, ThreadInv, InCall
  <2>2. ~Overtaken(u) => mutex[u] = mutex[t]
    BY <1>1, <1>2 DEF Overtaken
  <2> QED
    BY <1>1, <1>2, <2>1, <2>2
<1> QED
  BY <1>1, <1>2 DEF Inv, KnownIsOpen

LEMMA InvExit == Inv => ExitFindsNothingOpen
<1> SUFFICES ASSUME Inv, NEW t \in Threads, pc[t] = "unload", todo = {}
             PROVE  opened = {} /\ \A u \in Threads : pc[u] = "call" => Overtaken(u)
  BY DEF ExitFindsNothingOpen
<1>1. slotLock = t /\ Registered = {}
  BY DEF Inv, ThreadInv, Closing
<1>2. \A u \in Threads : pc[u] \notin Removing
  <2> SUFFICES ASSUME NEW u \in Threads PROVE pc[u] \notin Removing
    OBVIOUS
  <2>1. CASE u = t
    BY <2>1 DEF Removing
  <2>2. CASE u # t
    BY <1>1, <2>2 DEF Inv, ThreadInv, Removing, Closing
  <2> QED
    BY <2>1, <2>2
<1>3. \A g \in Handles : ~Known(g)
  BY <1>1, <1>2 DEF Known, Registered
<1>4. opened = {}
  BY <1>3 DEF Inv, TypeOK, KnownIsOpen
<1>5. \A u \in Threads : pc[u] = "call" => Overtaken(u)
  BY <1>3 DEF Inv, ThreadInv, Locking
<1> QED
  BY <1>4, <1>5

\* Whatever addresses the library returns and whenever it is shut down, a call in
\* progress has its handle for itself as long as sane_open has not returned the
\* address again since the call looked up its mutex.
THEOREM CallsAreAlone == Spec => []UsedAlone
  BY InitInv, NextInv, InvUsedAlone, PTL DEF Spec

\* The unload leaves nothing open before it calls sane_exit, and no call in progress
\* that it could know of, whatever was opened, replaced, closed and cut off before.
THEOREM UnloadIsClean == Spec => []ExitFindsNothingOpen
  BY InitInv, NextInv, InvExit, PTL DEF Spec

-----------------------------------------------------------------------------
(* Locks                                                                    *)

\* the thread whose mutex keeps t from its next step
WaitsFor(t) == IF pc[t] \in {"lock", "close", "unload close"} THEN holder[mutex[t]]
                                                             ELSE NoThread

\* Who holds the mutex of a handle is in a call: it waits for no lock, neither for
\* another mutex nor for scannerHandleLock_.  Who holds scannerHandleLock_ closes
\* or unloads, and waits at most for one thread that is in a call.
NoCircularWait ==
    /\ \A t \in Threads : WaitsFor(t) \in Threads => pc[WaitsFor(t)] \in {"check", "call"}
    /\ slotLock \in Threads => pc[slotLock] \in Closing

\* The threads of the sane service never wait in a circle, though a close and
\* the unload wait for a mutex while they hold scannerHandleLock_.
THEOREM LocksMakeNoCircle == Spec => []NoCircularWait
<1>1. ASSUME Inv, NEW t \in Threads, WaitsFor(t) \in Threads
      PROVE  pc[WaitsFor(t)] \in {"check", "call"}
  <2>1. pc[t] \in {"lock", "close", "unload close"} /\ WaitsFor(t) = holder[mutex[t]]
    BY <1>1, ThreadAssumption DEF WaitsFor
  <2>2. mutex[t] \in Mutexes
    BY <1>1, <2>1, MutexFacts DEF Inv, ThreadInv, Locking
  <2> QED
    BY <1>1, <2>1, <2>2, ThreadAssumption DEF Inv, HeldInCalls, InCall
<1>2. Inv => (slotLock \in Threads => pc[slotLock] \in Closing)
  BY DEF Inv, ThreadInv
<1>3. Inv => NoCircularWait
  BY <1>1, <1>2 DEF NoCircularWait
<1> QED
  BY <1>3, InitInv, NextInv, PTL DEF Spec
=============================================================================
