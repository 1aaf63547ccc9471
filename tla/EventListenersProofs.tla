------------------------ MODULE EventListenersProofs ------------------------
(***************************************************************************)
(* Proofs about EventListeners for any processes, event types and limit.   *)
(* The count is exact because a callback never holds two listeners of one  *)
(* job, or two listeners of a printer event (OneEach): what a registration *)
(* replaces is one listener.  The dead are noticed because the listeners   *)
(* of a process that registered nothing after its death are all watched    *)
(* (OwnAndWatched).                                                        *)
(***************************************************************************)
EXTENDS EventListeners, FiniteSetTheorems, TLAPS

\* at most one listener for each process and event, and job where there is one
OneEach ==
    \A e1, e2 \in held :
        /\ e1.pid = e2.pid /\ e1.type = e2.type
        /\ e1.type \in JobTypes => e1.sub = e2.sub
        => e1 = e2

\* the objects are the process's own, and those of a process that lives or
\* registered nothing late have their death recipients
OwnAndWatched ==
    /\ \A e \in held : e.obj[1] = e.pid
    /\ \A e \in held : late[e.pid] # "handled" => e.watched
    /\ \A p \in Pids : alive[p] => late[p] = "none"

Inv == TypeOK /\ OneEach /\ OwnAndWatched /\ CounterIsExact /\ DeadAreNoticed

-----------------------------------------------------------------------------
(* Type correctness.  The count is a natural number because it is exact,    *)
(* so TypeOK is only proved together with the rest.                         *)

\* a registration that replaces at most one listener keeps the count exact
LEMMA RegisterCounts ==
    ASSUME CounterIsExact, NEW old, NEW new, old \subseteq held,
           \A e1, e2 \in old : e1 = e2, new \notin held \ old, Register(old, new)
    PROVE  CounterIsExact' /\ counter' \in Nat /\ held' \subseteq held \cup {new}
<1> USE DEF CounterIsExact
<1>1. CASE old # {}
  <2>1. PICK e \in old : old = {e}
    BY <1>1
  <2>2. /\ IsFiniteSet(held \ {e})
        /\ Cardinality(held \ {e}) = Cardinality(held) - 1
    BY <2>1, FS_RemoveElement
  <2>3. /\ IsFiniteSet((held \ {e}) \cup {new})
        /\ Cardinality((held \ {e}) \cup {new}) = Cardinality(held \ {e}) + 1
    BY <2>1, <2>2, FS_AddElement
  <2>4. Cardinality(held) \in Nat
    BY FS_CardinalityType
  <2>5. held' = (held \ {e}) \cup {new} /\ counter' = counter
    BY <1>1, <2>1 DEF Register
  <2>6. Cardinality(held') = Cardinality(held)
    BY <2>2, <2>3, <2>4, <2>5
  <2>7. IsFiniteSet(held')
    BY <2>3, <2>5
  <2>8. held' \subseteq held \cup {new}
    BY <2>5
  <2> QED
    BY <2>4, <2>5, <2>6, <2>7, <2>8
<1>2. CASE old = {}
  <2>1. /\ IsFiniteSet(held \cup {new})
        /\ Cardinality(held \cup {new}) = Cardinality(held) + 1
    BY <1>2, FS_AddElement
  <2>2. Cardinality(held) \in Nat
    BY FS_CardinalityType
  <2> QED
    BY <1>2, <2>1, <2>2, MaxAssumption DEF Register
<1> QED
  BY <1>1, <1>2

\* so does a removal
LEMMA ClearCounts ==
    ASSUME CounterIsExact, NEW gone, gone \subseteq held, Clear(gone)
    PROVE  CounterIsExact' /\ counter' \in Nat /\ held' \subseteq held
<1>1. /\ IsFiniteSet(held \ gone)
      /\ Cardinality(held \ gone) = Cardinality(held) - Cardinality(held \cap gone)
  BY FS_Difference DEF CounterIsExact
<1>2. held \cap gone = gone /\ IsFiniteSet(gone)
  BY FS_Subset DEF CounterIsExact
<1>3. Cardinality(held \ gone) \in Nat /\ Cardinality(gone) \in Nat /\ counter \in Nat
  BY <1>1, <1>2, FS_CardinalityType DEF CounterIsExact
<1> QED
  BY <1>1, <1>2, <1>3, MaxAssumption DEF CounterIsExact, Clear

\* the listeners of an object that have a death recipient are countable
LEMMA WatchedIsFinite ==
    ASSUME CounterIsExact, NEW o
    PROVE  IsFiniteSet(Watched(o)) /\ Cardinality(Watched(o)) \in Nat
<1>1. Watched(o) \subseteq held
  BY DEF Watched
<1> QED
  BY <1>1, FS_Subset, FS_CardinalityType DEF CounterIsExact

\* with fewer of them no more notices are needed
LEMMA FewerWatched ==
    ASSUME CounterIsExact, NEW o, Watched(o)' \subseteq Watched(o)
    PROVE  /\ Cardinality(Watched(o)') <= Cardinality(Watched(o))
           /\ Cardinality(Watched(o)') \in Nat
BY WatchedIsFinite, FS_Subset, FS_CardinalityType

-----------------------------------------------------------------------------
(* The invariant                                                            *)

LEMMA InitInv == Init => Inv
<1> SUFFICES ASSUME Init PROVE Inv
  OBVIOUS
<1> USE DEF Init
<1>1. TypeOK /\ OneEach /\ OwnAndWatched
  BY DEF TypeOK, OneEach, OwnAndWatched
<1>2. CounterIsExact
  BY FS_EmptySet, MaxAssumption DEF CounterIsExact
<1>3. DeadAreNoticed
  BY DEF DeadAreNoticed, Objects
<1> QED
  BY <1>1, <1>2, <1>3 DEF Inv

\* a registration of a process that lives or sent it before its death
LEMMA RegisterKeepsInv ==
    ASSUME Inv, NEW p \in Pids, NEW t \in Types, NEW n \in Names,
           NEW s \in JobIds \cup Extensions \cup {NoSub},
           NEW old, old = IF t \in JobTypes THEN OfJob(p, t, s) ELSE Callback(p, t),
           Calls(p), Register(old, Listener(p, t, s, <<p, n>>)),
           UNCHANGED <<alive, notices, posted>>
    PROVE  Inv'
<1> DEFINE new == Listener(p, t, s, <<p, n>>)
<1>1. /\ new \in Entries /\ new.pid = p /\ new.type = t /\ new.sub = s
      /\ new.obj = <<p, n>> /\ new.watched = alive[p]
  BY DEF Listener, Entries, Objects, Inv, TypeOK
<1>2. /\ old \subseteq held
      /\ \A e \in old : e.pid = p /\ e.type = t
      /\ \A e \in held \ old : e.pid = p /\ e.type = t
                                  => t \in JobTypes /\ e.sub # s
  BY DEF Callback, OfJob
<1>3. \A e1, e2 \in old : e1 = e2
  <2> SUFFICES ASSUME NEW e1 \in old, NEW e2 \in old PROVE e1 = e2
    OBVIOUS
  <2>1. t \in JobTypes => e1.sub = e2.sub
    BY DEF OfJob
  <2> QED
    BY <1>2, <2>1 DEF Inv, OneEach
<1>4. new \notin held \ old
  BY <1>1, <1>2
<1>5. CounterIsExact' /\ counter' \in Nat
  BY <1>2, <1>3, <1>4, RegisterCounts DEF Inv
<1>6. held' = held \/ held' = (held \ old) \cup {new}
  BY <1>2 DEF Register
<1>7. late' \in [Pids -> {"none", "sent", "handled"}]
  BY DEF Inv, TypeOK, Calls
<1>8. TypeOK'
  BY <1>1, <1>5, <1>6, <1>7 DEF Inv, TypeOK
<1>9. OneEach'
  BY <1>1, <1>2, <1>6 DEF Inv, OneEach
<1>10. /\ late' = late \/ (late'[p] = "handled" /\ ~alive[p])
       /\ \A q \in Pids \ {p} : late'[q] = late[q]
       /\ late'[p] # "handled" => alive[p]
  <2>1. CASE alive[p] /\ UNCHANGED late
    BY <2>1
  <2>2. CASE late[p] = "sent" /\ late' = [late EXCEPT ![p] = "handled"]
    BY <2>2 DEF Inv, TypeOK, OwnAndWatched
  <2> QED
    BY <2>1, <2>2 DEF Calls
<1>11. \A e \in held : e.pid \in Pids
  BY DEF Inv, TypeOK, Entries
<1>12. OwnAndWatched'
  <2>1. \A e \in held' : e.obj[1] = e.pid
    BY <1>1, <1>6 DEF Inv, OwnAndWatched
  <2>2. ASSUME NEW e \in held', late'[e.pid] # "handled" PROVE e.watched
    BY <1>1, <1>6, <1>10, <1>11, <2>2 DEF Inv, OwnAndWatched
  <2>3. \A q \in Pids : alive'[q] => late'[q] = "none"
    BY <1>10 DEF Inv, OwnAndWatched
  <2> QED
    BY <2>1, <2>2, <2>3 DEF OwnAndWatched
<1>13. DeadAreNoticed'
  <2> SUFFICES ASSUME NEW o \in Objects, ~alive[o[1]], late'[o[1]] # "handled"
               PROVE  /\ \A e \in held' : e.obj = o => e.watched
                      /\ Cardinality(Watched(o)') <= notices[o]
    BY DEF DeadAreNoticed
  <2>1. o[1] # p /\ o[1] \in Pids
    BY <1>10 DEF Objects
  <2>2. late[o[1]] # "handled"
    BY <1>10, <2>1
  <2>3. \A e \in held : e.obj = o => e.pid # p
    BY <2>1 DEF Inv, OwnAndWatched
  <2>4. new.obj # o
    BY <1>1, <2>1
  <2>5. \A e : e \in held' /\ e.obj = o <=> e \in held /\ e.obj = o
    BY <1>2, <1>6, <2>3, <2>4
  <2>6. Watched(o)' = Watched(o)
    BY <2>5 DEF Watched
  <2> QED
    BY <2>2, <2>5, <2>6 DEF Inv, DeadAreNoticed
<1> QED
  BY <1>5, <1>8, <1>9, <1>12, <1>13 DEF Inv

\* a removal, by a call or by a task, that handles no notice
LEMMA ClearKeepsInv ==
    ASSUME Inv, NEW gone, gone \subseteq held, Clear(gone),
           late' \in [Pids -> {"none", "sent", "handled"}],
           \A p \in Pids : late'[p] = late[p] \/ (late'[p] = "handled" /\ ~alive[p]),
           posted' \subseteq posted, UNCHANGED <<alive, notices>>
    PROVE  Inv'
<1>1. CounterIsExact' /\ counter' \in Nat /\ held' \subseteq held
  BY ClearCounts DEF Inv
<1>2. TypeOK'
  BY <1>1 DEF Inv, TypeOK
<1>3. OneEach'
  BY <1>1 DEF Inv, OneEach
<1>4. \A e \in held : e.pid \in Pids
  BY DEF Inv, TypeOK, Entries
<1>5. OwnAndWatched'
  BY <1>1, <1>4 DEF Inv, OwnAndWatched
<1>6. DeadAreNoticed'
  <2> SUFFICES ASSUME NEW o \in Objects, ~alive[o[1]], late'[o[1]] # "handled"
               PROVE  /\ \A e \in held' : e.obj = o => e.watched
                      /\ Cardinality(Watched(o)') <= notices[o]
    BY DEF DeadAreNoticed
  <2>1. o[1] \in Pids /\ late[o[1]] # "handled"
    BY DEF Objects
  <2>2. /\ \A e \in held : e.obj = o => e.watched
        /\ Cardinality(Watched(o)) <= notices[o]
    BY <2>1 DEF Inv, DeadAreNoticed
  <2>3. Watched(o)' \subseteq Watched(o)
    BY <1>1 DEF Watched
  <2>4. Cardinality(Watched(o)') <= Cardinality(Watched(o))
        /\ Cardinality(Watched(o)') \in Nat /\ Cardinality(Watched(o)) \in Nat
    BY <2>3, FewerWatched, WatchedIsFinite DEF Inv
  <2>5. notices[o] \in Nat
    BY DEF Inv, TypeOK
  <2> QED
    BY <1>1, <2>2, <2>4, <2>5
<1> QED
  BY <1>1, <1>2, <1>3, <1>5, <1>6 DEF Inv

\* a notice takes away a listener of its object, or finds none
LEMMA NoticeKeepsInv ==
    ASSUME Inv, NEW o \in Objects, OnRemoteListenerDied(o)
    PROVE  Inv'
<1> USE DEF OnRemoteListenerDied
<1>1. notices' \in [Objects -> Nat]
  BY DEF Inv, TypeOK
<1> DEFINE OneLess ==
      /\ CounterIsExact' /\ counter' \in Nat /\ held' \subseteq held
      /\ (\E e \in held : e.obj = o) => \E g \in held \ held' : g.obj = o
<1>2. OneLess
  <2>1. ASSUME NEW e \in held, e.obj = o, Clear(Callback(e.pid, e.type))
        PROVE  OneLess
    <3>1. Callback(e.pid, e.type) \subseteq held /\ e \in Callback(e.pid, e.type)
      BY DEF Callback
    <3>2. CounterIsExact' /\ counter' \in Nat /\ held' \subseteq held
      BY <2>1, <3>1, ClearCounts DEF Inv
    <3>3. e \in held \ held'
      BY <2>1, <3>1 DEF Clear
    <3> QED
      BY <2>1, <3>2, <3>3
  <2>2. CASE (\A e \in held : e.obj # o) /\ UNCHANGED <<held, counter>>
    BY <2>2 DEF Inv, TypeOK, CounterIsExact
  <2> QED
    BY <2>1, <2>2
<1>3. TypeOK'
  BY <1>1, <1>2 DEF Inv, TypeOK
<1>4. OneEach' /\ OwnAndWatched'
  BY <1>2 DEF Inv, OneEach, OwnAndWatched
<1>5. DeadAreNoticed'
  <2> SUFFICES ASSUME NEW q \in Objects, ~alive[q[1]], late[q[1]] # "handled"
               PROVE  /\ \A e \in held' : e.obj = q => e.watched
                      /\ Cardinality(Watched(q)') <= notices'[q]
    BY DEF DeadAreNoticed
  <2>1. /\ \A e \in held : e.obj = q => e.watched
        /\ Cardinality(Watched(q)) <= notices[q]
    BY DEF Inv, DeadAreNoticed
  <2>2. Watched(q)' \subseteq Watched(q)
    BY <1>2 DEF Watched
  <2>3. /\ Cardinality(Watched(q)') <= Cardinality(Watched(q))
        /\ Cardinality(Watched(q)') \in Nat /\ Cardinality(Watched(q)) \in Nat
        /\ IsFiniteSet(Watched(q))
    BY <2>2, FewerWatched, WatchedIsFinite DEF Inv
  <2>4. CASE q # o
    BY <1>2, <2>1, <2>3, <2>4 DEF Inv, TypeOK
  <2>5. CASE q = o /\ \E e \in held : e.obj = o
    <3>1. PICK g \in held \ held' : g.obj = o
      BY <1>2, <2>5
    <3>2. g \in Watched(q) /\ g \notin Watched(q)'
      BY <2>1, <2>5, <3>1 DEF Watched
    <3>3. Cardinality(Watched(q)') # Cardinality(Watched(q))
      BY <2>2, <2>3, <3>2, FS_Subset
    <3> QED
      BY <1>2, <2>1, <2>3, <2>5, <3>3 DEF Inv, TypeOK
  <2>6. CASE q = o /\ \A e \in held : e.obj # o
    <3>1. Watched(q)' = {}
      BY <2>6, <2>2 DEF Watched
    <3>2. Cardinality(Watched(q)') = 0
      BY <3>1, FS_EmptySet
    <3> QED
      BY <1>1, <1>2, <2>6, <3>2
  <2> QED
    BY <2>4, <2>5, <2>6
<1> QED
  BY <1>2, <1>3, <1>4, <1>5 DEF Inv

\* at the death of a process each of its listeners causes a notice
LEMMA DieKeepsInv ==
    ASSUME Inv, NEW p \in Pids, Die(p)
    PROVE  Inv'
<1> USE DEF Die
<1>1. notices' \in [Objects -> Nat]
  BY WatchedIsFinite DEF Inv, TypeOK
<1>2. TypeOK'
  BY <1>1 DEF Inv, TypeOK
<1>3. OneEach' /\ CounterIsExact'
  BY DEF Inv, OneEach, CounterIsExact
<1>4. /\ late[p] = "none" /\ late'[p] \in {"none", "sent"}
      /\ \A q \in Pids \ {p} : late'[q] = late[q] /\ alive'[q] = alive[q]
      /\ alive'[p] = FALSE
  BY DEF Inv, TypeOK, OwnAndWatched
<1>5. \A e \in held : e.pid \in Pids
  BY DEF Inv, TypeOK, Entries
<1>6. OwnAndWatched'
  BY <1>4, <1>5 DEF Inv, OwnAndWatched
<1>7. DeadAreNoticed'
  <2> SUFFICES ASSUME NEW o \in Objects, ~alive'[o[1]], late'[o[1]] # "handled"
               PROVE  /\ \A e \in held : e.obj = o => e.watched
                      /\ Cardinality(Watched(o)) <= notices'[o]
    BY DEF DeadAreNoticed, Watched
  <2>1. o[1] \in Pids
    BY DEF Objects
  <2>2. CASE o[1] = p
    BY <1>4, <2>2, WatchedIsFinite DEF Inv, OwnAndWatched
  <2>3. CASE o[1] # p
    BY <1>4, <2>1, <2>3 DEF Inv, DeadAreNoticed
  <2> QED
    BY <2>2, <2>3
<1> QED
  BY <1>2, <1>3, <1>6, <1>7 DEF Inv

LEMMA NextInv == Inv /\ [Next]_vars => Inv'
<1> SUFFICES ASSUME Inv, [Next]_vars PROVE Inv'
  OBVIOUS
<1>1. ASSUME NEW p \in Pids, NEW t \in PrinterTypes, NEW n \in Names,
             RegisterPrinterListener(p, t, n)
      PROVE  Inv'
  <2>1. t \in Types /\ t \notin JobTypes
    BY TypesAssumption DEF Types
  <2> QED
    BY <1>1, <2>1, RegisterKeepsInv DEF RegisterPrinterListener
<1>2. ASSUME NEW p \in Pids, NEW t \in ExtTypes, NEW x \in Extensions,
             NEW n \in Names, RegisterExtensionListener(p, t, x, n)
      PROVE  Inv'
  <2>1. t \in Types /\ t \notin JobTypes
    BY TypesAssumption DEF Types
  <2> QED
    BY <1>2, <2>1, RegisterKeepsInv DEF RegisterExtensionListener
<1>3. ASSUME NEW p \in Pids, NEW t \in JobTypes, NEW j \in JobIds, NEW n \in Names,
             RegisterPrintJobListener(p, t, j, n)
      PROVE  Inv'
  <2>1. t \in Types
    BY DEF Types
  <2> QED
    BY <1>3, <2>1, RegisterKeepsInv DEF RegisterPrintJobListener
<1>4. ASSUME NEW p \in Pids, Calls(p)
      PROVE  /\ late' \in [Pids -> {"none", "sent", "handled"}]
             /\ \A q \in Pids : late'[q] = late[q] \/ (late'[q] = "handled" /\ ~alive[q])
  <2>1. CASE alive[p] /\ UNCHANGED late
    BY <2>1 DEF Inv, TypeOK
  <2>2. CASE late[p] = "sent" /\ late' = [late EXCEPT ![p] = "handled"]
    BY <2>2 DEF Inv, TypeOK, OwnAndWatched
  <2> QED
    BY <1>4, <2>1, <2>2 DEF Calls
<1>5. ASSUME NEW p \in Pids, NEW t \in PrinterTypes, UnRegisterPrinterListener(p, t)
      PROVE  Inv'
  <2>1. Callback(p, t) \subseteq held
    BY DEF Callback
  <2> QED
    BY <1>4, <1>5, <2>1, ClearKeepsInv DEF UnRegisterPrinterListener
<1>6. ASSUME NEW p \in Pids, NEW t \in JobTypes, NEW j \in JobIds,
             UnRegisterPrintJobListener(p, t, j)
      PROVE  Inv'
  <2>1. OfJob(p, t, j) \subseteq held
    BY DEF OfJob, Callback
  <2> QED
    BY <1>4, <1>6, <2>1, ClearKeepsInv DEF UnRegisterPrintJobListener
<1>7. ASSUME NEW t \in JobTypes, NEW j \in JobIds,
             posted' \subseteq posted \cup {<<t, j>>},
             UNCHANGED <<held, counter, alive, late, notices>>
      PROVE  Inv'
  <2>1. posted' \subseteq JobTypes \X JobIds
    BY <1>7 DEF Inv, TypeOK
  <2>2. \A o : Watched(o)' = Watched(o)
    BY <1>7 DEF Watched
  <2> QED
    BY <1>7, <2>1, <2>2 DEF Inv, TypeOK, OneEach, OwnAndWatched, CounterIsExact,
                            DeadAreNoticed
<1>8. ASSUME NEW j \in JobIds, HandleJobStateChanged(j) PROVE Inv'
  BY <1>7, <1>8 DEF HandleJobStateChanged, JobTypes
<1>9. ASSUME NEW j \in JobIds, notifyAdapterJobChanged(j) PROVE Inv'
  BY <1>7, <1>9 DEF notifyAdapterJobChanged, JobTypes
<1>10. ASSUME NEW t \in JobTypes, NEW j \in JobIds, DeletePrintJobListener(t, j)
       PROVE  Inv'
  <2>1. ASSUME NEW e \in held, Clear({e}) PROVE Inv'
    <3>1. posted' \subseteq posted /\ UNCHANGED <<alive, late, notices>>
      BY <1>10 DEF DeletePrintJobListener
    <3>2. /\ late' \in [Pids -> {"none", "sent", "handled"}]
          /\ \A p \in Pids : late'[p] = late[p]
      BY <3>1 DEF Inv, TypeOK
    <3>3. {e} \subseteq held
      OBVIOUS
    <3> QED
      BY <2>1, <3>1, <3>2, <3>3, ClearKeepsInv
  <2>2. CASE UNCHANGED <<held, counter>>
    BY <1>7, <1>10, <2>2 DEF DeletePrintJobListener
  <2> QED
    BY <1>10, <2>1, <2>2 DEF DeletePrintJobListener
<1>11. ASSUME NEW p \in Pids, ClientNext(p) PROVE Inv'
  BY <1>11, <1>1, <1>2, <1>3, <1>5, <1>6, DieKeepsInv DEF ClientNext
<1>12. ASSUME ServiceNext PROVE Inv'
  BY <1>12, <1>8, <1>9, <1>10, NoticeKeepsInv DEF ServiceNext
<1>13. CASE UNCHANGED vars
  <2>1. \A o : Watched(o)' = Watched(o)
    BY <1>13 DEF Watched, vars
  <2> QED
    BY <1>13, <2>1 DEF Inv, TypeOK, OneEach, OwnAndWatched, CounterIsExact,
                       DeadAreNoticed, vars
<1> QED
  BY <1>11, <1>12, <1>13 DEF Next

LEMMA InvHolds == Spec => []Inv
BY InitInv, NextInv, PTL DEF Spec

-----------------------------------------------------------------------------
(* Theorems                                                                 *)

\* EventListenerMgr keeps its types.
THEOREM TypeCorrect == Spec => []TypeOK
<1>1. Inv => TypeOK
  BY DEF Inv
<1> QED
  BY <1>1, InvHolds, PTL

\* counter_ is always the number of listeners held and within the limit,
\* whatever is registered, replaced, unregistered or dies.
THEOREM CountIsExact == Spec => []CounterIsExact
<1>1. Inv => CounterIsExact
  BY DEF Inv
<1> QED
  BY <1>1, InvHolds, PTL

\* No listener of a dead process is without a notice to come, unless the
\* process had a registration on its way when it died.
THEOREM DeadHaveNotices == Spec => []DeadAreNoticed
<1>1. Inv => DeadAreNoticed
  BY DEF Inv
<1> QED
  BY <1>1, InvHolds, PTL
=============================================================================
