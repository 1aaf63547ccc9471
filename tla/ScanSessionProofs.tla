-------------------------- MODULE ScanSessionProofs --------------------------
(***************************************************************************)
(* Proofs about ScanSession for any apps, scanners and bound, under every  *)
(* circumstance of the model.                                              *)
(*                                                                         *)
(* No foreign picture is ever finished in the queue because a page that    *)
(* was read to its end after its scan was cancelled is no longer in it     *)
(* (Gone): cancelling empties the queue and stops sane_start on the task's *)
(* scanner (TaskFits), so later pages never end well.  Files belong to     *)
(* their app because the task only ever files the picture picId_, which it *)
(* or StartScan pushed for its own app (FilesFit).  When CleanupScanService *)
(* comes under a task, all pictures there are until the tasks have ended   *)
(* were pushed meanwhile.  Who opened the scanner in calm is the app that  *)
(* scans, and its cleanup is put off only once it has died (Calm); what is *)
(* queued in its hold is its own and comes to an answer (Answerable).      *)
(***************************************************************************)
EXTENDS ScanSession, TLAPS

-----------------------------------------------------------------------------
(* Pictures, the queue and the tasks *)

\* A progress map of pictures 1 to n.
Pictures(ps, n) ==
    /\ DOMAIN ps \subseteq 1..n
    /\ \A p \in DOMAIN ps : ps[p] \in Picture

\* SetNowScanProgressFinished and SetScanTaskCode change one field of the newest
\* picture, if it was kept.
LEMMA MarkedFacts ==
    ASSUME NEW ps, NEW n \in Nat, Pictures(ps, n), NEW field \in {"done", "failed", "lost"},
           NEW ms, ms = Marked(ps, field)
    PROVE  /\ Pictures(ms, n)
           /\ DOMAIN ms = DOMAIN ps
           /\ \A p \in DOMAIN ps :
                 /\ ms[p].app = ps[p].app /\ ms[p].file = ps[p].file
                 /\ ms[p].mixed = ps[p].mixed
                 /\ p # picId => ms[p] = ps[p]
                 /\ field # "done" => ms[p].done = ps[p].done
                 /\ field # "failed" => ms[p].failed = ps[p].failed
                 /\ field # "lost" => ms[p].lost = ps[p].lost
           /\ picId \in DOMAIN ps => /\ field = "done" => ms[picId].done
                                     /\ field = "failed" => ms[picId].failed
                                     /\ field = "lost" => ms[picId].lost
<1> DEFINE done(r) == [r EXCEPT !.done = TRUE]
           failed(r) == [r EXCEPT !.failed = TRUE]
           lost(r) == [r EXCEPT !.lost = TRUE]
           mark(r) == IF field = "done" THEN done(r)
                      ELSE IF field = "failed" THEN failed(r) ELSE lost(r)
<1>1. ASSUME NEW r \in Picture
      PROVE  /\ mark(r) \in Picture
             /\ mark(r).app = r.app /\ mark(r).file = r.file /\ mark(r).mixed = r.mixed
             /\ IF field = "done" THEN mark(r).done ELSE mark(r).done = r.done
             /\ IF field = "failed" THEN mark(r).failed ELSE mark(r).failed = r.failed
             /\ IF field = "lost" THEN mark(r).lost ELSE mark(r).lost = r.lost
  BY DEF Picture
<1>2. CASE picId \notin DOMAIN ps
  <2>1. ms = ps
    BY <1>2 DEF Marked
  <2> QED
    BY <1>2, <2>1 DEF Pictures
<1>3. CASE picId \in DOMAIN ps
  <2>1. ms = [ps EXCEPT ![picId] = mark(ps[picId])]
    BY <1>3 DEF Marked
  <2> HIDE DEF mark
  <2>2. /\ DOMAIN ms = DOMAIN ps
        /\ \A p \in DOMAIN ps : p # picId => ms[p] = ps[p]
        /\ ms[picId] = mark(ps[picId])
    BY <1>3, <2>1
  <2>3. ps[picId] \in Picture
    BY <1>3 DEF Pictures
  <2> DEFINE q == ps[picId]
  <2>4. /\ mark(q) \in Picture
        /\ mark(q).app = q.app /\ mark(q).file = q.file /\ mark(q).mixed = q.mixed
        /\ IF field = "done" THEN mark(q).done ELSE mark(q).done = q.done
        /\ IF field = "failed" THEN mark(q).failed ELSE mark(q).failed = q.failed
        /\ IF field = "lost" THEN mark(q).lost ELSE mark(q).lost = q.lost
    BY <1>1, <2>3
  <2> QED
    BY <1>3, <2>2, <2>4 DEF Pictures
<1> QED
  BY <1>2, <1>3

\* qs is ps with one more picture, of app a, that has no file and is not finished.
IsPushed(qs, ps, a) ==
    /\ Pictures(qs, picId + 1)
    /\ DOMAIN qs = DOMAIN ps \cup {picId + 1} /\ picId + 1 \notin DOMAIN ps
    /\ \A p \in DOMAIN ps : qs[p] = ps[p]
    /\ qs[picId + 1].app = a /\ qs[picId + 1].file = None /\ ~qs[picId + 1].done
    /\ qs[picId + 1].mixed = orphaned

\* PushScanPictureProgress
LEMMA PushedFacts ==
    ASSUME picId \in Nat, orphaned \in BOOLEAN, NEW ps, Pictures(ps, picId), NEW a \in Apps
    PROVE  /\ \A failed \in BOOLEAN : IsPushed(Pushed(ps, a, failed), ps, a)
           /\ Pushed(ps, a, TRUE)[picId + 1].failed
<1>0. ASSUME NEW failed \in BOOLEAN
      PROVE  IsPushed(Pushed(ps, a, failed), ps, a)
  <2> DEFINE qs == Pushed(ps, a, failed)
  <2>1. picId + 1 \notin DOMAIN ps
    BY DEF Pictures
  <2>2. DOMAIN qs = DOMAIN ps \cup {picId + 1} /\ (\A p \in DOMAIN ps : qs[p] = ps[p])
        /\ qs[picId + 1] = [app |-> a, file |-> None, done |-> FALSE, failed |-> failed,
                            lost |-> FALSE, mixed |-> orphaned]
    BY <2>1 DEF Pushed
  <2>3. qs[picId + 1] \in Picture
    BY <2>2 DEF Picture
  <2>4. Pictures(qs, picId + 1)
    BY <2>2, <2>3 DEF Pictures
  <2> HIDE DEF qs
  <2>5. IsPushed(qs, ps, a)
    BY <2>1, <2>2, <2>4 DEF IsPushed
  <2> QED
    BY <2>5 DEF qs
<1>1. Pushed(ps, a, TRUE)[picId + 1].failed
  BY DEF Pushed
<1> QED
  BY <1>0, <1>1

\* RegisterCacheFiles changes the file of the newest picture, if it was kept.
LEMMA RegisteredFacts ==
    ASSUME TypeOK, NEW a \in Apps, NEW rs, rs = Registered(a)
    PROVE  /\ Pictures(rs, picId) /\ DOMAIN rs = DOMAIN pics
           /\ \A p \in DOMAIN pics :
                 /\ rs[p].app = pics[p].app /\ rs[p].mixed = pics[p].mixed
                 /\ rs[p].done = pics[p].done
                 /\ p # picId => rs[p] = pics[p]
           /\ picId \in DOMAIN pics => rs[picId].file = a
<1>1. CASE picId \notin DOMAIN pics
  BY <1>1 DEF Registered, TypeOK, Pictures
<1>2. CASE picId \in DOMAIN pics
  <2>1. rs = [pics EXCEPT ![picId] = [pics[picId] EXCEPT !.file = a]]
    BY <1>2 DEF Registered
  <2>2. pics[picId] \in Picture
    BY <1>2 DEF TypeOK
  <2> DEFINE r == [pics[picId] EXCEPT !.file = a]
  <2>3. /\ r \in Picture /\ r.app = pics[picId].app /\ r.mixed = pics[picId].mixed
        /\ r.done = pics[picId].done /\ r.file = a
    BY <2>2 DEF Picture
  <2> HIDE DEF r
  <2>4. rs = [pics EXCEPT ![picId] = r]
    BY <2>1 DEF r
  <2> QED
    BY <1>2, <2>3, <2>4 DEF TypeOK, Pictures
<1> QED
  BY <1>1, <1>2

\* CleanByOwner removes the entries that the owner's files name, and no other.
LEMMA CleanFacts ==
    ASSUME TypeOK, NEW a, CleanByOwner(a)
    PROVE  /\ DOMAIN pics' = {p \in DOMAIN pics : pics[p].file # a}
           /\ \A p \in DOMAIN pics' : pics'[p] = pics[p]
           /\ Pictures(pics', picId)
  BY DEF CleanByOwner, Results, TypeOK, Pictures

Queued(q) == {q[i] : i \in 1..Len(q)}

\* What the queue of pictures holds after it was emptied, read or added to.
LEMMA QueueFacts ==
    ASSUME NEW S, NEW q \in Seq(S)
    PROVE  /\ <<>> \in Seq(S) /\ Queued(<<>>) = {}
           /\ Queued(q) \subseteq S
           /\ q # <<>> => /\ Tail(q) \in Seq(S) /\ Queued(Tail(q)) \subseteq Queued(q)
                          /\ Head(q) \in Queued(q)
           /\ \A e \in S : /\ Append(q, e) \in Seq(S)
                           /\ Queued(Append(q, e)) = Queued(q) \cup {e}
<1>1. <<>> \in Seq(S) /\ Queued(<<>>) = {} /\ Queued(q) \subseteq S
  BY DEF Queued
<1>2. ASSUME q # <<>>
      PROVE  /\ Tail(q) \in Seq(S) /\ Queued(Tail(q)) \subseteq Queued(q)
             /\ Head(q) \in Queued(q)
  <2>1. /\ Len(q) \in Nat \ {0} /\ Tail(q) \in Seq(S) /\ Len(Tail(q)) = Len(q) - 1
        /\ Head(q) = q[1] /\ \A i \in 1..Len(q) - 1 : Tail(q)[i] = q[i + 1]
    BY <1>2
  <2>2. \A i \in 1..Len(q) - 1 : i + 1 \in 1..Len(q)
    BY <2>1
  <2> QED
    BY <2>1, <2>2 DEF Queued
<1>3. ASSUME NEW e \in S
      PROVE  /\ Append(q, e) \in Seq(S)
             /\ Queued(Append(q, e)) = Queued(q) \cup {e}
  <2>1. /\ Append(q, e) \in Seq(S) /\ Len(q) \in Nat /\ Len(Append(q, e)) = Len(q) + 1
        /\ Append(q, e)[Len(q) + 1] = e /\ \A i \in 1..Len(q) : Append(q, e)[i] = q[i]
    OBVIOUS
  <2>2. 1..Len(q) + 1 = 1..Len(q) \cup {Len(q) + 1}
    BY <2>1
  <2> HIDE DEF Queued
  <2>3. \A x : x \in Queued(Append(q, e)) <=> \E i \in 1..Len(q) + 1 : Append(q, e)[i] = x
    BY <2>1 DEF Queued
  <2>4. \A x : x \in Queued(q) <=> \E i \in 1..Len(q) : q[i] = x
    BY DEF Queued
  <2> QED
    BY <2>1, <2>2, <2>3, <2>4
<1> QED
  BY <1>1, <1>2, <1>3

\* A queue of places no later than picture n.
Places(q, n) == q \in Seq(Place) /\ \A e \in Queued(q) : e.pic <= n

LEMMA PlacesType ==
    ASSUME NEW q \in Seq(Place), NEW n
    PROVE  Places(q, n) <=> \A i \in 1..Len(q) : q[i].pic <= n
  BY DEF Places, Queued

\* What the queue is after it was emptied, read or added to.
LEMMA PlacesFacts ==
    ASSUME TypeOK
    PROVE  /\ Places(scanQueue, picId) /\ Places(scanQueue, picId + 1)
           /\ Places(<<>>, picId)
           /\ scanQueue # <<>> => Places(Tail(scanQueue), picId)
           /\ Places(InQueue, picId + 1)
           /\ Queued(InQueue) = Queued(scanQueue) \cup
                 {[pic |-> picId + 1, calm |-> ~orphaned /\ (opened = None \/ opened.calm)]}
<1> DEFINE e == [pic |-> picId + 1, calm |-> ~orphaned /\ (opened = None \/ opened.calm)]
<1>1. /\ scanQueue \in Seq(Place) /\ picId \in Nat
      /\ \A x \in Queued(scanQueue) : x \in Place /\ x.pic <= picId
  BY DEF TypeOK, Queued
<1>2. e \in Place /\ e.pic = picId + 1
  BY DEF TypeOK, Place, Hold
<1> HIDE DEF e
<1>3. /\ <<>> \in Seq(Place) /\ Queued(<<>>) = {}
      /\ scanQueue # <<>> => /\ Tail(scanQueue) \in Seq(Place)
                             /\ Queued(Tail(scanQueue)) \subseteq Queued(scanQueue)
      /\ Append(scanQueue, e) \in Seq(Place)
      /\ Queued(Append(scanQueue, e)) = Queued(scanQueue) \cup {e}
  BY <1>1, <1>2, QueueFacts
<1>4. \A x \in Queued(scanQueue) : x.pic <= picId + 1
  BY <1>1 DEF Place
<1>5. InQueue = Append(scanQueue, e)
  BY DEF InQueue, e
<1>6. \A x \in Queued(scanQueue) \cup {e} : x.pic <= picId + 1
  BY <1>1, <1>2, <1>4
<1>7. Queued(InQueue) = Queued(scanQueue) \cup {e}
  BY <1>3, <1>5
<1> QED
  BY <1>1, <1>3, <1>4, <1>5, <1>6, <1>7 DEF Places, e

\* What StartScan or NextPicture adds to the queue.
LEMMA InQueueFacts ==
    ASSUME TypeOK, NEW e \in Queued(InQueue)
    PROVE  \/ e \in Queued(scanQueue)
           \/ e.pic = picId + 1 /\ (e.calm => ~orphaned /\ (opened = None \/ opened.calm))
<1> DEFINE x == [pic |-> picId + 1, calm |-> ~orphaned /\ (opened = None \/ opened.calm)]
<1>1. e \in Queued(scanQueue) \cup {x}
  BY PlacesFacts
<1>2. x.pic = picId + 1 /\ (x.calm => ~orphaned /\ (opened = None \/ opened.calm))
  OBVIOUS
<1> HIDE DEF x
<1> QED
  BY <1>1, <1>2

\* The tasks after one was posted, or the first one has ended.
LEMMA TasksFacts ==
    ASSUME NEW ts \in Seq(Task)
    PROVE  /\ ts # <<>> => /\ Head(ts) \in Task /\ Tail(ts) \in Seq(Task)
                           /\ Len(ts) <= 1 => Tail(ts) = <<>>
           /\ \A x \in Task : /\ Append(ts, x) \in Seq(Task) /\ Append(ts, x) # <<>>
                              /\ ts = <<>> => /\ Len(Append(ts, x)) <= 1
                                              /\ Head(Append(ts, x)) = x
           /\ Len(<<>>) <= 1
<1>1. ASSUME ts # <<>>
      PROVE  /\ Head(ts) \in Task /\ Tail(ts) \in Seq(Task)
             /\ Len(ts) <= 1 => Tail(ts) = <<>>
  <2>1. Len(ts) \in Nat \ {0} /\ Head(ts) = ts[1] /\ Tail(ts) \in Seq(Task)
        /\ Len(Tail(ts)) = Len(ts) - 1 /\ ts[1] \in Task
    BY <1>1
  <2>2. Len(ts) <= 1 => Len(Tail(ts)) = 0
    BY <2>1
  <2> QED
    BY <2>1, <2>2
<1>2. ASSUME NEW x \in Task
      PROVE  /\ Append(ts, x) \in Seq(Task) /\ Append(ts, x) # <<>>
             /\ ts = <<>> => Len(Append(ts, x)) <= 1 /\ Head(Append(ts, x)) = x
  BY <1>2
<1> QED
  BY <1>1, <1>2

\* The task's next step is one of its steps.
LEMMA GotoFacts ==
    ASSUME TypeOK, NEW s, At(s), NEW step \in {"file", "read", "paged", "restarted", "end"},
           NEW status \in {"NONE", "EOF", "NO_DOCS", "ERROR"}, Goto(step, status)
    PROVE  /\ tasks # <<>> /\ task \in Task /\ tasks' \in Seq(Task) /\ tasks' # <<>>
           /\ (Len(tasks) <= 1 => Len(tasks') <= 1) /\ orphaned' = orphaned
           /\ task' \in Task /\ task'.step = step /\ task'.status = status
           /\ task'.scanner = task.scanner /\ task'.app = task.app
           /\ task'.batch = task.batch
<1>1. tasks \in Seq(Task) /\ tasks # <<>> /\ Len(tasks) \in Nat \ {0} /\ task = tasks[1]
  BY DEF At, TypeOK, task
<1>2. task \in Task
  BY <1>1
<1> DEFINE t == [[tasks[1] EXCEPT !.step = step] EXCEPT !.status = status]
<1>3. /\ t \in Task /\ t.step = step /\ t.status = status
      /\ t.scanner = task.scanner /\ t.app = task.app /\ t.batch = task.batch
  BY <1>1, <1>2 DEF Task
<1>4. tasks' = [tasks EXCEPT ![1] = t] /\ orphaned' = orphaned
  BY <1>1 DEF Goto
<1> HIDE DEF t
<1>5. /\ tasks' \in Seq(Task) /\ Len(tasks') = Len(tasks) /\ tasks'[1] = t
  BY <1>1, <1>3, <1>4
<1>6. tasks' # <<>> /\ Head(tasks') = t
  BY <1>1, <1>5
<1> QED
  BY <1>1, <1>2, <1>3, <1>4, <1>5, <1>6 DEF task

-----------------------------------------------------------------------------
(* Types *)

\* The conjuncts of TypeOK that a step of an app or of the task may disturb, in the
\* words of the lemmas.
SessionType ==
    /\ opened \in Hold \union {None}
    /\ scannerState \in {"READY", "SCANING", "CANCELING"}
    /\ pendingClean \in Apps \union {None}
    /\ handle \in Scanners \union {None} /\ started \in BOOLEAN

ProcessType ==
    /\ alive \subseteq Apps /\ late \subseteq Apps \ alive
    /\ callers \subseteq Apps /\ deadPids \subseteq Apps
    /\ unload \in {"no", "decided", "cleaned", "asked"}

Parts ==
    /\ SessionType /\ ProcessType
    /\ picId \in Nat /\ Places(scanQueue, picId) /\ Pictures(pics, picId)
    /\ tasks \in Seq(Task) /\ orphaned \in BOOLEAN

LEMMA TypeParts == TypeOK <=> Parts
  BY PlacesType DEF TypeOK, Parts, SessionType, ProcessType, Places, Pictures

LEMMA InitTypes == Init => TypeOK
<1> SUFFICES ASSUME Init
             PROVE  TypeOK
  OBVIOUS
<1>1. <<>> \in Seq(Place) /\ <<>> \in Seq(Task) /\ Queued(<<>>) = {} /\ DOMAIN <<>> = {}
  BY DEF Queued
<1> QED
  BY <1>1, TypeParts DEF Init, Parts, SessionType, ProcessType, Places, Pictures

\* A call registers its caller and touches neither other processes nor the monitor.
LEMMA CallsType ==
    ASSUME TypeOK, NEW a \in Apps, Calls(a)
    PROVE  /\ ProcessType' /\ orphaned' = orphaned /\ orphaned' \in BOOLEAN
           /\ UNCHANGED <<alive, late, deadPids, unload>>
           /\ a \in alive /\ callers' = callers \union {a}
  BY DEF TypeOK, ProcessType, Calls

LEMMA ClosingType ==
    ASSUME TypeOK, Closing, opened # None, pendingClean' \in Apps \union {None}
    PROVE  SessionType' /\ scanQueue' = <<>> /\ opened' = None
  BY DEF Closing, SaneClosed, SaneCancelled, TypeOK, SessionType

\* Pictures, after cleaning up after an app, or nothing.
LEMMA CleanedType ==
    ASSUME TypeOK, picId' = picId, UNCHANGED pics \/ \E a \in Apps : CleanByOwner(a)
    PROVE  /\ Pictures(pics', picId')
           /\ DOMAIN pics' \subseteq DOMAIN pics
           /\ \A p \in DOMAIN pics' : pics'[p] = pics[p]
  BY CleanFacts DEF TypeOK, Pictures

\* The calls of the apps.
LEMMA AppStepTypes ==
    ASSUME TypeOK, NEW a \in Apps, AppStep(a)
    PROVE  TypeOK'
<1>0. Parts
  BY TypeParts
<1> SUFFICES Parts'
  BY TypeParts, PTL
<1> USE <1>0 DEF Parts
<1>1. CASE InitScan(a)
  BY <1>1, CallsType DEF InitScan, session, pictures, sane, SessionType
<1>2. ASSUME NEW s \in Scanners, CallOpen(a, s) \/ LateOpen(a, s)
      PROVE  Parts'
  <2>1. OpenScanner(a, s) /\ ProcessType' /\ orphaned' \in BOOLEAN
    BY <1>2, CallsType DEF CallOpen, LateOpen, ProcessType, monitor
  <2>2. opened' \in Hold
    BY <2>1 DEF OpenScanner, Hold
  <2> QED
    BY <2>1, <2>2 DEF OpenScanner, SaneOpenOK, pictures, SessionType
<1>3. CASE CloseScanner(a)
  BY <1>3, CallsType, ClosingType, PlacesFacts DEF CloseScanner, Holds, SessionType
<1>4. CASE ExitScan(a)
  <2>1. ProcessType' /\ orphaned' \in BOOLEAN /\ UNCHANGED <<picId, tasks>>
    BY <1>4, CallsType DEF ExitScan
  <2>2. pendingClean' \in Apps \union {None}
    BY <1>4 DEF ExitScan, SessionType
  <2>3. SessionType' /\ scanQueue' \in {<<>>, scanQueue}
    BY <1>4, <2>2, ClosingType DEF ExitScan, Holds, SessionType, sane
  <2>4. Pictures(pics', picId')
    BY <1>4, <2>1, CleanedType DEF ExitScan
  <2> QED
    BY <2>1, <2>3, <2>4, PlacesFacts
<1>5. ASSUME NEW batch \in BOOLEAN, StartScan(a, batch)
      PROVE  Parts'
  <2>1. opened \in Hold /\ opened.scanner \in Scanners
    BY <1>5 DEF StartScan, Holds, SessionType, Hold
  <2> DEFINE t == [scanner |-> opened.scanner, app |-> a, batch |-> batch,
                   step |-> "file", status |-> "NONE"]
  <2>2. t \in Task
    BY <2>1 DEF Task
  <2>3. tasks' = Append(tasks, t) /\ picId' = picId + 1 /\ pics' = Pushed(pics, a, FALSE)
        /\ scanQueue' = InQueue
    BY <1>5 DEF StartScan
  <2> HIDE DEF t
  <2>4. tasks' \in Seq(Task)
    BY <2>2, <2>3, TasksFacts
  <2>5. Pictures(pics', picId')
    BY <2>3, PushedFacts DEF IsPushed
  <2>6. SessionType'
    BY <1>5 DEF StartScan, SaneStart, SessionType
  <2>7. ProcessType' /\ orphaned' \in BOOLEAN
    BY <1>5, CallsType DEF StartScan
  <2>8. picId' \in Nat /\ Places(scanQueue', picId')
    <3>1. Places(InQueue, picId + 1)
      BY PlacesFacts
    <3> QED
      BY <2>3, <3>1
  <2> QED
    BY <2>4, <2>5, <2>6, <2>7, <2>8
<1>6. CASE StartScanFails(a)
  BY <1>6, CallsType DEF StartScanFails, SaneStart, SaneCancelled, session, pictures, SessionType
<1>7. CASE CancelScan(a)
  BY <1>7, CallsType, PlacesFacts DEF CancelScan, SaneCancelled, SessionType
<1>8. CASE GetScanProgress(a)
  BY <1>8, CallsType, PlacesFacts DEF GetScanProgress, session, sane, SessionType
<1> QED
  BY <1>1, <1>2, <1>3, <1>4, <1>5, <1>6, <1>7, <1>8 DEF AppStep

\* A step of the task that does not end it.
MidStep == CreateFile \/ CreateFileFails \/ ReadPage \/ FinishPicture \/ Restart \/ NextPicture

\* ... goes on to another step of the same task and leaves the session alone.
LEMMA MidFrame ==
    ASSUME TypeOK, MidStep
    PROVE  /\ tasks # <<>> /\ task \in Task /\ tasks' \in Seq(Task) /\ tasks' # <<>>
           /\ Len(tasks) <= 1 => Len(tasks') <= 1
           /\ task'.scanner = task.scanner /\ task'.app = task.app
           /\ UNCHANGED <<opened, scannerState, pendingClean, orphaned,
                          callers, deadPids, unload, alive, late>>
<1>1. PICK s, step \in {"file", "read", "paged", "restarted", "end"},
           status \in {"NONE", "EOF", "NO_DOCS", "ERROR"} :
         At(s) /\ Goto(step, status)
  <2>1. At("paged") \/ At("restarted") => task.status \in {"NONE", "EOF", "NO_DOCS", "ERROR"}
    BY TasksFacts DEF At, TypeOK, task, Task
  <2> QED
    BY <2>1 DEF MidStep, CreateFile, CreateFileFails, ReadPage, FinishPicture, Restart,
                NextPicture
<1>2. UNCHANGED <<opened, scannerState, pendingClean, callers, deadPids, unload, alive, late>>
  BY DEF MidStep, CreateFile, CreateFileFails, ReadPage, FinishPicture, Restart, NextPicture,
         Quiet, session, monitor
<1> QED
  BY <1>1, <1>2, GotoFacts

\* What each of them does to the pictures, the queue and the device.
LEMMA MidPictures ==
    ASSUME TypeOK, MidStep
    PROVE  /\ \/ pics' = Registered(task.app) /\ CreateFile
              \/ pics' = pics /\ (ReadPage \/ Restart)
              \/ \E field \in {"done", "failed", "lost"} :
                    pics' = Marked(pics, field) /\ ~ReadPage /\ ~Restart
              \/ /\ \E failed \in BOOLEAN : pics' = Pushed(Marked(pics, "done"), task.app, failed)
                 /\ scanQueue' = InQueue /\ picId' = picId + 1 /\ NextPicture
           /\ UNCHANGED <<picId, scanQueue>> \/ NextPicture
           /\ UNCHANGED <<handle, started>> \/ Restart
           /\ handle' \in Scanners \union {None} /\ started' \in BOOLEAN
<1>0. tasks # <<>> /\ task.scanner \in Scanners
  BY MidFrame DEF Task
<1>1. CASE CreateFile
  BY <1>1 DEF CreateFile, TypeOK, sane
<1>2. CASE CreateFileFails
  BY <1>2 DEF CreateFileFails, TypeOK, sane, ReadPage, Restart, At
<1>3. CASE ReadPage
  BY <1>3 DEF ReadPage, TypeOK, sane, pictures
<1>4. CASE FinishPicture
  <2>1. \E field \in {"done", "failed", "lost"} : pics' = Marked(pics, field)
    BY <1>4 DEF FinishPicture
  <2> QED
    BY <1>4, <2>1 DEF FinishPicture, TypeOK, sane, ReadPage, Restart, At
<1>5. CASE Restart
  <2>1. \/ UNCHANGED <<handle, started>>
        \/ \E ok \in BOOLEAN : SaneStart(task.scanner, ok)
    BY <1>5 DEF Restart, sane
  <2>2. handle' \in Scanners \union {None} /\ started' \in BOOLEAN
    BY <2>1 DEF SaneStart, SaneCancelled, TypeOK
  <2> QED
    BY <1>5, <2>2 DEF Restart, pictures
<1>6. CASE NextPicture
  <2>1. ~ReadPage /\ ~Restart
    BY <1>6 DEF NextPicture, ReadPage, Restart, At
  <2>2. (task.status = "ERROR") \in BOOLEAN
    OBVIOUS
  <2> QED
    BY <1>6, <2>1, <2>2 DEF NextPicture, TypeOK, sane
<1> QED
  BY <1>1, <1>2, <1>3, <1>4, <1>5, <1>6 DEF MidStep

LEMMA MidStepTypes == TypeOK /\ MidStep => TypeOK'
<1> SUFFICES ASSUME TypeOK, MidStep
             PROVE  TypeOK'
  OBVIOUS
<1> USE DEF Parts
<1>0. Parts
  BY TypeParts
<1>1. SessionType' /\ ProcessType' /\ tasks' \in Seq(Task) /\ orphaned' \in BOOLEAN
  BY <1>0, MidFrame, MidPictures DEF SessionType, ProcessType
<1>2. task.app \in Apps
  BY MidFrame DEF Task
<1>3. Pictures(Marked(pics, "done"), picId)
  BY <1>0, MarkedFacts
<1>4. picId' \in Nat /\ Places(scanQueue', picId') /\ Pictures(pics', picId')
  <2>1. CASE UNCHANGED <<picId, scanQueue>>
    <3>1. \/ pics' = Registered(task.app) \/ pics' = pics
          \/ \E field \in {"done", "failed", "lost"} : pics' = Marked(pics, field)
      BY <2>1, <1>0, MidPictures
    <3> QED
      BY <2>1, <3>1, <1>0, <1>2, RegisteredFacts, MarkedFacts
  <2>2. CASE NextPicture
    <3>1. CASE task.status = "NO_DOCS"
      BY <2>2, <3>1, <1>0, <1>3 DEF NextPicture
    <3>2. CASE task.status # "NO_DOCS"
      <4>1. pics' = Pushed(Marked(pics, "done"), task.app, task.status = "ERROR")
            /\ picId' = picId + 1 /\ scanQueue' = InQueue /\ (task.status = "ERROR") \in BOOLEAN
        BY <2>2, <3>2 DEF NextPicture
      <4>2. Places(InQueue, picId + 1)
        BY PlacesFacts
      <4>3. Pictures(pics', picId + 1)
        BY <4>1, <1>0, <1>2, <1>3, PushedFacts DEF IsPushed
      <4> QED
        BY <4>1, <4>2, <4>3, <1>0
    <3> QED
      BY <3>1, <3>2
  <2> QED
    BY <2>1, <2>2, MidPictures
<1>5. Parts'
  BY <1>1, <1>4
<1> QED
  BY <1>5, TypeParts, PTL

\* The end of a task.
LEMMA EndFrame ==
    ASSUME TypeOK, EndTask
    PROVE  /\ tasks # <<>> /\ task \in Task /\ task.app \in Apps
           /\ tasks' = Tail(tasks) /\ tasks' \in Seq(Task)
           /\ Len(tasks) <= 1 => tasks' = <<>>
           /\ orphaned' = (orphaned /\ tasks' # <<>>) /\ scannerState' = "READY"
           /\ scanQueue' = IF scannerState = "CANCELING" THEN <<>> ELSE scanQueue
           /\ UNCHANGED <<callers, deadPids, unload, alive, late, picId>>
           /\ IF pendingClean = task.app
              THEN /\ opened' = IF Holds(task.app) THEN None ELSE opened
                   /\ CleanByOwner(task.app) /\ pendingClean' = None
              ELSE UNCHANGED <<opened, pics, pendingClean>>
           /\ handle' \in Scanners \union {None} /\ started' \in BOOLEAN
<1>1. tasks \in Seq(Task) /\ tasks # <<>>
  BY DEF EndTask, At, TypeOK
<1>2. task \in Task /\ Tail(tasks) \in Seq(Task) /\ (Len(tasks) <= 1 => Tail(tasks) = <<>>)
  BY <1>1, TasksFacts DEF task
<1>3. handle' \in Scanners \union {None} /\ started' \in BOOLEAN
  BY <1>2 DEF EndTask, SaneClosed, SaneCancelled, TypeOK, Task
<1> QED
  BY <1>1, <1>2, <1>3 DEF EndTask, StateAfterScan, DeferredCleanup, Quiet, monitor, Task

LEMMA EndTaskTypes == TypeOK /\ EndTask => TypeOK'
<1> SUFFICES ASSUME TypeOK, EndTask
             PROVE  TypeOK'
  OBVIOUS
<1> USE DEF Parts
<1>0. Parts
  BY TypeParts
<1>1. Pictures(pics', picId')
  BY EndFrame, CleanedType
<1>2. SessionType' /\ ProcessType'
  BY <1>0, EndFrame DEF SessionType, ProcessType
<1>3. Places(scanQueue', picId')
  BY <1>0, EndFrame, PlacesFacts
<1>4. picId' \in Nat /\ tasks' \in Seq(Task) /\ orphaned' \in BOOLEAN
  BY <1>0, EndFrame
<1>5. Parts'
  BY <1>1, <1>2, <1>3, <1>4
<1> QED
  BY <1>5, TypeParts, PTL

\* The deaths of apps, the monitor thread and the unloading.
Unloads == CleanupScanService \/ UnloadSaneService \/ ProcessEnds

LEMMA MonitorTypes ==
    ASSUME TypeOK,
           MonitorRound \/ Unloads \/ \E a \in Apps : AppDies(a) \/ CleanupDeadCaller(a)
    PROVE  TypeOK'
<1>0. Parts
  BY TypeParts
<1> SUFFICES Parts'
  BY TypeParts, PTL
<1> USE <1>0 DEF Parts
<1>1. CASE MonitorRound
  BY <1>1 DEF MonitorRound, session, pictures, sane, SessionType, ProcessType
<1>2. CASE CleanupScanService
  <2>1. Pictures(<<>>, picId)
    BY DEF Pictures
  <2> QED
    BY <1>2, <2>1, PlacesFacts DEF CleanupScanService, SaneClosed, SessionType, ProcessType
<1>3. CASE UnloadSaneService
  BY <1>3 DEF UnloadSaneService, session, pictures, SessionType, ProcessType
<1>4. CASE ProcessEnds
  <2>1. Pictures(<<>>, 0) /\ <<>> \in Seq(Task) /\ <<>> \in Seq(Place) /\ Queued(<<>>) = {}
    BY DEF Pictures, Queued
  <2> QED
    BY <1>4, <2>1 DEF ProcessEnds, SessionType, ProcessType, Places
<1>5. ASSUME NEW a \in Apps, AppDies(a)
      PROVE  Parts'
  BY <1>5 DEF AppDies, session, pictures, sane, monitor, SessionType, ProcessType
<1>6. ASSUME NEW a \in Apps, CleanupDeadCaller(a)
      PROVE  Parts'
  <2>1. SessionType' /\ scanQueue' \in {<<>>, scanQueue}
    BY <1>6 DEF CleanupDeadCaller, ReleaseOrDefer, SaneClosed, SaneCancelled, session, sane,
                SessionType
  <2>2. Pictures(pics', picId')
    BY <1>6, CleanedType DEF CleanupDeadCaller
  <2>3. ProcessType' /\ UNCHANGED <<picId, tasks, orphaned>>
    BY <1>6 DEF CleanupDeadCaller, ProcessType
  <2> QED
    BY <2>1, <2>2, <2>3, PlacesFacts
<1> QED
  BY <1>1, <1>2, <1>3, <1>4, <1>5, <1>6 DEF Unloads

LEMMA NextCases ==
    ASSUME [Next]_vars
    PROVE  \/ \E a \in Apps : AppStep(a) \/ AppDies(a) \/ CleanupDeadCaller(a)
           \/ MidStep \/ EndTask \/ MonitorRound \/ Unloads \/ UNCHANGED vars
  BY DEF Next, TaskStep, MidStep, Unloads

LEMMA NextTypes == TypeOK /\ [Next]_vars => TypeOK'
<1>1. ASSUME TypeOK, UNCHANGED vars
      PROVE  TypeOK'
  BY <1>1 DEF TypeOK, vars, session, pictures, sane, monitor
<1> QED
  BY <1>1, AppStepTypes, MidStepTypes, EndTaskTypes, MonitorTypes, NextCases

-----------------------------------------------------------------------------
(* The session and its scan task *)

\* Until a scan is cancelled its app holds the scanner it scans with; afterwards
\* sane_start is not in effect on that scanner, and no page is read any more.
TaskFits ==
    /\ ReadyIffNoTask
    /\ orphaned => tasks # <<>>
    /\ ~orphaned /\ scannerState = "SCANING" =>
          Holds(task.app) /\ opened.scanner = task.scanner
    /\ ~orphaned /\ scannerState = "CANCELING" => ~(started /\ handle = task.scanner)

LEMMA InitTaskFits == Init => TaskFits
  BY TasksFacts DEF Init, TaskFits, ReadyIffNoTask

LEMMA SameTask ==
    ASSUME tasks' = tasks
    PROVE  task' = task /\ \A step : At(step)' <=> At(step)
  BY DEF task, At

\* Closing the device or cancelling on it stops the scan of its holder.
LEMMA ClosingFits ==
    ASSUME TypeOK, TaskFits, opened # None, UNCHANGED <<tasks, orphaned>>,
           handle' \in {handle, SaneClosed(opened.scanner)},
           started' = SaneCancelled(opened.scanner),
           scannerState' = IF scannerState = "SCANING" THEN "CANCELING" ELSE scannerState
    PROVE  TaskFits'
<1>1. scannerState' # "SCANING" /\ (scannerState' = "READY" <=> scannerState = "READY")
  BY DEF TypeOK
<1>2. ReadyIffNoTask' /\ (orphaned' => tasks' # <<>>)
  BY <1>1 DEF TaskFits, ReadyIffNoTask
<1>3. ASSUME ~orphaned, scannerState' = "CANCELING", started', handle' = task.scanner
      PROVE  FALSE
  <2>1. tasks # <<>> /\ task.scanner # None
    <3>1. tasks # <<>>
      BY <1>1, <1>3 DEF TaskFits, ReadyIffNoTask
    <3>2. task \in Task
      BY <3>1, TasksFacts DEF TypeOK, task
    <3> QED
      BY <3>1, <3>2, ScanAssumption DEF Task
  <2>2. started /\ handle = task.scanner /\ handle # opened.scanner
    BY <1>3, <2>1 DEF SaneCancelled, SaneClosed
  <2> QED
    BY <1>3, <2>2 DEF TaskFits, TypeOK
<1> QED
  BY <1>1, <1>2, <1>3, SameTask DEF TaskFits

LEMMA NextTaskFits == TypeOK /\ TaskFits /\ [Next]_vars => TaskFits'
<1> SUFFICES ASSUME TypeOK, TaskFits, [Next]_vars
             PROVE  TaskFits'
  OBVIOUS
<1> USE SameTask
<1>1. ASSUME NEW a \in Apps, InitScan(a) \/ GetScanProgress(a) \/ AppDies(a)
      PROVE  TaskFits'
  BY <1>1 DEF InitScan, GetScanProgress, AppDies, Calls, session, sane, TaskFits,
              ReadyIffNoTask, Holds
<1>2. ASSUME NEW a \in Apps, NEW s \in Scanners, CallOpen(a, s) \/ LateOpen(a, s)
      PROVE  TaskFits'
  <2>1. /\ opened = None /\ handle' = s /\ (started' <=> started /\ handle = s)
        /\ UNCHANGED <<scannerState, tasks, orphaned>>
    BY <1>2 DEF CallOpen, LateOpen, OpenScanner, SaneOpenOK, Calls
  <2> QED
    BY <2>1 DEF TaskFits, ReadyIffNoTask, Holds
<1>3. ASSUME NEW a \in Apps, CloseScanner(a) \/ CancelScan(a)
      PROVE  TaskFits'
  BY <1>3, ClosingFits DEF CloseScanner, CancelScan, Closing, Calls, Holds
<1>4. ASSUME NEW a \in Apps, ExitScan(a)
      PROVE  TaskFits'
  <2>1. CASE Holds(a)
    BY <1>4, <2>1, ClosingFits DEF ExitScan, Closing, Calls, Holds
  <2>2. CASE ~Holds(a)
    BY <1>4, <2>2 DEF ExitScan, Calls, sane, TaskFits, ReadyIffNoTask, Holds
  <2> QED
    BY <2>1, <2>2
<1>5. ASSUME NEW a \in Apps, NEW batch \in BOOLEAN, StartScan(a, batch)
      PROVE  TaskFits'
  <2> DEFINE t == [scanner |-> opened.scanner, app |-> a, batch |-> batch,
                   step |-> "file", status |-> "NONE"]
  <2>1. /\ opened # None /\ opened.app = a /\ opened' = opened /\ scannerState = "READY"
        /\ scannerState' = "SCANING" /\ orphaned' = orphaned /\ tasks' = Append(tasks, t)
    BY <1>5 DEF StartScan, Holds, Calls
  <2>2. t \in Task /\ t.app = a /\ t.scanner = opened.scanner
    BY <2>1 DEF TypeOK, Hold, Task
  <2> HIDE DEF t
  <2>3. tasks' # <<>>
    BY <2>1, <2>2, TasksFacts DEF TypeOK
  <2>4. ~orphaned => tasks = <<>>
    BY <2>1 DEF TaskFits, ReadyIffNoTask
  <2>5. ~orphaned => Len(tasks') <= 1 /\ task' = t
    BY <2>1, <2>2, <2>4, TasksFacts DEF TypeOK, task
  <2> QED
    BY <2>1, <2>2, <2>3, <2>5 DEF TaskFits, ReadyIffNoTask, Holds
<1>6. ASSUME NEW a \in Apps, StartScanFails(a)
      PROVE  TaskFits'
  BY <1>6 DEF StartScanFails, Calls, session, TaskFits, ReadyIffNoTask, Holds
<1>7. CASE MidStep
  <2>1. /\ tasks # <<>> /\ tasks' # <<>> /\ (Len(tasks) <= 1 => Len(tasks') <= 1)
        /\ task'.scanner = task.scanner /\ task'.app = task.app
        /\ UNCHANGED <<opened, scannerState, orphaned>>
    BY <1>7, MidFrame
  <2>2. scannerState = "CANCELING" => UNCHANGED <<handle, started>>
    BY <1>7, MidPictures DEF Restart, sane
  <2> QED
    BY <2>1, <2>2 DEF TaskFits, ReadyIffNoTask, Holds
<1>8. CASE EndTask
  <2>1. /\ tasks # <<>> /\ (Len(tasks) <= 1 => tasks' = <<>>)
        /\ orphaned' = (orphaned /\ tasks' # <<>>) /\ scannerState' = "READY"
    BY <1>8, EndFrame
  <2>2. ~orphaned' => tasks' = <<>>
    BY <2>1 DEF TaskFits, ReadyIffNoTask
  <2>3. ReadyIffNoTask'
    <3>1. Len(<<>>) <= 1
      BY TasksFacts DEF TypeOK
    <3> QED
      BY <2>1, <2>2, <3>1 DEF ReadyIffNoTask
  <2> QED
    BY <2>1, <2>3 DEF TaskFits
<1>9. CASE MonitorRound
  BY <1>9 DEF MonitorRound, session, sane, TaskFits, ReadyIffNoTask, Holds
<1>10. ASSUME NEW a \in Apps, CleanupDeadCaller(a)
       PROVE  TaskFits'
  <2>0. UNCHANGED <<tasks, orphaned>>
    BY <1>10 DEF CleanupDeadCaller
  <2>1. CASE ~Holds(a)
    BY <1>10, <2>0, <2>1 DEF CleanupDeadCaller, session, sane, TaskFits, ReadyIffNoTask, Holds
  <2>2. CASE Holds(a) /\ scannerState = "READY"
    BY <1>10, <2>0, <2>2 DEF CleanupDeadCaller, ReleaseOrDefer, TaskFits, ReadyIffNoTask
  <2>3. CASE Holds(a) /\ scannerState # "READY"
    <3>1. /\ handle' = SaneClosed(opened.scanner) /\ started' = SaneCancelled(opened.scanner)
          /\ scannerState' = "CANCELING" /\ opened # None
      BY <1>10, <2>3 DEF CleanupDeadCaller, ReleaseOrDefer, Holds
    <3>2. scannerState' = IF scannerState = "SCANING" THEN "CANCELING" ELSE scannerState
      BY <2>3, <3>1 DEF TypeOK
    <3> QED
      BY <2>0, <3>1, <3>2, ClosingFits
  <2> QED
    BY <2>1, <2>2, <2>3
<1>11. CASE CleanupScanService
  BY <1>11, TasksFacts DEF CleanupScanService, TaskFits, ReadyIffNoTask
<1>12. CASE UnloadSaneService
  BY <1>12, ScanAssumption, TasksFacts
     DEF UnloadSaneService, session, TypeOK, task, TaskFits, ReadyIffNoTask, Holds
<1>13. CASE ProcessEnds
  BY <1>13, TasksFacts DEF ProcessEnds, TaskFits, ReadyIffNoTask
<1>14. CASE UNCHANGED vars
  BY <1>14 DEF vars, session, sane, TaskFits, ReadyIffNoTask, Holds
<1> QED
  BY <1>1, <1>2, <1>3, <1>4, <1>5, <1>6, <1>7, <1>8, <1>9, <1>10, <1>11, <1>12, <1>13, <1>14,
     NextCases DEF AppStep, Unloads

-----------------------------------------------------------------------------
(* The files of the pictures *)

\* The file of a picture is its app's and a finished picture has one, unless it was
\* pushed while the tasks are orphaned, as then all of them are.  The picture of the task
\* is picId_: it has no file at first, then it has one of the task's app, unless its app
\* has left and it was cleaned up.
CachedIn(ps) ==
    \A p \in DOMAIN ps :
        ~ps[p].mixed => /\ ps[p].file \in {None, ps[p].app}
                        /\ ps[p].done => ps[p].file # None

FilesFit ==
    /\ CachedIn(pics)
    /\ orphaned => \A p \in DOMAIN pics : pics[p].mixed
    /\ ~orphaned /\ At("file") =>
          picId \in DOMAIN pics /\ pics[picId].app = task.app /\ pics[picId].file = None
    /\ ~orphaned /\ (At("read") \/ At("paged") \/ At("restarted")) /\ picId \in DOMAIN pics =>
          pics[picId].app = task.app /\ pics[picId].file = task.app

LEMMA FilesFitIsCached == FilesFit => CachedUnderItsOwner
  BY DEF FilesFit, CachedIn, CachedUnderItsOwner

LEMMA InitFilesFit == Init => FilesFit
  BY DEF Init, FilesFit, CachedIn, At

LEMMA PushedCached ==
    ASSUME NEW ps, CachedIn(ps), NEW a, NEW qs, IsPushed(qs, ps, a)
    PROVE  CachedIn(qs)
  BY DEF IsPushed, CachedIn

\* Cleaning up after an app, or nothing, may come with the end of the task.
LEMMA CleanFits ==
    ASSUME TypeOK, TaskFits, FilesFit, picId' = picId,
           orphaned' => orphaned, ~orphaned' /\ tasks' # <<>> => ~orphaned /\ tasks' = tasks,
           UNCHANGED pics \/ \E a \in Apps : CleanByOwner(a)
    PROVE  FilesFit'
<1>1. /\ \A p \in DOMAIN pics' : p \in DOMAIN pics /\ pics'[p] = pics[p]
      /\ \A p \in DOMAIN pics : p \in DOMAIN pics' \/ pics[p].file \in Apps
  BY CleanFacts
<1>2. CachedIn(pics') /\ (orphaned' => \A p \in DOMAIN pics' : pics'[p].mixed)
  BY <1>1 DEF FilesFit, CachedIn
<1>3. ~orphaned' /\ At("file")' => picId' \in DOMAIN pics'
  BY <1>1, SameTask, ScanAssumption DEF At, FilesFit
<1> QED
  BY <1>1, <1>2, <1>3, SameTask DEF At, FilesFit

\* The steps of the task that do not end it.
LEMMA MidStepFits ==
    ASSUME TypeOK, FilesFit, MidStep
    PROVE  FilesFit'
<1>0. /\ Pictures(pics, picId) /\ picId \in Nat /\ orphaned \in BOOLEAN
      /\ task.app \in Apps /\ task'.app = task.app /\ orphaned' = orphaned
      /\ tasks # <<>> /\ tasks' # <<>> /\ task \in Task
  BY MidFrame DEF TypeOK, Pictures, Task
<1>1. CASE CreateFile
  <2>1. At("file") /\ task'.step = "read" /\ picId' = picId /\ pics' = Registered(task.app)
    BY <1>1, GotoFacts DEF CreateFile
  <2>2. /\ DOMAIN pics' = DOMAIN pics /\ \A p \in DOMAIN pics \ {picId} : pics'[p] = pics[p]
        /\ picId \in DOMAIN pics => /\ pics'[picId].app = pics[picId].app
                                    /\ pics'[picId].mixed = pics[picId].mixed
                                    /\ pics'[picId].file = task.app
    BY <1>0, <2>1, RegisteredFacts
  <2>3. picId \in DOMAIN pics => pics[picId].mixed \/ ~orphaned
    BY DEF FilesFit
  <2>4. task.app # None
    BY <1>0, ScanAssumption
  <2> QED
    BY <1>0, <2>1, <2>2, <2>3, <2>4 DEF FilesFit, CachedIn, At
<1>2. CASE CreateFileFails
  <2>1. task'.step = "end" /\ picId' = picId
    BY <1>2, GotoFacts DEF CreateFileFails
  <2>2. \E field \in {"failed", "lost"} : pics' = Marked(pics, field)
    BY <1>2 DEF CreateFileFails
  <2>3. /\ DOMAIN pics' = DOMAIN pics
        /\ \A p \in DOMAIN pics :
              /\ pics'[p].app = pics[p].app /\ pics'[p].file = pics[p].file
              /\ pics'[p].mixed = pics[p].mixed /\ pics'[p].done = pics[p].done
    BY <1>0, <2>2, MarkedFacts
  <2> QED
    BY <1>0, <2>1, <2>3 DEF FilesFit, CachedIn, At
<1>3. CASE ReadPage
  <2>1. At("read") /\ task'.step = "paged" /\ UNCHANGED <<picId, pics>>
    BY <1>3, GotoFacts DEF ReadPage, pictures
  <2> QED
    BY <1>0, <2>1 DEF FilesFit, CachedIn, At
<1>4. CASE FinishPicture
  <2>1. At("paged") /\ task'.step = "end" /\ picId' = picId
    BY <1>0, <1>4, GotoFacts DEF FinishPicture, Task
  <2>2. \E field \in {"done", "failed", "lost"} : pics' = Marked(pics, field)
    BY <1>4 DEF FinishPicture
  <2>3. /\ DOMAIN pics' = DOMAIN pics
        /\ \A p \in DOMAIN pics :
              /\ pics'[p].app = pics[p].app /\ pics'[p].file = pics[p].file
              /\ pics'[p].mixed = pics[p].mixed
              /\ p # picId => pics'[p].done = pics[p].done
    BY <1>0, <2>2, MarkedFacts
  <2>4. picId \in DOMAIN pics => pics[picId].mixed \/ pics[picId].file # None
    BY <1>0, <2>1, ScanAssumption DEF FilesFit
  <2> QED
    BY <1>0, <2>1, <2>3, <2>4 DEF FilesFit, CachedIn, At
<1>5. CASE Restart
  <2>1. At("paged") /\ task'.step = "restarted" /\ UNCHANGED <<picId, pics>>
    BY <1>5, GotoFacts DEF Restart, pictures
  <2> QED
    BY <1>0, <2>1 DEF FilesFit, CachedIn, At
<1>6. CASE NextPicture
  <2>1. /\ At("restarted")
        /\ task'.step = IF task.status = "NONE" THEN "file" ELSE "end"
    BY <1>0, <1>6, GotoFacts DEF NextPicture, Task
  <2> DEFINE ms == Marked(pics, "done")
  <2>2. /\ Pictures(ms, picId) /\ DOMAIN ms = DOMAIN pics
        /\ \A p \in DOMAIN pics :
              /\ ms[p].app = pics[p].app /\ ms[p].file = pics[p].file
              /\ ms[p].mixed = pics[p].mixed
              /\ p # picId => ms[p].done = pics[p].done
    BY <1>0, MarkedFacts
  <2>3. picId \in DOMAIN pics => pics[picId].mixed \/ pics[picId].file # None
    BY <1>0, <2>1, ScanAssumption DEF FilesFit
  <2>4. CachedIn(ms) /\ (orphaned => \A p \in DOMAIN ms : ms[p].mixed)
    BY <2>2, <2>3 DEF FilesFit, CachedIn
  <2>5. CASE task.status = "NO_DOCS"
    <3>1. pics' = ms /\ task'.step = "end"
      BY <1>6, <2>1, <2>5 DEF NextPicture
    <3> QED
      BY <1>0, <2>4, <3>1 DEF FilesFit, At
  <2>6. CASE task.status # "NO_DOCS"
    <3>1. pics' = Pushed(ms, task.app, task.status = "ERROR") /\ picId' = picId + 1
          /\ (task.status = "ERROR") \in BOOLEAN
      BY <1>6, <2>6 DEF NextPicture
    <3> HIDE DEF ms
    <3>2. IsPushed(pics', ms, task.app)
      BY <1>0, <2>2, <3>1, PushedFacts
    <3>3. CachedIn(pics') /\ (orphaned => \A p \in DOMAIN pics' : pics'[p].mixed)
      BY <2>4, <3>2, PushedCached DEF IsPushed
    <3>4. picId' \in DOMAIN pics' /\ pics'[picId'].app = task.app /\ pics'[picId'].file = None
      BY <3>1, <3>2 DEF IsPushed
    <3> QED
      BY <1>0, <2>1, <3>3, <3>4 DEF FilesFit, At
  <2> QED
    BY <2>5, <2>6
<1> QED
  BY <1>1, <1>2, <1>3, <1>4, <1>5, <1>6 DEF MidStep

LEMMA NextFilesFit == TypeOK /\ TaskFits /\ FilesFit /\ [Next]_vars => FilesFit'
<1> SUFFICES ASSUME TypeOK, TaskFits, FilesFit, [Next]_vars
             PROVE  FilesFit'
  OBVIOUS
<1>1. ASSUME NEW a \in Apps, NEW batch \in BOOLEAN, StartScan(a, batch)
      PROVE  FilesFit'
  <2> DEFINE t == [scanner |-> opened.scanner, app |-> a, batch |-> batch,
                   step |-> "file", status |-> "NONE"]
  <2>1. /\ picId' = picId + 1 /\ pics' = Pushed(pics, a, FALSE) /\ orphaned' = orphaned
        /\ tasks' = Append(tasks, t) /\ scannerState = "READY" /\ opened # None
    BY <1>1 DEF StartScan, Calls, Holds
  <2>2. t \in Task /\ t.app = a /\ t.step = "file"
    BY <2>1 DEF TypeOK, Hold, Task
  <2> HIDE DEF t
  <2>3. Pictures(pics, picId) /\ picId \in Nat /\ orphaned \in BOOLEAN
    BY DEF TypeOK, Pictures
  <2>4. IsPushed(pics', pics, a)
    BY <2>1, <2>3, PushedFacts
  <2>5. CachedIn(pics') /\ (orphaned' => \A p \in DOMAIN pics' : pics'[p].mixed)
    BY <2>1, <2>4, PushedCached DEF FilesFit, IsPushed
  <2>6. picId' \in DOMAIN pics' /\ pics'[picId'].app = a /\ pics'[picId'].file = None
    BY <2>1, <2>4 DEF IsPushed
  <2>7. ~orphaned => task' = t
    <3>1. ~orphaned => tasks = <<>>
      BY <2>1 DEF TaskFits, ReadyIffNoTask
    <3> QED
      BY <2>1, <2>2, <3>1, TasksFacts DEF task, TypeOK
  <2> QED
    BY <2>1, <2>2, <2>5, <2>6, <2>7 DEF FilesFit, At
<1>2. ASSUME NEW a \in Apps,
             \/ InitScan(a) \/ CloseScanner(a) \/ ExitScan(a) \/ StartScanFails(a)
             \/ CancelScan(a) \/ GetScanProgress(a) \/ AppDies(a) \/ CleanupDeadCaller(a)
             \/ \E s \in Scanners : CallOpen(a, s) \/ LateOpen(a, s)
      PROVE  FilesFit'
  <2>1. UNCHANGED <<tasks, picId, orphaned>> /\ (UNCHANGED pics \/ CleanByOwner(a))
    BY <1>2 DEF InitScan, CloseScanner, ExitScan, StartScanFails, CancelScan, Calls,
                GetScanProgress, AppDies, CleanupDeadCaller, CallOpen, LateOpen,
                OpenScanner, pictures
  <2> QED
    BY <2>1, CleanFits
<1>3. CASE EndTask
  <2>1. /\ task.app \in Apps /\ picId' = picId /\ (Len(tasks) <= 1 => tasks' = <<>>)
        /\ orphaned' = (orphaned /\ tasks' # <<>>)
        /\ UNCHANGED pics \/ CleanByOwner(task.app)
    BY <1>3, EndFrame
  <2>2. ~orphaned => tasks' = <<>>
    BY <2>1 DEF TaskFits, ReadyIffNoTask
  <2> QED
    BY <2>1, <2>2, CleanFits
<1>4. CASE CleanupScanService \/ ProcessEnds
  <2>0. DOMAIN <<>> = {}
    OBVIOUS
  <2>1. pics' = <<>> /\ (~orphaned' => tasks' = <<>>)
    BY <1>4 DEF CleanupScanService, ProcessEnds
  <2> QED
    BY <2>0, <2>1 DEF FilesFit, CachedIn, At
<1>5. CASE MonitorRound \/ UnloadSaneService \/ UNCHANGED vars
  BY <1>5, CleanFits DEF MonitorRound, UnloadSaneService, vars, pictures
<1> QED
  BY <1>1, <1>2, <1>3, <1>4, <1>5, MidStepFits, NextCases DEF AppStep, Unloads

-----------------------------------------------------------------------------
(* The queue of pictures *)

\* A finished picture in the queue is the holder's, unless pushed under orphaned tasks.
NoForeign ==
    \A e \in Queued(scanQueue) :
        e.pic \in DOMAIN pics /\ pics[e.pic].done /\ ~pics[e.pic].mixed
            => Holds(pics[e.pic].app)

\* A page that was read to its end after its scan was cancelled is not in the queue.
Gone ==
    ~orphaned /\ scannerState = "CANCELING"
        /\ (At("restarted") \/ (At("paged") /\ task.status = "EOF"))
            => \A e \in Queued(scanQueue) : e.pic # picId

LEMMA NoForeignIsProperty == NoForeign => NoForeignPicture
<1> SUFFICES ASSUME NoForeign, NEW i \in 1..Len(scanQueue), NEW a \in Apps,
                    Holds(a), scanQueue[i].pic \in DOMAIN pics,
                    pics[scanQueue[i].pic].done, ~pics[scanQueue[i].pic].mixed
             PROVE  pics[scanQueue[i].pic].app = a
  BY DEF NoForeignPicture
<1>1. scanQueue[i] \in Queued(scanQueue)
  BY DEF Queued
<1> QED
  BY <1>1 DEF NoForeign, Holds

LEMMA EmptiedFits ==
    ASSUME scanQueue' = <<>>
    PROVE  Queued(scanQueue') = {} /\ NoForeign' /\ Gone'
<1>1. Queued(scanQueue') = {}
  BY DEF Queued
<1> QED
  BY <1>1 DEF NoForeign, Gone

\* Pictures that leave the queue or the map, or are filed, disturb nothing; nor does
\* an app that opens the free scanner.
LEMMA QueueKept ==
    ASSUME NoForeign, Queued(scanQueue') \subseteq Queued(scanQueue),
           opened' = opened \/ opened = None, DOMAIN pics' \subseteq DOMAIN pics,
           \A p \in DOMAIN pics' :
              /\ pics'[p].app = pics[p].app /\ pics'[p].mixed = pics[p].mixed
              /\ pics'[p].done => pics[p].done
    PROVE  NoForeign'
  BY DEF NoForeign, Holds

\* Finishing the task's picture is safe: while the scan runs its app holds the
\* scanner, and afterwards the picture is not in the queue.
LEMMA MarkedFits ==
    ASSUME TypeOK, TaskFits, FilesFit, NoForeign, Gone,
           At("restarted") \/ (At("paged") /\ task.status = "EOF"),
           NEW ms, ms = Marked(pics, "done")
    PROVE  \A e \in Queued(scanQueue) :
              e.pic \in DOMAIN ms /\ ms[e.pic].done /\ ~ms[e.pic].mixed => Holds(ms[e.pic].app)
<1>0. Pictures(pics, picId) /\ picId \in Nat
  BY DEF TypeOK, Pictures
<1>1. /\ DOMAIN ms = DOMAIN pics
      /\ \A p \in DOMAIN pics :
            /\ ms[p].app = pics[p].app /\ ms[p].mixed = pics[p].mixed
            /\ p # picId => ms[p].done = pics[p].done
  BY <1>0, MarkedFacts
<1>2. ASSUME NEW e \in Queued(scanQueue), e.pic = picId, picId \in DOMAIN pics, ~pics[picId].mixed
      PROVE  Holds(pics[picId].app)
  <2>1. ~orphaned /\ tasks # <<>>
    BY <1>2 DEF FilesFit, At
  <2>2. scannerState = "SCANING"
    BY <1>2, <2>1 DEF Gone, TaskFits, ReadyIffNoTask, TypeOK
  <2> QED
    BY <1>2, <2>1, <2>2 DEF TaskFits, FilesFit
<1> QED
  BY <1>1, <1>2 DEF NoForeign

\* The steps of the task that do not end it.
LEMMA MidStepQueue ==
    ASSUME TypeOK, TaskFits, FilesFit, NoForeign, Gone, MidStep
    PROVE  NoForeign' /\ Gone'
<1>0. /\ Pictures(pics, picId) /\ picId \in Nat /\ orphaned \in BOOLEAN
      /\ UNCHANGED <<opened, scannerState, orphaned>>
      /\ task.app \in Apps /\ task \in Task
  BY MidFrame DEF TypeOK, Pictures, Task
<1>1. CASE CreateFile
  <2>1. task'.step = "read" /\ scanQueue' = scanQueue /\ pics' = Registered(task.app)
    BY <1>1, GotoFacts DEF CreateFile
  <2>2. /\ DOMAIN pics' = DOMAIN pics
        /\ \A p \in DOMAIN pics' : /\ pics'[p].app = pics[p].app /\ pics'[p].done = pics[p].done
                                   /\ pics'[p].mixed = pics[p].mixed
    BY <1>0, <2>1, RegisteredFacts
  <2> QED
    BY <1>0, <2>1, <2>2, QueueKept DEF Gone, At
<1>2. CASE CreateFileFails
  <2>1. task'.step = "end" /\ scanQueue' = scanQueue
    BY <1>2, GotoFacts DEF CreateFileFails
  <2>2. \E field \in {"failed", "lost"} : pics' = Marked(pics, field)
    BY <1>2 DEF CreateFileFails
  <2>3. /\ DOMAIN pics' = DOMAIN pics
        /\ \A p \in DOMAIN pics' : /\ pics'[p].app = pics[p].app /\ pics'[p].done = pics[p].done
                                   /\ pics'[p].mixed = pics[p].mixed
    BY <1>0, <2>2, MarkedFacts
  <2> QED
    BY <1>0, <2>1, <2>3, QueueKept DEF Gone, At
<1>3. CASE ReadPage
  <2>1. PICK status \in {"EOF", "NO_DOCS", "ERROR"} :
           /\ status = "EOF" => started /\ handle = task.scanner
           /\ Goto("paged", status)
    BY <1>3 DEF ReadPage
  <2>2. task'.step = "paged" /\ task'.status = status
        /\ UNCHANGED <<picId, scanQueue, pics>>
    BY <1>3, <2>1, GotoFacts DEF ReadPage, pictures
  <2>3. ~orphaned /\ scannerState = "CANCELING" => status # "EOF"
    BY <2>1 DEF TaskFits
  <2> QED
    BY <1>0, <2>2, <2>3, QueueKept DEF Gone, At
<1>4. CASE FinishPicture
  <2>1. At("paged") /\ task'.step = "end" /\ scanQueue' = scanQueue
    BY <1>0, <1>4, GotoFacts DEF FinishPicture, Task
  <2>2. CASE task.status = "EOF"
    <3>1. pics' = Marked(pics, "done")
      BY <1>4, <2>2 DEF FinishPicture
    <3> QED
      BY <1>0, <2>1, <2>2, <3>1, MarkedFits DEF NoForeign, Gone, At, Holds
  <2>3. CASE task.status # "EOF"
    <3>1. \E field \in {"failed", "lost"} : pics' = Marked(pics, field)
      BY <1>4, <2>3 DEF FinishPicture
    <3>2. /\ DOMAIN pics' = DOMAIN pics
          /\ \A p \in DOMAIN pics' : /\ pics'[p].app = pics[p].app
                                     /\ pics'[p].done = pics[p].done
                                     /\ pics'[p].mixed = pics[p].mixed
      BY <1>0, <3>1, MarkedFacts
    <3> QED
      BY <1>0, <2>1, <3>2, QueueKept DEF Gone, At
  <2> QED
    BY <2>2, <2>3
<1>5. CASE Restart
  <2>1. /\ At("paged") /\ task.status = "EOF" /\ task'.step = "restarted"
        /\ UNCHANGED <<picId, scanQueue, pics>>
    BY <1>5, GotoFacts DEF Restart, pictures
  <2> QED
    BY <1>0, <2>1, QueueKept DEF Gone, At
<1>6. CASE NextPicture
  <2>1. At("restarted") /\ task'.step = IF task.status = "NONE" THEN "file" ELSE "end"
    BY <1>0, <1>6, GotoFacts DEF NextPicture, Task
  <2>2. Gone'
    BY <2>1 DEF Gone, At
  <2> DEFINE ms == Marked(pics, "done")
  <2>3. /\ Pictures(ms, picId)
        /\ \A e \in Queued(scanQueue) :
              e.pic \in DOMAIN ms /\ ms[e.pic].done /\ ~ms[e.pic].mixed => Holds(ms[e.pic].app)
    BY <1>0, <2>1, MarkedFits, MarkedFacts
  <2>4. CASE task.status = "NO_DOCS"
    BY <1>0, <1>6, <2>2, <2>3, <2>4 DEF NextPicture, NoForeign, Holds
  <2>5. CASE task.status # "NO_DOCS"
    <3>1. /\ pics' = Pushed(ms, task.app, task.status = "ERROR") /\ scanQueue' = InQueue
          /\ (task.status = "ERROR") \in BOOLEAN
      BY <1>6, <2>5 DEF NextPicture
    <3> HIDE DEF ms
    <3>2. IsPushed(pics', ms, task.app)
      BY <1>0, <2>3, <3>1, PushedFacts
    <3>3. \A e \in Queued(scanQueue') : e \in Queued(scanQueue) \/ e.pic = picId + 1
      BY <3>1, PlacesFacts
    <3>4. NoForeign'
      BY <1>0, <2>3, <3>2, <3>3 DEF NoForeign, IsPushed, Holds
    <3> QED
      BY <2>2, <3>4
  <2> QED
    BY <2>4, <2>5
<1> QED
  BY <1>1, <1>2, <1>3, <1>4, <1>5, <1>6 DEF MidStep

LEMMA InitQueueFits == Init => NoForeign /\ Gone
<1> SUFFICES ASSUME Init
             PROVE  NoForeign /\ Gone
  OBVIOUS
<1>1. Queued(scanQueue) = {}
  BY DEF Init, Queued
<1> QED
  BY <1>1 DEF NoForeign, Gone

LEMMA NextQueueFits ==
    ASSUME TypeOK, TaskFits, FilesFit, NoForeign, Gone, [Next]_vars
    PROVE  NoForeign' /\ Gone'
<1> USE SameTask
<1>1. ASSUME NEW a \in Apps, InitScan(a) \/ AppDies(a) \/ StartScanFails(a)
      PROVE  NoForeign' /\ Gone'
  BY <1>1 DEF InitScan, AppDies, StartScanFails, Calls, session, pictures, NoForeign, Gone, Holds
<1>2. ASSUME NEW a \in Apps, NEW s \in Scanners, CallOpen(a, s) \/ LateOpen(a, s)
      PROVE  NoForeign' /\ Gone'
  <2>1. opened = None /\ UNCHANGED <<scannerState, picId, scanQueue, pics, tasks, orphaned>>
    BY <1>2 DEF CallOpen, LateOpen, OpenScanner, Calls, pictures
  <2> QED
    BY <2>1, QueueKept DEF Gone
<1>3. ASSUME NEW a \in Apps, CloseScanner(a) \/ CancelScan(a)
      PROVE  NoForeign' /\ Gone'
  BY <1>3, EmptiedFits DEF CloseScanner, CancelScan, Closing
<1>4. ASSUME NEW a \in Apps, ExitScan(a) \/ CleanupDeadCaller(a)
      PROVE  NoForeign' /\ Gone'
  <2>1. CASE Holds(a)
    BY <1>4, <2>1, EmptiedFits DEF ExitScan, CleanupDeadCaller, Closing
  <2>2. CASE ~Holds(a)
    <3>1. UNCHANGED <<opened, scannerState, picId, scanQueue, tasks, orphaned>>
      BY <1>4, <2>2 DEF ExitScan, CleanupDeadCaller, Calls, session, sane
    <3>2. UNCHANGED pics \/ CleanByOwner(a)
      BY <1>4 DEF ExitScan, CleanupDeadCaller
    <3>3. DOMAIN pics' \subseteq DOMAIN pics /\ \A p \in DOMAIN pics' : pics'[p] = pics[p]
      BY <3>2, CleanFacts
    <3> QED
      BY <3>1, <3>3, QueueKept DEF Gone
  <2> QED
    BY <2>1, <2>2
<1>5. ASSUME NEW a \in Apps, NEW batch \in BOOLEAN, StartScan(a, batch)
      PROVE  NoForeign' /\ Gone'
  <2>1. /\ opened' = opened /\ scannerState' = "SCANING" /\ pics' = Pushed(pics, a, FALSE)
        /\ scanQueue' = InQueue /\ Pictures(pics, picId) /\ picId \in Nat /\ orphaned \in BOOLEAN
    BY <1>5 DEF StartScan, TypeOK, Pictures
  <2>2. IsPushed(pics', pics, a)
    BY <2>1, PushedFacts
  <2>3. \A e \in Queued(scanQueue') : e \in Queued(scanQueue) \/ e.pic = picId + 1
    BY <2>1, PlacesFacts
  <2> QED
    BY <2>1, <2>2, <2>3 DEF NoForeign, Gone, IsPushed, Holds
<1>6. ASSUME NEW a \in Apps, GetScanProgress(a)
      PROVE  NoForeign' /\ Gone'
  <2>1. UNCHANGED <<opened, scannerState, picId, pics, tasks, orphaned>>
    BY <1>6 DEF GetScanProgress, Calls, session
  <2>2. Queued(scanQueue') \subseteq Queued(scanQueue)
    BY <1>6, QueueFacts DEF GetScanProgress, TypeOK
  <2> QED
    BY <2>1, <2>2, QueueKept DEF Gone
<1>7. CASE EndTask
  <2>0. /\ scannerState' = "READY" /\ scanQueue' \in {<<>>, scanQueue} /\ task.app \in Apps
    BY <1>7, EndFrame
  <2>1. CASE pendingClean = task.app
    <3>1. opened' = (IF Holds(task.app) THEN None ELSE opened) /\ CleanByOwner(task.app)
      BY <1>7, <2>1, EndFrame
    <3>2. /\ DOMAIN pics' = {p \in DOMAIN pics : pics[p].file # task.app}
          /\ \A p \in DOMAIN pics' : pics'[p] = pics[p]
      BY <2>0, <3>1, CleanFacts
    <3>3. \A p \in DOMAIN pics' : pics'[p].done /\ ~pics'[p].mixed => pics[p].app # task.app
      BY <3>2 DEF FilesFit, CachedIn
    <3>4. ASSUME scanQueue' = scanQueue
          PROVE  NoForeign'
      BY <3>1, <3>2, <3>3, <3>4 DEF NoForeign, Holds
    <3> QED
      BY <2>0, <3>4, EmptiedFits DEF Gone
  <2>2. CASE pendingClean # task.app
    <3>1. UNCHANGED <<opened, pics>>
      BY <1>7, <2>2, EndFrame
    <3> QED
      BY <2>0, <3>1, EmptiedFits, QueueKept DEF Gone
  <2> QED
    BY <2>1, <2>2
<1>8. CASE CleanupScanService \/ ProcessEnds
  BY <1>8, EmptiedFits DEF CleanupScanService, ProcessEnds
<1>9. CASE MonitorRound \/ UnloadSaneService \/ UNCHANGED vars
  BY <1>9 DEF MonitorRound, UnloadSaneService, vars, session, pictures, NoForeign, Gone, Holds
<1> QED
  BY <1>1, <1>2, <1>3, <1>4, <1>5, <1>6, <1>7, <1>8, <1>9, MidStepQueue, NextCases
     DEF AppStep, Unloads

-----------------------------------------------------------------------------
(* Who opened the scanner in calm *)

CalmHold == opened # None /\ opened.calm

\* A scanner opened in calm is held during a scan only by the app that scans, and it is
\* the one scanned.
HolderScans ==
    CalmHold /\ tasks # <<>> =>
        ~orphaned /\ opened.app = task.app /\ opened.scanner = task.scanner

\* Its cleanup is put off only once the holder has died, until the end of its scan, and
\* unless it is put off the monitor knows the holder.
Calm ==
    /\ HolderScans
    /\ deadPids \intersect alive = {}
    /\ CalmHold /\ pendingClean = opened.app =>
          scannerState = "CANCELING" /\ opened.app \notin alive
    /\ CalmHold => \/ opened.app \in callers \union deadPids
                   \/ tasks # <<>> /\ pendingClean = opened.app

LEMMA InitCalm == Init => Calm
  BY DEF Init, Calm, HolderScans, CalmHold

LEMMA NextCalm ==
    ASSUME TypeOK, TaskFits, Calm, [Next]_vars
    PROVE  Calm'
<1> USE SameTask DEF CalmHold
<1>0. /\ opened \in Hold \union {None} /\ pendingClean \in Apps \union {None}
      /\ orphaned \in BOOLEAN /\ alive \subseteq Apps /\ deadPids \subseteq Apps
      /\ scannerState \in {"READY", "SCANING", "CANCELING"}
  BY DEF TypeOK
<1>1. ASSUME NEW a \in Apps, InitScan(a) \/ GetScanProgress(a) \/ StartScanFails(a) \/ AppDies(a)
      PROVE  Calm'
  <2>1. /\ UNCHANGED <<opened, scannerState, pendingClean, tasks, orphaned, deadPids>>
        /\ alive' \subseteq alive /\ callers \subseteq callers'
    BY <1>1 DEF InitScan, GetScanProgress, StartScanFails, AppDies, Calls, session, monitor
  <2> QED
    BY <2>1 DEF Calm, HolderScans
<1>2. ASSUME NEW a \in Apps, NEW s \in Scanners, CallOpen(a, s)
      PROVE  Calm'
  <2>1. /\ UNCHANGED <<scannerState, pendingClean, tasks, orphaned, deadPids, alive>>
        /\ callers' = callers \union {a}
        /\ opened' = [scanner |-> s, app |-> a,
                      calm |-> a \in alive /\ tasks = << >> /\ pendingClean # a]
    BY <1>2 DEF CallOpen, OpenScanner, Calls
  <2>2. opened'.app = a /\ (opened'.calm => tasks = <<>> /\ pendingClean # a)
    BY <2>1
  <2> QED
    BY <2>1, <2>2 DEF Calm, HolderScans
<1>3. ASSUME NEW a \in Apps, NEW s \in Scanners, LateOpen(a, s)
      PROVE  Calm'
  <2>1. UNCHANGED <<deadPids, alive>> /\ a \notin alive
        /\ opened' = [scanner |-> s, app |-> a,
                      calm |-> a \in alive /\ tasks = << >> /\ pendingClean # a]
    BY <1>3 DEF LateOpen, OpenScanner, monitor, TypeOK
  <2>2. ~opened'.calm
    BY <2>1
  <2> QED
    BY <2>1, <2>2 DEF Calm, HolderScans
<1>4. ASSUME NEW a \in Apps, CloseScanner(a)
      PROVE  Calm'
  BY <1>4 DEF CloseScanner, Closing, Calls, Calm, HolderScans
<1>5. ASSUME NEW a \in Apps, CancelScan(a)
      PROVE  Calm'
  BY <1>5 DEF CancelScan, Calls, Calm, HolderScans
<1>6. ASSUME NEW a \in Apps, ExitScan(a)
      PROVE  Calm'
  <2>1. CASE Holds(a)
    BY <1>6, <2>1 DEF ExitScan, Closing, Calls, Calm, HolderScans
  <2>2. CASE ~Holds(a)
    BY <1>6, <2>2 DEF ExitScan, Calls, Calm, HolderScans
  <2> QED
    BY <2>1, <2>2
<1>7. ASSUME NEW a \in Apps, NEW batch \in BOOLEAN, StartScan(a, batch)
      PROVE  Calm'
  <2> DEFINE t == [scanner |-> opened.scanner, app |-> a, batch |-> batch,
                   step |-> "file", status |-> "NONE"]
  <2>1. /\ opened # None /\ opened.app = a /\ scannerState = "READY" /\ tasks' = Append(tasks, t)
        /\ UNCHANGED <<opened, pendingClean, orphaned, alive, deadPids>>
        /\ callers' = callers \union {a}
    BY <1>7 DEF StartScan, Holds, Calls
  <2>2. t \in Task /\ t.app = a /\ t.scanner = opened.scanner
    BY <2>1 DEF TypeOK, Hold, Task
  <2> HIDE DEF t
  <2>3. opened.calm => tasks = <<>> /\ ~orphaned
    BY <2>1 DEF Calm, HolderScans, TaskFits, ReadyIffNoTask
  <2>4. opened.calm => task' = t
    BY <2>1, <2>2, <2>3, TasksFacts DEF task, TypeOK
  <2>5. opened.calm => pendingClean # a
    BY <2>1 DEF Calm
  <2> QED
    BY <2>1, <2>2, <2>3, <2>4, <2>5 DEF Calm, HolderScans
<1>8. CASE MidStep
  BY <1>8, MidFrame DEF Calm, HolderScans
<1>9. CASE EndTask
  <2>1. /\ UNCHANGED <<callers, deadPids, alive>> /\ (Len(tasks) <= 1 => tasks' = <<>>)
        /\ tasks # <<>>
        /\ IF pendingClean = task.app
           THEN opened' = (IF Holds(task.app) THEN None ELSE opened) /\ pendingClean' = None
           ELSE UNCHANGED <<opened, pendingClean>>
    BY <1>9, EndFrame
  <2>2. CASE CalmHold
    <3>1. ~orphaned /\ opened.app = task.app /\ tasks' = <<>>
      BY <2>1, <2>2 DEF Calm, HolderScans, TaskFits, ReadyIffNoTask
    <3> QED
      BY <2>1, <2>2, <3>1 DEF Calm, HolderScans, Holds
  <2>3. CASE ~CalmHold
    <3>1. ~CalmHold'
      BY <2>1, <2>3
    <3> QED
      BY <2>1, <3>1 DEF Calm, HolderScans
  <2> QED
    BY <2>2, <2>3
<1>10. CASE MonitorRound
  BY <1>10 DEF MonitorRound, session, Calm, HolderScans
<1>11. ASSUME NEW a \in Apps, CleanupDeadCaller(a)
       PROVE  Calm'
  <2>0. a \in deadPids /\ a \notin alive /\ deadPids' = deadPids \ {a}
        /\ UNCHANGED <<tasks, alive, callers, orphaned>>
    BY <1>11 DEF CleanupDeadCaller, Calm
  <2>1. CASE ~Holds(a)
    BY <1>11, <2>0, <2>1 DEF CleanupDeadCaller, session, Calm, HolderScans, Holds
  <2>2. CASE Holds(a) /\ scannerState = "READY"
    BY <1>11, <2>0, <2>2 DEF CleanupDeadCaller, ReleaseOrDefer, Calm, HolderScans
  <2>3. CASE Holds(a) /\ scannerState # "READY"
    <3>1. /\ opened' = opened /\ pendingClean' = a /\ scannerState' = "CANCELING"
          /\ opened.app = a
      BY <1>11, <2>3 DEF CleanupDeadCaller, ReleaseOrDefer, Holds
    <3>2. tasks # <<>>
      BY <2>3 DEF TaskFits, ReadyIffNoTask
    <3> QED
      BY <2>0, <3>1, <3>2 DEF Calm, HolderScans
  <2> QED
    BY <2>1, <2>2, <2>3
<1>12. CASE CleanupScanService
  BY <1>12 DEF CleanupScanService, Calm, HolderScans
<1>13. CASE ProcessEnds
  BY <1>13 DEF ProcessEnds, Calm, HolderScans
<1>14. CASE UnloadSaneService
  BY <1>14 DEF UnloadSaneService, session, Calm, HolderScans
<1>15. CASE UNCHANGED vars
  BY <1>15 DEF vars, session, monitor, Calm, HolderScans
<1> QED
  BY <1>1, <1>2, <1>3, <1>4, <1>5, <1>6, <1>7, <1>8, <1>9, <1>10, <1>11, <1>12, <1>13, <1>14,
     <1>15, NextCases DEF AppStep, Unloads

\* The pictures of a running app that opened the scanner in calm outlive every step but
\* its ExitScan and the cleanup of the service.
LEMMA StepKeepsHeldResults ==
    ASSUME TypeOK, Calm, [Next]_vars, NEW a \in alive, Holds(a), opened.calm,
           ~ExitScan(a), ~CleanupScanService, ~ProcessEnds
    PROVE  Results(a) \subseteq Results(a)'
<1>0. /\ a \in Apps /\ pendingClean # a /\ (tasks # <<>> => task.app = a)
      /\ Pictures(pics, picId) /\ picId \in Nat /\ orphaned \in BOOLEAN
  BY DEF TypeOK, Pictures, Calm, HolderScans, CalmHold, Holds
<1>1. ASSUME NEW b \in Apps, b # a, CleanByOwner(b)
      PROVE  Results(a) \subseteq Results(a)'
  BY <1>1, CleanFacts DEF Results
<1>2. ASSUME NEW b \in Apps, ExitScan(b) \/ CleanupDeadCaller(b)
      PROVE  Results(a) \subseteq Results(a)'
  <2>1. b # a
    BY <1>2 DEF CleanupDeadCaller, Calm
  <2>2. UNCHANGED pics \/ CleanByOwner(b)
    BY <1>2 DEF ExitScan, CleanupDeadCaller
  <2> QED
    BY <1>1, <2>1, <2>2 DEF Results
<1>3. ASSUME NEW b \in Apps,
             \/ InitScan(b) \/ CloseScanner(b) \/ StartScanFails(b) \/ CancelScan(b)
             \/ GetScanProgress(b) \/ AppDies(b)
             \/ \E s \in Scanners : CallOpen(b, s) \/ LateOpen(b, s)
      PROVE  Results(a) \subseteq Results(a)'
  <2>1. pics' = pics
    BY <1>3 DEF InitScan, CloseScanner, StartScanFails, CancelScan, GetScanProgress, AppDies,
                CallOpen, LateOpen, OpenScanner, pictures
  <2> QED
    BY <2>1 DEF Results
<1>4. ASSUME NEW b \in Apps, NEW batch \in BOOLEAN, StartScan(b, batch)
      PROVE  Results(a) \subseteq Results(a)'
  <2>1. IsPushed(pics', pics, b)
    BY <1>0, <1>4, PushedFacts DEF StartScan
  <2> QED
    BY <2>1 DEF Results, IsPushed
<1>5. CASE MidStep
  <2>1. task.app = a
    BY <1>0, <1>5, MidFrame
  <2>2. CASE pics' = Registered(a)
    BY <1>0, <2>2, RegisteredFacts DEF Results
  <2>3. CASE pics' = pics
    BY <2>3 DEF Results
  <2>4. ASSUME NEW field \in {"done", "failed", "lost"}, pics' = Marked(pics, field)
        PROVE  Results(a) \subseteq Results(a)'
    <3>1. DOMAIN pics' = DOMAIN pics /\ \A p \in DOMAIN pics : pics'[p].file = pics[p].file
      BY <1>0, <2>4, MarkedFacts
    <3> QED
      BY <3>1 DEF Results
  <2>5. ASSUME NEW failed \in BOOLEAN, pics' = Pushed(Marked(pics, "done"), task.app, failed)
        PROVE  Results(a) \subseteq Results(a)'
    <3> DEFINE ms == Marked(pics, "done")
    <3>1. /\ Pictures(ms, picId) /\ DOMAIN ms = DOMAIN pics
          /\ \A p \in DOMAIN pics : ms[p].file = pics[p].file
      BY <1>0, MarkedFacts
    <3> HIDE DEF ms
    <3>2. pics' = Pushed(ms, a, failed)
      BY <2>1, <2>5 DEF ms
    <3>3. IsPushed(pics', ms, a)
      BY <1>0, <3>1, <3>2, PushedFacts
    <3> QED
      BY <3>1, <3>3 DEF Results, IsPushed
  <2> QED
    BY <1>5, <2>1, <2>2, <2>3, <2>4, <2>5, MidPictures
<1>6. CASE EndTask
  <2>1. pics' = pics
    BY <1>0, <1>6, EndFrame
  <2> QED
    BY <2>1 DEF Results
<1>7. CASE MonitorRound \/ UnloadSaneService \/ UNCHANGED vars
  <2>1. pics' = pics
    BY <1>7 DEF MonitorRound, UnloadSaneService, vars, pictures
  <2> QED
    BY <2>1 DEF Results
<1> QED
  BY <1>2, <1>3, <1>4, <1>5, <1>6, <1>7, NextCases DEF AppStep, Unloads

-----------------------------------------------------------------------------
(* What is queued in a calm hold *)

\* What becomes of a picture pushed in a calm hold: unless a cancelled scan winds down, it
\* is the holder's, and it can be answered, or ended without a trace, or is the one the
\* task still works on.
Fate(e) ==
    /\ e.pic \in DOMAIN pics /\ ~pics[e.pic].mixed
    /\ Holds(pics[e.pic].app) /\ opened.calm
    /\ \/ Answered(e.pic) \/ pics[e.pic].lost
       \/ e.pic = picId /\ tasks # <<>> /\ task.step # "end"

Answerable ==
    /\ \A e \in Queued(scanQueue) :
          e.calm => ~orphaned /\ (scannerState # "CANCELING" => Fate(e))
    /\ ~orphaned /\ At("restarted") => task.status # "EOF"

LEMMA AnswerableIsProperty == TypeOK /\ TaskFits /\ Answerable => QueueIsAnswered
<1> SUFFICES ASSUME TypeOK, TaskFits, Answerable, scannerState = "READY",
                    NEW i \in 1..Len(scanQueue), scanQueue[i].calm
             PROVE  LET p == scanQueue[i].pic IN
                    /\ p \in DOMAIN pics /\ Holds(pics[p].app)
                    /\ Answered(p) \/ pics[p].lost
  BY DEF QueueIsAnswered
<1>1. scanQueue[i] \in Queued(scanQueue)
  BY DEF Queued
<1>2. ~orphaned /\ Fate(scanQueue[i])
  BY <1>1 DEF Answerable
<1> QED
  BY <1>2 DEF Fate, TaskFits, ReadyIffNoTask

LEMMA InitAnswerable == Init => Answerable
<1> SUFFICES ASSUME Init
             PROVE  Answerable
  OBVIOUS
<1>1. Queued(scanQueue) = {}
  BY DEF Init, Queued
<1> QED
  BY <1>1 DEF Init, Answerable, At

LEMMA EmptiedAnswerable ==
    ASSUME scanQueue' = <<>>, orphaned' \/ tasks' = <<>> \/ UNCHANGED <<tasks, orphaned>>,
           Answerable
    PROVE  Answerable'
<1>1. Queued(scanQueue') = {}
  BY DEF Queued
<1> QED
  BY <1>1, SameTask DEF Answerable, At

\* The steps of the task that do not end it.
LEMMA MidStepAnswerable ==
    ASSUME TypeOK, TaskFits, FilesFit, Answerable, MidStep
    PROVE  Answerable'
<1>0. /\ Pictures(pics, picId) /\ picId \in Nat /\ orphaned \in BOOLEAN
      /\ tasks # <<>> /\ tasks' # <<>> /\ UNCHANGED <<opened, scannerState, orphaned>>
      /\ task.app \in Apps /\ task \in Task
  BY MidFrame DEF TypeOK, Pictures, Task
<1>1. CASE CreateFile
  <2>1. /\ task'.step = "read" /\ UNCHANGED <<scanQueue, picId>> /\ pics' = Registered(task.app)
    BY <1>1, GotoFacts DEF CreateFile
  <2>2. /\ DOMAIN pics' = DOMAIN pics
        /\ \A p \in DOMAIN pics : /\ pics'[p].app = pics[p].app /\ pics'[p].mixed = pics[p].mixed
                                  /\ p # picId => pics'[p] = pics[p]
    BY <1>0, <2>1, RegisteredFacts
  <2> QED
    BY <1>0, <2>1, <2>2 DEF Answerable, Fate, Answered, Holds, At
<1>2. CASE CreateFileFails
  <2>1. task'.step = "end" /\ UNCHANGED <<scanQueue, picId>>
    BY <1>2, GotoFacts DEF CreateFileFails
  <2>2. PICK field \in {"failed", "lost"} : pics' = Marked(pics, field)
    BY <1>2 DEF CreateFileFails
  <2>3. /\ DOMAIN pics' = DOMAIN pics
        /\ \A p \in DOMAIN pics :
              /\ pics'[p].app = pics[p].app /\ pics'[p].mixed = pics[p].mixed
              /\ p # picId => pics'[p] = pics[p]
        /\ picId \in DOMAIN pics => pics'[picId].failed \/ pics'[picId].lost
    BY <1>0, <2>2, MarkedFacts
  <2> QED
    BY <1>0, <2>1, <2>3 DEF Answerable, Fate, Answered, Holds, At
<1>3. CASE ReadPage
  <2>1. task'.step = "paged" /\ UNCHANGED <<picId, scanQueue, pics>> /\ task.step = "read"
    BY <1>3, GotoFacts DEF ReadPage, pictures, At
  <2> QED
    BY <1>0, <2>1 DEF Answerable, Fate, Answered, Holds, At
<1>4. CASE FinishPicture
  <2>1. At("paged") /\ task'.step = "end" /\ UNCHANGED <<picId, scanQueue>>
    BY <1>0, <1>4, GotoFacts DEF FinishPicture, Task
  <2>2. PICK field \in {"done", "failed", "lost"} : pics' = Marked(pics, field)
    BY <1>4 DEF FinishPicture
  <2>3. /\ DOMAIN pics' = DOMAIN pics
        /\ \A p \in DOMAIN pics :
              /\ pics'[p].app = pics[p].app /\ pics'[p].mixed = pics[p].mixed
              /\ pics'[p].file = pics[p].file
              /\ p # picId => pics'[p] = pics[p]
        /\ picId \in DOMAIN pics => pics'[picId].done \/ pics'[picId].failed \/ pics'[picId].lost
    BY <1>0, <2>2, MarkedFacts
  <2>4. ~orphaned /\ picId \in DOMAIN pics => pics[picId].file # None
    BY <1>0, <2>1, ScanAssumption DEF FilesFit
  <2> QED
    BY <1>0, <2>1, <2>3, <2>4 DEF Answerable, Fate, Answered, Holds, At
<1>5. CASE Restart
  <2>1. PICK status \in {"NONE", "NO_DOCS", "ERROR"} : Goto("restarted", status)
    BY <1>5 DEF Restart
  <2>2. /\ task'.step = "restarted" /\ task'.status # "EOF" /\ task.step = "paged"
        /\ UNCHANGED <<picId, scanQueue, pics>>
    BY <1>5, <2>1, GotoFacts DEF Restart, pictures, At
  <2> QED
    BY <1>0, <2>2 DEF Answerable, Fate, Answered, Holds, At
<1>6. CASE NextPicture
  <2>1. /\ At("restarted") /\ task.step = "restarted"
        /\ task'.step = IF task.status = "NONE" THEN "file" ELSE "end"
        /\ task.status \in {"NONE", "EOF", "NO_DOCS", "ERROR"}
        /\ ~orphaned => task.status # "EOF"
    BY <1>0, <1>6, GotoFacts DEF NextPicture, Task, At, Answerable
  <2> DEFINE ms == Marked(pics, "done")
  <2>2. /\ Pictures(ms, picId) /\ DOMAIN ms = DOMAIN pics
        /\ \A p \in DOMAIN pics :
              /\ ms[p].app = pics[p].app /\ ms[p].file = pics[p].file
              /\ ms[p].mixed = pics[p].mixed
              /\ ms[p].failed = pics[p].failed /\ ms[p].lost = pics[p].lost
              /\ p # picId => ms[p] = pics[p]
              /\ p = picId => ms[p].done
    BY <1>0, MarkedFacts
  <2>3. ~orphaned /\ picId \in DOMAIN pics => pics[picId].file # None
    BY <1>0, <2>1, ScanAssumption DEF FilesFit
  <2>4. ASSUME scannerState # "CANCELING", NEW e \in Queued(scanQueue), e.calm
        PROVE  /\ ~orphaned /\ e.pic \in DOMAIN ms /\ ~ms[e.pic].mixed
               /\ Holds(ms[e.pic].app) /\ opened.calm
               /\ ms[e.pic].failed \/ (ms[e.pic].done /\ ms[e.pic].file # None) \/ ms[e.pic].lost
    BY <2>2, <2>3, <2>4 DEF Answerable, Fate, Answered
  <2> HIDE DEF ms
  <2>5. CASE task.status = "NO_DOCS"
    <3>1. pics' = ms /\ UNCHANGED <<picId, scanQueue>> /\ task'.step = "end"
      BY <1>6, <2>1, <2>5 DEF NextPicture, ms
    <3> QED
      BY <1>0, <2>4, <3>1 DEF Answerable, Fate, Answered, Holds, At
  <2>6. CASE task.status # "NO_DOCS"
    <3>1. /\ pics' = Pushed(ms, task.app, task.status = "ERROR") /\ picId' = picId + 1
          /\ scanQueue' = InQueue /\ (task.status = "ERROR") \in BOOLEAN
      BY <1>6, <2>6 DEF NextPicture, ms
    <3>2. IsPushed(pics', ms, task.app)
      BY <1>0, <2>2, <3>1, PushedFacts
    <3>3. ASSUME NEW e \in Queued(scanQueue')
          PROVE  \/ e \in Queued(scanQueue)
                 \/ e.pic = picId + 1 /\ (e.calm => ~orphaned /\ (opened = None \/ opened.calm))
      BY <3>1, <3>3, InQueueFacts
    <3>4. ASSUME scannerState # "CANCELING", NEW e \in Queued(scanQueue), e.calm
          PROVE  Fate(e)'
      BY <1>0, <2>4, <3>2, <3>4 DEF IsPushed, Fate, Answered, Holds
    <3>5. ASSUME NEW e, e.calm, e \in Queued(scanQueue)
          PROVE  ~orphaned
      BY <3>5 DEF Answerable
    <3>6. ASSUME ~orphaned, scannerState # "CANCELING", NEW e, e.pic = picId + 1,
                 opened = None \/ opened.calm
          PROVE  Fate(e)'
      <4>1. Holds(task.app)
        BY <1>0, <3>6 DEF TaskFits, ReadyIffNoTask, TypeOK
      <4>2. task.status # "NONE" => pics'[picId + 1].failed
        <5>1. task.status # "NONE" => task.status = "ERROR"
          BY <2>1, <2>6, <3>6
        <5> QED
          BY <1>0, <2>1, <2>2, <3>1, <5>1, PushedFacts
      <4> QED
        BY <1>0, <2>1, <3>1, <3>2, <3>6, <4>1, <4>2 DEF IsPushed, Fate, Answered, Holds
    <3> QED
      BY <1>0, <2>1, <3>3, <3>4, <3>5, <3>6 DEF Answerable, At
  <2> QED
    BY <2>5, <2>6
<1> QED
  BY <1>1, <1>2, <1>3, <1>4, <1>5, <1>6 DEF MidStep

LEMMA NextAnswerable ==
    ASSUME TypeOK, TaskFits, FilesFit, Calm, Answerable, [Next]_vars
    PROVE  Answerable'
<1> USE SameTask
<1>1. ASSUME NEW a \in Apps, InitScan(a) \/ AppDies(a) \/ StartScanFails(a)
      PROVE  Answerable'
  <2>1. UNCHANGED <<opened, scannerState, picId, scanQueue, pics, tasks, orphaned>>
    BY <1>1 DEF InitScan, AppDies, StartScanFails, Calls, session, sane, pictures
  <2> QED
    BY <2>1 DEF Answerable, Fate, Holds, Answered
<1>2. ASSUME NEW a \in Apps, NEW s \in Scanners, CallOpen(a, s) \/ LateOpen(a, s)
      PROVE  Answerable'
  <2>1. opened = None /\ UNCHANGED <<scannerState, picId, scanQueue, pics, tasks, orphaned>>
    BY <1>2 DEF CallOpen, LateOpen, OpenScanner, Calls, pictures
  <2> QED
    BY <2>1 DEF Answerable, Fate, Holds
<1>3. ASSUME NEW a \in Apps, CloseScanner(a) \/ CancelScan(a)
      PROVE  Answerable'
  BY <1>3, EmptiedAnswerable DEF CloseScanner, CancelScan, Closing, Calls
<1>4. ASSUME NEW a \in Apps, ExitScan(a) \/ CleanupDeadCaller(a)
      PROVE  Answerable'
  <2>0. UNCHANGED <<picId, tasks, orphaned>>
    BY <1>4 DEF ExitScan, CleanupDeadCaller, Calls
  <2>1. CASE Holds(a)
    BY <1>4, <2>0, <2>1, EmptiedAnswerable DEF ExitScan, CleanupDeadCaller, Closing
  <2>2. CASE ~Holds(a)
    <3>1. UNCHANGED <<opened, scannerState, scanQueue>>
      BY <1>4, <2>2 DEF ExitScan, CleanupDeadCaller, session, sane
    <3>2. UNCHANGED pics \/ CleanByOwner(a)
      BY <1>4 DEF ExitScan, CleanupDeadCaller
    <3>3. /\ \A p \in DOMAIN pics' : pics'[p] = pics[p]
          /\ \A p \in DOMAIN pics : p \in DOMAIN pics' \/ pics[p].file = a
      BY <3>2, CleanFacts
    <3>4. \A p \in DOMAIN pics : Holds(pics[p].app) /\ ~pics[p].mixed => pics[p].file # a
      BY <2>2, ScanAssumption DEF FilesFit, CachedIn
    <3> QED
      BY <2>0, <3>1, <3>3, <3>4 DEF Answerable, Fate, Answered, Holds
  <2> QED
    BY <2>1, <2>2
<1>5. ASSUME NEW a \in Apps, NEW batch \in BOOLEAN, StartScan(a, batch)
      PROVE  Answerable'
  <2> DEFINE t == [scanner |-> opened.scanner, app |-> a, batch |-> batch,
                   step |-> "file", status |-> "NONE"]
  <2>1. /\ opened' = opened /\ Holds(a) /\ scannerState = "READY" /\ orphaned' = orphaned
        /\ pics' = Pushed(pics, a, FALSE) /\ picId' = picId + 1
        /\ scanQueue' = InQueue /\ tasks' = Append(tasks, t) /\ opened # None
        /\ Pictures(pics, picId) /\ picId \in Nat /\ orphaned \in BOOLEAN
    BY <1>5 DEF StartScan, TypeOK, Pictures, Calls, Holds
  <2>2. t \in Task /\ t.step = "file"
    BY <2>1 DEF TypeOK, Hold, Task
  <2> HIDE DEF t
  <2>3. ~orphaned => tasks = <<>>
    BY <2>1 DEF TaskFits, ReadyIffNoTask
  <2>4. tasks' # <<>> /\ (~orphaned => task' = t)
    BY <2>1, <2>2, <2>3, TasksFacts DEF TypeOK, task
  <2>5. IsPushed(pics', pics, a)
    BY <2>1, PushedFacts
  <2>6. ASSUME NEW e \in Queued(scanQueue')
        PROVE  \/ e \in Queued(scanQueue)
               \/ e.pic = picId + 1 /\ (e.calm => ~orphaned /\ opened.calm)
    BY <2>1, <2>6, InQueueFacts
  <2>7. ASSUME NEW e \in Queued(scanQueue), e.calm
        PROVE  ~orphaned /\ Fate(e)'
    BY <2>1, <2>3, <2>5, <2>7 DEF Answerable, IsPushed, Fate, Answered, Holds
  <2>8. ASSUME ~orphaned, opened.calm, NEW e, e.pic = picId + 1
        PROVE  Fate(e)'
    BY <2>1, <2>2, <2>4, <2>5, <2>8 DEF IsPushed, Fate, Holds
  <2>9. At("restarted")' /\ ~orphaned => FALSE
    BY <2>2, <2>4 DEF At
  <2> QED
    BY <2>1, <2>6, <2>7, <2>8, <2>9 DEF Answerable
<1>6. ASSUME NEW a \in Apps, GetScanProgress(a)
      PROVE  Answerable'
  <2>1. UNCHANGED <<opened, scannerState, picId, pics, tasks, orphaned>>
    BY <1>6 DEF GetScanProgress, Calls, session
  <2>2. Queued(scanQueue') \subseteq Queued(scanQueue)
    BY <1>6, QueueFacts DEF GetScanProgress, TypeOK
  <2> QED
    BY <2>1, <2>2 DEF Answerable, Fate, Answered, Holds
<1>7. CASE EndTask
  <2>1. /\ tasks # <<>> /\ (Len(tasks) <= 1 => tasks' = <<>>) /\ task.step = "end"
        /\ orphaned' = (orphaned /\ tasks' # <<>>) /\ scannerState' = "READY"
        /\ scanQueue' = IF scannerState = "CANCELING" THEN <<>> ELSE scanQueue
        /\ picId' = picId
    BY <1>7, EndFrame DEF EndTask, At
  <2>2. tasks' = <<>> \/ orphaned'
    BY <2>1 DEF TaskFits, ReadyIffNoTask, TypeOK
  <2>3. CASE scannerState = "CANCELING"
    BY <2>1, <2>2, <2>3, EmptiedAnswerable
  <2>4. CASE scannerState # "CANCELING"
    <3>1. ASSUME NEW e \in Queued(scanQueue), e.calm
          PROVE  ~orphaned /\ Fate(e)'
      <4>1. ~orphaned /\ Fate(e)
        BY <2>4, <3>1 DEF Answerable
      <4>2. opened # None /\ opened.calm /\ opened.app = task.app
        BY <2>1, <4>1 DEF Fate, Holds, Calm, HolderScans, CalmHold
      <4>3. pendingClean # task.app
        BY <2>4, <4>2 DEF Calm, CalmHold
      <4>4. UNCHANGED <<opened, pics>>
        BY <1>7, <4>3, EndFrame
      <4> QED
        BY <2>1, <4>1, <4>4 DEF Fate, Answered, Holds
    <3> QED
      BY <2>1, <2>2, <2>4, <3>1 DEF Answerable, At
  <2> QED
    BY <2>3, <2>4
<1>8. CASE CleanupScanService \/ ProcessEnds
  <2>1. scanQueue' = <<>> /\ (orphaned' \/ tasks' = <<>>)
    BY <1>8 DEF CleanupScanService, ProcessEnds
  <2> QED
    BY <2>1, EmptiedAnswerable
<1>9. CASE MonitorRound \/ UnloadSaneService \/ UNCHANGED vars
  BY <1>9 DEF MonitorRound, UnloadSaneService, vars, session, pictures, Answerable, Fate,
              Holds, Answered
<1> QED
  BY <1>1, <1>2, <1>3, <1>4, <1>5, <1>6, <1>7, <1>8, <1>9, MidStepAnswerable, NextCases
     DEF AppStep, Unloads

-----------------------------------------------------------------------------
(* Theorems                                                                 *)

Inv == /\ TypeOK /\ TaskFits /\ FilesFit /\ NoForeign /\ Gone
       /\ Calm /\ Answerable

LEMMA InvHolds == Spec => []Inv
<1>1. Init => Inv
  BY InitTypes, InitTaskFits, InitFilesFit, InitQueueFits, InitCalm, InitAnswerable DEF Inv
<1>2. Inv /\ [Next]_vars => Inv'
  BY NextTypes, NextTaskFits, NextFilesFit, NextQueueFits, NextCalm, NextAnswerable DEF Inv
<1> QED
  BY <1>1, <1>2, PTL DEF Spec

\* ScanServiceAbility keeps its types, and a queued picture was pushed before.
THEOREM TypeCorrect == Spec => []TypeOK
<1>1. Inv => TypeOK
  BY DEF Inv
<1> QED
  BY <1>1, InvHolds, PTL

\* However closing, leaving, dying and a task that winds down are interleaved, StartScan
\* never posts a second task, but for the scans of an app that was served after
\* CleanupScanService stored READY under a task, as long as tasks have been there since.
THEOREM OneTask == Spec => []ReadyIffNoTask
<1>1. Inv => ReadyIffNoTask
  BY DEF Inv, TaskFits
<1> QED
  BY <1>1, InvHolds, PTL

\* RegisterCacheFiles never registers a picture under an app it was not scanned for,
\* although the task reads the shared picId_ without lock_, unless another task than its
\* own pushed the picture while the tasks were orphaned.
THEOREM CachedRight == Spec => []CachedUnderItsOwner
<1>1. Inv => CachedUnderItsOwner
  BY FilesFitIsCached DEF Inv
<1> QED
  BY <1>1, InvHolds, PTL

\* GetScanProgress never gives an app a picture finished for another, not even when
\* the scanner is opened while a cancelled scan winds down, unless it was pushed while
\* the tasks were orphaned.
THEOREM NoForeignPictures == Spec => []NoForeignPicture
<1>1. Inv => NoForeignPicture
  BY NoForeignIsProperty DEF Inv
<1> QED
  BY <1>1, InvHolds, PTL

\* The pictures of a running app that opened the scanner in calm and holds it are deleted
\* by its ExitScan or the cleanup of the service only, not by the end of a scan, a death
\* or the exit of another app, whatever the other apps do meanwhile.
THEOREM HeldResultsStay == Spec => HeldResultsAreKept
<1>1. Inv /\ [Next]_vars =>
         [\A a \in alive :
             Holds(a) /\ opened.calm /\ ~ExitScan(a) /\ ~CleanupScanService /\ ~ProcessEnds
                => Results(a) \subseteq Results(a)']_vars
  BY StepKeepsHeldResults DEF Inv
<1> QED
  BY <1>1, InvHolds, PTL DEF Spec, HeldResultsAreKept

\* While a scan runs, an app that opened the scanner in calm is the one that scans and its
\* scanner the one scanned, so the end of the scan, which closes and reopens the device of
\* the task, touches no handle but its own: HandleIsNotTaken can be violated only by an
\* app that opens another scanner while a task is there.
THEOREM HolderIsScanned == Spec => []HolderScans
<1>1. Inv => HolderScans
  BY DEF Inv, Calm
<1> QED
  BY <1>1, InvHolds, PTL

\* A dead app that opened the scanner in calm never keeps it unknown to the monitor.
THEOREM DeadRelease == Spec => []ReleasedFromTheDead
<1>1. Inv => ReleasedFromTheDead
  BY DEF Inv, TaskFits, ReadyIffNoTask, Calm, HolderScans, CalmHold, ReleasedFromTheDead
<1> QED
  BY <1>1, InvHolds, PTL

\* Of the pictures pushed in a calm hold, a READY scanner's queue holds only those that
\* GetScanProgress can answer, but for the pages that end without a trace, and all are
\* its holder's.
THEOREM QueueAnswered == Spec => []QueueIsAnswered
<1>1. Inv => QueueIsAnswered
  BY AnswerableIsProperty DEF Inv
<1> QED
  BY <1>1, InvHolds, PTL
=============================================================================
