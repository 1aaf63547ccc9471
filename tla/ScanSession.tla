---------------------------- MODULE ScanSession ----------------------------
(***************************************************************************)
(* The scanner session of the scan service (scan_service_ability.cpp with  *)
(* scan_picture_data.cpp, caller_app_monitor.cpp and the one handle kept   *)
(* by sane_service_ability.cpp): apps open the one scanner, scan, poll for *)
(* pictures, close, leave and die; the service's event runner runs one     *)
(* scan task after the other, and a task takes lock_ only between its long *)
(* steps; a monitor thread notices dead apps and unloads an unused         *)
(* service, which may take its time or fail.                               *)
(*                                                                         *)
(* Every public call holds lock_ to its end, so it is one action.  The     *)
(* task and the monitor are split wherever they hold no lock.  A picture   *)
(* stands for its identifier, its progress entry and its cache files.      *)
(*                                                                         *)
(* History, written by the actions and never tested by one: orphaned, the  *)
(* field calm of the hold and of a place in the queue, and the fields app, *)
(* lost and mixed of a picture.  The properties use them to say which hold *)
(* or picture they are about.                                              *)
(***************************************************************************)
EXTENDS Naturals, Sequences, FiniteSets

CONSTANTS Apps,      \* calling processes (pids, never reused)
          Scanners,  \* scanner identifiers
          None,      \* an empty std::optional, a null handle
          MaxPics    \* bound on picId_: no page is started beyond it

ASSUME ScanAssumption == MaxPics \in Nat /\ None \notin Apps \union Scanners

VARIABLES opened,        \* openedScanner_: the scanner and the pid holding it
          scannerState,  \* scannerState_
          pendingClean,  \* pendingCleanOwner_
          picId,         \* picId_: the newest picture
          scanQueue,     \* scanQueue_: pictures not yet handed to the app
          pics,          \* scanTaskMap_ with ownerBaseNames_
          tasks,         \* scan tasks posted to the event runner, the running first
          handle,        \* sane service: scannerHandle_'s scanner
          started,       \* ... and whether sane_start is in effect on it
          alive,         \* running processes
          late,          \* dead processes whose OpenScanner waits for lock_
          callers,       \* callerMap_ of the monitor
          deadPids,      \* dead pids the monitor has yet to clean up after
          unload,        \* how far UnloadSystemAbility has come
          orphaned       \* history: CleanupScanService came while a task was
                         \* there, and tasks have been there ever since

session  == <<opened, scannerState, pendingClean>>
pictures == <<picId, scanQueue, pics>>
sane     == <<handle, started>>
monitor  == <<callers, deadPids, unload>>
vars == <<session, pictures, sane, monitor, tasks, alive, late, orphaned>>

\* calm: the app was running when it opened the scanner, no task was there, and no
\* clean-up of its own was waiting
Hold    == [scanner : Scanners, app : Apps, calm : BOOLEAN]
\* a picture and the app it was scanned for; file: the app among whose files its
\* image is; lost: its page ended without a trace; mixed: pushed while orphaned
Picture == [app : Apps, file : Apps \union {None}, done : BOOLEAN,
            failed : BOOLEAN, lost : BOOLEAN, mixed : BOOLEAN]
\* calm: pushed in a calm hold or in the wind-down of one
Place   == [pic : Nat \ {0}, calm : BOOLEAN]
Task    == [scanner : Scanners, app : Apps, batch : BOOLEAN,
            step : {"file", "read", "paged", "restarted", "end"},
            status : {"NONE", "EOF", "NO_DOCS", "ERROR"}]

ASSUME NoneAssumption == None \notin Hold

TypeOK ==
    /\ opened \in Hold \union {None}
    /\ scannerState \in {"READY", "SCANING", "CANCELING"}
    /\ pendingClean \in Apps \union {None}
    /\ picId \in Nat
    /\ scanQueue \in Seq(Place) /\ \A i \in 1..Len(scanQueue) : scanQueue[i].pic <= picId
    /\ DOMAIN pics \subseteq 1..picId
    /\ \A p \in DOMAIN pics : pics[p] \in Picture
    /\ tasks \in Seq(Task)
    /\ handle \in Scanners \union {None}
    /\ started \in BOOLEAN
    /\ alive \subseteq Apps /\ late \subseteq Apps \ alive
    /\ callers \subseteq Apps /\ deadPids \subseteq Apps
    /\ unload \in {"no", "decided", "cleaned", "asked"}
    /\ orphaned \in BOOLEAN

Init ==
    /\ opened = None /\ scannerState = "READY" /\ pendingClean = None
    /\ picId = 0 /\ scanQueue = << >> /\ pics = << >>
    /\ tasks = << >> /\ handle = None /\ started = FALSE
    /\ callers = {} /\ deadPids = {} /\ unload = "no"
    /\ alive = Apps /\ late = {} /\ orphaned = FALSE

-----------------------------------------------------------------------------
(* The sane service keeps one handle; calls that name another scanner find *)
(* none (GetScanHandle) and do nothing.                                    *)

SaneClosed(s)    == IF handle = s THEN None ELSE handle
SaneCancelled(s) == started /\ handle # s

SaneOpenOK(s) == /\ handle' = s
                 /\ started' = (started /\ handle = s)

SaneStart(s, ok) == /\ ok => handle = s
                    /\ handle' = handle
                    /\ started' = IF ok THEN TRUE ELSE SaneCancelled(s)

-----------------------------------------------------------------------------
(* Pictures *)

(* PushScanPictureProgress *)
Pushed(ps, a, failed) ==
    [p \in DOMAIN ps \union {picId + 1} |->
        IF p = picId + 1
        THEN [app |-> a, file |-> None, done |-> FALSE, failed |-> failed,
              lost |-> FALSE, mixed |-> orphaned]
        ELSE ps[p]]

InQueue == Append(scanQueue, [pic |-> picId + 1,
                              calm |-> ~orphaned /\ (opened = None \/ opened.calm)])

(* SetNowScanProgressFinished, SetScanTaskCode: the newest picture, if kept *)
Marked(ps, field) ==
    IF picId \notin DOMAIN ps THEN ps
    ELSE [ps EXCEPT ![picId] = IF field = "done" THEN [@ EXCEPT !.done = TRUE]
                               ELSE IF field = "failed" THEN [@ EXCEPT !.failed = TRUE]
                               ELSE [@ EXCEPT !.lost = TRUE]]

(* the pictures whose image is among the files of a pid *)
Results(a) == {p \in DOMAIN pics : pics[p].file = a}

CleanByOwner_AllFiles(a) ==
    pics' = [p \in {q \in DOMAIN pics : pics[q].file = None} |-> pics[p]]

(* CleanByOwner: the files of a pid and the entries that name them *)
CleanByOwner(a) == pics' = [p \in DOMAIN pics \ Results(a) |-> pics[p]]

-----------------------------------------------------------------------------
(* Calls of the apps.  ManualStart registers the caller first. *)

Calls(a) == /\ a \in alive
            /\ callers' = callers \union {a}
            /\ UNCHANGED <<deadPids, unload, alive, late, orphaned>>

Holds(a) == opened # None /\ opened.app = a

InitScan(a) == Calls(a) /\ UNCHANGED <<session, pictures, sane, tasks>>

(* also while a cancelled scan winds down *)
OpenScanner(a, s) ==
    /\ opened = None
    /\ SaneOpenOK(s)
    /\ opened' = [scanner |-> s, app |-> a,
                  calm |-> a \in alive /\ tasks = << >> /\ pendingClean # a]
    /\ UNCHANGED <<scannerState, pendingClean, pictures, tasks>>

CallOpen(a, s) == Calls(a) /\ OpenScanner(a, s)

(* the caller died with its call, registered by ManualStart, behind lock_ *)
LateOpen(a, s) == /\ a \in late
                  /\ late' = late \ {a}
                  /\ OpenScanner(a, s)
                  /\ UNCHANGED <<monitor, alive, orphaned>>

Closing_KeepsQueue ==
    /\ scanQueue' = scanQueue
    /\ scannerState' = IF scannerState = "SCANING" THEN "CANCELING"
                       ELSE scannerState
    /\ handle' = SaneClosed(opened.scanner)
    /\ started' = SaneCancelled(opened.scanner)
    /\ opened' = None

Closing_ReadyAtOnce ==
    /\ scanQueue' = << >>
    /\ scannerState' = "READY"
    /\ handle' = SaneClosed(opened.scanner)
    /\ started' = SaneCancelled(opened.scanner)
    /\ opened' = None

(* the effects of CloseScanner once its owner is checked *)
Closing ==
    /\ scanQueue' = << >>
    /\ scannerState' = IF scannerState = "SCANING" THEN "CANCELING"
                       ELSE scannerState
    /\ handle' = SaneClosed(opened.scanner)
    /\ started' = SaneCancelled(opened.scanner)
    /\ opened' = None

CloseScanner(a) ==
    /\ Calls(a) /\ Holds(a)
    /\ Closing
    /\ UNCHANGED <<pendingClean, picId, pics, tasks>>

(* the owner's scan still runs: clean up at its end, after the files are   *)
(* written; otherwise now                                                  *)
ExitScan(a) ==
    /\ Calls(a)
    /\ pendingClean' = IF Holds(a) /\ scannerState # "READY" THEN a
                       ELSE pendingClean
    /\ IF Holds(a) THEN Closing
       ELSE UNCHANGED <<scanQueue, scannerState, opened, sane>>
    /\ IF pendingClean' # a THEN CleanByOwner(a) ELSE UNCHANGED pics
    /\ UNCHANGED <<picId, tasks>>

StartScan(a, batch) ==
    /\ Calls(a) /\ Holds(a)
    /\ scannerState = "READY"
    /\ picId < MaxPics
    /\ SaneStart(opened.scanner, TRUE)
    /\ scannerState' = "SCANING"
    /\ picId' = picId + 1
    /\ pics' = Pushed(pics, a, FALSE)
    /\ scanQueue' = InQueue
    /\ tasks' = Append(tasks, [scanner |-> opened.scanner, app |-> a, batch |-> batch,
                               step |-> "file", status |-> "NONE"])
    /\ UNCHANGED <<opened, pendingClean>>

StartScanFails(a) ==
    /\ Calls(a) /\ Holds(a)
    /\ scannerState = "READY"
    /\ SaneStart(opened.scanner, FALSE)
    /\ UNCHANGED <<session, pictures, tasks>>

CancelScan(a) ==
    /\ Calls(a) /\ Holds(a)
    /\ scanQueue' = << >>
    /\ started' = SaneCancelled(opened.scanner)
    /\ scannerState' = IF scannerState = "SCANING" THEN "CANCELING"
                       ELSE scannerState
    /\ UNCHANGED <<opened, pendingClean, picId, pics, handle, tasks>>

(* GetPictureProgressInQueue, when it pops: the front picture failed or is *)
(* finished and its file opens; a front with no entry is never popped      *)
Answered(p) == /\ p \in DOMAIN pics
               /\ pics[p].failed \/ (pics[p].done /\ pics[p].file # None)

GetScanProgress(a) ==
    /\ Calls(a) /\ Holds(a)
    /\ scanQueue # << >> /\ Answered(Head(scanQueue).pic)
    /\ scanQueue' = Tail(scanQueue)
    /\ UNCHANGED <<session, picId, pics, sane, tasks>>

-----------------------------------------------------------------------------
(* The scan task *)

Quiet == UNCHANGED <<monitor, alive, late>>

task == Head(tasks)

At(step) == tasks # << >> /\ task.step = step

Goto(step, status) ==
    /\ tasks' = [tasks EXCEPT ![1].step = step, ![1].status = status]
    /\ UNCHANGED orphaned

Registered(a) == IF picId \in DOMAIN pics THEN [pics EXCEPT ![picId].file = a] ELSE pics

CreateFile_ForHolder ==
    /\ At("file")
    /\ pics' = Registered(IF opened # None THEN opened.app ELSE task.app)
    /\ Goto("read", "NONE")
    /\ Quiet /\ UNCHANGED <<session, sane, picId, scanQueue>>

(* CreateAndOpenScanFile, and RegisterCacheFiles under lock_ *)
CreateFile ==
    /\ At("file")
    /\ pics' = Registered(task.app)
    /\ Goto("read", "NONE")
    /\ Quiet /\ UNCHANGED <<session, sane, picId, scanQueue>>

(* only a batch records the failure in the picture *)
CreateFileFails ==
    /\ At("file")
    /\ pics' = Marked(pics, IF task.batch THEN "failed" ELSE "lost")
    /\ Goto("end", "ERROR")
    /\ Quiet /\ UNCHANGED <<session, sane, picId, scanQueue>>

(* DoScanTask: the frames of one page, until sane_read gives another status *)
ReadPage ==
    /\ At("read")
    /\ \E status \in {"EOF", "NO_DOCS", "ERROR"} :
          /\ status = "EOF" => started /\ handle = task.scanner
          /\ Goto("paged", status)
    /\ Quiet /\ UNCHANGED <<session, pictures, sane>>

FinishPicture_NoCode ==
    /\ At("paged")
    /\ ~(task.batch /\ task.status = "EOF")
    /\ pics' = IF task.status = "EOF" THEN Marked(pics, "done") ELSE pics
    /\ Goto("end", task.status)
    /\ Quiet /\ UNCHANGED <<session, sane, picId, scanQueue>>

(* the tail of GeneratePictureSingle, and of a batch whose page was no EOF: *)
(* when it is sane_read that finds no more paper, a batch ends well and the *)
(* page it had begun is neither finished nor failed                         *)
FinishPicture ==
    /\ At("paged")
    /\ ~(task.batch /\ task.status = "EOF")
    /\ pics' = Marked(pics, IF task.status = "EOF" THEN "done"
                            ELSE IF task.batch /\ task.status = "NO_DOCS" THEN "lost"
                            ELSE "failed")
    /\ Goto("end", task.status)
    /\ Quiet /\ UNCHANGED <<session, sane, picId, scanQueue>>

(* RestartScan: StartScanOnceInternal under lock_ ... *)
Restart ==
    /\ At("paged") /\ task.batch /\ task.status = "EOF"
    /\ \E status \in {"NONE", "NO_DOCS", "ERROR"} :
          /\ status = "NONE" => picId < MaxPics
          /\ IF scannerState = "CANCELING"
             THEN status = "ERROR" /\ UNCHANGED sane
             ELSE SaneStart(task.scanner, status = "NONE")
          /\ Goto("restarted", status)
    /\ Quiet /\ UNCHANGED <<session, pictures>>

(* ... and, lock_ released, the page just read is finished and, unless the *)
(* paper ran out, a new picture is pushed, failed if sane_start failed     *)
NextPicture ==
    /\ At("restarted")
    /\ IF task.status = "NO_DOCS"
       THEN pics' = Marked(pics, "done") /\ UNCHANGED <<picId, scanQueue>>
       ELSE /\ pics' = Pushed(Marked(pics, "done"), task.app, task.status = "ERROR")
            /\ picId' = picId + 1
            /\ scanQueue' = InQueue
    /\ Goto(IF task.status = "NONE" THEN "file" ELSE "end", task.status)
    /\ Quiet /\ UNCHANGED <<session, sane>>

DeferredCleanup_KeepsHolder ==
    IF pendingClean = task.app
    THEN CleanByOwner(task.app) /\ pendingClean' = None /\ UNCHANGED opened
    ELSE UNCHANGED <<opened, pics, pendingClean>>

(* the caller left or died mid-scan: release its hold, clean up its files *)
DeferredCleanup ==
    IF pendingClean = task.app
    THEN /\ opened' = IF Holds(task.app) THEN None ELSE opened
         /\ CleanByOwner(task.app)
         /\ pendingClean' = None
    ELSE UNCHANGED <<opened, pics, pendingClean>>

StateAfterScan_StaysCancelling ==
    scannerState' = IF scannerState = "CANCELING" THEN scannerState ELSE "READY"

StateAfterScan == scannerState' = "READY"

(* the end of StartScanTask: the device is closed and opened afresh        *)
EndTask ==
    /\ At("end")
    /\ \/ handle' = task.scanner
       \/ handle' = SaneClosed(task.scanner)      \* the new sane_open failed
    /\ started' = (handle' = handle /\ SaneCancelled(task.scanner))
    /\ scanQueue' = IF scannerState = "CANCELING" THEN << >> ELSE scanQueue
    /\ StateAfterScan
    /\ DeferredCleanup
    /\ tasks' = Tail(tasks)
    /\ orphaned' = (orphaned /\ tasks' # << >>)
    /\ Quiet /\ UNCHANGED picId

-----------------------------------------------------------------------------
(* Processes and the monitor thread *)

AppDies(a) ==
    /\ a \in alive
    /\ alive' = alive \ {a}
    /\ \/ late' = late
       \/ a \in callers /\ late' = late \union {a}
    /\ UNCHANGED <<session, pictures, sane, monitor, tasks, orphaned>>

(* one round of MonitorCallerAppIsRunnig: the dead leave callerMap_ *)
MonitorRound ==
    /\ deadPids = {} /\ unload = "no"
    /\ callers \ alive # {} \/ callers = {}
    /\ callers' = callers \intersect alive
    /\ deadPids' = callers \ alive
    /\ unload' = IF callers' = {} THEN "decided" ELSE "no"
    /\ UNCHANGED <<session, pictures, sane, tasks, alive, late, orphaned>>

ReleaseOrDefer_KeepsHeld(a) ==
    IF scannerState = "READY"
    THEN UNCHANGED session
    ELSE /\ pendingClean' = a
         /\ scannerState' = "CANCELING"
         /\ UNCHANGED opened

(* while its scan winds down the dead caller keeps the scanner *)
ReleaseOrDefer(a) ==
    IF scannerState = "READY"
    THEN opened' = None /\ UNCHANGED <<scannerState, pendingClean>>
    ELSE /\ pendingClean' = a
         /\ scannerState' = "CANCELING"
         /\ UNCHANGED opened

CleanupDeadCaller(a) ==
    /\ a \in deadPids
    /\ deadPids' = deadPids \ {a}
    /\ IF ~Holds(a) THEN UNCHANGED <<session, scanQueue, sane>>
       ELSE /\ handle' = SaneClosed(opened.scanner)
            /\ started' = SaneCancelled(opened.scanner)
            /\ scanQueue' = << >>
            /\ ReleaseOrDefer(a)
    /\ IF pendingClean' # a THEN CleanByOwner(a) ELSE UNCHANGED pics
    /\ UNCHANGED <<picId, tasks, alive, late, callers, unload, orphaned>>

(* the monitor thread is leaving its loop: from now on nobody watches callers.  *)
(* sane_exit ends what the device was doing; a task that runs, or is posted, *)
(* stays, and so do picId_ and pendingCleanOwner_                            *)
CleanupScanService ==
    /\ unload = "decided" /\ deadPids = {}
    /\ handle' = IF opened # None THEN SaneClosed(opened.scanner) ELSE handle
    /\ started' = FALSE
    /\ opened' = None /\ scannerState' = "READY"
    /\ scanQueue' = << >> /\ pics' = << >>
    /\ orphaned' = (tasks # << >>)
    /\ unload' = "cleaned"
    /\ UNCHANGED <<pendingClean, picId, tasks, callers, deadPids, alive, late>>

(* the sane service closes what is open, whoever has opened it meanwhile *)
UnloadSaneService ==
    /\ unload = "cleaned"
    /\ handle' = None /\ started' = FALSE
    /\ unload' = "asked"
    /\ UNCHANGED <<session, pictures, tasks, callers, deadPids, alive, late, orphaned>>

(* samgr has ended the process, and the next one starts empty; if it does *)
(* not, the service goes on as it is                                       *)
ProcessEnds ==
    /\ unload = "asked"
    /\ opened' = None /\ scannerState' = "READY" /\ pendingClean' = None
    /\ picId' = 0 /\ scanQueue' = << >> /\ pics' = << >>
    /\ tasks' = << >> /\ handle' = None /\ started' = FALSE
    /\ callers' = {} /\ deadPids' = {} /\ unload' = "no"
    /\ alive' = alive /\ late' = {} /\ orphaned' = FALSE

-----------------------------------------------------------------------------
TaskStep == CreateFile \/ ReadPage \/ FinishPicture \/ Restart \/ NextPicture
            \/ EndTask

AppStep(a) ==
    \/ InitScan(a) \/ CloseScanner(a) \/ ExitScan(a)
    \/ \E s \in Scanners : CallOpen(a, s) \/ LateOpen(a, s)
    \/ \E batch \in BOOLEAN : StartScan(a, batch)
    \/ StartScanFails(a) \/ CancelScan(a) \/ GetScanProgress(a)

Next ==
    \/ TaskStep \/ CreateFileFails
    \/ \E a \in Apps : AppStep(a) \/ AppDies(a) \/ CleanupDeadCaller(a)
    \/ MonitorRound \/ CleanupScanService \/ UnloadSaneService \/ ProcessEnds

Spec == Init /\ [][Next]_vars

(* The event runner runs the posted task and the backend answers every     *)
(* read; the monitor thread loops; its callbacks get lock_ in the end.  That *)
(* samgr ends the process is not assumed.                                    *)
Fairness == /\ WF_vars(TaskStep)
            /\ WF_vars(MonitorRound) /\ WF_vars(CleanupScanService)
            /\ WF_vars(UnloadSaneService)
            /\ \A a \in Apps : WF_vars(CleanupDeadCaller(a))

LiveSpec == Spec /\ Fairness

-----------------------------------------------------------------------------
(* Properties *)

(* The scanner is READY exactly while no scan task is there, so no second  *)
(* task is posted behind one that winds down; except that CleanupScanService *)
(* stores READY under a task (SSA:289), until the tasks have all ended.      *)
ReadyIffNoTask ==
    ~orphaned => /\ scannerState = "READY" <=> tasks = << >>
                 /\ Len(tasks) <= 1

(* Although the task finds its picture through the shared picId_, a cached *)
(* image is among the files of the app whose scan produced it, and the     *)
(* next file the task registers will be too: cleaning up after one pid     *)
(* never leaves its own images behind under another one.  Only a picture   *)
(* pushed while tasks are orphaned may be taken for that of another task.  *)
CachedUnderItsOwner ==
    /\ \A p \in DOMAIN pics : ~pics[p].mixed => pics[p].file \in {None, pics[p].app}
    /\ At("file") /\ ~orphaned => picId \in DOMAIN pics /\ pics[picId].app = task.app

(* GetScanProgress never gives the holder of the scanner a picture that    *)
(* was finished for another app, not even while a page of a closed scan is *)
(* still being pushed into the queue the new holder polls.                 *)
NoForeignPicture ==
    \A i \in 1..Len(scanQueue), a \in Apps :
        LET p == scanQueue[i].pic IN
        Holds(a) /\ p \in DOMAIN pics /\ pics[p].done /\ ~pics[p].mixed
            => pics[p].app = a

(* Once no scan runs, a picture pushed in a calm hold belongs to the app   *)
(* that now holds the scanner, and GetScanProgress can answer it, unless   *)
(* its page ended without a trace: no stale or unfinished front is left to *)
(* block the queue of the next holder.                                     *)
QueueIsAnswered ==
    scannerState = "READY" =>
        \A i \in 1..Len(scanQueue) : scanQueue[i].calm =>
            LET p == scanQueue[i].pic IN
            /\ p \in DOMAIN pics /\ Holds(pics[p].app)
            /\ Answered(p) \/ pics[p].lost

(* Who opened the scanner in calm and has it while no scan winds down is a *)
(* process the monitor was told of or is about to clean up after, so a     *)
(* dead app cannot keep the only scanner from all others.                  *)
ReleasedFromTheDead ==
    scannerState = "READY" /\ opened # None /\ opened.calm
        => opened.app \in callers \union deadPids

(* The pictures of a running app that opened the scanner in calm and holds *)
(* it are deleted only when it leaves or the service is cleaned up: not by *)
(* the end of a scan, its own or an earlier one.                           *)
HeldResultsAreKept ==
    [][\A a \in alive :
          Holds(a) /\ opened.calm /\ ~ExitScan(a) /\ ~CleanupScanService /\ ~ProcessEnds
              => Results(a) \subseteq Results(a)']_vars

(* A running app that holds a scanner keeps the device handle when the     *)
(* scan of an app that held another scanner ends.                          *)
HandleIsNotTaken ==
    [][/\ opened # None /\ opened' = opened /\ opened.app \in alive
       /\ handle = opened.scanner
       /\ tasks # << >> /\ task.scanner # opened.scanner
       /\ unload = "no"
       => handle' = handle]_vars

(* An app that opened the scanner in calm and dies with it loses it, as    *)
(* long as there is a monitor: a service whose unload failed has none.     *)
DeadAppLetsGo ==
    \A a \in Apps : (Holds(a) /\ opened.calm /\ a \notin alive)
                        ~> ~Holds(a) \/ unload \in {"cleaned", "asked"}

(* Every scan task comes to its end, and the scanner is READY again.       *)
ScanEnds == tasks # << >> \/ scannerState # "READY"
                ~> scannerState = "READY"
=============================================================================
