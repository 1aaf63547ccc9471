------------------------------ MODULE CupsJobs ------------------------------
(***************************************************************************)
(* The life of a print job in services/print_service/src/                  *)
(* print_cups_client.cpp, from AddCupsPrintJob to the end of its           *)
(* monitoring, with the calls of print_service_ability.cpp that drive it.  *)
(*                                                                         *)
(* Actors and what orders them:                                            *)
(*   - one service call at a time (start, cancel, block): every one holds  *)
(*     apiMutex_ from its first step to its last;                          *)
(*   - a detached sender thread per job, named here by the job it sends;   *)
(*     jobMutex makes its accesses to jobQueue_ and currentJob_ atomic;    *)
(*   - one monitor thread; jobMonitorMutex_ guards jobMonitorList_ and     *)
(*     isMonitoringRunning_ and is released while a job is handled;        *)
(*   - cupsd, which moves its own jobs.                                    *)
(* Senders and the monitor report through UpdatePrintJobState, which takes *)
(* apiMutex_: their reports wait until no service call is under way.       *)
(* All jobs belong to one user; a watermark failure is included.           *)
(***************************************************************************)
EXTENDS Naturals, Sequences, SequencesExt

CONSTANTS Jobs,     \* service job ids, each started at most once
          UsbJobs,  \* jobs of printers reached by IPP over USB
          MaxCalls, \* bound on the calls that cancel or block a job
          NoJob     \* currentJob_ is nullptr

ASSUME JobsAssumption == UsbJobs \subseteq Jobs /\ NoJob \notin Jobs
ASSUME MaxCallsAssumption == MaxCalls \in Nat

VARIABLES
    svc,         \* state of the job in the service's queuedJobList_
    api,         \* the service call that holds apiMutex_
    calls,       \* number of calls that cancelled or blocked a job
    jobQueue,    \* jobQueue_
    currentJob,  \* currentJob_
    sendCancel,  \* currentJob_->isCanceled
    sender,      \* where the sender thread of each job is
    stale,       \* lastJobServiceId in the sender's GetNextJob
    outcome,     \* history: how sending, then monitoring, of each job ended
    cups,        \* state of the job at cupsd
    monitorList, \* jobMonitorList_
    monitoring,  \* isMonitoringRunning_
    isCanceled,  \* JobMonitorParam::isCanceled
    isInterrupt, \* JobMonitorParam::isInterrupt
    firstQuery,  \* JobMonitorParam::isFirstQueryState
    mon          \* the monitor thread

senderVars == <<jobQueue, currentJob, sendCancel, sender, stale, outcome>>
monitorVars == <<monitorList, monitoring, isCanceled, isInterrupt, firstQuery, mon>>
vars == <<svc, api, calls, cups, senderVars, monitorVars>>

-----------------------------------------------------------------------------
(* Values *)

Live == {"QUEUED", "RUNNING", "BLOCKED"}
ServiceStates == Live \cup {"new", "COMPLETED"}

\* A job cupsd has accepted is active (pending, held, processing or stopped:
\* which of them is left to each query), stopping once its cancellation is
\* accepted, and then over: ended (completed or cancelled) or aborted.
CupsStates == {"none", "created", "active", "stopping", "ended", "aborted"}

ApiSteps == {"idle", "startNext", "cancelMonitor", "blockMonitor", "blockCups", "blockFlag"}

\* The phases in which a sender works on currentJob_, and the ones after.
Sending == {"verify", "test", "send", "register", "sent"}
SenderStates == Sending \cup {"none", "next", "stale", "done"}

\* reported: the client is done with the job and reported a state; silent: it is
\* done with the job and reported nothing.
Outcomes == {"none", "monitored", "reported", "silent"}

MonitorSteps == {"off", "round", "check", "interrupt", "query", "report", "drop", "end"}
\* todo: rest of the round's snapshot; report: the state to report; keep: the
\* result of IfContinueToHandleJobState.
MonitorThread == [step : MonitorSteps, todo : Seq(Jobs),
                  report : Live \cup {"COMPLETED"}, keep : BOOLEAN]

\* The monitor thread does not exist; report and keep have no meaning then.
NoMonitor == [step |-> "off", todo |-> <<>>, report |-> "BLOCKED", keep |-> TRUE]

Idle == [step |-> "idle", job |-> NoJob]
NoApiCall == api = Idle

Init == /\ svc = [j \in Jobs |-> "new"]
        /\ api = Idle
        /\ calls = 0
        /\ jobQueue = <<>>
        /\ currentJob = NoJob
        /\ sendCancel = FALSE
        /\ sender = [j \in Jobs |-> "none"]
        /\ stale = [j \in Jobs |-> NoJob]
        /\ outcome = [j \in Jobs |-> "none"]
        /\ cups = [j \in Jobs |-> "none"]
        /\ monitorList = <<>>
        /\ monitoring = FALSE
        /\ isCanceled = [j \in Jobs |-> FALSE]
        /\ isInterrupt = [j \in Jobs |-> FALSE]
        /\ firstQuery = [j \in Jobs |-> TRUE]
        /\ mon = NoMonitor

\* UpdatePrintJobState: a job that has left the service's list is not found and
\* the report has no effect; completing a job takes it off the list.
Report(j, state) == svc' = IF svc[j] \in Live THEN [svc EXCEPT ![j] = state] ELSE svc

\* CancelPrinterJob: cupsd accepts to cancel a job that is not over, at once or
\* after its filters have stopped; or the request fails and nothing changes.
CupsCancelAccepted(j) == /\ cups[j] \in {"active", "stopping"}
                         /\ \E c \in {"ended", "stopping"} : cups' = [cups EXCEPT ![j] = c]

-----------------------------------------------------------------------------
(* Mutated forms of the definitions below, one for each property of the runs *)

\* the head is taken while another job is being sent
TakeNextJob_EvenIfBusy == /\ jobQueue # <<>>
                          /\ currentJob' = Head(jobQueue)
                          /\ jobQueue' = Tail(jobQueue)
                          /\ sendCancel' = FALSE

\* the head is taken and left in the queue
TakeNextJob_NoErase == /\ jobQueue # <<>>
                       /\ currentJob = NoJob
                       /\ currentJob' = Head(jobQueue)
                       /\ sendCancel' = FALSE
                       /\ UNCHANGED jobQueue

\* the job joins jobMonitorList_ only when the monitor has to be started
Register_OnlyWhenStarting(j) ==
    /\ sender[j] = "register"
    /\ monitorList' = IF monitoring THEN monitorList ELSE Append(monitorList, j)
    /\ monitoring' = TRUE
    /\ mon' = IF monitoring THEN mon ELSE [mon EXCEPT !.step = "round"]
    /\ outcome' = [outcome EXCEPT ![j] = "monitored"]
    /\ sender' = [sender EXCEPT ![j] = "sent"]
    /\ UNCHANGED <<calls, svc, api, cups, jobQueue, currentJob, sendCancel, stale,
                   isCanceled, isInterrupt, firstQuery>>

\* JobSentCallback is not called on the path without a monitor connection
EndsSilent_NoCallback(j) == /\ outcome' = [outcome EXCEPT ![j] = "silent"]
                            /\ UNCHANGED <<svc, sender>>

\* isMonitoringRunning_ stays set when the monitor leaves
EndRound_KeepsFlag ==
    /\ mon.step = "end"
    /\ mon' = [mon EXCEPT !.step = IF monitorList = <<>> THEN "off" ELSE "round"]
    /\ UNCHANGED <<calls, svc, api, cups, senderVars, monitorList, monitoring,
                   isCanceled, isInterrupt, firstQuery>>

\* a refused cancellation is ignored
CheckCanceled_IgnoresRefusal ==
    /\ mon.step = "check"
    /\ \/ isCanceled[Head(mon.todo)] /\ CupsCancelAccepted(Head(mon.todo))
       \/ UNCHANGED cups
    /\ mon' = [mon EXCEPT !.step = "interrupt"]
    /\ UNCHANGED <<calls, svc, api, senderVars,
                   monitorList, monitoring, isCanceled, isInterrupt, firstQuery>>

-----------------------------------------------------------------------------
(* GetNextJob, its part under jobMutex.  It either takes the head of the     *)
(* queue, whose sender thread StartNextJob then starts; or it finds a job    *)
(* being sent and remembers the last job of the queue.                       *)

TakeNextJob == /\ jobQueue # <<>>
               /\ currentJob = NoJob
               /\ currentJob' = Head(jobQueue)
               /\ jobQueue' = Tail(jobQueue)
               /\ sendCancel' = FALSE

QueueIsEmpty == jobQueue = <<>>
SenderIsBusy == jobQueue # <<>> /\ currentJob # NoJob
LastInQueue == jobQueue[Len(jobQueue)]

-----------------------------------------------------------------------------
(* Service calls *)

\* StartPrintJob: the job enters queuedJobList_ and, when its options can be
\* read, jobQueue_.  When they cannot, AddCupsPrintJob returns without a word.
StartJob(j) ==
    /\ NoApiCall
    /\ svc[j] = "new"
    /\ svc' = [svc EXCEPT ![j] = "QUEUED"]
    /\ \/ /\ outcome' = [outcome EXCEPT ![j] = "silent"]
          /\ UNCHANGED <<api, jobQueue>>
       \/ /\ jobQueue' = Append(jobQueue, j)
          /\ api' = [step |-> "startNext", job |-> j]
          /\ UNCHANGED outcome
    /\ UNCHANGED <<calls, cups, currentJob, sendCancel, sender, stale, monitorVars>>

\* StartNextJob on the calling thread.
ApiStartNext ==
    /\ api.step = "startNext"
    /\ api' = Idle
    /\ \/ /\ QueueIsEmpty
          /\ UNCHANGED <<svc, jobQueue, currentJob, sendCancel, sender>>
       \/ /\ TakeNextJob
          /\ sender' = [sender EXCEPT ![Head(jobQueue)] = "verify"]
          /\ UNCHANGED svc
       \/ /\ SenderIsBusy
          /\ Report(LastInQueue, "QUEUED")
          /\ UNCHANGED <<jobQueue, currentJob, sendCancel, sender>>
    /\ UNCHANGED <<calls, cups, stale, outcome, monitorVars>>

\* CancelPrintJob and the part of CancelCupsJob under jobMutex: a job in the
\* queue is deleted and completed, the job being sent is marked.
CancelJob(j) ==
    /\ NoApiCall
    /\ calls < MaxCalls
    /\ calls' = calls + 1
    /\ svc[j] \in Live
    /\ \/ /\ j \in ToSet(jobQueue)
          /\ jobQueue' = RemoveFirst(jobQueue, j)
          /\ Report(j, "COMPLETED")
          /\ outcome' = [outcome EXCEPT ![j] = "reported"]
          /\ UNCHANGED <<api, sendCancel>>
       \/ /\ j \notin ToSet(jobQueue)
          /\ sendCancel' = (sendCancel \/ currentJob = j)
          /\ api' = [step |-> "cancelMonitor", job |-> j]
          /\ UNCHANGED <<svc, jobQueue, outcome>>
    /\ UNCHANGED <<cups, currentJob, sender, stale, monitorVars>>

\* CancelCupsJob under jobMonitorMutex_: mark the monitored job, or complete a
\* job that is not monitored.
ApiCancelMonitor ==
    /\ api.step = "cancelMonitor"
    /\ api' = Idle
    /\ \/ /\ api.job \in ToSet(monitorList)
          /\ isCanceled' = [isCanceled EXCEPT ![api.job] = TRUE]
          /\ UNCHANGED svc
       \/ /\ api.job \notin ToSet(monitorList)
          /\ Report(api.job, "COMPLETED")
          /\ UNCHANGED isCanceled
    /\ UNCHANGED <<calls, cups, senderVars, monitorList, monitoring, isInterrupt, firstQuery, mon>>

\* BlockPrintJob and the part of InterruptCupsJob under jobMutex.
BlockJob(j) ==
    /\ NoApiCall
    /\ calls < MaxCalls
    /\ calls' = calls + 1
    /\ svc[j] \in Live
    /\ \/ /\ j \in ToSet(jobQueue)
          /\ jobQueue' = RemoveFirst(jobQueue, j)
          /\ Report(j, "BLOCKED")
          /\ outcome' = [outcome EXCEPT ![j] = "reported"]
          /\ UNCHANGED <<api, sendCancel>>
       \/ /\ j \notin ToSet(jobQueue)
          /\ sendCancel' = (sendCancel \/ currentJob = j)
          /\ api' = [step |-> "blockMonitor", job |-> j]
          /\ UNCHANGED <<svc, jobQueue, outcome>>
    /\ UNCHANGED <<cups, currentJob, sender, stale, monitorVars>>

\* InterruptCupsJob looks for the job under jobMonitorMutex_ and lets go of the
\* mutex; it returns when the job is not monitored.
ApiBlockMonitor ==
    /\ api.step = "blockMonitor"
    /\ api' = IF api.job \in ToSet(monitorList) THEN [api EXCEPT !.step = "blockCups"]
                                                   ELSE Idle
    /\ UNCHANGED <<calls, svc, cups, senderVars, monitorVars>>

\* CancelPrinterJob, accepted or not, with no mutex but apiMutex_ held.
ApiBlockCups ==
    /\ api.step = "blockCups"
    /\ CupsCancelAccepted(api.job) \/ UNCHANGED cups
    /\ api' = [api EXCEPT !.step = "blockFlag"]
    /\ UNCHANGED <<calls, svc, senderVars, monitorVars>>

\* interruptMonitor->isInterrupt = true, through the shared pointer: when the
\* job has left jobMonitorList_ in the meantime nobody reads the flag.
ApiBlockFlag ==
    /\ api.step = "blockFlag"
    /\ isInterrupt' = IF api.job \in ToSet(monitorList)
                      THEN [isInterrupt EXCEPT ![api.job] = TRUE] ELSE isInterrupt
    /\ api' = Idle
    /\ UNCHANGED <<calls, svc, cups, senderVars, monitorList, monitoring, isCanceled, firstQuery, mon>>

ApiStep == \/ ApiStartNext
           \/ ApiCancelMonitor
           \/ ApiBlockMonitor
           \/ ApiBlockCups
           \/ ApiBlockFlag

-----------------------------------------------------------------------------
(* The sender thread of job j: StartCupsJob, then JobSentCallback *)

SenderGoes(j, phase) == sender' = [sender EXCEPT ![j] = phase]

\* Sending ends with a report of the job as BLOCKED, or without a report.
EndsReported(j) == /\ NoApiCall
                   /\ Report(j, "BLOCKED")
                   /\ outcome' = [outcome EXCEPT ![j] = "reported"]
                   /\ SenderGoes(j, "sent")

EndsSilent(j) == /\ outcome' = [outcome EXCEPT ![j] = "silent"]
                 /\ SenderGoes(j, "sent")
                 /\ UNCHANGED svc

GoesOn(j, phase) == SenderGoes(j, phase) /\ UNCHANGED <<svc, outcome>>

\* VerifyPrintJob (printer online, make and model known, cupsCreateJob) and
\* ProcessWatermarkWithCacheFd: when the watermark fails, the job that was
\* created at cupsd stays there.
Verify(j) ==
    /\ sender[j] = "verify"
    /\ \/ EndsReported(j) /\ UNCHANGED cups
       \/ /\ cups' = [cups EXCEPT ![j] = "created"]
          /\ EndsReported(j) \/ GoesOn(j, "test")
    /\ UNCHANGED <<calls, api, jobQueue, currentJob, sendCancel, stale, monitorVars>>

\* The only test of isCanceled: a cancelled job is not sent.  Nothing is
\* reported and the job created at cupsd stays there.
TestCanceled(j) ==
    /\ sender[j] = "test"
    /\ IF sendCancel THEN EndsSilent(j) ELSE GoesOn(j, "send")
    /\ UNCHANGED <<calls, api, cups, jobQueue, currentJob, sendCancel, stale, monitorVars>>

\* HandleFiles: the documents are written to cupsd, or the job at cupsd is
\* cancelled (the result of that request is not looked at).
HandleFiles(j) ==
    /\ sender[j] = "send"
    /\ \/ /\ EndsReported(j)
          /\ \E c \in {"created", "ended"} : cups' = [cups EXCEPT ![j] = c]
       \/ /\ cups' = [cups EXCEPT ![j] = "active"]
          /\ GoesOn(j, "register")
    /\ UNCHANGED <<calls, api, jobQueue, currentJob, sendCancel, stale, monitorVars>>

\* Without a connection of its own (httpConnect2) the job is not monitored and
\* nothing is said.  Otherwise, under jobMonitorMutex_: add the job and start
\* the monitor unless it runs.
Register(j) ==
    /\ sender[j] = "register"
    /\ \/ EndsSilent(j) /\ UNCHANGED <<monitorList, monitoring, mon>>
       \/ /\ monitorList' = Append(monitorList, j)
          /\ monitoring' = TRUE
          /\ mon' = IF monitoring THEN mon ELSE [mon EXCEPT !.step = "round"]
          /\ outcome' = [outcome EXCEPT ![j] = "monitored"]
          /\ SenderGoes(j, "sent")
          /\ UNCHANGED svc
    /\ UNCHANGED <<calls, api, cups, jobQueue, currentJob, sendCancel, stale,
                   isCanceled, isInterrupt, firstQuery>>

\* JobSentCallback under jobMutex: however sending ended, delete the job.
JobSent(j) ==
    /\ sender[j] = "sent"
    /\ currentJob' = NoJob
    /\ sendCancel' = FALSE
    /\ SenderGoes(j, "next")
    /\ UNCHANGED <<calls, svc, api, cups, jobQueue, stale, outcome, monitorVars>>

\* StartNextJob at the end of JobSentCallback.  apiMutex_ is not held, so the
\* report on the last job of the queue comes as a step of its own.
SenderStartNext(j) ==
    /\ sender[j] = "next"
    /\ \/ /\ QueueIsEmpty
          /\ SenderGoes(j, "done")
          /\ UNCHANGED <<jobQueue, currentJob, sendCancel, stale>>
       \/ /\ TakeNextJob
          /\ sender' = [sender EXCEPT ![j] = "done", ![Head(jobQueue)] = "verify"]
          /\ UNCHANGED stale
       \/ /\ SenderIsBusy
          /\ stale' = [stale EXCEPT ![j] = LastInQueue]
          /\ SenderGoes(j, "stale")
          /\ UNCHANGED <<jobQueue, currentJob, sendCancel>>
    /\ UNCHANGED <<calls, svc, api, cups, outcome, monitorVars>>

\* GetNextJob reports the job it remembered as QUEUED.
ReportLast(j) ==
    /\ sender[j] = "stale"
    /\ NoApiCall
    /\ Report(stale[j], "QUEUED")
    /\ stale' = [stale EXCEPT ![j] = NoJob]
    /\ SenderGoes(j, "done")
    /\ UNCHANGED <<calls, api, cups, jobQueue, currentJob, sendCancel, outcome, monitorVars>>

SenderStep(j) == \/ Verify(j)
                 \/ TestCanceled(j)
                 \/ HandleFiles(j)
                 \/ Register(j)
                 \/ JobSent(j)
                 \/ SenderStartNext(j)
                 \/ ReportLast(j)

-----------------------------------------------------------------------------
(* The monitor thread: StartMonitor *)

Watched == Head(mon.todo)

\* Go on with the next job of the snapshot.
NextWatched == mon' = [NoMonitor EXCEPT !.todo = Tail(mon.todo),
                                        !.step = IF Len(mon.todo) = 1 THEN "end" ELSE "check"]

\* Report a state, then keep the job (keep) or stop monitoring it.
WillReport(state, keep) ==
    mon' = [mon EXCEPT !.step = "report", !.report = state, !.keep = keep]

WillDrop == mon' = [NoMonitor EXCEPT !.todo = mon.todo, !.step = "drop"]

\* A round begins: copy jobMonitorList_ under the mutex.
BeginRound ==
    /\ mon.step = "round"
    /\ mon' = [mon EXCEPT !.todo = monitorList,
                          !.step = IF monitorList = <<>> THEN "end" ELSE "check"]
    /\ UNCHANGED <<calls, svc, api, cups, senderVars,
                   monitorList, monitoring, isCanceled, isInterrupt, firstQuery>>

\* IfContinueToHandleJobState, the cancelled job: ask cupsd; when the request
\* fails the job is completed, otherwise its end will be seen by a query.
CheckCanceled ==
    /\ mon.step = "check"
    /\ \/ /\ ~isCanceled[Watched]
          /\ mon' = [mon EXCEPT !.step = "interrupt"]
          /\ UNCHANGED cups
       \/ /\ isCanceled[Watched]
          /\ CupsCancelAccepted(Watched)
          /\ mon' = [mon EXCEPT !.step = "interrupt"]
       \/ /\ isCanceled[Watched]
          /\ WillReport("COMPLETED", FALSE)
          /\ UNCHANGED cups
    /\ UNCHANGED <<calls, svc, api, senderVars,
                   monitorList, monitoring, isCanceled, isInterrupt, firstQuery>>

CheckInterrupt ==
    /\ mon.step = "interrupt"
    /\ IF isInterrupt[Watched] THEN WillReport("BLOCKED", FALSE)
                               ELSE mon' = [mon EXCEPT !.step = "query"]
    /\ UNCHANGED <<calls, svc, api, cups, senderVars,
                   monitorList, monitoring, isCanceled, isInterrupt, firstQuery>>

\* QueryJobStateAndCallback, no connection or printer offline.
QueryOffline ==
    /\ mon.step = "query"
    /\ \/ /\ Watched \in UsbJobs
          /\ CupsCancelAccepted(Watched) \/ UNCHANGED cups
          /\ WillReport("COMPLETED", FALSE)
       \/ /\ Watched \notin UsbJobs
          /\ WillReport("BLOCKED", TRUE)
          /\ UNCHANGED cups
    /\ UNCHANGED <<calls, svc, api, senderVars,
                   monitorList, monitoring, isCanceled, isInterrupt, firstQuery>>

\* The first query is skipped; a later one may fail or find nothing new.
QuerySkipped ==
    /\ mon.step = "query"
    /\ firstQuery' = [firstQuery EXCEPT ![Watched] = FALSE]
    /\ NextWatched
    /\ UNCHANGED <<calls, svc, api, cups, senderVars,
                   monitorList, monitoring, isCanceled, isInterrupt>>

\* JobStatusCallback, by the state cupsd gives: PENDING and HELD are reported
\* QUEUED or BLOCKED, PROCESSING is reported RUNNING or BLOCKED, as the reasons
\* of the answer say.  A stopped job is cancelled.
AnswerPending == /\ cups[Watched] = "active"
                 /\ \E state \in {"QUEUED", "BLOCKED"} : WillReport(state, TRUE)
                 /\ UNCHANGED <<cups, outcome>>

AnswerProcessing == /\ cups[Watched] \in {"active", "stopping"}
                    /\ IF isCanceled[Watched]
                       THEN NextWatched
                       ELSE \E state \in {"RUNNING", "BLOCKED"} : WillReport(state, TRUE)
                    /\ UNCHANGED <<cups, outcome>>

AnswerStopped == /\ cups[Watched] = "active"
                 /\ \/ CupsCancelAccepted(Watched) /\ NextWatched
                    \/ WillReport("COMPLETED", FALSE) /\ UNCHANGED cups
                 /\ UNCHANGED outcome

AnswerEnded == /\ cups[Watched] = "ended"
               /\ WillReport("COMPLETED", FALSE)
               /\ UNCHANGED <<cups, outcome>>

\* HandleAbortedState: no report for a cancelled job.
AnswerAborted ==
    /\ cups[Watched] = "aborted"
    /\ \/ /\ isCanceled[Watched]
          /\ WillDrop
          /\ outcome' = [outcome EXCEPT ![Watched] = "silent"]
       \/ /\ ~isCanceled[Watched]
          /\ WillReport("BLOCKED", FALSE)
          /\ UNCHANGED outcome
    /\ UNCHANGED cups

QueryAnswered ==
    /\ mon.step = "query"
    /\ ~firstQuery[Watched]
    /\ \/ AnswerPending
       \/ AnswerProcessing
       \/ AnswerStopped
       \/ AnswerEnded
       \/ AnswerAborted
    /\ UNCHANGED <<calls, svc, api, jobQueue, currentJob, sendCancel, sender, stale,
                   monitorList, monitoring, isCanceled, isInterrupt, firstQuery>>

\* UpdatePrintJobState by the monitor.
MonitorReport ==
    /\ mon.step = "report"
    /\ NoApiCall
    /\ Report(Watched, mon.report)
    /\ \/ mon.keep /\ NextWatched /\ UNCHANGED outcome
       \/ /\ ~mon.keep
          /\ WillDrop
          /\ outcome' = [outcome EXCEPT ![Watched] = "reported"]
    /\ UNCHANGED <<calls, api, cups, jobQueue, currentJob, sendCancel, sender, stale,
                   monitorList, monitoring, isCanceled, isInterrupt, firstQuery>>

\* Take the job off jobMonitorList_ under the mutex; its JobMonitorParam, with
\* the flags in it, is gone.
DropJob ==
    /\ mon.step = "drop"
    /\ monitorList' = RemoveFirst(monitorList, Watched)
    /\ isCanceled' = [isCanceled EXCEPT ![Watched] = FALSE]
    /\ isInterrupt' = [isInterrupt EXCEPT ![Watched] = FALSE]
    /\ firstQuery' = [firstQuery EXCEPT ![Watched] = TRUE]
    /\ NextWatched
    /\ UNCHANGED <<calls, svc, api, cups, senderVars, monitoring>>

\* The round's end, under the mutex: leave when nothing is left to monitor.
EndRound ==
    /\ mon.step = "end"
    /\ IF monitorList = <<>>
       THEN mon' = [mon EXCEPT !.step = "off"] /\ monitoring' = FALSE
       ELSE mon' = [mon EXCEPT !.step = "round"] /\ UNCHANGED monitoring
    /\ UNCHANGED <<calls, svc, api, cups, senderVars, monitorList, isCanceled, isInterrupt, firstQuery>>

MonitorStep == \/ BeginRound
               \/ CheckCanceled
               \/ CheckInterrupt
               \/ QueryOffline
               \/ QuerySkipped
               \/ QueryAnswered
               \/ MonitorReport
               \/ DropJob
               \/ EndRound

-----------------------------------------------------------------------------
(* cupsd *)

CupsMove == {<<"active", "ended">>, <<"active", "aborted">>,
             <<"stopping", "ended">>, <<"stopping", "aborted">>}

\* What cupsd does with a job nobody asks about any more is left out.
CupsStep(j) == /\ outcome[j] \in {"none", "monitored"}
               /\ \E c \in CupsStates : /\ <<cups[j], c>> \in CupsMove
                                        /\ cups' = [cups EXCEPT ![j] = c]
               /\ UNCHANGED <<calls, svc, api, senderVars, monitorVars>>

-----------------------------------------------------------------------------

Next == \/ \E j \in Jobs : StartJob(j) \/ CancelJob(j) \/ BlockJob(j)
        \/ ApiStep
        \/ \E j \in Jobs : SenderStep(j)
        \/ MonitorStep
        \/ \E j \in Jobs : CupsStep(j)

Spec == Init /\ [][Next]_vars

\* A service call and every thread goes on when it can: the code takes no lock
\* in a conflicting order and a report waits for apiMutex_ only as long as
\* calls come.  A job whose cancellation cupsd accepted ends there, and the
\* queries of a monitored job are not all skipped or offline for ever.
FairSpec == /\ Spec
            /\ WF_vars(ApiStep)
            /\ \A j \in Jobs : WF_vars(SenderStep(j))
            /\ WF_vars(MonitorStep)
            /\ SF_vars(QueryAnswered)
            /\ \A j \in Jobs : WF_vars(CupsStep(j) /\ cups[j] = "stopping")

-----------------------------------------------------------------------------
(* Properties *)

\* Every variable has its type, the calls are bounded and only a job that is
\* being sent carries the mark of a cancellation.
TypeOK ==
    /\ sendCancel => currentJob # NoJob
    /\ svc \in [Jobs -> ServiceStates]
    /\ calls \in 0..MaxCalls
    /\ api \in [step : ApiSteps, job : Jobs \cup {NoJob}]
    /\ jobQueue \in Seq(Jobs)
    /\ currentJob \in Jobs \cup {NoJob}
    /\ sendCancel \in BOOLEAN
    /\ sender \in [Jobs -> SenderStates]
    /\ stale \in [Jobs -> Jobs \cup {NoJob}]
    /\ outcome \in [Jobs -> Outcomes]
    /\ cups \in [Jobs -> CupsStates]
    /\ monitorList \in Seq(Jobs)
    /\ monitoring \in BOOLEAN
    /\ isCanceled \in [Jobs -> BOOLEAN]
    /\ isInterrupt \in [Jobs -> BOOLEAN]
    /\ firstQuery \in [Jobs -> BOOLEAN]
    /\ mon \in MonitorThread

\* At any time one job is sent, by one thread: currentJob_ is the job of the
\* only sender thread that is not past JobSentCallback.
OneSender == \A j \in Jobs : sender[j] \in Sending <=> currentJob = j

\* A job is in the queue, with the sender or monitored, never in two places
\* but for the moment between its registration and JobSentCallback.
OnePlace ==
    /\ IsInjective(jobQueue)
    /\ IsInjective(monitorList)
    /\ \A j \in ToSet(jobQueue) :
          sender[j] = "none" /\ currentJob # j /\ j \notin ToSet(monitorList)
    /\ \A j \in ToSet(monitorList) : sender[j] \in {"sent", "next", "stale", "done"}

\* The hand-overs under jobMutex and jobMonitorMutex_ are exclusive: one thread
\* sends, the current job only, and nobody has a job twice.
HandOverIsExclusive == OneSender /\ OnePlace

\* A job in the queue is not forgotten: a job is being sent, or a thread is
\* about to call GetNextJob.
QueueIsServed ==
    jobQueue # <<>> => \/ currentJob # NoJob
                       \/ api.step = "startNext"
                       \/ \E j \in Jobs : sender[j] = "next"

\* The monitor thread exists exactly while isMonitoringRunning_ is set, and it
\* is set while a job is to be monitored: EndRound and Register agree on who
\* takes care of a job registered while the monitor is about to leave.
MonitorServes == /\ monitoring <=> mon.step # "off"
                 /\ monitorList # <<>> => monitoring

\* Whatever waits has somebody who will come for it.
WorkIsServed == QueueIsServed /\ MonitorServes

\* Somebody has the job in hands: it will be sent or its state queried.
InHand(j) == j \in ToSet(jobQueue) \cup ToSet(monitorList) \/ currentJob = j

\* Until the client has disposed of it, with a report or silently, a job the
\* service lists is in somebody's hands: no interleaving of the hand-overs from
\* queue to sender to monitor loses one.
NoJobIsLost ==
    \A j \in Jobs : svc[j] \in Live /\ outcome[j] \in {"none", "monitored"} => InHand(j)

\* The monitor works on jobs it still has to monitor.
WatchedIsListed ==
    mon.step \notin {"off", "round", "end"} =>
        /\ mon.todo # <<>>
        /\ ToSet(mon.todo) \subseteq ToSet(monitorList)

\* Where the client has a job.
Place(j) == IF j \in ToSet(jobQueue) THEN "waiting"
            ELSE IF sender[j] \in Sending \ {"sent"} THEN "sending"
            ELSE IF j \in ToSet(monitorList) THEN "monitored"
            ELSE IF svc[j] = "new" THEN "none"
            ELSE "gone"

Promise == INSTANCE PrintClient WITH place <- [j \in Jobs |-> Place(j)]

\* The threads of the client keep its promise to the service: every job goes
\* from the queue to one sender to the monitor and never back.
ImplementsPrintClient == Promise!Spec

\* A sender thread ends.
SenderEnds == \A j \in Jobs : sender[j] = "verify" ~> sender[j] = "done"

\* A cancelled job is not monitored for ever, whatever cupsd answers.
CanceledLeaves ==
    \A j \in Jobs : isCanceled[j] /\ j \in ToSet(monitorList)
                        ~> j \notin ToSet(monitorList)
=============================================================================
