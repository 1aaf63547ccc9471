------------------------------ MODULE Watermark ------------------------------
(***************************************************************************)
(* WatermarkManager: before a job is sent, each of its cached files is     *)
(* given to each registered application in turn, which marks it and        *)
(* answers with NotifyComplete; the thread that sends the job waits for    *)
(* each answer, for a limited time.                                        *)
(*                                                                         *)
(* Actors: the thread that sends a job (StartCupsJob, one at a time, see   *)
(* CupsJobs), which holds mutex_ only for the pieces that are steps here;  *)
(* the applications; the death notices of IPC.  Watermarks are enabled by  *)
(* the system parameter: nothing happens here otherwise.                   *)
(*                                                                         *)
(* External: an application answers a request at most once, marks the file *)
(* before it says so, may never answer, and may die; the request to a dead *)
(* one is lost.  AddDeathRecipient fails for a dead process.               *)
(***************************************************************************)
EXTENDS Naturals, SequencesExt

CONSTANTS Apps,     \* processes that register a callback (pids, never reused)
          Jobs,     \* job ids
          NumFiles  \* the cached files of a job

ASSUME NumFilesAssumption == NumFiles \in Nat \ {0}

VARIABLES callbacks, \* callbacks_
          statusMap, \* statusMap_
          thread,    \* where the sending of each job is
          asked,     \* requests that their application has yet to answer
          alive,     \* processes that live
          notices,   \* dead processes whose OnCallbackDied is still to come
          marks,     \* history: who marked which file of the job under way
          staying    \* history: who is registered since that job was checked

apps == <<callbacks, alive, notices>>
vars == <<apps, statusMap, thread, asked, marks, staying>>

Files    == 1..NumFiles
Requests == [job : Jobs, file : Files, app : Apps]
Steps    == {"new", "check", "copy", "ask", "wait", "reopen", "sent", "failed"}

TypeOK ==
    /\ callbacks \in Seq(Apps)
    /\ statusMap \in [Jobs -> {"absent", "pending", "good", "bad"}]
    /\ thread \in [Jobs -> [step : Steps, file : Files, todo : Seq(Apps)]]
    /\ asked \subseteq Requests
    /\ marks \subseteq Files \X Apps /\ staying \subseteq Apps
    /\ alive \subseteq Apps /\ notices \subseteq Apps \ alive

Init ==
    /\ callbacks = <<>>
    /\ statusMap = [j \in Jobs |-> "absent"]
    /\ thread = [j \in Jobs |-> [step |-> "new", file |-> 1, todo |-> <<>>]]
    /\ asked = {}
    /\ alive = Apps /\ notices = {}
    /\ marks = {} /\ staying = {}

-----------------------------------------------------------------------------
(* The thread that sends job j *)

At(j, step) == thread[j].step = step

Ended(j) == thread[j].step \in {"new", "sent", "failed"}

Goto(j, step) == thread' = [thread EXCEPT ![j].step = step]

Request(j) == [job |-> j, file |-> thread[j].file, app |-> Head(thread[j].todo)]

\* the loop of ProcessWatermarkForFiles
NextFile(j) ==
    IF thread[j].file = NumFiles THEN Goto(j, "reopen")
    ELSE thread' = [thread EXCEPT ![j] = [step |-> "copy", file |-> @.file + 1,
                                          todo |-> <<>>]]

\* ProcessWatermarkWithCacheFd: the cached files are opened for writing
OpenCache(j) ==
    /\ At(j, "new") /\ \A k \in Jobs : Ended(k)
    /\ Goto(j, "check") \/ Goto(j, "failed")
    /\ marks' = {} /\ staying' = {}
    /\ UNCHANGED <<apps, statusMap, asked>>

\* ProcessWatermarkForFiles: IsCallbackRegistered
CheckRegistered(j) ==
    /\ At(j, "check")
    /\ Goto(j, IF callbacks = <<>> THEN "failed" ELSE "copy")
    /\ staying' = ToSet(callbacks)
    /\ UNCHANGED <<apps, statusMap, asked, marks>>

\* ProcessWatermark: the callbacks are copied; without any the file is done
CopyCallbacks(j) ==
    /\ At(j, "copy")
    /\ IF callbacks = <<>> THEN NextFile(j)
       ELSE thread' = [thread EXCEPT ![j].step = "ask", ![j].todo = callbacks]
    /\ UNCHANGED <<apps, statusMap, asked, marks, staying>>

\* TriggerWatermarkProcess
TriggerWatermarkProcess(j) ==
    /\ At(j, "ask")
    /\ statusMap' = [statusMap EXCEPT ![j] = "pending"]
    /\ asked' = asked \cup {r \in {Request(j)} : r.app \in alive}
    /\ Goto(j, "wait")
    /\ UNCHANGED <<apps, marks, staying>>

\* WaitWatermarkComplete finds the answer, and the next callback has its turn
WaitAnswered(j) ==
    /\ At(j, "wait") /\ statusMap[j] \in {"good", "bad"}
    /\ statusMap' = [statusMap EXCEPT ![j] = "absent"]
    /\ \/ statusMap[j] = "bad" /\ Goto(j, "failed")
       \/ /\ statusMap[j] = "good" /\ Tail(thread[j].todo) # <<>>
          /\ thread' = [thread EXCEPT ![j].step = "ask", ![j].todo = Tail(@)]
       \/ statusMap[j] = "good" /\ Tail(thread[j].todo) = <<>> /\ NextFile(j)
    /\ UNCHANGED <<apps, asked, marks, staying>>

\* mutant: no time limit, the end of the last callback ends the wait
WaitTimesOut_WhenAllLeft(j) ==
    /\ At(j, "wait") /\ statusMap[j] = "pending" /\ callbacks = <<>>
    /\ statusMap' = [statusMap EXCEPT ![j] = "absent"]
    /\ Goto(j, "failed")
    /\ UNCHANGED <<apps, asked, marks, staying>>

\* ... or has waited WATERMARK_TIMEOUT_MS
WaitTimesOut(j) ==
    /\ At(j, "wait") /\ statusMap[j] = "pending"
    /\ statusMap' = [statusMap EXCEPT ![j] = "absent"]
    /\ Goto(j, "failed")
    /\ UNCHANGED <<apps, asked, marks, staying>>

\* the cached files are opened again, and sent to cupsd
ReopenCache(j) ==
    /\ At(j, "reopen")
    /\ Goto(j, "sent") \/ Goto(j, "failed")
    /\ UNCHANGED <<apps, statusMap, asked, marks, staying>>

-----------------------------------------------------------------------------
(* The applications *)

\* RegisterCallback: a second callback of a process takes the place of the first
RegisterCallback(a) ==
    /\ a \in alive
    /\ callbacks' = IF a \in ToSet(callbacks) THEN callbacks ELSE Append(callbacks, a)
    /\ UNCHANGED <<statusMap, thread, asked, alive, notices, marks, staying>>

\* callbacks_.erase, of the callback of one process
Erase(a) ==
    /\ callbacks' = RemoveFirst(callbacks, a)
    /\ staying' = staying \ {a}

UnregisterCallback(a) ==
    /\ a \in alive /\ a \in ToSet(callbacks)
    /\ Erase(a)
    /\ UNCHANGED <<statusMap, thread, asked, alive, notices, marks>>

\* mutant: an answer wakes whoever waits, whatever job it is for
NotifyComplete_AnyJob(r, good) ==
    statusMap' = [j \in Jobs |-> IF statusMap[j] = "absent" THEN "absent"
                                 ELSE IF good THEN "good" ELSE "bad"]

\* NotifyComplete: nobody waits for an answer that comes too late
NotifyComplete(r, good) ==
    statusMap' = [statusMap EXCEPT ![r.job] = IF @ = "absent" THEN @
                                              ELSE IF good THEN "good" ELSE "bad"]

\* an application has handled a request, and marked the file or not
Answer(r, good) ==
    /\ r \in asked
    /\ asked' = asked \ {r}
    /\ marks' = IF good /\ ~Ended(r.job) THEN marks \cup {<<r.file, r.app>>} ELSE marks
    /\ NotifyComplete(r, good)
    /\ UNCHANGED <<apps, thread, staying>>

AppDies(a) ==
    /\ a \in alive
    /\ alive' = alive \ {a}
    /\ asked' = {r \in asked : r.app # a}
    /\ notices' = IF a \in ToSet(callbacks) THEN notices \cup {a} ELSE notices
    /\ UNCHANGED <<callbacks, statusMap, thread, marks, staying>>

\* the threads it notifies look for their answers only, and wait on
OnCallbackDied(a) ==
    /\ a \in notices
    /\ notices' = notices \ {a}
    /\ Erase(a)
    /\ UNCHANGED <<statusMap, thread, asked, alive, marks>>

-----------------------------------------------------------------------------
ThreadStep(j) == \/ CheckRegistered(j) \/ CopyCallbacks(j)
                 \/ TriggerWatermarkProcess(j)
                 \/ WaitAnswered(j) \/ WaitTimesOut(j) \/ ReopenCache(j)

AppStep(a) == \/ RegisterCallback(a) \/ UnregisterCallback(a)
              \/ AppDies(a) \/ OnCallbackDied(a)

Next == \/ \E j \in Jobs : OpenCache(j) \/ ThreadStep(j)
        \/ \E a \in Apps : AppStep(a)
        \/ \E r \in asked, good \in BOOLEAN : Answer(r, good)

Spec == Init /\ [][Next]_vars

\* A thread goes on, and its wait is bounded; nobody has to answer.
FairSpec == Spec /\ \A j \in Jobs : WF_vars(ThreadStep(j))

-----------------------------------------------------------------------------
(* Properties *)

\* A job whose files are about to be sent carries on each of them the mark of
\* every application that was registered all the time since
\* ProcessWatermarkForFiles found somebody registered: late answers for an
\* earlier job, other applications that come, go and die meanwhile, and
\* time-outs never let a file pass for marked by one that stayed.
MarkedByAll ==
    \A j \in Jobs : At(j, "reopen") => Files \X staying \subseteq marks

\* The thread that sends a job comes to a decision although applications die,
\* leave or never answer; and since one job is sent at a time, all later jobs
\* depend on it.
IsDecided ==
    \A j \in Jobs : ~Ended(j) ~> (At(j, "sent") \/ At(j, "failed"))
=============================================================================
