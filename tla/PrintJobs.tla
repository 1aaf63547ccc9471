------------------------------ MODULE PrintJobs ------------------------------
(***************************************************************************)
(* The lists of print jobs that PrintServiceAbility keeps                  *)
(* (services/print_service/src/print_service_ability.cpp) and their copies *)
(* in the data of each user (print_user_data.cpp): who owns a job, where   *)
(* it is listed, and what starting, restarting, cancelling and reporting   *)
(* it do to those lists when several users are logged in, the active one   *)
(* changes, one is removed, and printers are deleted.                      *)
(*                                                                         *)
(* Every call holds apiMutex_ from its first step to its last; only the    *)
(* cancellations of a removed user's jobs and of a deleted printer's are   *)
(* loops, with a step for each job.  A call acts for a user: that of the   *)
(* calling application, or the active account when a thread of the service *)
(* itself makes it (GetCurrentUserId).  The print client is here no more   *)
(* than the place where it holds each copy of a job it was given; CupsJobs *)
(* has the details.                                                        *)
(*                                                                         *)
(* Calls call one another, so the state of the service is one record, and  *)
(* a function of the source is an operator from states to states.          *)
(* Left out: jobs of extension (eprint, remote) printers, the limit of the *)
(* history, notifications, cached files, and of printers all but deletion. *)
(***************************************************************************)
EXTENDS Naturals, FiniteSets

CONSTANTS Users,    \* local ids of the accounts
          Jobs,     \* job ids: each new job has a fresh one (GetPrintJobId)
          Printers,
          MaxJobs,  \* MAX_JOBQUEUE_NUM
          NoUser,   \* the job has no entry in userJobMap_
          NoPrinter

ASSUME UsersAssumption == Users # {} /\ NoUser \notin Users
ASSUME PrintersAssumption == NoPrinter \notin Printers
ASSUME MaxJobsAssumption == MaxJobs \in Nat

VARIABLES
    svc,      \* the state of PrintServiceAbility, a member of Service
    active,   \* the active account
    accounts, \* the accounts that exist
    removal,  \* the removal of a user that holds apiMutex_
    deletion, \* the deletion of a printer that holds apiMutex_, for its user
    running   \* the service is loaded

vars == <<svc, active, accounts, removal, deletion, running>>

-----------------------------------------------------------------------------
(* Values *)

JobStates == {"new", "PREPARED", "QUEUED", "RUNNING", "BLOCKED", "COMPLETED"}

\* What the print client is given when a job is started.  StartPrintJob may find
\* the id of a job again that was started before: that is a second copy.
Copies == Jobs \X {1, 2}

\* Where the print client has a copy: not given to it, in jobQueue_, sent, in
\* jobMonitorList_, or no more.
Places == {"none", "waiting", "sending", "monitored", "gone"}

Service ==
    [users       : SUBSET Users,                    \* keys of printUserMap_
     prepared    : SUBSET Jobs,                     \* printJobList_
     queued      : SUBSET Jobs,                     \* queuedJobList_
     owner       : [Jobs -> Users \cup {NoUser}],   \* userJobMap_
     uPrepared   : [Users -> SUBSET Jobs],          \* PrintUserData::printJobList_
     uQueued     : [Users -> SUBSET Jobs],          \* PrintUserData::queuedJobList_
     history     : [Users -> SUBSET Jobs],          \* printHistoryJobList_
     printerJobs : [Printers -> SUBSET Jobs],       \* printerJobMap_
     printer     : [Jobs -> Printers \cup {NoPrinter}], \* of the PrintJob that
     state       : [Jobs -> JobStates],             \* its user's queue shares
     blocked     : BOOLEAN,                         \* isJobQueueBlocked_
     client      : [Copies -> Places],
     leaving     : SUBSET Copies,  \* monitored copies after their last report
     told        : SUBSET Copies,  \* the monitored copies marked isCanceled
     over        : SUBSET Jobs,  \* history: the jobs that found the list full,
     stray       : SUBSET Jobs]  \* and those the caller's user had not prepared

NoLoop == [user |-> NoUser, todo |-> {}]

Init == /\ svc = [users |-> {}, prepared |-> {}, queued |-> {},
                  owner |-> [j \in Jobs |-> NoUser],
                  uPrepared |-> [u \in Users |-> {}],
                  uQueued |-> [u \in Users |-> {}],
                  history |-> [u \in Users |-> {}],
                  printerJobs |-> [p \in Printers |-> {}],
                  printer |-> [j \in Jobs |-> NoPrinter],
                  state |-> [j \in Jobs |-> "new"],
                  blocked |-> FALSE,
                  client |-> [c \in Copies |-> "none"],
                  leaving |-> {},
                  told |-> {},
                  over |-> {},
                  stray |-> {}]
        /\ active \in Users
        /\ accounts = Users
        /\ removal = NoLoop /\ deletion = NoLoop
        /\ running = TRUE

-----------------------------------------------------------------------------
(* Users *)

\* UpdatePrintUserMap and GetCurrentUserData: the user a call acts for is
\* added when it is not known yet.
AddUser(s, u) == [s EXCEPT !.users = @ \cup {u}]

\* GetUserDataByJobId looks a job up in userJobMap_, and when it is not there
\* in the histories; on the way it may add the user the call acts for.
LookUp(s, u, j) == IF s.owner[j] \in s.users THEN s ELSE AddUser(s, u)

UserDataOf(s, u, j) ==
    IF s.owner[j] # NoUser
    THEN IF s.owner[j] \in s.users THEN s.owner[j] ELSE NoUser
    ELSE LET keepers == {v \in s.users : j \in s.history[v]}
         IN  IF j \in s.history[u] THEN u
             ELSE IF keepers = {} THEN NoUser
             ELSE CHOOSE v \in keepers : TRUE

\* AddToPrintJobList: the entries of an id that is there already are kept.
AddToPrintJobList(s, u, j) ==
    [AddUser(s, u) EXCEPT !.prepared = @ \cup {j},
                          !.owner[j] = IF @ = NoUser THEN u ELSE @,
                          !.uPrepared[u] = @ \cup {j}]

-----------------------------------------------------------------------------
(* State reports: UpdatePrintJobState *)

\* mutated form: a blocked job is moved to the history, not copied
Blocked_Moves(s, v, j) == [s EXCEPT !.history[v] = @ \cup {j}, !.uQueued[v] = @ \ {j}]

\* HandleJobBlockedState: the job goes to the history of its user.
Blocked(s, v, j) == [s EXCEPT !.history[v] = @ \cup {j}]

\* mutated forms of Unlist, each keeping the job in one of the three lists
Unlist_KeepsQueued(s, v, j) ==
    [s EXCEPT !.printerJobs[s.printer[j]] = @ \ {j}, !.uQueued[v] = @ \ {j}]
Unlist_KeepsUserQueue(s, v, j) ==
    [s EXCEPT !.printerJobs[s.printer[j]] = @ \ {j}, !.queued = @ \ {j}]
Unlist_KeepsPrinterJob(s, v, j) ==
    [s EXCEPT !.uQueued[v] = @ \ {j}, !.queued = @ \ {j}]

\* A completed job leaves the lists of its printer, its user and the service.
Unlist(s, v, j) ==
    [s EXCEPT !.printerJobs[s.printer[j]] = @ \ {j},
              !.uQueued[v] = @ \ {j},
              !.queued = @ \ {j}]

\* HandleJobCompletedState.  The history it is deleted from is that of the user
\* the call acts for.
Completed(s, u, v, j) ==
    LET off == IF j \in s.uQueued[v] THEN Unlist(s, v, j) ELSE s
    IN  [AddUser(off, u) EXCEPT !.history[u] = @ \ {j}]

HasBlocked(s, v) == \E k \in s.uQueued[v] : s.state[k] = "BLOCKED"

\* mutated form: the list of the user is not searched for another blocked job
CheckJobQueueBlocked_NoSearch(s, u, j, state) ==
    [s EXCEPT !.blocked = state = "BLOCKED"]

\* The flag is one for all users; the search is in the list of the job's user.
CheckJobQueueBlocked(s, u, j, state) ==
    IF state = "BLOCKED" THEN [s EXCEPT !.blocked = TRUE]
    ELSE IF ~s.blocked THEN s
    ELSE LET s1 == LookUp(s, u, j)
             v == UserDataOf(s1, u, j)
         IN  IF v = NoUser THEN s1 ELSE [s1 EXCEPT !.blocked = HasBlocked(s1, v)]

\* CheckAndSendQueuePrintJob: a job that is not in its user's queue is searched
\* for in the history of the user the call acts for, which returns a copy.
UpdatePrintJobState(s, u, j, state) ==
    LET s1 == LookUp(s, u, j)
        v == UserDataOf(s1, u, j)
        inQueue == v # NoUser /\ j \in s1.uQueued[v]
        s2 == IF inQueue THEN [s1 EXCEPT !.state[j] = state]
                         ELSE IF v = NoUser THEN s1 ELSE AddUser(s1, u)
        s3 == IF state = "BLOCKED" THEN Blocked(s2, v, j)
              ELSE IF state = "COMPLETED" THEN Completed(s2, u, v, j)
              ELSE s2
    IN  IF inQueue \/ (v # NoUser /\ j \in s1.history[u])
        THEN CheckJobQueueBlocked(s3, u, j, state)
        ELSE s2

-----------------------------------------------------------------------------
(* Starting and cancelling *)

\* mutated form: one job less than the limit
UpdateQueuedJobList_OffByOne(s, u, j) ==
    IF j \notin s.queued /\ Cardinality(s.queued) + 1 >= MaxJobs
    THEN [s EXCEPT !.over = IF Cardinality(s.queued) >= MaxJobs THEN @ \cup {j} ELSE @]
    ELSE IF u \notin s.users \/ j \notin s.uPrepared[u]
    THEN [s EXCEPT !.queued = @ \cup {j}, !.stray = @ \cup {j}]
    ELSE [s EXCEPT !.queued = @ \cup {j},
                   !.uPrepared[u] = @ \ {j}, !.uQueued[u] = @ \cup {j}]

\* mutated form: the limit is the service's only, the user's list takes the job
UpdateQueuedJobList_UserOnly(s, u, j) ==
    LET s1 == IF j \notin s.queued /\ Cardinality(s.queued) >= MaxJobs
              THEN [s EXCEPT !.over = @ \cup {j}]
              ELSE [s EXCEPT !.queued = @ \cup {j}]
    IN  IF u \notin s.users \/ j \notin s.uPrepared[u]
        THEN [s1 EXCEPT !.stray = @ \cup {j}]
        ELSE [s1 EXCEPT !.uPrepared[u] = @ \ {j}, !.uQueued[u] = @ \cup {j}]

\* A job that finds the list full is not listed anywhere.  The user's own list
\* takes only a job that user has prepared.
UpdateQueuedJobList(s, u, j) ==
    IF j \notin s.queued /\ Cardinality(s.queued) >= MaxJobs
    THEN [s EXCEPT !.over = @ \cup {j}]
    ELSE IF u \notin s.users \/ j \notin s.uPrepared[u]
    THEN [s EXCEPT !.queued = @ \cup {j}, !.stray = @ \cup {j}]
    ELSE [s EXCEPT !.queued = @ \cup {j},
                   !.uPrepared[u] = @ \ {j}, !.uQueued[u] = @ \cup {j}]

\* mutated form: the printer does not get the job
Enqueue_NoPrinterJob(s, u, j, p) ==
    [UpdateQueuedJobList(s, u, j) EXCEPT !.printer[j] = p]

\* The steps that every start of a job has: UpdateQueuedJobList, then the
\* entry in printerJobMap_, whether or not the job was listed.
Enqueue(s, u, j, p) ==
    [UpdateQueuedJobList(s, u, j) EXCEPT !.printer[j] = p,
                                         !.printerJobs[p] = @ \cup {j}]

NextCopy(s, j) == IF s.client[<<j, 1>>] = "none" THEN <<j, 1>> ELSE <<j, 2>>

\* AddCupsPrintJob puts the job in the client's queue.  If another one is
\* being sent, the job is reported QUEUED; SendNext takes it if not.
AddCupsPrintJob(s, u, j, report) ==
    LET s1 == [s EXCEPT !.client[NextCopy(s, j)] = "waiting"]
    IN  IF report THEN UpdatePrintJobState(s1, u, j, "QUEUED") ELSE s1

\* How StartPrintJobInternal can end: a policy bans the job, and reports it or
\* not; the client cannot build its parameters; or it has the job, with the
\* report of AddCupsPrintJob or without.
Ends == {"reported", "banned", "lost", "sent", "queued"}

CanEnd(s, c, end) ==
    end = "queued" => \E d \in Copies \ {c} : s.client[d] # "none"

Started(end) == end \in {"lost", "sent", "queued"}

StartPrintJobInternal(s, u, j, end) ==
    CASE end = "reported" -> UpdatePrintJobState(s, u, j, "BLOCKED")
      [] end = "banned" -> s
      [] end = "lost" -> [s EXCEPT !.client[NextCopy(s, j)] = "gone"]
      [] end \in {"sent", "queued"} -> AddCupsPrintJob(s, u, j, end = "queued")

CopiesAt(s, j, place) == {c \in {<<j, 1>>, <<j, 2>>} : s.client[c] = place}

\* The lists of the client are searched from the front.
Older(C) == CHOOSE c \in C : \A d \in C : c[2] <= d[2]

\* A waiting copy is taken off the client's queue, or else a monitored one is
\* marked; for any other one, that is being sent or not there, "job is not exist".
CancelCupsJob(s, u, j) ==
    LET waiting == CopiesAt(s, j, "waiting")
        monitored == CopiesAt(s, j, "monitored")
    IN  IF waiting # {}
        THEN UpdatePrintJobState([s EXCEPT !.client[Older(waiting)] = "gone"],
                                 u, j, "COMPLETED")
        ELSE IF monitored # {}
        THEN [s EXCEPT !.told = @ \cup {Older(monitored)}]
        ELSE UpdatePrintJobState(s, u, j, "COMPLETED")

\* A cancelled copy of the job is listed as prepared, and the job completed;
\* the print client is not told.
SetPrintJobCanceled(s, u, j) ==
    LET s1 == LookUp(s, u, j)
        v == UserDataOf(s1, u, j)
    IN  IF v = NoUser THEN s1
        ELSE UpdatePrintJobState([s1 EXCEPT !.uPrepared[v] = @ \cup {j},
                                            !.prepared = @ \cup {j}], u, j, "COMPLETED")

CancelPrintJob(s, u, j) ==
    LET s1 == AddUser(s, u)
    IN  IF j \notin s1.uQueued[u] \cup s1.history[u] THEN s1
        ELSE IF s1.state[j] = "PREPARED" THEN SetPrintJobCanceled(s1, u, j)
        ELSE CancelCupsJob(s1, u, j)

-----------------------------------------------------------------------------
(* Calls of the applications of user u *)

\* apiMutex_ is free: no loop over jobs holds it.
CanCall == running /\ removal = NoLoop /\ deletion = NoLoop

Becomes(s) == svc' = s /\ UNCHANGED <<active, accounts, removal, deletion, running>>

\* CallSpooler: the application's job waits for the spooler to start it.
StartPrint(u, j) ==
    /\ CanCall /\ svc.state[j] = "new"
    /\ Becomes([AddToPrintJobList(svc, u, j) EXCEPT !.state[j] = "PREPARED"])

\* The job is in a queue that goes on sharing its old PrintJob.
Stays(s, u, j) ==
    \E v \in Users : j \in s.uQueued[v] /\ (v = u => j \notin s.uPrepared[u])

\* mutated form: the id stays in printJobList_
CheckPrintJob_Keeps(s, u, j) ==
    IF Stays(s, u, j) THEN s ELSE [s EXCEPT !.state[j] = "QUEUED"]

\* CheckPrintJob takes the id off printJobList_, and a new PrintJob is made of
\* what the spooler sends.
CheckPrintJob(s, u, j) ==
    [s EXCEPT !.prepared = @ \ {j},
              !.state[j] = IF Stays(s, u, j) THEN @ ELSE "QUEUED"]

\* A spooler starts a job, on the printer chosen in the preview.  Any id that is
\* in printJobList_ will do: also that of another user's job, of a job that was
\* cancelled (SetPrintJobCanceled) or of the new one of a restart.
StartPrintJob(u, j) ==
    /\ CanCall /\ j \in svc.prepared
    /\ \E p \in Printers, end \in Ends :
          LET s1 == Enqueue(CheckPrintJob(svc, u, j), u, j, p)
              s2 == IF Stays(svc, u, j) THEN [s1 EXCEPT !.printer[j] = svc.printer[j]]
                    ELSE s1
          IN  /\ CanEnd(svc, NextCopy(svc, j), end)
              /\ Becomes(StartPrintJobInternal(s2, u, j, end))

\* A native application prepares and starts its job in one call.
StartNativePrintJob(u, j) ==
    /\ CanCall /\ svc.state[j] = "new" /\ j \notin svc.prepared \cup svc.queued
    /\ \E p \in Printers, end \in Ends :
          LET s1 == [AddToPrintJobList(svc, u, j) EXCEPT !.state[j] = "PREPARED",
                                                         !.prepared = @ \ {j}]
          IN  /\ CanEnd(svc, <<j, 1>>, end)
              /\ Becomes(StartPrintJobInternal(Enqueue(s1, u, j, p), u, j, end))

\* RestartPrintJob and DoRestartPrintJob: a policy bans the old job; or its
\* documents go to a new one, and when that starts the old one is cancelled.
RestartPrintJob(u, j) ==
    /\ CanCall /\ j \in svc.uQueued[u] \cup svc.history[u]
    /\ \/ Becomes(UpdatePrintJobState(AddUser(svc, u), u, j, "BLOCKED"))
       \/ \E k \in Jobs, end \in Ends :
             LET s1 == [AddToPrintJobList(svc, u, k) EXCEPT !.state[k] = "QUEUED"]
                 s2 == StartPrintJobInternal(Enqueue(s1, u, k, svc.printer[j]), u, k, end)
             IN  /\ svc.state[k] = "new" /\ CanEnd(svc, <<k, 1>>, end)
                 /\ Becomes(IF Started(end) THEN CancelPrintJob(s2, u, j) ELSE s2)

Cancel(u, j) == CanCall /\ svc.state[j] # "new" /\ Becomes(CancelPrintJob(svc, u, j))

\* DeletePrinterFromUserData: the users with stored data, who become known, lose
\* the history of the printer.
EraseHistories(s, p, stored) ==
    [s EXCEPT !.users = @ \cup stored,
              !.history = [v \in Users |->
                  IF v \in stored THEN {j \in @[v] : s.printer[j] # p} ELSE @[v]]]

\* ContinueDeletePrinterFromCups, up to the list of jobs to cancel.  The users
\* with stored data are the known ones, who have started jobs, and perhaps the
\* other ones too.
DeletePrinter(u, p) ==
    /\ CanCall
    /\ \E stored \in {svc.users, Users} : svc' = EraseHistories(svc, p, stored)
    /\ deletion' = IF svc.printerJobs[p] = {} THEN NoLoop
                   ELSE [user |-> u, todo |-> svc.printerJobs[p]]
    /\ UNCHANGED <<active, accounts, removal, running>>

\* CancelPrintJob finds the jobs of the caller's user only.
CancelNextOfPrinter == \E j \in deletion.todo :
    /\ svc' = CancelPrintJob(svc, deletion.user, j)
    /\ deletion' = IF deletion.todo = {j} THEN NoLoop
                   ELSE [deletion EXCEPT !.todo = @ \ {j}]
    /\ UNCHANGED <<active, accounts, removal, running>>

-----------------------------------------------------------------------------
(* The print client.  Its threads act for the active account. *)

\* What a thread of the client reports of a copy, and where it then has it.
Reports(c, place, state) ==
    Becomes(UpdatePrintJobState([svc EXCEPT !.client[c] = place], active, c[1], state))

Moves(c, place) == Becomes([svc EXCEPT !.client[c] = place])

\* A sender takes the next job; it drops it, with a report or not, or registers
\* it with the monitor.
SendNext(c) == /\ CanCall /\ svc.client[c] = "waiting"
               /\ \A d \in Copies : svc.client[d] # "sending"
               /\ Moves(c, "sending")

EndSending(c) == /\ CanCall /\ svc.client[c] = "sending"
                 /\ \/ Reports(c, "gone", "BLOCKED")
                    \/ Moves(c, "gone")
                    \/ Moves(c, "monitored")

\* GetNextJob reports the last job of the queue after it has let the queue go,
\* so the report can come when the job has left it.
ReportLast(c) == /\ CanCall /\ svc.client[c] # "none" /\ CanEnd(svc, c, "queued")
                 /\ Reports(c, svc.client[c], "QUEUED")

\* The monitor reports a state, and it may be the last one before it takes the
\* job off its list; an aborted job that was cancelled leaves without a report.
Monitor(c) == /\ CanCall /\ svc.client[c] = "monitored" /\ c \notin svc.leaving
              /\ \/ \E state \in {"QUEUED", "RUNNING", "BLOCKED"} :
                       Reports(c, "monitored", state)
                 \/ \E state \in {"BLOCKED", "COMPLETED"} :
                       Becomes(UpdatePrintJobState([svc EXCEPT !.leaving = @ \cup {c}],
                                                   active, c[1], state))
                 \/ c \in svc.told /\ Moves(c, "gone")

\* jobMonitorMutex_ is all that this takes.
Drop(c) == /\ running /\ c \in svc.leaving
           /\ Becomes([svc EXCEPT !.client[c] = "gone", !.leaving = @ \ {c}])

-----------------------------------------------------------------------------
(* Accounts *)

\* The active account changes, and then the service is told of it.
SwitchAccount(u) == /\ running /\ u # active
                    /\ active' = u
                    /\ UNCHANGED <<svc, accounts, removal, deletion, running>>

\* NotifyCurrentUserChanged (GetUserDataByUserId)
UserSwitched == CanCall /\ active \notin svc.users /\ Becomes(AddUser(svc, active))

\* BlockUserPrintJobs, on a device of an enterprise when the account is switched:
\* of the jobs in the user's queue those the client has not sent yet are taken
\* off its queue and reported BLOCKED, each for its owner, the user; BLOCKED is
\* then the last report of a monitored one, as it can be without.
BlockUserPrintJobs(u) ==
    /\ CanCall /\ u \in svc.users
    /\ LET waiting == {j \in svc.uQueued[u] : CopiesAt(svc, j, "waiting") # {}}
       IN  Becomes([svc EXCEPT
               !.client = [c \in Copies |->
                   IF c[1] \in waiting /\ c = Older(CopiesAt(svc, c[1], "waiting"))
                   THEN "gone" ELSE @[c]],
               !.state = [j \in Jobs |-> IF j \in waiting THEN "BLOCKED" ELSE @[j]],
               !.history[u] = @ \cup waiting,
               !.blocked = @ \/ waiting # {}])

\* CancelUserPrintJobs: another account than the active one has been removed.
UserRemoved(u) == /\ CanCall /\ u # active
                  /\ accounts' = accounts \ {u}
                  /\ removal' = IF u \in svc.users
                                THEN [user |-> u, todo |-> svc.uQueued[u]]
                                ELSE NoLoop
                  /\ UNCHANGED <<svc, active, deletion, running>>

CancelNextOfUser == \E j \in removal.todo :
    /\ svc' = [CancelPrintJob(svc, active, j) EXCEPT !.owner[j] = NoUser]
    /\ removal' = [removal EXCEPT !.todo = @ \ {j}]
    /\ UNCHANGED <<active, accounts, deletion, running>>

\* printUserMap_.erase, and with it the data of the user
ForgetUser == /\ removal.user # NoUser /\ removal.todo = {}
              /\ svc' = [svc EXCEPT !.users = @ \ {removal.user},
                                    !.uPrepared[removal.user] = {},
                                    !.uQueued[removal.user] = {},
                                    !.history[removal.user] = {}]
              /\ removal' = NoLoop
              /\ UNCHANGED <<active, accounts, deletion, running>>

\* mutated form: only the jobs of the active account keep the service loaded
UnloadSystemAbility_OneUser == /\ CanCall /\ svc.uQueued[active] = {}
                               /\ running' = FALSE
                               /\ UNCHANGED <<svc, active, accounts, removal, deletion>>

UnloadSystemAbility == /\ CanCall /\ svc.queued = {}
                       /\ running' = FALSE
                       /\ UNCHANGED <<svc, active, accounts, removal, deletion>>

-----------------------------------------------------------------------------
Call(u, j) == \/ StartPrint(u, j)
              \/ StartPrintJob(u, j)
              \/ StartNativePrintJob(u, j)
              \/ RestartPrintJob(u, j)
              \/ Cancel(u, j)

ClientStep(c) == SendNext(c) \/ EndSending(c) \/ ReportLast(c) \/ Monitor(c) \/ Drop(c)

AccountStep == \/ \E u \in accounts : SwitchAccount(u) \/ UserRemoved(u)
               \/ UserSwitched
               \/ \E u \in Users : BlockUserPrintJobs(u)
               \/ CancelNextOfUser
               \/ ForgetUser

Next == \/ \E u \in accounts, j \in Jobs : Call(u, j)
        \/ \E u \in accounts, p \in Printers : DeletePrinter(u, p)
        \/ CancelNextOfPrinter
        \/ \E c \in Copies : ClientStep(c)
        \/ AccountStep
        \/ UnloadSystemAbility

Spec == Init /\ [][Next]_vars

-----------------------------------------------------------------------------
(* Properties *)

\* Types: an active account exists, and the user that is being removed is known
\* to the service and no longer an account.
TypeOK == /\ svc \in Service
          /\ accounts \subseteq Users
          /\ active \in accounts
          /\ removal \in [user : Users \cup {NoUser}, todo : SUBSET Jobs]
          /\ deletion \in [user : Users \cup {NoUser}, todo : SUBSET Jobs]
          /\ removal # NoLoop => removal.user \in svc.users \ accounts
          /\ running \in BOOLEAN

Owned(j) == svc.owner[j] \in svc.users

\* The list of the service and those of the users agree on the jobs that have
\* an owner, in every order of starts, reports, cancellations and removals: a
\* user lists only jobs of its own, all of them listed by the service too, and
\* the service lists no job behind its owner's back.
ListsAgree ==
    /\ \A u \in Users : \A j \in svc.uQueued[u] :
          j \in svc.queued /\ (svc.owner[j] = u \/ (removal.user = u /\ ~Owned(j)))
    /\ \A j \in svc.queued \ svc.stray : Owned(j) => j \in svc.uQueued[svc.owner[j]]

\* A listed job is among those of its printer, so that SendQueuePrintJob and
\* the deletion of the printer find it, and a printer has only jobs that are
\* listed, so that it becomes idle in the end; but for the jobs that found the
\* list full, which get a printer all the same.
PrinterKnowsItsJobs ==
    /\ \A j \in svc.queued : \E p \in Printers :
          svc.printer[j] = p /\ j \in svc.printerJobs[p]
    /\ \A p \in Printers : svc.printerJobs[p] \subseteq svc.queued \cup svc.over \cup svc.stray

Held(j) == \E n \in {1, 2} : svc.client[<<j, n>>] \in {"waiting", "sending", "monitored"}

\* A job the print client has in its hands is listed, or was completed.
HeldIsListed ==
    \A j \in Jobs : Held(j) => \/ j \in svc.queued \cup svc.over
                               \/ svc.state[j] = "COMPLETED"

\* A job leaves its user's queue only by completing, or with the user: being
\* blocked, restarted without success or reported for another user keeps it.
OnlyFinishedJobsLeave ==
    [][\A u \in Users : \A j \in svc.uQueued[u] \ svc'.uQueued[u] :
          svc'.state[j] = "COMPLETED" \/ u \notin svc'.users]_vars

\* A late report never brings a completed job back: only a call that takes its
\* id off printJobList_ starts it anew.
CompletedIsFinal ==
    [][\A j \in Jobs : svc.state[j] = "COMPLETED" =>
          svc'.state[j] = "COMPLETED" \/ j \in svc.prepared \ svc'.prepared]_vars

\* The service is not unloaded under a job: no user has a job in its queue, and
\* what the client still has in its hands was completed.
UnloadLosesNoJob ==
    [][running /\ ~running' =>
          /\ \A u \in Users : svc.uQueued[u] = {}
          /\ \A j \in Jobs \ svc.over : Held(j) => svc.state[j] = "COMPLETED"]_vars

\* An id is given to the client again only while it is in printJobList_, and never
\* a third time.
NoThirdStart == \A j \in svc.prepared : svc.client[<<j, 2>>] = "none"

\* The service has known one user at most so far.
OneUser == accounts = Users /\ \E u \in Users : svc.users \subseteq {u}

\* With one user the reports leave the flag and the history exact, in every
\* order: isJobQueueBlocked_ says whether a job in the queue is blocked, and no
\* job that has completed can be restarted from the history.
ExactForOneUser ==
    OneUser => \A u \in Users :
        /\ u \in svc.users => (svc.blocked <=> HasBlocked(svc, u))
        /\ \A j \in svc.history[u] : svc.state[j] # "COMPLETED"
=============================================================================
