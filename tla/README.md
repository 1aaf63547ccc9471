# OpenHarmony print framework: a TLA+ model

`print_fwk` is the printing and scanning service of OpenHarmony: a system
ability that keeps the print jobs of every user and hands them to CUPS, and one
that lends the one scanner to one application at a time and brings its pictures
back. This directory models the parts of it where several threads, calls,
processes and users meet, checks the models with TLC on small instances and
proves what matters most about them with TLAPS, for every size.

    tlc -workers 2 -config MCCupsJobs.cfg MCCupsJobs      # one run
    tlapm CupsJobsProofs.tla                              # the proofs of a module

`PROJECT.json` is the index: the parts of the system, the runs, for each
property a mutation of the code that it catches (operators called
`<Action>_<What goes wrong>`), the source lines of every definition, the
hazards of the code at their lines, the disagreement found, the theorems.

Contents: 1. the system; 2. the modules and how they relate to the code; 3. the
runs; 4. the bounds; 5. the fairness; 6. the proofs; 7. the findings; 8. what
is not modelled; 9. the plan.

## 1. The system

Paths are relative to `src/`. PSA stands for
`services/print_service/src/print_service_ability.cpp`, SSA for
`services/scan_service/src/scan_service_ability.cpp`.

### Components, their state and operations

| component | source | state | operations | module |
|---|---|---|---|---|
| print jobs | PSA | `printJobList_` (prepared), `queuedJobList_`, `jobOrderList_`, `printerJobMap_`, `userJobMap_`, `isJobQueueBlocked_`, `currentUserId_` | `StartPrint`, `StartPrintJob`, `StartNativePrintJob`, `RestartPrintJob`, `CancelPrintJob`, `UpdatePrintJobState`, `CancelUserPrintJobs`, `DeletePrinterFromCups`, `UnloadSystemAbility` | `PrintJobs` |
| per-user data | `print_user_data.cpp` | the user's prepared and queued jobs, its order list, its job history, its printers | `AddToPrintJobList`, `UpdateQueuedJobList`, `SetUserPrinter`, history files | `PrintJobs`, in part |
| CUPS print client | `print_cups_client.cpp` | `jobQueue_`, `currentJob_` with `isCanceled`; `jobMonitorList_` with flags per job, `isMonitoringRunning_` | `AddCupsPrintJob`, `StartNextJob`, `StartCupsJob`, `JobSentCallback`, `StartMonitor`, `CancelCupsJob`, `InterruptCupsJob` | `CupsJobs` |
| watermark manager | `watermark_manager.cpp` | `callbacks_`, `statusMap_` | register, unregister, `ProcessWatermarkForFiles`, `NotifyComplete`, `OnCallbackDied` | `Watermark` |
| operation queue | `operation_queue.cpp` | `opList`, `isRunning`, the worker thread | `Run`, `Stop`, `Push` | `OperationQueue` |
| event listeners | `event_listener_mgr.cpp` | listeners per event, user and job; `counter_` (limit 1000) | register, unregister, finish of a job, death | `EventListeners` |
| caller monitor (print) | `print_caller_app_monitor.cpp` | `callerMap_`, a counter for the service and one per app, `printJobMap_`, `delayUnload_` | add and remove callers and jobs, monitor thread, unload | `PrintCallers` |
| discovery and extensions | PSA | `discoveryCallerMap_`, the monitor thread of callers, `extensionStateList_`, tasks of `serviceHandler_` | `StartDiscoverPrinter`, `StopDiscoverPrinter`, loading, registration, death of extensions | `Discovery` |
| scan session | SSA, `scan_picture_data.cpp`, `caller_app_monitor.cpp` | `openedScanner_`, `scannerState_`, `pendingCleanOwner_`, `picId_`, `scanQueue_`, `scanTaskMap_`, `ownerBaseNames_`, `callerMap_` | `OpenScanner`, `CloseScanner`, `StartScan`, `CancelScan`, `GetScanProgress`, the scan task, `CleanupDeadCaller`, `CleanupScanService` | `ScanSession` |
| sane service | `sane_service_ability.cpp`, `safe_sane_api.cpp` | one `scannerHandle_`, a mutex per handle | `SaneOpen`, `SaneStart`, `SaneRead`, `SaneCancel`, `SaneClose`, unload | `SaneHandles`, and one handle in `ScanSession` |
| printer store | `print_system_data.cpp` | added and discovered printers, their files | add, update, rename, delete | - |
| vendor drivers | `vendor_*.cpp` | groups of network printers, status monitor thread | discovery, connection, status | - |
| SMB, agents | `smb_*`, `agent/`, `remote/` | hosts, agent sessions | network I/O, keep-alive | - |
| scan discovery | `scan_mdns_service.cpp`, `scan_usb_manager.cpp`, `scan_system_data.cpp` | discovered and added scanners | discovery, add, delete | - |
| frameworks, interfaces | `frameworks`, `interfaces` | none of their own | parcels, proxies, bindings | - |

### How they interact

* An application calls the print service over IPC; every call that touches a
  job holds `apiMutex_` from its first step to its last. A call starts a job,
  and the service hands it to the print client (`AddCupsPrintJob`) or cancels it
  there.
* The print client starts a detached thread for the job it sends, then
  registers the job with its one monitor thread, which asks cupsd once a round.
  Both report through `UpdatePrintJobState`, which takes `apiMutex_`: a report
  waits for the call under way, and a call can be served between any two steps
  of the threads. Before it sends, the sender has the job's files marked by the
  applications registered with the watermark manager, and waits for each.
* The account service tells when the active user changes or a user is removed
  (`print_event_subscriber.cpp`). A call acts for the user it finds current.
* Callers are counted by the caller monitor, whose thread unloads the service
  when none is left. Those that discover printers are kept apart and watched by
  a thread of their own, which stops the vendor drivers and the extensions.
  Callbacks are kept by the event listener manager and go when their process
  dies, which IPC tells, or when their job is finished.
* An application calls the scan service; every call holds `lock_`. `StartScan`
  posts a task to the service's event runner; it talks to the device, page
  after page, and takes `lock_` only for the pieces that touch the session. The
  monitor thread of the callers looks for dead processes, cleans up after each
  and unloads the service when nobody is left. `sane_service` is a process of
  its own that keeps one device handle, and serves its calls on several threads.

### The hard behaviours, and what correct means

* *Hand-over between threads (print client).* A job is passed from the queue to
  a sender to the monitor, under three mutexes; a call may cancel or block it
  anywhere on the way; a thread may end while work arrives. Correct: one job is
  sent at a time; no job is in two places; no job is in none until the client
  has disposed of it; the queue always has somebody who will take its next job,
  and the monitor leaves only when it has nothing to monitor. A cancelled job
  leaves, whatever cupsd answers.
* *Lists that must agree (print jobs).* A job is in the lists of the service,
  of its user and of its printer; a dozen handlers update them separately, for
  whoever is the current user. Correct: the lists agree on every job that has an
  owner; a job leaves only by completing; no report reopens a completed job; the
  service is not unloaded under a job.
* *Answers that come late or never (watermark).* Applications answer, come, go
  and die while a thread waits for them with a time limit. Correct: no file
  passes for marked by one that stayed and did not mark it; the thread decides.
* *Start, stop and overflow (operation queue).* `Stop` clears and joins while
  callers push and the worker runs. Correct: after `Stop` nothing runs; nothing
  survives to the next `Run`; the queue is a drop-oldest queue; everything
  accepted is executed or dropped; `Stop` returns.
* *Counts against what they count (listeners, caller monitor).* A limit and a
  decision to unload rest on a counter that is changed in other places than
  what it counts. Correct: the count of listeners is exact and the count of
  callers covers them; what the dead held goes, and a service without callers is
  unloaded.
* *Monitors that end, tasks that overtake (discovery).* A monitor thread decides
  to end while a caller comes; a stop is carried out before the start it
  answers. Correct: what discovers is watched, and is stopped when nobody is left.
* *A session that ends under its task (scan).* The application closes, leaves
  or dies while a page is read; the task goes on for a while, on shared state,
  and another application comes meanwhile. Correct: one task at a time; the
  files it makes are registered to the application that scanned them; no
  application is given another one's picture; the scanner is released from the
  dead; clean-up that was deferred is done.
* *A handle that is closed under its user (sane service).* A call looks up the
  handle, then its mutex, then calls the driver; a close comes in between.
  Correct: a call has its open handle for itself, and the unload finds nothing
  open; a close is not kept waiting for ever by a read.

`PROJECT.json` has the complete list of hazards with the line where each bites
and the properties that would catch it going wrong.

## 2. The modules

| module | what it is | code it stands for |
|---|---|---|
| `LossyQueue` | abstract: a bounded queue that is opened and closed and drops its oldest entry | - |
| `OperationQueue` | the operation queue and its worker thread | `operation_queue.cpp`, `operation_queue.h` |
| `PrintClient` | abstract: what the print client promises to the service about each job | - |
| `CupsJobs` | the print client's queue, senders and monitor, with the calls that drive them | `print_cups_client.cpp`, parts of PSA |
| `PrintJobs` | the job lists of the service and its users | PSA, `print_user_data.cpp`, `print_event_subscriber.cpp` |
| `Watermark` | the requests of a sender to the applications that mark its files | `watermark_manager.cpp` |
| `EventListeners` | registered callbacks and their count | `event_listener_mgr.cpp`, `event_callback/` |
| `PrintApps` | the applications, for the next two modules | external |
| `PrintCallers` | the callers of the print service, their counts, the unload | `print_caller_app_monitor.cpp` |
| `Discovery` | discovery: its callers, their monitor, drivers and extensions | PSA |
| `ScanSession` | the scanner session, the scan task, the monitor of callers, the sane handle | SSA, `scan_picture_data.cpp`, `caller_app_monitor.cpp`, `sane_service_ability.cpp` |
| `SaneHandles` | the threads, handles and mutexes of the sane service | `sane_service_ability.cpp`, `safe_sane_api.cpp` |
| `MC...` | instances for TLC: model values, symmetry, a constraint | - |
| `...Proofs` | the theorems about the module of that name; `MonitorProofs`: about `PrintCallers` and `Discovery` | - |

How they are composed. The print side is too large to be checked as one state
machine, so it is cut at the interface of the print client. `PrintClient` says of
each job where the client has it (`none`, `waiting`, `sending`, `monitored`,
`gone`) and which moves there are: one job sent at a time, forward only, nothing
comes back. `CupsJobs`, with its threads, implements it (`ImplementsPrintClient`).
`PrintJobs` has the places and moves of `PrintClient` for each copy of a job that
the client was given, written out beside what the client reports at each move; that
these are all the moves of `CupsJobs` is read from the two modules, not checked.

The other modules meet at facts that one shows and another one uses.
`Watermark` has one sender at work at a time, which `CupsJobs` shows
(`HandOverIsExclusive`), and `CupsJobs` takes from `Watermark` that the sender
comes to a decision (`IsDecided`). `PrintCallers` and `Discovery` look at
`queuedJobList_` only for being empty; `PrintJobs` shows what that means
(`UnloadLosesNoJob`). `ScanSession` has a sane service of one handle whose calls
return; `SaneHandles` is that service with its threads.

### OperationQueue

One action per critical section: `Run`, `StopBegin` (under the mutex) and
`StopJoin`, `Push(o)`, and the worker's `WorkerTest`, `WorkerPop`, `WorkerDone`
and `WorkerWake`. The wait of the worker is bounded
(`CHECK_OP_INTERVAL_MS`) and returns for no reason too, so that a notification
has no variable of its own: what it changes is how soon, not what. `pushed`,
`begun` and `lost` are history. The owner calls `Run` and `Stop` from one
thread, as the vendor drivers do.

### CupsJobs

Four kinds of actors. *The service call* that holds `apiMutex_`: `StartJob`,
`CancelJob` and `BlockJob` begin it, `ApiStep` carries it on through the
client (`api` is its program counter). *A sender thread* per job: `sender[j]` is
its program counter through `StartCupsJob`, `JobSentCallback` and
`StartNextJob`/`GetNextJob`; `stale[j]` is the job whose QUEUED report
`GetNextJob` makes after it released `jobMutex`. *The monitor thread*: `mon`,
with the copy of the list it goes through in a round. *cupsd*: `CupsStep`. A
step ends where a mutex is released, where another thread can see a change, and
where cupsd is asked.

`outcome` is history: how the client disposed of the job (a report, or one of
the early returns that end silently). `svc[j]` is the state of the job in the
service's list. All jobs belong to one user; who owns a job is the matter of
`PrintJobs`. `MaxCalls` bounds the calls that cancel or block.

### PrintJobs

Functions of the service call one another, so its state is one record `svc` and
a function of the code is an operator from states to states
(`UpdateQueuedJobList(s, ...)`, `UpdatePrintJobState(s, ...)`, ...) that the
actions apply in the order of the code. Every call is one action because it
holds `apiMutex_`; only the cancellations of a removed user's jobs (`removal`)
and of a deleted printer's jobs (`deletion`) take a step for each job, so that
accounts may change and the monitor may drop jobs in between. `accounts` and
`active` are the account service. A deletion may make every user known that has
stored data (`stored`). `BlockUserPrintJobs` is what an enterprise device does to
the jobs of the user it switches from; its loop is one action, which changes each
job of the user's queue that the client has not sent.

`StartPrintJob` asks of an id only that it is in `printJobList_` (`CheckPrintJob`),
as the code does. Besides a job the caller's user has prepared that may be one that
another user has prepared; the completed copy that `SetPrintJobCanceled` puts there
(PSA:2255); or the new job of a restart, which was started without being taken off
(PSA:2036). So the client may be given an id twice: `Copies` are the ids with the
number of the copy, `client`, `leaving` and `told` are about copies, and a
cancellation finds the older one. `leaving` are the copies whose last report was
made and that the monitor has not dropped yet. When the id is still in the queue of
the user, the queue goes on with the old `PrintJob` (`Stays`). New jobs
(`StartPrint`, `StartNativePrintJob`, the new job of a restart) get fresh ids, as
`PrintUtils::GetPrintJobId` makes them in the service and in the client frameworks
(`StartPrint` does not look whether it knows the id it is given). Two sets are history that no action reads:
`over`, the jobs that were started without being listed because the list was full,
and `stray`, those that were started for a user that had not prepared them.

The module leaves out the jobs of extension and remote printers, the limit of
the history, notifications, cached files, and everything about printers but the
jobs they have and their deletion. A call acts for the user of its application,
whosever job it names, or for the active account when a thread of the service makes
it.

### Watermark

`thread[j]` is the sender of job `j` in `ProcessWatermarkForFiles`: its step,
its file and the applications it has yet to ask for that file. `mutex_` is held
for the pieces between two waits; one step is one piece. The sender waits in
step `wait` and goes on when `statusMap_` has an answer or the time is over,
which may be at any moment. Senders follow one another, as `CupsJobs` shows. An
application answers a request at most once and marks a file before it says so;
the manager being enabled is a system parameter that does not change. `marks`
and `staying` are history.

### EventListeners

`held` is the map of listeners flattened into a set of entries, one per
process, event and (for job events) job. Each function runs under `mutex_` and
is one action. A process may die while a registration is on its way (`late`):
the listener is then not watched and stays, which `DeadAreForgotten` sets
apart. IPC does not merge death recipients, so an object registered for several
jobs gives several notices. The task posted for a finished job removes the
listeners of that job (`posted`). Assumed: a process belongs to one user and
registers objects of its own.

### PrintCallers

The call of an application is a list of critical sections of
`callerMapMutex_` that are still to be made (`call[a]`), and the application may
die between two. The monitor thread is split where it releases the mutex: it
collects dead processes, removes them, honours `delayUnload_`, decides and
unloads. `debt` is history: pages that were closed although their opening had
not been counted, because the application was in the background; each takes
another application's count. Process identifiers are not used again.
`RemoveDeadApps` holds the mutex over its whole loop and is one action; `Taken`
is what the loop leaves of the count, in whatever order it goes.

### Discovery

The names that `PrintCallers` has too begin with `Discovery` here, for
`MonitorProofs` is about both modules. A call that holds `apiMutex_` and `discoveryMutex_` is one step. Each extension
has the tasks of the service's handler that are for it; `StopBefore` puts a
stop, which is posted without delay, before starts that are not yet due.
`process` and `connections` are what the framework of extensions does with a
connection: the process starts, registers its callbacks, is accepted or refused,
dies, and gives at most one notice per connection (`resets`). `late` is history:
a start that found the monitor's flag set although the monitor had made its last
decision. One user; PCs, where nothing is watched, remote discovery and the
printers that are found are left out.

### ScanSession

A public call holds `lock_` from beginning to end and is one action. The scan
task is split where it takes or releases `lock_` or talks to the device:
`CreateFile` (or `CreateFileFails`), `ReadPage`, `FinishPicture`, `Restart`,
`NextPicture`, `EndTask`; `task.step` is its program counter. The monitor
thread decides (`MonitorRound`) before it acts (`CleanupDeadCaller`, and
`CleanupScanService` when nobody is left). The unload is three steps, and calls
are served before and after each: `CleanupScanService` stores READY and keeps a
task that runs, so that `tasks` is a sequence; `UnloadSaneService` closes what the
sane service has open; `ProcessEnds` is samgr ending the process, if it does. If it
does not, the service goes on without a monitor, whose thread has left its loop.

A picture stands for its identifier, its progress entry and its cached files;
`file` is the application among whose base names its image is. Progress numbers
below 100 are abstracted to "not finished". The proxy of the sane service is always
there and the backend answers. Callers without a bundle name, which the monitor
never watches, are left out.

Every circumstance is in the one specification: an application may open a scanner
while a cancelled scan winds down (`OpenScanner` does not test `scannerState_`), a
call may get `lock_` after its caller died (`LateOpen`), a cache file may not be
created, `sane_read` and not `sane_start` may say that the paper ran out. What the
code does not promise under them is told apart by history that no action reads, one
hold or picture at a time: a hold is `calm` if its application was running when it
opened the scanner, no task was there and no clean-up of its own was waiting; a
picture is `lost` if its page ended without a trace; `orphaned` is true from a
`CleanupScanService` under a task until the tasks have ended, and pictures pushed
meanwhile are `mixed`. Section 7 says what happens to the others.

### SaneHandles

Each thread of the process serves one call: `find` the handle in the slot, `lock`
its mutex, `check` that it is still registered, `call` the driver; a close takes
the slot's lock and keeps it while it waits for the handle's mutex. Mutexes are
objects that outlive their entry in the table (`shared_ptr`), so they are
numbered. `sane_open` may return the address of a closed handle again, and
`SaneExit`, which has no guard in the code either, may come while handles are open
and calls are in progress: `CleanupScanService` closes `openedScanner_` and nothing
else, while `SaneOpen` has dropped handles it replaced and the end of a scan has
re-opened one. Two history variables that no action reads tell these cases apart:
`exited` are the handles `sane_exit` closed, `latest` is the last mutex made for an
address, so that `Overtaken(t)` says that the mutex of a call is an older one. A call
is one library call or several (`GoRound`). The calls of the library return.

## 3. The runs

Passing runs, with the distinct states TLC finds:

| run | instance | what it shows | states |
|---|---|---|---|
| `operation_queue` | 5 operations, list of 2, fairness | a stopped queue is empty and nothing runs after `Stop`; every accepted operation is executed or dropped in the end; `Stop` returns; the queue implements `LossyQueue` | 15 thousand |
| `cups_jobs` | 3 jobs, one call | hand-overs are exclusive; who has work is served; no job is lost; the client implements `PrintClient` | 656 thousand, up to symmetry |
| `cups_jobs_live` | 1 job over USB, 2 calls, fairness | a sender ends; a cancelled job leaves the monitor whatever cupsd answers | 11 thousand |
| `print_jobs` | 2 users, 3 jobs, 1 printer, a list of 2 | the lists of service, user and printer agree through switches, blocks and removals of users, deletion of the printer and a full list; a held job is listed; only finished jobs leave; only a new start of its id reopens a completed job, and none is started a third time; unloading loses no job; flag and history are exact for one user | 313 thousand, up to symmetry |
| `watermark` | 2 applications, 2 jobs of 2 files, fairness | a file passes only with the marks of all that stayed; every job is decided | 213 thousand |
| `event_listeners` | 2 processes with 1 object, 4 event types, 2 jobs, at most 3 listeners, fairness | the count is exact; the dead have notices to come, and are forgotten | 258 thousand |
| `print_callers` | 2 applications, 1 job, fairness | the count covers registrations and open pages; the service is unloaded when all are dead | 863 thousand |
| `discovery` | 2 applications, 1 extension, fairness | drivers are watched while they discover; drivers and extensions stop when nobody is left | 539 thousand |
| `scan_any` | 2 applications, 2 scanners, 2 pages | one task at a time; files registered to the application that scanned them; nobody is given a foreign picture; the queue of pictures can be answered; the scanner is released from the dead; the pictures of its holder stay | 1.99 million, up to symmetry |
| `scan_live` | 2 applications, 2 scanners, 1 page, fairness | an application that dies with the scanner loses it; every scan ends | 446 thousand |
| `sane_handles` | 3 threads, 2 scanners, 2 opens, fairness | a call that was not overtaken has its handle for itself; the unload finds nothing open; a close ends although reads go round | 39 thousand |

A property is stated once, in the module of its component, with a comment that
says what it means for the code. Types (`TypeOK`) are proved, not run, where a
module has proofs.

`handle_is_not_taken` expects a violation: it checks one sentence of the
repository and is the finding of section 7.

Deadlock is checked for the operation queue, the listeners and the sane
service. In the other modules each job is started at most once, pages and calls
are bounded, and processes and users do not come back, so that a behaviour may
end where all work is done; there `CHECK_DEADLOCK FALSE` is said, and the
liveness properties show that no work is left.

## 4. The bounds

* *OperationQueue*: 5 operations over a list of 2 fill the list while one is
  executed, overflow it, and leave operations for a second `Run` after a `Stop`.
* *CupsJobs*: with two jobs one is sent or monitored while the other one waits,
  is cancelled or is registered while the monitor ends; one call blocks or
  cancels one of them anywhere. A third job adds "one sent, one waiting, one more
  queued", the case of `ReportLast`; the constraint `FewJobs` of the run goes on
  with three started jobs only while no call was made and nothing is monitored
  (the jobs of the monitor list do not interact: it is a loop). Two calls, and
  jobs over USB, are in `cups_jobs_live`, with one job. The theorems need no
  bound.
* *PrintJobs*: two users are the current one and another; two jobs are one for
  each, or two of one on the same printer. `MaxJobs` is 512 in the code: with 2
  the third job finds the list full. `FewJobs` goes on from states with two jobs, of
  which one may have been started again by the only known user, with two copies in
  the hands of the client; and from states with three jobs of one user while no id was or
  can be started again (but for a job that found the list full), the client was told
  to cancel none and is done with one at most. The theorems of `PrintJobsProofs`
  do not need it.
* *Watermark*: a second file shows that nothing is carried over from the first
  one, a second job that no late answer is taken for an answer to it, a second
  application that one is asked after the other while either leaves.
* *EventListeners*: the limit 3 (1000 in the code) is reached with a job
  callback of two jobs and one more listener; two processes are the one that
  dies and the one that goes on. `MaxTasks` bounds the posted tasks.
* *PrintCallers*: `MaxCount` bounds new registrations, `MaxDebt` the pages that
  are closed without having been counted.
* *Discovery*: two applications are the last caller and the one that comes while
  the monitor ends. Tasks of different extensions do not meet, so one extension
  suffices; two connections are one that dies and its successor, two tasks a
  start and the stop that overtakes it.
* *ScanSession*: two applications are the one whose scan winds down and the one
  that comes next, or two that leave during one wind-down; two scanners tell the
  handle of one from the other's. With two pages a batch goes through a first and a
  last page, and a scan follows another one, or joins it after the clean-up of the
  service. `picId` stays below `2 * MaxPics + 1`. The theorems need no bound.
* *SaneHandles*: three threads are one that calls, one that closes the handle
  under it and one that opens or unloads; or, with an address returned again, the
  call that was overtaken and one on the new handle. Two openings are two handles,
  one of which the slot has forgotten, or one address twice. The theorems need no
  bound.
* *Symmetry* is used over users, jobs, printers, applications and scanners in
  runs without liveness properties, where no one of them is named apart.

## 5. The fairness

* `OperationQueue!FairSpec`: the worker thread is scheduled and an operation
  returns; `join` returns when the thread has ended. The wait of the worker is
  bounded by its time-out. Nothing is assumed of callers.
* `CupsJobs!FairSpec`: a call and every thread goes on when it can. Lock orders
  do not conflict; a thread waits for `apiMutex_` only while calls come, and the
  calls of the model are bounded. Strong fairness is needed for one action: the
  monitor skips a query of an offline or busy printer (`QueryOffline`,
  `QuerySkipped`), so a query that is answered is enabled again and again and
  never continuously; it says a job's printer is not unreachable for ever. And
  cupsd ends a job whose cancellation it accepted. cupsd need not finish a job
  otherwise.
* `Watermark!FairSpec`: the thread of each job is scheduled; its wait has a time
  limit. No application has to answer, to stay or to live.
* `EventListeners!FairSpec`: IPC delivers the notices of a death.
* `PrintCallers!FairSpec`: the monitor thread runs, a call that was received is
  served to its end though its caller died, and a queued job ends. Applications
  have to do nothing.
* `Discovery!FairDiscoverySpec`: calls are served, the monitor thread runs, the handler
  runs its tasks, and queued jobs end. An extension need not start, register or
  answer.
* `ScanSession!LiveSpec`: the event runner runs the posted task and the backend
  answers a read; the monitor loops; its callbacks get `lock_`. `CreateFileFails`
  is not fair, nor is anything an application does: nobody has to close or poll.
  That samgr ends the process is not assumed either; `DeadAppLetsGo` therefore ends
  where the monitor does.
* `SaneHandles!FairSpec`: a thread goes on when it can, and a mutex is passed on.
  That a call of the library returns is an assumption about drivers.

## 6. The proofs

The theorems hold for all values of the constants that satisfy the assumptions
named in the modules, and need no others: that "none" (`NoJob`, `NoOp`,
`NoUser`, `NoPrinter`, `NoThread`, `NoScanner`, `None`) is not one of the things
it stands apart from; that the jobs over USB are jobs; that bounds are natural numbers, the capacity of the operation
queue and the number of files of a job positive ones; that there is a user;
that the events of printers and extensions are not those of jobs.

| module | theorems | what makes the invariant inductive |
|---|---|---|
| `OperationQueueProofs` | `TypeCorrect`, `StopIsQuiet`, `QueueImplementsLossyQueue`, `EachOperationOnce` | `Phases` relates the flag, the worker's program counter, the operation in its hands and the owner who joins it. The refinement needs only the types. `EachOnce` (what was accepted waits, was begun or was given up, one of the three and once) is inductive with them |
| `CupsJobsProofs` | `TypeCorrect`, `SendingIsExclusive`, `JobsAreServed`, `NoInterleavingLosesAJob`, `ClientKeepsItsPromise` | see below |
| `PrintJobsProofs` | `TypeCorrect`, `ListsAlwaysAgree`, `PrintersKnow`, `HeldJobsAreListed`, `NeverAThird`, `OnlyFinishedLeave`, `CompletedStays`, `NoJobIsUnloaded`, `ExactWithOneUser` | see below |
| `ScanSessionProofs` | `TypeCorrect`, `OneTask`, `CachedRight`, `NoForeignPictures`, `HeldResultsStay`, `HolderIsScanned`, `DeadRelease`, `QueueAnswered` | see below |
| `WatermarkProofs` | `TypeCorrect`, `FilesAreMarked` | one sender at a time (`OneAtATime`), who stays is in every copy of the callbacks (`StillThere`), what the steps before have achieved (`Progress`), and an answer in `statusMap_` is about the file at hand (`Answers`) |
| `EventListenersProofs` | `TypeCorrect`, `CountIsExact`, `DeadHaveNotices` | there is one entry per process, event and job (`OneEach`), and each is of its own process and watched (`OwnAndWatched`); `counter_` is a cardinality, which the proof follows through replacement and removal of sets |
| `MonitorProofs` | `TypeCorrect`, `CountCovers` of `PrintCallers`; `DiscoveryTypeCorrect`, `IsWatched` of `Discovery` | see below; for `Discovery` the types |
| `SaneHandlesProofs` | `TypeCorrect`, `CallsAreAlone`, `UnloadIsClean`, `LocksMakeNoCircle` | what is known, in the table or just taken out of it by a close, is open unless `sane_exit` closed it, and what is open is known (`KnownIsOpen`); the table has the last mutex of an address (`TableIsLatest`); the slot holds a registered handle; a mutex is held by a call (`HeldInCalls`); and each thread's step says what it has found and locked (`ThreadInv`). Nothing is assumed of the addresses or of the moment of `sane_exit` |

`CupsJobsProofs`, `WatermarkProofs` and `ScanSessionProofs` begin with what they
need to know of sequences (append, head, tail, the removal of an element),
without induction: `RemoveFirst` is written with a position and `SubSeq`.

*The print client.* The invariant of `CupsJobs` is

    IInv == Typed /\ OneSender /\ QueueIsServed /\ MonitorServes
                  /\ PlacesInv /\ OutcomesInv

`OneSender`, `QueueIsServed` and `MonitorServes` are inductive with the types (to
which `Typed` adds that the monitor's copy of the list is not empty while it
handles a job). That a job is in one place is not: it needs to know that a job
the service has not started is nowhere and that what the monitor has left to do
is listed (`PlacesInv`). That no job is lost needs both, and what `outcome` says
of a thread that is past a point (`OutcomesInv`: a sent job was registered or
disposed of; a registered job that was not dropped is listed; a dropped one was
disposed of; a job not yet disposed of waits or is sent). For each part there is
a lemma per actor, and under it a step per action. For the promise to the
service, `Spec => ImplementsPrintClient`, a step of a thread changes the place of
no job (`AllStay`) or of one (`OneMoves`), and each case is a step of
`PrintClient`.

*The lists of the jobs.* The state of `PrintJobs` is one record and its functions
are operators from records to records, so the proof is mostly about these:

    Good(s) == Lists(s) /\ Strict(s) /\ FreshInv(s)

says that the lists of service, users and printers fit one another and the
states of the jobs, that a user queues only jobs of its own, and that a job that
was not started is listed nowhere, so that a start cannot list it twice. `Lists`
has a part on copies (`CopiesFit`: what is in `printJobList_` was given to the client
once at most). Each operator keeps `Good` and does no more than `Advance` allows: no
completed job changes, and none leaves a queue but by completing. `StepFits` says the
same of a whole call, for all jobs but those whose id the call takes off
`printJobList_`. While a user is removed `Strict` does not hold, for the jobs whose
owner is gone are in its queue until the removal has visited them. So the
invariant of the specification is

    IInv == TypeOK /\ Lists(svc) /\ FreshInv(svc) /\ RemovalFits
                   /\ ExactTillRemoval

in which `RemovalFits` says that the jobs the removal has yet to visit are those
in the queue that the user still owns, and that all others are where they
belong. Cancelling one of them is then one of the steps `Good` was kept by,
with the record of the other users.

The last part is for `ExactForOneUser`. That says of the flag and the history
that they are exact as long as one user is known at most, which is not inductive:
a step may make a second user known. It does no harm, since known users are only
removed with their accounts: while no account was removed the set of known users
grows, so a call that ends with one user known worked with one all along. The
proof therefore carries `Exact(svc)` (for whichever user is all that is known the
flag is `HasBlocked` of that user, and each history is part of its user's queue) and
each operator carries it too, as a conjunct of `Advance`. An operator either is
`Quiet` (it leaves the flag alone, no history grows, no job becomes blocked or
free) or ends in `CheckJobQueueBlocked`, which computes the flag anew. That a history
is part of the queue is stronger than the property, in which no job of it has
completed: a report that a job is blocked copies it from the queue to the history,
and a completion erases it from both.

*The scanner session.* The invariant is

    Inv == TypeOK /\ TaskFits /\ FilesFit /\ NoForeign /\ Gone
                  /\ Calm /\ Answerable

and holds in every circumstance of the model; no theorem has a hypothesis.

* `TaskFits` relates the state of the scanner to the task and to the device: unless
  tasks are orphaned, one is there exactly while the scanner is not READY; while it
  is SCANING the application of the task holds the scanner; once it is CANCELING,
  `sane_start` is no longer in effect on the task's scanner, so a page that the task
  goes on to read fails.
* `FilesFit` says that a picture is filed under its own application, and that
  `picId_` is the picture of the task, without a file before `CreateFile` and with
  one of the task's application afterwards, unless that application has left. It is
  why the shared `picId_` is read safely outside `lock_`: only `StartScan` and the
  task move it, and there is one task. After a `CleanupScanService` under a task
  there may be two, and all pictures there are until both have ended are `mixed`.
* `NoForeign`, that a finished picture in the queue is the holder's, is not
  inductive: a page that was being read while its application left could be
  finished after another one opened the scanner. `Gone` excludes it: the
  cancellation has emptied the queue, so the page is not in it, and
  `TaskFits` excludes that a later one is read to its end.
* `Calm` says of a holder that opened in calm that it is the application of the task
  and holds its scanner (`HolderScans`), and that a clean-up of its own is put off
  only after it died, in its wind-down (`CalmHold`). This is where the one slot of
  deferred clean-ups, which others may overwrite, is seen not to hurt it.
* `Answerable` says of a picture that was pushed in a calm hold that, unless a scan
  winds down, it is the holder's, and can be answered, was lost, or is the one the
  task works on.

`HeldResultsStay`, `HolderIsScanned` and `DeadRelease` follow from `Calm`.
`HolderIsScanned` is the other side of the finding: the condition of
`HandleIsNotTaken`, a holder of another scanner than the task's, never arises for
one that opened in calm.

*The count of the callers.* `CountCoversTheApps` compares `counter_` with a sum
over the applications in the map. It is not inductive: a registration counts for
the service first and for the application in a later critical section, and in
between another step may take from the count what it seems to have to spare. The
invariant `CountsInv` counts these applications (`Pending`) too:

    counter + debt >= Total(own, callerMap) + Cardinality(Counted) + Cardinality(Pending)

For that to be kept it needs to know what can be left of a call (`Remaining`: the
count of the application follows that of the service and is the last step), that
an application outside the map has no count of its own (`OwnIsListed`), and that
the map and the counted pages are finite, which they stay since a step adds one
of them. That there are finitely many applications or jobs is not assumed.

What a sum over a finite set is, and what the loop of `RemoveDeadApps` leaves of
the count (`Taken`), are folds of the community modules, whose definition is a
recursive function on subsets. Facts about them need induction. The induction
theorems of the library have an operator as a parameter and cannot be
instantiated; `SubsetInduction` derives the principle for a *set* of good
subsets in place of a predicate, from `WFMin` (a set of numbers that is not empty
has a least one) applied to the sizes of the subsets that are not good.
`FoldExists` shows with it that the recursive definition has a solution, and the
lemmas after it that one member (`TotalRemove`) or a subset (`TotalSplit`) can be
taken out of a sum, and that the loop, which takes each count as a whole or not
at all, takes no more than their sum (`TakenIsBounded`).

*Only model-checked* is the liveness, which with `ENABLED` is out of the prover's
reach: `StopReturns`, `SenderEnds`, `CanceledLeaves`, `DriversStop`,
`ExtensionsStop`, `DeadAreForgotten`, `AcceptedIsResolved`, `UnloadedInTheEnd`,
`CloseStopsTheReader`, `DeadAppLetsGo`, `ScanEnds` and `IsDecided`. Every safety
property of a run that passes is the statement of a theorem.

## 7. Findings

`handle_is_not_taken` is a run that TLC refutes. The end of a scan closes and
re-opens its own device (SSA:1318) although another application opened another
scanner meanwhile; the sane service keeps one handle, so the new holder loses its
own. The comment at SSA:1325 says that a new application is not evicted.

More that the models show or that was seen on the way. No run is about it, but a
property of the table in section 3 is often stated around it. Three of these points
contradict the repository's own words too, which are quoted with them:
`watermark_manager.cpp:375`, PSA:977 and SSA:611.

Print client and jobs

* `CancelCupsJob` marks a job that is being sent, and the sender looks at the mark
  once. After that the cancellation is answered as done, and the job is printed
  and monitored (`print_cups_client.cpp:2700`).
* A native job that is cancelled while its state is still PREPARED is completed
  without telling the client that has it (PSA:2186).
* A job whose parameters cannot be built, or that fails to open its monitor
  connection, ends without a report (`outcome = "silent"`) and stays QUEUED in
  the service although nobody has it; `NoJobIsLost` sets these jobs apart.
* The jobs of a removed user are cancelled in the data of the user that is
  current now (PSA:2279). Those of another user are not found there: they stay in
  `queuedJobList_`, and the service refuses to be unloaded ("There are still print
  jobs being executed.").
* Deleting a printer cancels its jobs through the data of the caller (PSA:4287):
  those of other users stay listed under a printer that is gone.
* `CheckPrintJob` accepts any id in `printJobList_` (PSA:2049). A native job that was
  cancelled while PREPARED is put back there as completed (PSA:2255): a start of its
  id reopens it, and the client may get a second copy while it still prints the
  first. The new job of a restart is never taken off the list (PSA:2036) and stays
  there until somebody starts it again. A start takes the id off, so there is no third
  time (`NoThirdStart`); reports of the first copy are then taken for the second, and
  completing one completes the job.
* A job that another user has prepared and not started (`stray`) can be started too.
  It is then in `queuedJobList_` and under its printer, and in no user's queue: no
  report finds it there, nobody can cancel it, and the service refuses to be unloaded.
* With two users the flag `isJobQueueBlocked_` and the history are not exact
  (`ExactForOneUser` says "for one user" for this reason): the flag is
  recomputed from one user's jobs (PSA:3755), and a job that another user
  restarts stays in its owner's history.

Watermark, listeners, callers, discovery

* When the applications leave, waiting tasks do not "fail quickly instead of
  timing out" (`watermark_manager.cpp:375`): the wait looks at `statusMap_` only.
* `IsCallbackRegistered` is tested (line 244) and the callbacks are copied later,
  under the mutex taken again (line 196): a file passes without a mark when all
  applications have left in between. `MarkedByAll` asks for the marks of
  those that stayed.
* The task posted for a finished job removes the first listener of the job only,
  and a registration that is carried out after its process died is never removed.
* A page closed after its opening was not counted, because the application was in
  the background, takes the count of another one (`debt`).
* A start of discovery that comes after the monitor's last decision finds the
  monitor's flag set and relies on a monitor that ends (`late`), against the log
  line PSA:977 ("keep discovery running"). The monitor goes through `extensionStateList_` without
  `apiMutex_`. A notice of death that is stale when it arrives resets the state of
  an extension that is loading: its registration is refused until it dies.

Scan

* Who opens the scanner while a scan winds down is not safe (its hold is not
  `calm`). The deferred clean-up has one slot: another application that leaves
  during the same wind-down overwrites it, and the files of the first stay; if it
  dies with the scanner it may keep it. If it is the application that left
  (`ExitScan`) and came back, the end of its old task deletes its pictures and closes
  its scanner. A clean-up left behind by another one is consumed at the end of that
  one's next scan (SSA:1326), which is why `calm` asks for no waiting clean-up.
* A call of `OpenScanner` that waited for `lock_` behind the clean-up of its own dead
  caller opens the scanner for a process nobody watches; the scanner stays taken
  until the service is unloaded.
* A picture whose page ended without a trace (`lost`: a single scan whose cache file
  cannot be created, SSA:1385; a batch whose `sane_read` reports that the paper ran
  out, SSA:1373) stays in front of the queue, unfinished.
* `CleanupScanService` stores READY under a task (SSA:289) that goes on until the
  process has ended, though the comment at SSA:611 asks for BUSY until the task has
  ended. An application that is served meanwhile, or by a service whose unload
  failed (SSA:218-226), starts a second scan, whose task follows the first: the
  first one files its next page as the picture of the second. A deferred clean-up
  also survives `CleanupScanService`. A service whose unload failed has no monitor.
* An application that closes in mid-scan and dies is no longer the holder and is
  cleaned up at once; the file its task registers afterwards (`CreateFile`,
  `Restart`) stays until the service is unloaded.
* Between `MonitorRound`, which decides to unload under `callerMapMutex_`, and
  `CleanupScanService` an application can open the scanner; it loses it
  (`caller_app_monitor.cpp:124`).
* A thread of the sane service that waits for the mutex of a handle that was closed
  passes the test of the table when a new handle has the same address and a new
  mutex, and shares it with a call on the new one. `UsedAlone` says of exactly these
  calls (`Overtaken`) that they may.
* `sane_exit` waits for no call and leaves `handleMutexes_` and the slot as they are
  (`safe_sane_api.cpp:89`): a call in progress, and the closes of the later unload,
  then use handles that the library has closed (`exited`).

`OpenScanner` does not test `scannerState_`: that is the root of the finding and
of the first of these.

## 8. What is not modelled

Most lines of the repository do one of four things that a state machine has
nothing to say about, and so most of it is not in the models.

* *Forwarding and conversion*: the language bindings (`interfaces`), frameworks,
  proxies, stubs and parcels (`frameworks`), models and helpers. They keep no
  state of their own but the callbacks they pass on.
* *Input and output*: SMB, IPP, mDNS, USB, WLAN direct, the agents, the
  attributes asked of cupsd, PPD files, preferences and caches on disk.
* *A second copy*: `print_service_phone` is a reduced variant of the same service;
  what is said of PSA is said of the parts it has.
* *Formats*: rows and columns of images, page ranges, JSON, command lines.

Vendor drivers, cupsd, the extension framework and the sane backends are
external: what the code relies on are actions of the modules that use them
(`CupsStep`, `QueryAnswered`, the processes of `Discovery`, the outcomes of
`ReadPage`).

Of the parts with a state of their own these are left out.

* *Extension jobs*: the start is posted with a delay (PSA:5338) and re-opens the
  shared object of a job that was cancelled meanwhile; the time-out (PSA:4017)
  cancels through the data of the current user and races with the last report.
* *The connection of printers* by vendors. Seen while reading: the name and the
  protocol are those of whatever connection is current (PSA:4942-4951); a
  completion clears the slot of another one (PSA:5081, PSA:5157); a failed query
  leaves "is Querying" behind (PSA:6230); groups match addresses by substring
  (`vendor_manager.cpp:438-456`).
* *The settings page* in `PrintCallers`, which only reads; PCs and remote
  discovery in `Discovery`; discovery, options and export in `ScanSession`; and
  *the loading and death of the sane service* (`sane_manager_client.cpp:84`).

## 9. The plan

Done: the operation queue, its abstraction and proofs; the print client, its
promise and proofs; the lists of jobs with the removal of users and the deletion
of printers, and proofs; the sane service, the listeners, discovery, the callers,
the watermark manager and the scanner session, all with proofs.

Next, with the properties each is for:

1. Extension jobs in `PrintJobs`, with the time-out and the delayed start: a job
   that was cancelled does not start, one that ended does not time out; and the
   history as a module (a limit per printer, written for the owner and read for
   the current user).
2. The link to the sane service: loading, time-out, death, and handles that died
   with it; `ScanSession` over it.
3. The printer store (memory and file agree after each step that may fail) and
   the vendor manager's status monitor.
4. Scan discovery: found and added scanners.
5. Pure functions (image rows, page ranges, progress) as operators against a
   reference definition, in modules that only TLC uses.
