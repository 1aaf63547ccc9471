------------------------------ MODULE Discovery ------------------------------
(***************************************************************************)
(* The discovery of printers by PrintServiceAbility: its callers, the      *)
(* thread that watches them, the vendor drivers and the print extensions.  *)
(*                                                                         *)
(* Actors: the apps, each in one call at a time that is served even after  *)
(* the app died; the monitor thread; the extensions, processes of their    *)
(* own; the handler of the service, which runs posted tasks.  A call holds *)
(* apiMutex_ and discoveryMutex_ and is one step; the monitor takes them   *)
(* for its decision only and stops the discovery without them.             *)
(*                                                                         *)
(* A start is posted to the handler with a delay (ASYNC_CMD_DELAY), a stop *)
(* without: a stop overtakes the starts that are not yet due.  Tasks of    *)
(* different extensions do not meet, so each extension has its own queue.  *)
(*                                                                         *)
(* One user; the mode of a PC, where nothing is watched or stopped, remote *)
(* discovery and the printers that are found are left out.                 *)
(***************************************************************************)
EXTENDS PrintApps, Naturals, Sequences

CONSTANTS Extensions,
          MaxConnections, \* bound: connections to one extension, and notices
          MaxTasks        \* bound: posted tasks of one extension

ASSUME BoundsAssumption == MaxConnections \in Nat /\ MaxTasks \in Nat

VARIABLES request,      \* app -> the call of it that is on its way
          discoverers,  \* apps in discoveryCallerMap_
          drivers,      \* whether the vendor drivers discover
          queued,       \* whether queuedJobList_ has a job
          watcher,      \* where DiscoveryCallerAppsMonitor is, "off": no thread
          watcherDead,  \* its deadPids
          late,         \* history: a start that found a monitor about to end
          ext,          \* extensionStateList_
          process,      \* extension -> how far its process came
          connections,  \* extension -> connections held to its process
          resets,       \* extension -> notices of death to come
          discovering,  \* extensions that discover
          tasks         \* extension -> tasks of serviceHandler_ for it

appVars == <<alive, request>>
watcherVars == <<watcher, watcherDead, late>>
extVars == <<ext, process, connections, resets, discovering, tasks>>
discoveryVars == <<appVars, discoverers, drivers, queued, watcherVars, extVars>>

ExtensionStates == {"unload", "loading", "loaded"}
Tasks == {"start", "stop"}

\* PostDiscoveryTask: after all that has been posted
PostStart(S) == tasks' = [e \in Extensions |->
                              IF e \in S THEN Append(tasks[e], "start") ELSE tasks[e]]

\* a stop is posted before the last n tasks, starts that are not yet due
Overtaken(q, n) == n <= Len(q) /\ \A i \in (Len(q) - n + 1)..Len(q) : q[i] = "start"
StopBefore(q, n) == SubSeq(q, 1, Len(q) - n) \o <<"stop">>
                    \o SubSeq(q, Len(q) - n + 1, Len(q))

HasRoom == \A e \in Extensions : Len(tasks[e]) < MaxTasks
-----------------------------------------------------------------------------
(* The calls of the apps *)

Request(a, what) ==
    /\ a \in alive /\ request[a] = "none"
    /\ request' = [request EXCEPT ![a] = what]
    /\ UNCHANGED <<alive, discoverers, drivers, queued, watcherVars, extVars>>

Serves(a, what) == request[a] = what /\ request' = [request EXCEPT ![a] = "none"]

\* external
AppDies(a) ==
    /\ Dies(a)
    /\ UNCHANGED <<request, discoverers, drivers, queued, watcherVars, extVars>>

\* those of S that are loaded are told; the others are connected, which loads
\* them unless it fails (all that are not in C)
StartExtensionDiscovery(S, C) ==
    LET loaded == {e \in S : ext[e] = "loaded"}
    IN  /\ C \subseteq S \ loaded
        /\ \A e \in C : connections[e] + resets[e] < MaxConnections
        /\ ext' = [e \in Extensions |-> IF e \in C THEN "loading" ELSE ext[e]]
        /\ process' = [e \in Extensions |-> IF e \in C /\ process[e] = "none"
                                            THEN "starting" ELSE process[e]]
        /\ connections' = [e \in Extensions |-> IF e \in C THEN connections[e] + 1
                                                ELSE connections[e]]
        /\ PostStart(loaded)
        /\ UNCHANGED <<resets, discovering>>

\* mutant: only the first caller starts the monitor
StartDiscoverPrinter_FirstOnly(a, S, C) ==
    /\ HasRoom /\ Serves(a, "start")
    /\ watcher' = IF watcher = "off" /\ discoverers = {} THEN "check" ELSE watcher
    /\ late' = (watcher \in {"extensions", "exit"} \/ (late /\ watcher # "off"))
    /\ discoverers' = discoverers \cup {a}
    /\ drivers' = TRUE
    /\ StartExtensionDiscovery(S, C)
    /\ UNCHANGED <<alive, queued, watcherDead>>

\* the monitor is started unless it runs; a caller in the background starts no
\* extension (S is empty)
StartDiscoverPrinter(a, S, C) ==
    /\ HasRoom /\ Serves(a, "start")
    /\ watcher' = IF watcher = "off" THEN "check" ELSE watcher
    /\ late' = (watcher \in {"extensions", "exit"} \/ (late /\ watcher # "off"))
    /\ discoverers' = discoverers \cup {a}
    /\ drivers' = TRUE
    /\ StartExtensionDiscovery(S, C)
    /\ UNCHANGED <<alive, queued, watcherDead>>

\* mutant: only extensions that are still loading are told
StopExtensions_Loading ==
    /\ HasRoom
    /\ \E n \in [Extensions -> 0..MaxTasks] :
          /\ \A e \in Extensions : Overtaken(tasks[e], n[e])
          /\ tasks' = [e \in Extensions |-> IF ext[e] = "loading"
                                            THEN StopBefore(tasks[e], n[e]) ELSE tasks[e]]
    /\ UNCHANGED <<ext, process, connections, resets, discovering>>

\* the second half of StopDiscoveryInternal: every extension that is loading
\* or loaded is told to stop
StopExtensions ==
    /\ HasRoom
    /\ \E n \in [Extensions -> 0..MaxTasks] :
          /\ \A e \in Extensions : Overtaken(tasks[e], n[e])
          /\ tasks' = [e \in Extensions |-> IF ext[e] # "unload"
                                            THEN StopBefore(tasks[e], n[e]) ELSE tasks[e]]
    /\ UNCHANGED <<ext, process, connections, resets, discovering>>

\* the last caller stops the discovery, unless a job is queued
StopDiscoverPrinter(a) ==
    /\ Serves(a, "stop")
    /\ discoverers' = discoverers \ {a}
    /\ \/ /\ discoverers' = {} /\ ~queued
          /\ drivers' = FALSE
          /\ StopExtensions
       \/ /\ discoverers' # {} \/ queued
          /\ UNCHANGED <<drivers, extVars>>
    /\ UNCHANGED <<alive, queued, watcherVars>>

\* every extension that is loading or loaded is told to go and disconnected
DestroyExtension ==
    /\ alive # {}
    /\ ext' = [e \in Extensions |-> "unload"]
    /\ process' = [e \in Extensions |-> "none"]
    /\ connections' = [e \in Extensions |-> 0]
    /\ discovering' = {}
    /\ UNCHANGED <<appVars, discoverers, drivers, queued, watcherVars, resets, tasks>>

\* external: queuedJobList_ has a job, or has none any more
QueueJob == /\ alive # {} /\ ~queued /\ queued' = TRUE
            /\ UNCHANGED <<appVars, discoverers, drivers, watcherVars, extVars>>
FinishJobs == /\ queued /\ queued' = FALSE
              /\ UNCHANGED <<appVars, discoverers, drivers, watcherVars, extVars>>
-----------------------------------------------------------------------------
(* The thread of DiscoveryCallerAppsMonitor *)

\* a snapshot of the callers, and which of them are dead
CheckDiscoverers ==
    /\ watcher = "check" /\ watcher' = "erase"
    /\ watcherDead' = discoverers \ alive
    /\ UNCHANGED <<appVars, discoverers, drivers, queued, late, extVars>>

\* mutant: the dead are not erased
EraseDiscoverers_KeepsDead ==
    /\ watcher = "erase" /\ watcher' = "decide"
    /\ watcherDead' = {}
    /\ UNCHANGED <<appVars, discoverers, drivers, queued, late, extVars>>

EraseDiscoverers ==
    /\ watcher = "erase" /\ watcher' = "decide"
    /\ discoverers' = discoverers \ watcherDead
    /\ watcherDead' = {}
    /\ UNCHANGED <<appVars, drivers, queued, late, extVars>>

\* under both mutexes, which are released before the discovery is stopped
DecideToStop ==
    /\ watcher = "decide"
    /\ watcher' = IF discoverers = {} /\ ~queued THEN "stop" ELSE "check"
    /\ UNCHANGED <<appVars, discoverers, drivers, queued, watcherDead, late, extVars>>

StopDrivers ==
    /\ watcher = "stop" /\ watcher' = "extensions"
    /\ drivers' = FALSE
    /\ UNCHANGED <<appVars, discoverers, queued, watcherDead, late, extVars>>

StopTheExtensions ==
    /\ watcher = "extensions" /\ watcher' = "exit"
    /\ StopExtensions
    /\ UNCHANGED <<appVars, discoverers, drivers, queued, watcherDead, late>>

\* discoveryCallerMonitorThread = false
ExitMonitor ==
    /\ watcher = "exit" /\ watcher' = "off"
    /\ UNCHANGED <<appVars, discoverers, drivers, queued, watcherDead, late, extVars>>
-----------------------------------------------------------------------------
(* The extensions and the handler *)

OthersStay == UNCHANGED <<appVars, discoverers, drivers, queued, watcherVars>>

\* the process of an extension registers its callbacks; when the service does
\* not expect that, it gives up
RegisterExtCallback(e) ==
    /\ process[e] = "starting"
    /\ process' = [process EXCEPT ![e] = IF ext[e] = "loading" THEN "registered"
                                                              ELSE "refused"]
    /\ UNCHANGED <<ext, connections, resets, discovering, tasks>> /\ OthersStay

LoadExtSuccess(e) ==
    /\ HasRoom /\ process[e] = "registered"
    /\ process' = [process EXCEPT ![e] = "up"]
    /\ \/ /\ ext[e] = "loading"
          /\ ext' = [ext EXCEPT ![e] = "loaded"]
          /\ PostStart({e})
       \/ ext[e] # "loading" /\ UNCHANGED <<ext, tasks>>
    /\ UNCHANGED <<connections, resets, discovering>> /\ OthersStay

\* external: each connection gives a notice of its death, unless the process
\* dies before it was established
DieExtension(e) ==
    /\ process[e] # "none"
    /\ process' = [process EXCEPT ![e] = "none"]
    /\ \E n \in 0..connections[e] : resets' = [resets EXCEPT ![e] = @ + n]
    /\ connections' = [connections EXCEPT ![e] = 0]
    /\ discovering' = discovering \ {e}
    /\ UNCHANGED <<ext, tasks>> /\ OthersStay

ResetExtensionState(e) ==
    /\ resets[e] > 0
    /\ resets' = [resets EXCEPT ![e] = @ - 1]
    /\ ext' = [ext EXCEPT ![e] = "unload"]
    /\ UNCHANGED <<process, connections, discovering, tasks>> /\ OthersStay

Listens(e) == process[e] \in {"registered", "up"}

\* a posted start is dropped unless the extension is loaded then
DelayStartDiscovery(e) ==
    /\ tasks[e] # <<>> /\ Head(tasks[e]) = "start"
    /\ tasks' = [tasks EXCEPT ![e] = Tail(@)]
    /\ discovering' = IF ext[e] = "loaded" /\ Listens(e) THEN discovering \cup {e}
                                                         ELSE discovering
    /\ UNCHANGED <<ext, process, connections, resets>> /\ OthersStay

PostedStop(e) ==
    /\ tasks[e] # <<>> /\ Head(tasks[e]) = "stop"
    /\ tasks' = [tasks EXCEPT ![e] = Tail(@)]
    /\ discovering' = IF Listens(e) THEN discovering \ {e} ELSE discovering
    /\ UNCHANGED <<ext, process, connections, resets>> /\ OthersStay
-----------------------------------------------------------------------------
DiscoveryInit ==
    /\ alive = Apps
    /\ request = [a \in Apps |-> "none"]
    /\ discoverers = {}
    /\ drivers = FALSE
    /\ queued = FALSE
    /\ watcher = "off"
    /\ watcherDead = {}
    /\ late = FALSE
    /\ ext = [e \in Extensions |-> "unload"]
    /\ process = [e \in Extensions |-> "none"]
    /\ connections = [e \in Extensions |-> 0]
    /\ resets = [e \in Extensions |-> 0]
    /\ discovering = {}
    /\ tasks = [e \in Extensions |-> <<>>]

ServeDiscovery(a) ==
    \/ \E S, C \in SUBSET Extensions : StartDiscoverPrinter(a, S, C)
    \/ StopDiscoverPrinter(a)

DiscoveryCallerAppsMonitor ==
    CheckDiscoverers \/ EraseDiscoverers \/ DecideToStop \/ StopDrivers
    \/ StopTheExtensions \/ ExitMonitor

ServiceHandler(e) == DelayStartDiscovery(e) \/ PostedStop(e)

Extension(e) == \/ RegisterExtCallback(e)
                \/ LoadExtSuccess(e)
                \/ DieExtension(e)
                \/ ResetExtensionState(e)

DiscoveryNext ==
    \/ \E a \in Apps : \/ \E what \in {"start", "stop"} : Request(a, what)
                       \/ AppDies(a) \/ ServeDiscovery(a)
    \/ DestroyExtension \/ QueueJob \/ FinishJobs
    \/ DiscoveryCallerAppsMonitor
    \/ \E e \in Extensions : Extension(e) \/ ServiceHandler(e)

DiscoverySpec == DiscoveryInit /\ [][DiscoveryNext]_discoveryVars

\* calls are served, the thread and the handler run, and queued jobs end
FairDiscoverySpec ==
    /\ DiscoverySpec
    /\ \A a \in Apps : WF_discoveryVars(ServeDiscovery(a))
    /\ WF_discoveryVars(DiscoveryCallerAppsMonitor)
    /\ \A e \in Extensions : WF_discoveryVars(ServiceHandler(e))
    /\ WF_discoveryVars(FinishJobs)
-----------------------------------------------------------------------------
(* Properties *)

DiscoveryTypeOK ==
    /\ alive \subseteq Apps
    /\ request \in [Apps -> {"none", "start", "stop"}]
    /\ discoverers \subseteq Apps
    /\ drivers \in BOOLEAN
    /\ queued \in BOOLEAN
    /\ watcher \in {"off", "check", "erase", "decide", "stop", "extensions", "exit"}
    /\ watcherDead \subseteq Apps
    /\ late \in BOOLEAN
    /\ ext \in [Extensions -> ExtensionStates]
    /\ process \in [Extensions -> {"none", "starting", "registered", "refused", "up"}]
    /\ connections \in [Extensions -> Nat]
    /\ resets \in [Extensions -> Nat]
    /\ discovering \subseteq Extensions
    /\ tasks \in [Extensions -> Seq(Tasks)]

\* While the drivers discover, the monitor runs and will still decide whether
\* to stop them, but for a caller that came when the monitor had stopped them
\* and was about to end (StartDiscoveryCallerMonitorThread finds it running).
DiscoveryIsWatched ==
    drivers => watcher \in {"check", "erase", "decide", "stop"} \/ late

\* When all apps are dead the monitor, if it runs, stops the drivers.
DriversStop == (alive = {} /\ watcher = "check") ~> ~drivers

\* nobody is left to call, and extension e is loaded and has no task to come
LeftAlone(e) == /\ alive = {} /\ \A a \in Apps : request[a] = "none"
                /\ ext[e] = "loaded" /\ resets[e] = 0 /\ tasks[e] = <<>>

\* The monitor also stops an extension that discovers for nobody, because the
\* stop of its last caller overtook a delayed start or came while it loaded.
ExtensionsStop ==
    \A e \in Extensions : (LeftAlone(e) /\ watcher = "check") ~> e \notin discovering
=============================================================================
