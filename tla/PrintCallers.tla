---------------------------- MODULE PrintCallers ----------------------------
(***************************************************************************)
(* PrintCallerAppMonitor of the print service: it keeps the foreground     *)
(* apps that called and counts their registrations and open print pages;   *)
(* its thread removes dead apps and unloads the service.                   *)
(*                                                                         *)
(* Actors: the apps, each in one call at a time, the monitor thread, and   *)
(* the jobs that come and go in queuedJobList_.  call[a] is what the       *)
(* service has still to do for the call of app a, one critical section of  *)
(* callerMapMutex_ for each entry.  An app may die in the middle of its    *)
(* call, which goes on.                                                    *)
(*                                                                         *)
(* A snapshot of the map and the check of its apps are one step: an app    *)
(* that is dead stays dead, and one that comes later is seen next time.    *)
(* The page that the settings app counts is not modelled.                  *)
(***************************************************************************)
EXTENDS PrintApps, Integers, Sequences, FiniteSetsExt

CONSTANTS Jobs,
          MaxCount,  \* bound: no new registration when counter_ has it
          MaxDebt,   \* bound: no job is closed when debt has it
          NoJob

ASSUME JobAssumption == NoJob \notin Jobs
ASSUME CountAssumption == MaxCount \in Nat /\ MaxDebt \in Nat

VARIABLES call,          \* app -> what is left of its call
          queuedJobs,    \* queuedJobList_
          callerMap,     \* apps in callerMap_
          own,           \* app -> counter_ of its PrintCallerAppInfo
          counter,       \* counter_ of the monitor
          printJobMap,   \* job -> "none", "counted", "uncounted" or "closed"
          delayUnload,   \* delayUnload_
          monitor,       \* where the monitor thread is
          dead,          \* its deadPids
          debt           \* history: closed jobs that had never been counted

counts == <<callerMap, own, counter, printJobMap, debt>>
monitorVars == <<monitor, dead, delayUnload>>
vars == <<alive, call, queuedJobs, counts, monitorVars>>

\* the calls that matter here
ManualStart == <<"map", NoJob>>
StartService == <<ManualStart, <<"count", NoJob>>, <<"own", NoJob>>>>
RegisterPrinterCallback == <<<<"count", NoJob>>, <<"own", NoJob>>>>
UnregisterPrinterCallback == <<<<"remove", NoJob>>>>
CallSpooler(j) == <<ManualStart, <<"count", j>>>>
NotifyPrintService(j) == <<<<"close", j>>>>

Steps == {"map", "count", "own", "remove", "close"}
Running == monitor # "off"
Does(a, what, j) == call[a] # <<>> /\ Head(call[a]) = <<what, j>>
Done(a) == call' = [call EXCEPT ![a] = Tail(@)]

\* PrintCounter::Decrement: nothing is taken when there is not enough
Decremented(n) == IF counter >= n THEN counter - n ELSE counter

\* the counts f of the apps of S are taken from c, one after the other
Taken(f, c, S) == FoldSet(LAMBDA a, n : IF n >= f[a] THEN n - f[a] ELSE n, c, S)

\* the apps leave the map with their counts
Removed(S) == /\ callerMap' = callerMap \ S
              /\ own' = [a \in Apps |-> IF a \in S THEN 0 ELSE own[a]]
-----------------------------------------------------------------------------
(* The apps *)

Call(a, steps) ==
    /\ Running /\ a \in alive /\ call[a] = <<>>
    /\ call' = [call EXCEPT ![a] = steps]
    /\ UNCHANGED <<alive, queuedJobs, counts, monitorVars>>

Die(a) ==
    /\ Running /\ Dies(a)
    /\ UNCHANGED <<call, queuedJobs, counts, monitorVars>>

\* a process in the background, or one that just died, is not added
AddCallerAppToMap(a) ==
    /\ Running /\ Does(a, "map", NoJob) /\ Done(a)
    /\ \/ /\ delayUnload' = TRUE
          /\ callerMap' = callerMap \cup {a}
       \/ UNCHANGED <<delayUnload, callerMap>>
    /\ UNCHANGED <<alive, queuedJobs, own, counter, printJobMap, debt, monitor,
                   dead>>

IncrementPrintCounter(a, j) ==
    /\ Running /\ Does(a, "count", j) /\ Done(a)
    /\ printJobMap' = IF j = NoJob THEN printJobMap
                      ELSE [printJobMap EXCEPT ![j] =
                                IF a \in callerMap THEN "counted" ELSE "uncounted"]
    /\ counter' = IF a \in callerMap THEN counter + 1 ELSE counter
    /\ UNCHANGED <<alive, queuedJobs, callerMap, own, debt, monitorVars>>

IncrementCallerAppCounter(a) ==
    /\ Running /\ Does(a, "own", NoJob) /\ Done(a)
    /\ own' = IF a \in callerMap THEN [own EXCEPT ![a] = @ + 1] ELSE own
    /\ UNCHANGED <<alive, queuedJobs, callerMap, counter, printJobMap, debt,
                   monitorVars>>

\* mutant: every close is counted, also a second one
DecrementPrintCounter_EveryClose(a, j) ==
    /\ Running /\ Does(a, "close", j) /\ Done(a)
    /\ counter' = Decremented(1)
    /\ printJobMap' = [printJobMap EXCEPT ![j] = "closed"]
    /\ debt' = IF printJobMap[j] = "uncounted" THEN debt + 1 ELSE debt
    /\ UNCHANGED <<alive, queuedJobs, callerMap, own, monitorVars>>

\* the page of a job is closed, once, whoever had opened it
DecrementPrintCounter(a, j) ==
    /\ Running /\ Does(a, "close", j) /\ Done(a)
    /\ \/ /\ printJobMap[j] \in {"counted", "uncounted"}
          /\ printJobMap' = [printJobMap EXCEPT ![j] = "closed"]
          /\ counter' = Decremented(1)
          /\ debt' = IF printJobMap[j] = "uncounted" THEN debt + 1 ELSE debt
       \/ /\ printJobMap[j] \in {"none", "closed"}
          /\ UNCHANGED <<printJobMap, counter, debt>>
    /\ UNCHANGED <<alive, queuedJobs, callerMap, own, monitorVars>>

RemoveCallerAppFromMap(a) ==
    /\ Running /\ Does(a, "remove", NoJob) /\ Done(a)
    /\ counter' = IF a \in callerMap THEN Decremented(own[a]) ELSE counter
    /\ Removed({a})
    /\ UNCHANGED <<alive, queuedJobs, printJobMap, debt, monitorVars>>

\* external: the jobs of queuedJobList_, of which PrintJobs tells
EnqueueJob(j) ==
    /\ Running /\ alive # {} /\ j \notin queuedJobs
    /\ queuedJobs' = queuedJobs \cup {j}
    /\ UNCHANGED <<alive, call, counts, monitorVars>>

\* the job ends, its entry in printJobMap_ goes
FinishJob(j) ==
    /\ Running /\ j \in queuedJobs
    /\ queuedJobs' = queuedJobs \ {j}
    /\ printJobMap' = [printJobMap EXCEPT ![j] = "none"]
    /\ UNCHANGED <<alive, call, callerMap, own, counter, debt, monitorVars>>
-----------------------------------------------------------------------------
(* The monitor thread of PrintCallerAppMonitor *)

MonitorVarsStay == UNCHANGED <<alive, call, queuedJobs, printJobMap, debt>>

\* CollectAppsSnapshot and CheckAppsLiveness
CheckAppsLiveness ==
    /\ monitor = "check" /\ monitor' = "remove"
    /\ dead' = callerMap \ alive
    /\ UNCHANGED <<callerMap, own, counter, delayUnload>> /\ MonitorVarsStay

\* one after the other, each with the whole of its count or nothing of it
RemoveDeadApps ==
    /\ monitor = "remove" /\ monitor' = "delay"
    /\ dead' = {}
    /\ counter' = Taken(own, counter, dead \cap callerMap)
    /\ Removed(dead)
    /\ UNCHANGED delayUnload /\ MonitorVarsStay

\* some seconds later: a call of an app puts the unload off by one round
ShouldDelayUnload ==
    /\ monitor = "delay"
    /\ monitor' = IF delayUnload THEN "check" ELSE "try"
    /\ delayUnload' = FALSE
    /\ UNCHANGED <<dead, callerMap, own, counter>> /\ MonitorVarsStay

\* mutant: only an empty map lets the service go
TryUnload_EmptyOnly ==
    /\ monitor = "try"
    /\ monitor' = IF callerMap = {} /\ counter = 0 THEN "unload" ELSE "check"
    /\ UNCHANGED <<dead, delayUnload, callerMap, own, counter>> /\ MonitorVarsStay

\* the decision, under the lock; it is carried out after
TryUnload ==
    /\ monitor = "try"
    /\ monitor' = IF callerMap = {} \/ counter = 0 THEN "unload" ELSE "check"
    /\ UNCHANGED <<dead, delayUnload, callerMap, own, counter>> /\ MonitorVarsStay

\* refused while a job is queued; otherwise the service ends
UnloadSystemAbility ==
    /\ monitor = "unload"
    /\ monitor' = IF queuedJobs = {} THEN "off" ELSE "check"
    /\ UNCHANGED <<dead, delayUnload, callerMap, own, counter>> /\ MonitorVarsStay
-----------------------------------------------------------------------------
Init == /\ alive = Apps
        /\ call = [a \in Apps |-> <<>>]
        /\ queuedJobs = {}
        /\ callerMap = {}
        /\ own = [a \in Apps |-> 0]
        /\ counter = 0
        /\ printJobMap = [j \in Jobs |-> "none"]
        /\ delayUnload = FALSE
        /\ monitor = "check"
        /\ dead = {}
        /\ debt = 0

NewCall(a) ==
    \/ Call(a, <<ManualStart>>)
    \/ counter < MaxCount /\ own[a] < MaxCount /\ Call(a, StartService)
    \/ counter < MaxCount /\ own[a] < MaxCount /\ Call(a, RegisterPrinterCallback)
    \/ Call(a, UnregisterPrinterCallback)
    \/ \E j \in Jobs : \/ counter < MaxCount /\ Call(a, CallSpooler(j))
                       \/ debt < MaxDebt /\ Call(a, NotifyPrintService(j))

Serve(a) ==
    \/ AddCallerAppToMap(a)
    \/ \E j \in Jobs \cup {NoJob} : IncrementPrintCounter(a, j)
    \/ IncrementCallerAppCounter(a)
    \/ \E j \in Jobs : DecrementPrintCounter(a, j)
    \/ RemoveCallerAppFromMap(a)

MonitorCallerApps == CheckAppsLiveness \/ RemoveDeadApps \/ ShouldDelayUnload
                     \/ TryUnload \/ UnloadSystemAbility

Next == \/ \E a \in Apps : NewCall(a) \/ Die(a) \/ Serve(a)
        \/ \E j \in Jobs : EnqueueJob(j) \/ FinishJob(j)
        \/ MonitorCallerApps

Spec == Init /\ [][Next]_vars

\* the threads run, calls are served, and a queued job ends
FairSpec == /\ Spec
            /\ WF_vars(MonitorCallerApps)
            /\ \A a \in Apps : WF_vars(Serve(a))
            /\ \A j \in Jobs : WF_vars(FinishJob(j))
-----------------------------------------------------------------------------
(* Properties *)

TypeOK ==
    /\ alive \subseteq Apps
    /\ call \in [Apps -> Seq(Steps \X (Jobs \cup {NoJob}))]
    /\ queuedJobs \subseteq Jobs
    /\ callerMap \subseteq Apps
    /\ own \in [Apps -> Nat]
    /\ counter \in Nat
    /\ printJobMap \in [Jobs -> {"none", "counted", "uncounted", "closed"}]
    /\ delayUnload \in BOOLEAN
    /\ monitor \in {"check", "remove", "delay", "try", "unload", "off"}
    /\ dead \subseteq Apps
    /\ debt \in Nat

Total(f, S) == MapThenSumSet(LAMBDA a : f[a], S)

\* The count of the monitor covers the registrations of the apps in its map and
\* the open pages that were counted, so no registered app is overlooked when
\* the unload is decided (TryUnload), but for jobs that were closed without
\* having been counted, as their app was in the background or died in the call.
CountCoversTheApps ==
    counter + debt >= Total(own, callerMap)
                      + Cardinality({j \in Jobs : printJobMap[j] = "counted"})

\* When all apps are dead the service is unloaded, whatever is left of counts
\* that were leaked by apps that died between two steps of a call.
UnloadedInTheEnd == (alive = {}) ~> monitor = "off"

=============================================================================
