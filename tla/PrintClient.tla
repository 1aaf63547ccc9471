----------------------------- MODULE PrintClient -----------------------------
(***************************************************************************)
(* What the print client promises to the rest of the print service about   *)
(* the jobs it is given: each one waits, is sent and is monitored, in this *)
(* order, until the client is done with it at one of these places; at most *)
(* one job is sent at a time; and no job comes back.  Nothing is said of   *)
(* threads, and nothing of cupsd.                                          *)
(***************************************************************************)
CONSTANT Jobs

VARIABLE place \* where the client has each job

Init == place = [j \in Jobs |-> "none"]

Goes(j, from, to) == place[j] = from /\ place' = [place EXCEPT ![j] = to]

Accept(j) == Goes(j, "none", "waiting")

\* The job is waiting no longer: the client is done with it, or sends it.
GiveUp(j) == Goes(j, "waiting", "gone")
Send(j) == /\ \A k \in Jobs : place[k] # "sending"
           /\ Goes(j, "waiting", "sending")

Watch(j) == Goes(j, "sending", "monitored")

\* The client is done with a job it did not accept, has tried to send or has
\* monitored.
Finish(j) == \E from \in {"none", "sending", "monitored"} : Goes(j, from, "gone")

Next == \E j \in Jobs : Accept(j) \/ GiveUp(j) \/ Send(j) \/ Watch(j) \/ Finish(j)

Spec == Init /\ [][Next]_place
=============================================================================
