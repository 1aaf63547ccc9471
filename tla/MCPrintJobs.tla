----------------------------- MODULE MCPrintJobs -----------------------------
(* Model checking of PrintJobs *)
EXTENDS PrintJobs, TLC

CONSTANTS u1, u2, j1, j2, j3, p1, p2

\* the users, the jobs and the printers are alike
Symmetry == Permutations(Users) \cup Permutations(Jobs) \cup Permutations(Printers)

Again == {j \in Jobs : svc.client[<<j, 2>>] # "none"}
In(places) == {c \in Copies : svc.client[c] \in places}

\* the active user alone is known, and nobody and nothing is removed
OneActive == /\ svc.users = {active} /\ accounts = Users
             /\ removal = NoLoop /\ deletion = NoLoop

\* bounds of the run: two jobs, of which the one known user may start one again while
\* the client has two copies in its hands;
TwoJobs == /\ \E j \in Jobs : svc.state[j] = "new"
           /\ \/ Again = {}
              \/ /\ OneActive /\ Cardinality(Again) = 1
                 /\ Cardinality(In({"waiting", "sending", "monitored"})) <= 2

\* and three jobs of one user, as long as none is started again, or can be but for
\* one that found the list full, the client was not told to cancel any, and it is
\* done with no more than one
ThreeJobs == /\ OneActive /\ Again = {} /\ svc.told = {}
             /\ \A j \in svc.prepared : svc.state[j] = "PREPARED" \/ j \in svc.over
             /\ Cardinality(In({"gone"}) \cup svc.leaving) <= 1

FewJobs == TwoJobs \/ ThreeJobs
=============================================================================
