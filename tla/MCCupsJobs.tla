----------------------------- MODULE MCCupsJobs -----------------------------
(* Model checking of CupsJobs: the jobs that the runs choose from.           *)
EXTENDS CupsJobs

CONSTANTS j1, j2, j3

\* jobs of network printers are alike
Symmetry == Permutations(Jobs \ UsbJobs)

\* bound of the run: when all jobs have been started, no call has cancelled or
\* blocked one and none is monitored
FewJobs == \/ \E j \in Jobs : svc[j] = "new"
           \/ calls = 0 /\ monitorList = <<>>
=============================================================================
