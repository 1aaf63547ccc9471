--------------------------- MODULE PrintJobsProofs ---------------------------
(***************************************************************************)
(* Proofs about PrintJobs, for every set of users, jobs and printers and   *)
(* every limit of the queue.                                               *)
(*                                                                         *)
(* The state of the service is one record and its functions are operators  *)
(* from records to records, so most of the proof is about records: Good    *)
(* (the lists fit one another, each user queues only jobs of its own, and  *)
(* fresh jobs are nowhere yet) is kept by every operator, and none of them *)
(* does more than Advance allows, but for the start of a listed job.  An   *)
(* operator that updates several fields has a lemma of its own, ...Fields, *)
(* that says what it leaves alone.                                         *)
(*                                                                         *)
(* Advance also says that a call leaves the flag and the history exact     *)
(* when they were and one user is known: Exact, whose section comes before *)
(* that of the invariant.                                                  *)
(*                                                                         *)
(* Good does not hold while a user is removed: the jobs that have lost     *)
(* their owner are in the queue of the user still.  IInv keeps the parts   *)
(* that do hold and says which jobs the removal has still to visit.        *)
(***************************************************************************)
EXTENDS PrintJobs, TLAPS

-----------------------------------------------------------------------------
(* What the operators leave alone *)

ReportStates == {"QUEUED", "RUNNING", "BLOCKED", "COMPLETED"}

\* Held, of a record
HeldIn(s, j) == \E n \in {1, 2} : s.client[<<j, n>>] \in {"waiting", "sending", "monitored"}

\* A job that has not been started yet.
Fresh(s, j) == s.state[j] = "new" \/ (s.state[j] = "PREPARED" /\ j \in s.prepared)

\* All fields but the users, the lists, the histories, the states and the flag.
SameButState(s, t) ==
    /\ t.prepared = s.prepared /\ t.owner = s.owner /\ t.uPrepared = s.uPrepared
    /\ t.printer = s.printer /\ t.client = s.client
    /\ t.leaving = s.leaving /\ t.told = s.told
    /\ t.over = s.over /\ t.stray = s.stray

SameLists(s, t) ==
    /\ t.queued = s.queued /\ t.uQueued = s.uQueued /\ t.printerJobs = s.printerJobs

\* Job j left the lists of the service, of user v and of its printer.
Without(s, t, v, j) ==
    /\ t.queued = s.queued \ {j}
    /\ t.uQueued = [s.uQueued EXCEPT ![v] = @ \ {j}]
    /\ t.printerJobs = [s.printerJobs EXCEPT ![s.printer[j]] = @ \ {j}]

\* AddUser touches only the users.
LEMMA AddUserFields ==
    ASSUME NEW s \in Service, NEW u \in Users
    PROVE  LET t == AddUser(s, u) IN
           /\ t \in Service
           /\ t.users = s.users \cup {u}
           /\ SameButState(s, t) /\ SameLists(s, t)
           /\ t.state = s.state /\ t.history = s.history /\ t.blocked = s.blocked
  BY DEF AddUser, Service, SameButState, SameLists

\* Unlist touches only the three lists.
LEMMA UnlistFields ==
    ASSUME NEW s \in Service, NEW v \in Users, NEW j \in Jobs, s.printer[j] \in Printers
    PROVE  LET t == Unlist(s, v, j) IN
           /\ t \in Service
           /\ SameButState(s, t)
           /\ t.users = s.users /\ t.state = s.state /\ t.history = s.history
           /\ Without(s, t, v, j)
  BY DEF Unlist, Service, SameButState, Without

-----------------------------------------------------------------------------
(* The invariant, of the record *)

\* The list of the service and those of the users.
UserLists(s) ==
    /\ \A w \in Users : \A j \in s.uQueued[w] :
          w \in s.users /\ j \in s.queued /\ s.owner[j] \in {w, NoUser}
    /\ \A j \in s.queued \ s.stray : s.owner[j] # NoUser => j \in s.uQueued[s.owner[j]]
    /\ \A w \in Users : \A j \in s.uPrepared[w] : s.owner[j] = w

\* The list of the service and those of the printers.
PrinterLists(s) ==
    /\ \A j \in s.queued : s.printer[j] \in Printers /\ j \in s.printerJobs[s.printer[j]]
    /\ \A p \in Printers : \A j \in s.printerJobs[p] :
          (s.printer[j] = p /\ j \in s.queued) \/ j \in s.over \cup s.stray

\* Where a job can be in each of its states.
StatesFit(s) ==
    /\ \A j \in Jobs : HeldIn(s, j) => j \in s.queued \cup s.over \/ s.state[j] = "COMPLETED"
    /\ \A j \in s.queued : s.state[j] # "COMPLETED"
    /\ \A w \in Users : \A j \in s.history[w] :
          /\ s.state[j] \notin {"new", "PREPARED"} /\ s.owner[j] \in {w, NoUser}
          /\ s.printer[j] \in Printers

\* A job that can be started again has one copy at most, and the monitor drops
\* only copies that it has.
CopiesFit(s) ==
    /\ \A j \in Jobs : j \in s.prepared \/ s.state[j] \in {"new", "PREPARED"} =>
          s.client[<<j, 2>>] = "none"
    /\ \A c \in s.leaving : s.client[c] = "monitored"

\* A fresh job is listed nowhere, and no user has a job both prepared and queued.
FreshJob(s, j) ==
    /\ Fresh(s, j) =>
         /\ j \notin s.queued \cup s.over \cup s.stray
         /\ s.client[<<j, 1>>] = "none" /\ s.client[<<j, 2>>] = "none"
    /\ s.state[j] = "new" =>
         /\ s.owner[j] = NoUser /\ j \notin s.prepared
         /\ \A w \in Users : j \notin s.uPrepared[w]
    /\ \A w \in Users : j \in s.uPrepared[w] => j \notin s.uQueued[w]

FreshInv(s) == \A j \in Jobs : FreshJob(s, j)

Lists(s) == /\ s \in Service /\ UserLists(s) /\ PrinterLists(s) /\ StatesFit(s)
            /\ CopiesFit(s)

\* What holds but for the removal of a user.
Strict(s) == \A w \in Users : \A j \in s.uQueued[w] : s.owner[j] = w

Good(s) == Lists(s) /\ Strict(s) /\ FreshInv(s)

\* The owner of the job has it in its queue.
Listed(s, j) == s.owner[j] # NoUser /\ j \in s.uQueued[s.owner[j]]

\* What UpdatePrintJobState may have done when it leads from s to t.
Reported(s, t, u, j, state) ==
    /\ t \in Service /\ SameButState(s, t)
    /\ s.users \subseteq t.users /\ t.users \subseteq s.users \cup {u}
    /\ \A k \in Jobs \ {j} : t.state[k] = s.state[k]
    /\ \/ ~Listed(s, j) /\ SameLists(s, t) /\ t.state[j] = s.state[j]
          /\ \A w \in Users : t.history[w] \subseteq s.history[w]
       \/ /\ Listed(s, j) /\ t.state[j] = state
          /\ \A w \in Users : t.history[w] \subseteq s.history[w]
                     \cup (IF w = s.owner[j] /\ state = "BLOCKED" THEN {j} ELSE {})
          /\ state # "COMPLETED" => SameLists(s, t)
          /\ state = "COMPLETED" => Without(s, t, s.owner[j], j)

\* HandleJobCompletedState takes the job off the lists, if its user has it, and
\* may shorten a history.
LEMMA CompletedFields ==
    ASSUME NEW s \in Service, NEW u \in Users, NEW v \in Users, NEW j \in Jobs,
           s.printer[j] \in Printers
    PROVE  LET t == Completed(s, u, v, j) IN
           /\ t \in Service /\ SameButState(s, t) /\ t.state = s.state
           /\ t.users = s.users \cup {u}
           /\ \A w \in Users : t.history[w] \subseteq s.history[w]
           /\ j \notin s.uQueued[v] => SameLists(s, t)
           /\ j \in s.uQueued[v] => Without(s, t, v, j)
<1> DEFINE off == IF j \in s.uQueued[v] THEN Unlist(s, v, j) ELSE s
           add == AddUser(off, u)
<1>1. off \in Service /\ SameButState(s, off) /\ off.state = s.state /\ off.users = s.users
      /\ off.history = s.history
  BY UnlistFields DEF SameButState
<1>2. add \in Service /\ SameButState(off, add) /\ SameLists(off, add)
      /\ add.state = s.state /\ add.history = s.history /\ add.users = s.users \cup {u}
  BY <1>1, AddUserFields
<1>3. Completed(s, u, v, j) = [add EXCEPT !.history[u] = @ \ {j}]
  BY DEF Completed
<1> DEFINE t == [add EXCEPT !.history[u] = @ \ {j}]
<1> HIDE DEF add
<1>4. /\ t \in Service /\ SameButState(add, t) /\ SameLists(add, t) /\ t.state = add.state
      /\ t.users = add.users /\ \A w \in Users : t.history[w] \subseteq add.history[w]
  BY <1>2 DEF Service, SameButState, SameLists
<1>5. SameButState(s, t)
  BY <1>1, <1>2, <1>4 DEF SameButState
<1> HIDE DEF t
<1>6. ASSUME j \notin s.uQueued[v]
      PROVE  SameLists(s, t)
  BY <1>2, <1>4, <1>6 DEF SameLists
<1>7. ASSUME j \in s.uQueued[v]
      PROVE  Without(s, t, v, j)
  <2>1. off = Unlist(s, v, j)
    BY <1>7
  <2> HIDE DEF off
  <2> QED
    BY <1>2, <1>4, <2>1, UnlistFields DEF SameLists, Without
<1> QED
  BY <1>1, <1>2, <1>3, <1>4, <1>5, <1>6, <1>7 DEF t

\* HandleJobBlockedState adds the job to the history of its user.
LEMMA BlockedFields ==
    ASSUME NEW s \in Service, NEW v \in Users, NEW j \in Jobs
    PROVE  LET t == Blocked(s, v, j) IN
           /\ t \in Service /\ SameButState(s, t) /\ SameLists(s, t)
           /\ t.state = s.state /\ t.users = s.users
           /\ t.history = [s.history EXCEPT ![v] = @ \cup {j}]
  BY DEF Blocked, Service, SameButState, SameLists

\* The state that a report gives a job is all that it changes of it.
LEMMA StateFields ==
    ASSUME NEW s \in Service, NEW j \in Jobs, NEW state \in ReportStates
    PROVE  LET t == [s EXCEPT !.state[j] = state] IN
           /\ t \in Service /\ SameButState(s, t) /\ SameLists(s, t)
           /\ t.users = s.users /\ t.history = s.history
           /\ t.state = [s.state EXCEPT ![j] = state]
  BY DEF Service, SameButState, SameLists, ReportStates, JobStates

\* HandleJobCompletedState of a job that its user does not have in the queue: no
\* printer needs to be known.
LEMMA CompletedQuiet ==
    ASSUME NEW s \in Service, NEW u \in Users, NEW v \in Users, NEW j \in Jobs,
           j \notin s.uQueued[v]
    PROVE  LET t == Completed(s, u, v, j) IN
           /\ t \in Service /\ SameButState(s, t) /\ SameLists(s, t) /\ t.state = s.state
           /\ t.users = s.users \cup {u}
           /\ \A w \in Users : t.history[w] \subseteq s.history[w]
<1> DEFINE add == AddUser(s, u)
           t == [add EXCEPT !.history[u] = @ \ {j}]
<1>1. add \in Service /\ SameButState(s, add) /\ SameLists(s, add)
      /\ add.state = s.state /\ add.history = s.history /\ add.users = s.users \cup {u}
  BY AddUserFields
<1>2. Completed(s, u, v, j) = t
  BY DEF Completed
<1> HIDE DEF add
<1>3. /\ t \in Service /\ SameButState(add, t) /\ SameLists(add, t) /\ t.state = add.state
      /\ t.users = add.users /\ \A w \in Users : t.history[w] \subseteq add.history[w]
  BY <1>1 DEF Service, SameButState, SameLists
<1> HIDE DEF t
<1>4. /\ t \in Service /\ SameButState(s, t) /\ SameLists(s, t) /\ t.state = s.state
      /\ t.users = s.users \cup {u}
      /\ \A w \in Users : t.history[w] \subseteq s.history[w]
  BY <1>1, <1>3 DEF SameButState, SameLists
<1> QED
  BY <1>2, <1>4

\* The user an entry of userJobMap_ leads to, when the lists fit.
LEMMA LookUpFields ==
    ASSUME NEW s \in Service, NEW u \in Users, NEW j \in Jobs
    PROVE  /\ LookUp(s, u, j) \in Service
           /\ SameButState(s, LookUp(s, u, j)) /\ SameLists(s, LookUp(s, u, j))
           /\ LookUp(s, u, j).state = s.state /\ LookUp(s, u, j).history = s.history
           /\ LookUp(s, u, j).blocked = s.blocked
           /\ s.users \subseteq LookUp(s, u, j).users
           /\ LookUp(s, u, j).users \subseteq s.users \cup {u}
  BY AddUserFields DEF LookUp, SameButState, SameLists

\* A listed job is found in the data of its owner, and one that is not listed in
\* no queue at all.
LEMMA UserDataIs ==
    ASSUME NEW s \in Service, NEW u \in Users, NEW j \in Jobs,
           UserLists(s), Strict(s), StatesFit(s)
    PROVE  LET r == LookUp(s, u, j)
               v == UserDataOf(r, u, j)
           IN  /\ v \in Users \cup {NoUser}
               /\ Listed(s, j) => v = s.owner[j] /\ v \in Users /\ j \in r.uQueued[v]
               /\ ~Listed(s, j) /\ v # NoUser =>
                     j \notin r.uQueued[v] /\ (j \in r.history[u] => v = u)
<1> DEFINE r == LookUp(s, u, j)
           v == UserDataOf(r, u, j)
<1> SUFFICES /\ v \in Users \cup {NoUser}
             /\ Listed(s, j) => v = s.owner[j] /\ v \in Users /\ j \in r.uQueued[v]
             /\ ~Listed(s, j) /\ v # NoUser =>
                   j \notin r.uQueued[v] /\ (j \in r.history[u] => v = u)
  OBVIOUS
<1>1. /\ r \in Service /\ r.owner = s.owner /\ r.uQueued = s.uQueued /\ r.history = s.history
      /\ s.users \subseteq r.users /\ r.users \subseteq s.users \cup {u}
  BY LookUpFields DEF SameButState, SameLists
<1> HIDE DEF r
<1>2. CASE s.owner[j] # NoUser
  <2>1. v = IF s.owner[j] \in r.users THEN s.owner[j] ELSE NoUser
    BY <1>1, <1>2 DEF UserDataOf
  <2>2. s.owner[j] \in Users
    BY <1>2 DEF Service
  <2>3. Listed(s, j) => s.owner[j] \in r.users
    BY <1>1, <1>2, <2>2 DEF Listed, UserLists
  <2>4. j \in s.history[u] => s.owner[j] = u
    BY <1>2 DEF StatesFit
  <2> HIDE DEF v
  <2> QED
    BY <1>1, <1>2, <2>1, <2>2, <2>3, <2>4 DEF Listed
<1>3. CASE s.owner[j] = NoUser
  <2> DEFINE keepers == {w \in r.users : j \in r.history[w]}
  <2>1. v = IF j \in r.history[u] THEN u
            ELSE IF keepers = {} THEN NoUser ELSE CHOOSE w \in keepers : TRUE
    BY <1>1, <1>3 DEF UserDataOf
  <2>2. keepers \subseteq Users
    BY <1>1 DEF Service
  <2>3. v \in Users \cup {NoUser}
    <3> HIDE DEF keepers
    <3> QED BY <2>1, <2>2
  <2>4. \A w \in Users : j \notin s.uQueued[w]
    BY <1>3, UsersAssumption DEF Strict
  <2>5. j \in r.history[u] => v = u
    BY <2>1
  <2> HIDE DEF v
  <2> QED
    BY <1>1, <1>3, <2>3, <2>4, <2>5, UsersAssumption DEF Listed
<1> QED
  BY <1>2, <1>3

\* CheckJobQueueBlocked touches only the flag and the users.
LEMMA CheckFields ==
    ASSUME NEW s \in Service, NEW u \in Users, NEW j \in Jobs, NEW state
    PROVE  LET t == CheckJobQueueBlocked(s, u, j, state) IN
           /\ t \in Service
           /\ SameButState(s, t) /\ SameLists(s, t)
           /\ t.state = s.state /\ t.history = s.history
           /\ s.users \subseteq t.users /\ t.users \subseteq s.users \cup {u}
<1>1. \A b \in BOOLEAN : \A r \in Service :
         /\ [r EXCEPT !.blocked = b] \in Service
         /\ SameButState(r, [r EXCEPT !.blocked = b]) /\ SameLists(r, [r EXCEPT !.blocked = b])
         /\ [r EXCEPT !.blocked = b].state = r.state
         /\ [r EXCEPT !.blocked = b].history = r.history
         /\ [r EXCEPT !.blocked = b].users = r.users
  BY DEF Service, SameButState, SameLists
<1> DEFINE r == LookUp(s, u, j)
           v == UserDataOf(r, u, j)
<1>2. HasBlocked(r, v) \in BOOLEAN
  BY DEF HasBlocked
<1>3. SameButState(s, s) /\ SameLists(s, s)
  BY DEF SameButState, SameLists
<1>4. CheckJobQueueBlocked(s, u, j, state) \in
         {s, r, [s EXCEPT !.blocked = TRUE], [r EXCEPT !.blocked = HasBlocked(r, v)]}
  BY DEF CheckJobQueueBlocked
<1>5. r \in Service /\ SameButState(s, r) /\ SameLists(s, r) /\ r.state = s.state
      /\ r.history = s.history /\ s.users \subseteq r.users /\ r.users \subseteq s.users \cup {u}
  BY LookUpFields
<1> HIDE DEF r
<1>6. CASE CheckJobQueueBlocked(s, u, j, state) = s
  BY <1>3, <1>6
<1>7. CASE CheckJobQueueBlocked(s, u, j, state) = r
  BY <1>5, <1>7
<1>8. CASE CheckJobQueueBlocked(s, u, j, state) = [s EXCEPT !.blocked = TRUE]
  BY <1>1, <1>8
<1>9. CASE CheckJobQueueBlocked(s, u, j, state) = [r EXCEPT !.blocked = HasBlocked(r, v)]
  <2> DEFINE b == HasBlocked(r, v)
  <2> HIDE DEF b
  <2>1. b \in BOOLEAN
    BY <1>2 DEF b
  <2> DEFINE t == [r EXCEPT !.blocked = b]
  <2>2. /\ t \in Service /\ SameButState(r, t) /\ SameLists(r, t)
        /\ t.state = r.state /\ t.history = r.history /\ t.users = r.users
    BY <1>1, <1>5, <2>1
  <2>3. CheckJobQueueBlocked(s, u, j, state) = t
    BY <1>9 DEF b
  <2> HIDE DEF t
  <2> QED
    BY <1>5, <2>2, <2>3 DEF SameButState, SameLists
<1> QED
  BY <1>4, <1>6, <1>7, <1>8, <1>9

\* What a report does, when the lists fit.
LEMMA ReportIs ==
    ASSUME NEW s \in Service, NEW u \in Users, NEW j \in Jobs, NEW state \in ReportStates,
           Lists(s), Strict(s)
    PROVE  Reported(s, UpdatePrintJobState(s, u, j, state), u, j, state)
<1> DEFINE s1 == LookUp(s, u, j)
           v == UserDataOf(s1, u, j)
           inQueue == v # NoUser /\ j \in s1.uQueued[v]
           s2 == IF inQueue THEN [s1 EXCEPT !.state[j] = state]
                 ELSE IF v = NoUser THEN s1 ELSE AddUser(s1, u)
           s3 == IF state = "BLOCKED" THEN Blocked(s2, v, j)
                 ELSE IF state = "COMPLETED" THEN Completed(s2, u, v, j)
                 ELSE s2
           t == UpdatePrintJobState(s, u, j, state)
<1>1. t = IF inQueue \/ (v # NoUser /\ j \in s1.history[u])
          THEN CheckJobQueueBlocked(s3, u, j, state) ELSE s2
  BY DEF UpdatePrintJobState
<1>2. /\ s1 \in Service /\ SameButState(s, s1) /\ SameLists(s, s1)
      /\ s1.state = s.state /\ s1.history = s.history
      /\ s.users \subseteq s1.users /\ s1.users \subseteq s.users \cup {u}
  BY LookUpFields
<1>3. /\ v \in Users \cup {NoUser}
      /\ Listed(s, j) => v = s.owner[j] /\ v \in Users /\ j \in s1.uQueued[v]
      /\ ~Listed(s, j) /\ v # NoUser =>
             j \notin s1.uQueued[v] /\ (j \in s1.history[u] => v = u)
  BY UserDataIs DEF Lists
<1> HIDE DEF s1, v
<1>4. CASE Listed(s, j)
  <2>1. inQueue /\ v = s.owner[j] /\ v \in Users
    BY <1>3, <1>4 DEF Listed
  <2> HIDE DEF inQueue
  <2>2. s2 = [s1 EXCEPT !.state[j] = state]
    BY <2>1
  <2> HIDE DEF s2
  <2>3. /\ s2 \in Service /\ SameButState(s1, s2) /\ SameLists(s1, s2)
        /\ s2.users = s1.users /\ s2.history = s1.history
        /\ s2.state = [s1.state EXCEPT ![j] = state]
    BY <1>2, <2>2, StateFields
  <2>4. j \in s2.uQueued[v] /\ s2.printer[j] = s.printer[j] /\ s.printer[j] \in Printers
    BY <1>2, <1>3, <1>4, <2>1, <2>3 DEF SameLists, SameButState, Lists, PrinterLists, UserLists
  <2> DEFINE Step(r) ==
        /\ r \in Service /\ SameButState(s2, r) /\ r.state = s2.state
        /\ s2.users \subseteq r.users /\ r.users \subseteq s2.users \cup {u}
        /\ \A w \in Users : r.history[w] \subseteq s2.history[w]
                   \cup (IF w = v /\ state = "BLOCKED" THEN {j} ELSE {})
        /\ state # "COMPLETED" => SameLists(s2, r)
        /\ state = "COMPLETED" => Without(s2, r, v, j)
  <2>5. Step(s3)
    <3>1. CASE state = "BLOCKED"
      <4>1. s3 = Blocked(s2, v, j)
        BY <3>1
      <4> HIDE DEF s3
      <4>2. /\ s3 \in Service /\ SameButState(s2, s3) /\ s3.state = s2.state
            /\ s3.users = s2.users /\ SameLists(s2, s3)
            /\ s3.history = [s2.history EXCEPT ![v] = @ \cup {j}]
        BY <4>1, <2>1, <2>3, BlockedFields
      <4>3. s2.history \in [Users -> SUBSET Jobs]
        BY <2>3 DEF Service
      <4> QED
        BY <4>2, <4>3, <3>1
    <3>2. CASE state = "COMPLETED"
      <4>1. s3 = Completed(s2, u, v, j)
        BY <3>2
      <4> HIDE DEF s3
      <4> QED
        BY <4>1, <3>2, <2>1, <2>3, <2>4, CompletedFields
    <3>3. CASE state \notin {"BLOCKED", "COMPLETED"}
      <4>1. s3 = s2
        BY <3>3
      <4> HIDE DEF s3
      <4> QED
        BY <4>1, <3>3, <2>3 DEF SameButState, SameLists
    <3> QED
      BY <3>1, <3>2, <3>3
  <2> HIDE DEF s3
  <2>6. t = CheckJobQueueBlocked(s3, u, j, state)
    BY <1>1, <2>1
  <2>7. /\ t \in Service /\ SameButState(s3, t) /\ SameLists(s3, t)
        /\ t.state = s3.state /\ t.history = s3.history
        /\ s3.users \subseteq t.users /\ t.users \subseteq s3.users \cup {u}
    BY <2>5, <2>6, CheckFields
  <2> HIDE DEF t
  <2>8. t \in Service /\ SameButState(s, t)
    BY <1>2, <2>3, <2>5, <2>7 DEF SameButState
  <2>9. s.users \subseteq t.users /\ t.users \subseteq s.users \cup {u}
    BY <1>2, <2>3, <2>5, <2>7
  <2>10. t.state[j] = state /\ \A k \in Jobs \ {j} : t.state[k] = s.state[k]
    BY <1>2, <2>3, <2>5, <2>7 DEF Service
  <2>11. \A w \in Users : t.history[w] \subseteq s.history[w]
                   \cup (IF w = s.owner[j] /\ state = "BLOCKED" THEN {j} ELSE {})
    BY <1>2, <2>1, <2>3, <2>5, <2>7
  <2>12. state # "COMPLETED" => SameLists(s, t)
    BY <1>2, <2>3, <2>5, <2>7 DEF SameLists
  <2>13. state = "COMPLETED" => Without(s, t, s.owner[j], j)
    BY <1>2, <2>1, <2>3, <2>4, <2>5, <2>7 DEF SameLists, Without
  <2> QED
    BY <1>4, <2>8, <2>9, <2>10, <2>11, <2>12, <2>13 DEF Reported, t
<1>5. CASE ~Listed(s, j)
  <2>1. ~inQueue
    BY <1>3, <1>5
  <2> DEFINE Step(r) ==
        /\ r \in Service /\ SameButState(s, r) /\ SameLists(s, r) /\ r.state = s.state
        /\ s.users \subseteq r.users /\ r.users \subseteq s.users \cup {u}
        /\ \A w \in Users : r.history[w] \subseteq s.history[w]
  <2>2. s2 = IF v = NoUser THEN s1 ELSE AddUser(s1, u)
    BY <2>1
  <2>3. Step(s2) /\ s2.history = s.history
    <3>1. CASE v = NoUser
      BY <3>1, <1>2, <2>2
    <3>2. CASE v # NoUser
      <4>1. s2 = AddUser(s1, u)
        BY <3>2, <2>2
      <4> HIDE DEF s2
      <4>2. /\ s2 \in Service /\ SameButState(s1, s2) /\ SameLists(s1, s2)
            /\ s2.state = s1.state /\ s2.history = s1.history /\ s2.users = s1.users \cup {u}
        BY <4>1, <1>2, AddUserFields
      <4> QED
        BY <4>2, <1>2 DEF SameButState, SameLists
    <3> QED
      BY <3>1, <3>2
  <2> HIDE DEF s2
  <2>4. CASE ~(v # NoUser /\ j \in s1.history[u])
    <3>1. t = s2
      BY <1>1, <2>1, <2>4
    <3> HIDE DEF t
    <3> QED
      BY <1>5, <2>3, <3>1 DEF Reported, t
  <2>5. CASE v # NoUser /\ j \in s1.history[u]
    <3>1. v = u /\ j \notin s2.uQueued[u] /\ j \in s2.history[u]
      BY <1>2, <1>3, <1>5, <2>3, <2>5 DEF SameLists
    <3>2. Step(s3)
      <4>1. CASE state = "BLOCKED"
        <5>1. s3 = Blocked(s2, u, j)
          BY <4>1, <3>1
        <5> HIDE DEF s3
        <5>2. /\ s3 \in Service /\ SameButState(s2, s3) /\ s3.state = s2.state
              /\ s3.users = s2.users /\ SameLists(s2, s3)
              /\ s3.history = [s2.history EXCEPT ![u] = @ \cup {j}]
          BY <5>1, <2>3, BlockedFields
        <5>3. s2.history \in [Users -> SUBSET Jobs]
          BY <2>3 DEF Service
        <5>4. \A w \in Users : s3.history[w] \subseteq s.history[w]
          BY <5>2, <5>3, <2>3, <3>1
        <5> QED
          BY <2>3, <5>2, <5>4 DEF SameButState, SameLists
      <4>2. CASE state = "COMPLETED"
        <5>1. s3 = Completed(s2, u, u, j)
          BY <4>2, <3>1
        <5> HIDE DEF s3
        <5>2. /\ s3 \in Service /\ SameButState(s2, s3) /\ s3.state = s2.state
              /\ s3.users = s2.users \cup {u}
              /\ \A w \in Users : s3.history[w] \subseteq s2.history[w]
              /\ SameLists(s2, s3)
          <6>1. s2.uQueued[u] \subseteq Jobs
            BY <2>3 DEF Service
          <6> QED
            BY <5>1, <2>3, <3>1, CompletedQuiet
        <5> QED
          BY <2>3, <5>2 DEF SameButState, SameLists
      <4>3. CASE state \notin {"BLOCKED", "COMPLETED"}
        BY <4>3, <2>3
      <4> QED
        BY <4>1, <4>2, <4>3
    <3> HIDE DEF s3
    <3>3. t = CheckJobQueueBlocked(s3, u, j, state)
      BY <1>1, <2>5
    <3>4. /\ t \in Service /\ SameButState(s3, t) /\ SameLists(s3, t)
          /\ t.state = s3.state /\ t.history = s3.history
          /\ s3.users \subseteq t.users /\ t.users \subseteq s3.users \cup {u}
      BY <3>2, <3>3, CheckFields
    <3> HIDE DEF t
    <3>5. Step(t)
      BY <3>2, <3>4 DEF SameButState, SameLists
    <3> QED
      BY <1>5, <3>5 DEF Reported, t
  <2> QED
    BY <2>4, <2>5
<1> QED
  BY <1>4, <1>5

-----------------------------------------------------------------------------
(* With one user: the flag and the history.  Exact is about the users that *)
(* are known, whose set only grows while nobody is removed, so that what   *)
(* is exact for the last state of a call was for those before it.          *)

\* Of a service that knows one user at most: isJobQueueBlocked_ is that of the
\* user's queue, and the histories have only jobs that are in the queue too.
Exact(s) == \A o \in Users : s.users \subseteq {o} =>
    /\ s.blocked <=> HasBlocked(s, o)
    /\ \A w \in Users : s.history[w] \subseteq s.uQueued[w]

\* The flag stays, the histories do not grow, and no job that is or becomes
\* queued is blocked now and was not, or the other way round.
Quiet(s, t) ==
    /\ s.users \subseteq t.users /\ t.blocked = s.blocked
    /\ \A w \in Users :
          /\ t.history[w] \subseteq s.history[w]
          /\ s.uQueued[w] \subseteq t.uQueued[w]
          /\ \A k \in t.uQueued[w] :
                t.state[k] = "BLOCKED" <=> k \in s.uQueued[w] /\ s.state[k] = "BLOCKED"

\* What is quiet stays exact.
LEMMA QuietIsExact ==
    ASSUME NEW s, NEW t, Exact(s), Quiet(s, t)
    PROVE  Exact(t)
  BY DEF Exact, Quiet, HasBlocked

\* Where the queues, the histories and the states do not change, nothing does.
LEMMA SameIsQuiet ==
    ASSUME NEW s, NEW t, SameLists(s, t), t.state = s.state, t.blocked = s.blocked,
           s.users \subseteq t.users, \A w \in Users : t.history[w] \subseteq s.history[w]
    PROVE  Quiet(s, t)
  BY DEF Quiet, SameLists

\* A new user, the client's place of a copy and the marks have no part in it.
LEMMA MarksAreQuiet ==
    ASSUME NEW s \in Service, NEW u, NEW c, NEW place, NEW T
    PROVE  /\ Quiet(s, AddUser(s, u)) /\ Quiet(s, [s EXCEPT !.client[c] = place])
           /\ Quiet(s, [s EXCEPT !.told = T]) /\ Quiet(s, [s EXCEPT !.leaving = T])
<1>1. ASSUME NEW t, t \in {AddUser(s, u), [s EXCEPT !.client[c] = place],
                          [s EXCEPT !.told = T], [s EXCEPT !.leaving = T]}
      PROVE  /\ t.uQueued = s.uQueued /\ t.state = s.state /\ t.blocked = s.blocked
             /\ t.history = s.history /\ s.users \subseteq t.users
  BY <1>1 DEF AddUser, Service
<1>2. ASSUME NEW t, t.uQueued = s.uQueued, t.state = s.state, t.blocked = s.blocked,
             t.history = s.history, s.users \subseteq t.users
      PROVE  Quiet(s, t)
  BY <1>2 DEF Quiet
<1> QED
  BY <1>1, <1>2

\* A job that its known user has is looked up without adding anybody.
LEMMA OwnedIsFound ==
    ASSUME NEW s \in Service, NEW u \in Users, NEW j \in Jobs, s.owner[j] \in s.users
    PROVE  LookUp(s, u, j) = s /\ UserDataOf(s, u, j) = s.owner[j]
<1>1. s.owner[j] # NoUser
  BY UsersAssumption DEF Service
<1> QED
  BY <1>1 DEF LookUp, UserDataOf

\* The flag after CheckJobQueueBlocked, of a job whose owner is known.
LEMMA CheckIsExact ==
    ASSUME NEW s \in Service, NEW u \in Users, NEW j \in Jobs, NEW state,
           s.owner[j] \in s.users,
           state = "BLOCKED" => HasBlocked(s, s.owner[j]),
           ~s.blocked /\ state # "BLOCKED" => ~HasBlocked(s, s.owner[j])
    PROVE  LET t == CheckJobQueueBlocked(s, u, j, state) IN
           /\ t.users = s.users
           /\ t.blocked <=> HasBlocked(s, s.owner[j])
<1> DEFINE o == s.owner[j]
           t == CheckJobQueueBlocked(s, u, j, state)
<1>1. LookUp(s, u, j) = s /\ UserDataOf(s, u, j) = o /\ o # NoUser
  BY OwnedIsFound, UsersAssumption DEF Service
<1>2. CASE state = "BLOCKED"
  <2>1. t = [s EXCEPT !.blocked = TRUE]
    BY <1>2 DEF CheckJobQueueBlocked
  <2>2. t.users = s.users /\ t.blocked = TRUE
    BY <2>1 DEF Service
  <2> QED
    BY <1>2, <2>2
<1>3. CASE state # "BLOCKED" /\ ~s.blocked
  <2>1. t = s
    BY <1>3 DEF CheckJobQueueBlocked
  <2> QED
    BY <1>3, <2>1
<1>4. CASE state # "BLOCKED" /\ s.blocked
  <2> DEFINE b == HasBlocked(s, o)
  <2>1. t = [s EXCEPT !.blocked = b]
    BY <1>1, <1>4 DEF CheckJobQueueBlocked
  <2> HIDE DEF b
  <2>2. t.users = s.users /\ t.blocked = b
    BY <2>1 DEF Service
  <2> QED
    BY <2>2 DEF b
<1> QED
  BY <1>2, <1>3, <1>4

\* HandleJobCompletedState takes the job off the history of the calling user.
LEMMA CompletedHistory ==
    ASSUME NEW s \in Service, NEW u \in Users, NEW v \in Users, NEW j \in Jobs,
           s.printer[j] \in Printers
    PROVE  LET t == Completed(s, u, v, j) IN
           t.blocked = s.blocked /\ u \in t.users /\ j \notin t.history[u]
<1> DEFINE off == IF j \in s.uQueued[v] THEN Unlist(s, v, j) ELSE s
           add == AddUser(off, u)
           t == [add EXCEPT !.history[u] = @ \ {j}]
<1>1. off \in Service /\ off.blocked = s.blocked
  <2>1. Unlist(s, v, j) \in Service
    BY UnlistFields
  <2> QED
    BY <2>1 DEF Unlist, Service
<1> HIDE DEF off
<1>2. add \in Service /\ add.blocked = s.blocked /\ u \in add.users
  BY <1>1, AddUserFields
<1> HIDE DEF add
<1>3. Completed(s, u, v, j) = t
  BY DEF Completed, add, off
<1>4. t.blocked = s.blocked /\ u \in t.users /\ j \notin t.history[u]
  BY <1>2 DEF Service
<1> HIDE DEF t
<1> QED
  BY <1>3, <1>4

\* A report of a job that its user has: the list is searched after the state was
\* set and the job taken off, so that the flag is that of the queue again.
LEMMA ListedReportIsExact ==
    ASSUME NEW s, NEW u \in Users, NEW j \in Jobs, NEW state \in ReportStates,
           Lists(s), Strict(s), Exact(s), Listed(s, j)
    PROVE  Exact(UpdatePrintJobState(s, u, j, state))
<1> DEFINE o == s.owner[j]
           s2 == [s EXCEPT !.state[j] = state]
           s3 == IF state = "BLOCKED" THEN Blocked(s2, o, j)
                 ELSE IF state = "COMPLETED" THEN Completed(s2, u, o, j)
                 ELSE s2
           t == UpdatePrintJobState(s, u, j, state)
<1>1. /\ s \in Service /\ o \in Users /\ o \in s.users /\ j \in s.uQueued[o] /\ o # NoUser
      /\ s.printer[j] \in Printers
  BY DEF Listed, Lists, UserLists, PrinterLists, Service
<1>2. LookUp(s, u, j) = s /\ UserDataOf(s, u, j) = o
  BY <1>1, OwnedIsFound
<1>3. t = CheckJobQueueBlocked(s3, u, j, state)
  BY <1>1, <1>2 DEF UpdatePrintJobState
<1>4. Reported(s, t, u, j, state)
  BY <1>1, ReportIs
<1>5. /\ s2 \in Service /\ s2.state = [s.state EXCEPT ![j] = state] /\ s2.blocked = s.blocked
      /\ s2.users = s.users /\ s2.owner = s.owner /\ SameLists(s, s2) /\ s2.history = s.history
      /\ s2.printer = s.printer
  BY <1>1 DEF Service, SameLists, ReportStates, JobStates
<1> HIDE DEF s2
<1>6. /\ s3 \in Service /\ s3.owner = s.owner /\ s3.state = s2.state /\ s3.blocked = s.blocked
      /\ s.users \subseteq s3.users
      /\ \A w \in Users : s3.history[w] \subseteq s.history[w]
                   \cup (IF w = o /\ state = "BLOCKED" THEN {j} ELSE {})
      /\ state # "COMPLETED" => s3.uQueued = s.uQueued
      /\ state = "COMPLETED" => /\ s3.uQueued = [s.uQueued EXCEPT ![o] = @ \ {j}]
                                /\ u \in s3.users /\ j \notin s3.history[u]
  <2>1. CASE state = "BLOCKED"
    <3>1. s3 = Blocked(s2, o, j)
      BY <2>1
    <3> HIDE DEF s3
    <3>2. /\ s3 \in Service /\ SameButState(s2, s3) /\ SameLists(s2, s3)
          /\ s3.state = s2.state /\ s3.users = s2.users
          /\ s3.history = [s2.history EXCEPT ![o] = @ \cup {j}]
      BY <1>1, <1>5, <3>1, BlockedFields
    <3>3. s3.blocked = s2.blocked
      BY <1>5, <3>1 DEF Blocked, Service
    <3>4. s.history \in [Users -> SUBSET Jobs]
      BY <1>1 DEF Service
    <3> QED
      BY <1>1, <1>5, <2>1, <3>2, <3>3, <3>4 DEF SameButState, SameLists
  <2>2. CASE state = "COMPLETED"
    <3>1. s3 = Completed(s2, u, o, j)
      BY <2>2
    <3> HIDE DEF s3
    <3>2. /\ s3 \in Service /\ SameButState(s2, s3) /\ s3.state = s2.state
          /\ s3.users = s2.users \cup {u}
          /\ \A w \in Users : s3.history[w] \subseteq s2.history[w]
          /\ Without(s2, s3, o, j)
      BY <1>1, <1>5, <3>1, CompletedFields DEF SameLists
    <3>3. s3.blocked = s2.blocked /\ u \in s3.users /\ j \notin s3.history[u]
      BY <1>1, <1>5, <3>1, CompletedHistory
    <3> QED
      BY <1>5, <2>2, <3>2, <3>3 DEF SameButState, SameLists, Without
  <2>3. CASE state \notin {"BLOCKED", "COMPLETED"}
    <3>1. s3 = s2
      BY <2>3
    <3> HIDE DEF s3
    <3> QED
      BY <1>5, <2>3, <3>1 DEF SameLists
  <2> QED
    BY <2>1, <2>2, <2>3
<1> HIDE DEF s3, t
<1>7. /\ t \in Service /\ SameLists(s3, t) /\ t.state = s3.state /\ t.history = s3.history
      /\ s3.users \subseteq t.users
  BY <1>3, <1>6, CheckFields
<1> SUFFICES ASSUME NEW w \in Users, t.users \subseteq {w}
             PROVE  /\ t.blocked <=> HasBlocked(t, w)
                    /\ \A v \in Users : t.history[v] \subseteq t.uQueued[v]
  BY DEF Exact, t
<1>8. w = o /\ s.users \subseteq {o} /\ s3.owner[j] = o /\ o \in s3.users
  BY <1>1, <1>6, <1>7
<1>9. /\ s.blocked <=> HasBlocked(s, o)
      /\ \A v \in Users : s.history[v] \subseteq s.uQueued[v]
  BY <1>1, <1>8 DEF Exact
<1>10. s.uQueued \in [Users -> SUBSET Jobs] /\ s.state \in [Jobs -> JobStates]
  BY <1>1 DEF Service
<1>11. /\ \A v \in Users : s3.uQueued[v] =
             s.uQueued[v] \ (IF v = o /\ state = "COMPLETED" THEN {j} ELSE {})
       /\ \A k \in Jobs : s3.state[k] = IF k = j THEN state ELSE s.state[k]
  <2>1. s3.state = [s.state EXCEPT ![j] = state]
    BY <1>5, <1>6
  <2> QED
    BY <1>1, <1>6, <1>10, <2>1
<1>12. state = "BLOCKED" => HasBlocked(s3, o)
  BY <1>1, <1>11 DEF HasBlocked
<1>13. ~s3.blocked /\ state # "BLOCKED" => ~HasBlocked(s3, o)
  BY <1>1, <1>6, <1>9, <1>10, <1>11 DEF HasBlocked
<1>14. t.blocked <=> HasBlocked(s3, o)
  BY <1>3, <1>6, <1>8, <1>12, <1>13, CheckIsExact
<1>15. HasBlocked(t, w) <=> HasBlocked(s3, o)
  BY <1>7, <1>8 DEF HasBlocked, SameLists
<1>16. ASSUME NEW v \in Users
       PROVE  t.history[v] \subseteq t.uQueued[v]
  <2>1. t.history[v] = s3.history[v] /\ t.uQueued[v] = s3.uQueued[v]
    BY <1>7 DEF SameLists
  <2>2. CASE state = "COMPLETED"
    <3>1. u = o
      BY <1>6, <1>7, <1>8, <2>2
    <3> QED
      BY <1>6, <1>9, <1>11, <2>1, <2>2, <3>1
  <2>3. CASE state # "COMPLETED"
    BY <1>1, <1>6, <1>9, <1>11, <2>1, <2>3
  <2> QED
    BY <2>2, <2>3
<1> QED
  BY <1>14, <1>15, <1>16

\* What a report of another job leaves: with one user it is not in the history
\* either, so that nothing is copied, set or searched.
LEMMA OtherReportIsExact ==
    ASSUME NEW s, NEW u \in Users, NEW j \in Jobs, NEW state \in ReportStates,
           Lists(s), Strict(s), Exact(s), ~Listed(s, j)
    PROVE  Exact(UpdatePrintJobState(s, u, j, state))
<1> DEFINE s1 == LookUp(s, u, j)
           v == UserDataOf(s1, u, j)
           t == UpdatePrintJobState(s, u, j, state)
<1>1. s \in Service
  BY DEF Lists
<1>2. /\ s1 \in Service /\ SameButState(s, s1) /\ SameLists(s, s1)
      /\ s1.state = s.state /\ s1.history = s.history
      /\ s.users \subseteq s1.users
  BY <1>1, LookUpFields
<1>3. s1.blocked = s.blocked
  BY <1>1 DEF LookUp, AddUser, Service
<1>4. v = NoUser \/ j \notin s1.uQueued[v]
  BY <1>1, UserDataIs DEF Lists
<1>5. Reported(s, t, u, j, state)
  BY <1>1, ReportIs
<1>6. CASE v # NoUser /\ j \in s1.history[u]
  <2>1. j \notin s.uQueued[u]
    BY UsersAssumption DEF Strict, Listed
  <2>2. ASSUME NEW w \in Users, t.users \subseteq {w}
        PROVE  FALSE
    BY <1>2, <1>5, <1>6, <2>1, <2>2 DEF Exact, Reported
  <2> QED
    BY <2>2 DEF Exact
<1>7. CASE ~(v # NoUser /\ j \in s1.history[u])
  <2>1. t = IF v = NoUser THEN s1 ELSE AddUser(s1, u)
    BY <1>4, <1>7 DEF UpdatePrintJobState
  <2> HIDE DEF s1, v, t
  <2>2. Exact(s1)
    BY <1>2, <1>3, SameIsQuiet, QuietIsExact
  <2>3. Exact(AddUser(s1, u))
    BY <1>2, <2>2, MarksAreQuiet, QuietIsExact
  <2> QED
    BY <2>1, <2>2, <2>3 DEF t
<1> QED
  BY <1>6, <1>7

\* A report, whatever it is about.
LEMMA ReportIsExact ==
    ASSUME NEW s, NEW u \in Users, NEW j \in Jobs, NEW state \in ReportStates,
           Lists(s), Strict(s), Exact(s)
    PROVE  Exact(UpdatePrintJobState(s, u, j, state))
  BY ListedReportIsExact, OtherReportIsExact

-----------------------------------------------------------------------------
(* What preserves the invariant *)

\* A report keeps the invariant; a job that completes may be one that was listed as
\* prepared until now.
LEMMA ReportKeeps ==
    ASSUME NEW s \in Service, NEW t \in Service, NEW u \in Users, NEW j \in Jobs,
           NEW state \in ReportStates,
           Lists(s), Strict(s), Reported(s, t, u, j, state),
           \A k \in Jobs : FreshJob(s, k) \/ (k = j /\ Listed(s, j) /\ state = "COMPLETED")
    PROVE  Good(t)
<1> USE DEF SameButState
<1>0. CopiesFit(t)
  <2>1. t.client = s.client /\ t.leaving = s.leaving /\ t.prepared = s.prepared
    BY DEF Reported
  <2>2. \A k \in Jobs : t.state[k] \in {"new", "PREPARED"} => t.state[k] = s.state[k]
    BY DEF Reported, ReportStates
  <2> QED
    BY <2>1, <2>2 DEF CopiesFit, Lists
<1>1. CASE ~Listed(s, j)
  <2>1. /\ SameLists(s, t) /\ t.state[j] = s.state[j] /\ \A k \in Jobs : t.state[k] = s.state[k]
        /\ \A w \in Users : t.history[w] \subseteq s.history[w]
        /\ s.users \subseteq t.users
    BY <1>1 DEF Reported
  <2>2. t.state = s.state
    BY <2>1 DEF Service
  <2>3. UserLists(t) /\ Strict(t)
    BY <2>1 DEF UserLists, Strict, SameLists, Reported, Lists
  <2>4. PrinterLists(t)
    BY <2>1 DEF PrinterLists, SameLists, Reported, Lists
  <2>5. StatesFit(t)
    BY <2>1, <2>2 DEF StatesFit, HeldIn, SameLists, Reported, Lists
  <2>6. FreshInv(t)
    <3>1. \A k \in Jobs : FreshJob(s, k)
      BY <1>1
    <3>2. t.prepared = s.prepared /\ t.uPrepared = s.uPrepared /\ t.owner = s.owner
          /\ t.client = s.client /\ t.over = s.over /\ t.stray = s.stray
          /\ t.queued = s.queued /\ t.uQueued = s.uQueued
      BY <2>1 DEF Reported, SameLists
    <3>3. \A k \in Jobs : Fresh(t, k) <=> Fresh(s, k)
      BY <2>2, <3>2 DEF Fresh
    <3>4. \A k \in Jobs : FreshJob(t, k)
      BY <2>2, <3>1, <3>2, <3>3 DEF FreshJob
    <3> QED
      BY <3>4 DEF FreshInv
  <2> QED
    BY <1>0, <2>3, <2>4, <2>5, <2>6 DEF Good, Lists
<1>2. CASE Listed(s, j) /\ state # "COMPLETED"
  <2>1. /\ SameLists(s, t) /\ t.state[j] = state /\ \A k \in Jobs \ {j} : t.state[k] = s.state[k]
        /\ \A w \in Users : t.history[w] \subseteq s.history[w] \cup
                     (IF w = s.owner[j] /\ state = "BLOCKED" THEN {j} ELSE {})
        /\ s.users \subseteq t.users
    BY <1>2 DEF Reported
  <2>2. j \in s.queued /\ s.owner[j] \in Users /\ s.printer[j] \in Printers
    BY <1>2 DEF Listed, Lists, UserLists, PrinterLists, Service
  <2>3. UserLists(t) /\ Strict(t)
    BY <2>1 DEF UserLists, Strict, SameLists, Reported, Lists
  <2>4. PrinterLists(t)
    BY <2>1 DEF PrinterLists, SameLists, Reported, Lists
  <2>5. StatesFit(t)
    <3>1. ASSUME NEW k \in Jobs, HeldIn(t, k)
          PROVE  k \in t.queued \cup t.over \/ t.state[k] = "COMPLETED"
      BY <2>1, <2>2, <3>1 DEF StatesFit, HeldIn, SameLists, Reported, Lists
    <3>2. ASSUME NEW k \in t.queued
          PROVE  t.state[k] # "COMPLETED"
      BY <1>2, <2>1, <2>2, <3>2 DEF StatesFit, SameLists, Reported, Lists, Service
    <3>3. ASSUME NEW w \in Users, NEW k \in t.history[w]
          PROVE  /\ t.state[k] \notin {"new", "PREPARED"} /\ t.owner[k] \in {w, NoUser}
                 /\ t.printer[k] \in Printers
      <4>1. k \in Jobs /\ s.history[w] \subseteq Jobs
        BY DEF Service
      <4>2. CASE k = j
        BY <4>1, <4>2, <2>1, <2>2, <3>3 DEF StatesFit, Reported, Lists, ReportStates
      <4>3. CASE k # j
        BY <4>1, <4>3, <2>1, <2>2, <3>3 DEF StatesFit, Reported, Lists
      <4> QED
        BY <4>2, <4>3
    <3> QED
      BY <3>1, <3>2, <3>3 DEF StatesFit
  <2>6. FreshInv(t)
    <3>1. ASSUME NEW k \in Jobs
          PROVE  k # j \/ ~Fresh(t, k)
      BY <2>1 DEF Fresh, ReportStates
    <3>2. ASSUME NEW k \in Jobs \ {j}
          PROVE  (Fresh(t, k) <=> Fresh(s, k)) /\ t.state[k] = s.state[k]
      BY <2>1 DEF Fresh, Reported
    <3>3. t.state[j] # "new" /\ \A k \in Jobs : FreshJob(s, k)
      BY <1>2, <2>1 DEF ReportStates
    <3>4. t.prepared = s.prepared /\ t.uPrepared = s.uPrepared /\ t.owner = s.owner
          /\ t.client = s.client /\ t.over = s.over /\ t.stray = s.stray
          /\ t.queued = s.queued /\ t.uQueued = s.uQueued
      BY <2>1 DEF Reported, SameLists
    <3>5. FreshJob(t, j)
      BY <3>1, <3>3, <3>4 DEF FreshJob
    <3>6. \A k \in Jobs \ {j} : FreshJob(t, k)
      BY <3>2, <3>3, <3>4 DEF FreshJob
    <3> QED
      BY <3>5, <3>6 DEF FreshInv
  <2> QED
    BY <1>0, <2>3, <2>4, <2>5, <2>6 DEF Good, Lists
<1>3. CASE Listed(s, j) /\ state = "COMPLETED"
  <2>1. /\ Without(s, t, s.owner[j], j)
        /\ t.state[j] = "COMPLETED" /\ \A k \in Jobs \ {j} : t.state[k] = s.state[k]
        /\ \A w \in Users : t.history[w] \subseteq s.history[w]
        /\ s.users \subseteq t.users
    BY <1>3 DEF Reported
  <2>2. j \in s.queued /\ s.owner[j] \in Users /\ s.printer[j] \in Printers
    BY <1>3 DEF Listed, Lists, UserLists, PrinterLists, Service
  <2>3. /\ t.queued = s.queued \ {j}
        /\ \A w \in Users : t.uQueued[w] \subseteq s.uQueued[w]
        /\ \A w \in Users : s.uQueued[w] \ {j} \subseteq t.uQueued[w]
        /\ j \notin t.uQueued[s.owner[j]]
    BY <2>1, <2>2 DEF Without, Service
  <2>4. /\ \A p \in Printers : t.printerJobs[p] \subseteq s.printerJobs[p]
        /\ \A p \in Printers : s.printerJobs[p] \ {j} \subseteq t.printerJobs[p]
        /\ j \notin t.printerJobs[s.printer[j]]
    BY <2>1, <2>2 DEF Without, Service
  <2>5. \A w \in Users : j \notin t.uQueued[w]
    BY <2>2, <2>3 DEF Strict
  <2>6. UserLists(t) /\ Strict(t)
    BY <2>1, <2>3, <2>5 DEF UserLists, Strict, Reported, Lists, Service
  <2>7. PrinterLists(t)
    BY <2>3, <2>4 DEF PrinterLists, Reported, Lists
  <2>8. StatesFit(t)
    <3>1. ASSUME NEW k \in Jobs, HeldIn(t, k)
          PROVE  k \in t.queued \cup t.over \/ t.state[k] = "COMPLETED"
      BY <2>1, <2>3, <3>1 DEF StatesFit, HeldIn, Reported, Lists
    <3>2. ASSUME NEW k \in t.queued
          PROVE  t.state[k] # "COMPLETED"
      BY <2>1, <2>3, <3>2 DEF StatesFit, Reported, Lists, Service
    <3>3. ASSUME NEW w \in Users, NEW k \in t.history[w]
          PROVE  /\ t.state[k] \notin {"new", "PREPARED"} /\ t.owner[k] \in {w, NoUser}
                 /\ t.printer[k] \in Printers
      <4>1. k \in Jobs /\ k \in s.history[w]
        BY <2>1 DEF Service
      <4> QED
        BY <4>1, <2>1, <3>3 DEF StatesFit, Reported, Lists
    <3> QED
      BY <3>1, <3>2, <3>3 DEF StatesFit
  <2>9. FreshInv(t)
    <3>1. FreshJob(t, j)
      BY <2>1, <2>5 DEF FreshJob, Fresh
    <3>2. ASSUME NEW k \in Jobs \ {j}
          PROVE  FreshJob(t, k)
      <4>1. (Fresh(t, k) <=> Fresh(s, k)) /\ t.state[k] = s.state[k] /\ FreshJob(s, k)
        BY <2>1 DEF Fresh, Reported
      <4> QED
        BY <2>3, <4>1 DEF FreshJob, Reported
    <3> QED
      BY <3>1, <3>2 DEF FreshInv
  <2> QED
    BY <1>0, <2>6, <2>7, <2>8, <2>9 DEF Good, Lists
<1> QED
  BY <1>1, <1>2, <1>3

\* Jobs stay completed, but for those of R, which are started again, and leave the
\* list of a user only completed.
Onward(s, t, R) ==
    /\ \A j \in Jobs \ R : s.state[j] = "COMPLETED" => t.state[j] = "COMPLETED"
    /\ \A w \in Users : \A j \in s.uQueued[w] \ t.uQueued[w] : t.state[j] = "COMPLETED"

\* ... and what was exact stays so.
Advance(s, t) == Onward(s, t, {}) /\ (Exact(s) => Exact(t))

\* The operators are called one after the other.
LEMMA AdvanceTrans ==
    ASSUME NEW r \in Service, NEW s \in Service, NEW t \in Service,
           Advance(r, s), Advance(s, t)
    PROVE  Advance(r, t)
<1>1. \A w \in Users : r.uQueued[w] \subseteq Jobs /\ s.uQueued[w] \subseteq Jobs
  BY DEF Service
<1> QED
  BY <1>1 DEF Advance, Onward

\* A user that becomes known disturbs nothing.
LEMMA AddUserKeeps ==
    ASSUME NEW s, NEW u \in Users, Good(s)
    PROVE  LET t == AddUser(s, u) IN
           Good(t) /\ Advance(s, t) /\ SameButState(s, t) /\ t.state = s.state /\ u \in t.users
<1> DEFINE t == AddUser(s, u)
<1>1. /\ t \in Service /\ t.users = s.users \cup {u}
      /\ SameButState(s, t) /\ SameLists(s, t)
      /\ t.state = s.state /\ t.history = s.history /\ t.blocked = s.blocked
  BY AddUserFields DEF Good, Lists
<1> HIDE DEF t
<1> USE <1>1 DEF SameButState, SameLists, Good, Lists
<1>2. UserLists(t) /\ PrinterLists(t) /\ Strict(t)
  BY DEF UserLists, PrinterLists, Strict
<1>3. StatesFit(t) /\ CopiesFit(t)
  BY DEF StatesFit, HeldIn, CopiesFit
<1>4. FreshInv(t)
  BY DEF FreshInv, FreshJob, Fresh
<1>5. Advance(s, t)
  <2>1. Exact(s) => Exact(t)
    BY SameIsQuiet, QuietIsExact
  <2> QED
    BY <2>1 DEF Advance, Onward
<1> QED
  BY <1>2, <1>3, <1>4, <1>5 DEF t

\* A report completes a job or leaves it in the lists, and makes none fresh.
LEMMA ReportAdvances ==
    ASSUME NEW s, NEW u \in Users, NEW j \in Jobs, NEW state \in ReportStates,
           Lists(s), Strict(s)
    PROVE  LET t == UpdatePrintJobState(s, u, j, state) IN
           /\ t \in Service
           /\ Reported(s, t, u, j, state)
           /\ Advance(s, t)
           /\ SameButState(s, t)
           /\ \A k \in Jobs : t.state[k] \in {"new", "PREPARED"} => t.state[k] = s.state[k]
<1> DEFINE t == UpdatePrintJobState(s, u, j, state)
<1>1. Reported(s, t, u, j, state) /\ (Exact(s) => Exact(t))
  BY ReportIs, ReportIsExact DEF Lists
<1> HIDE DEF t
<1>2. t \in Service /\ SameButState(s, t)
  BY <1>1 DEF Reported
<1>3. \A k \in Jobs : t.state[k] \in {"new", "PREPARED"} => t.state[k] = s.state[k]
  BY <1>1 DEF Reported, ReportStates
<1>4. Advance(s, t)
  <2>1. CASE ~Listed(s, j)
    BY <1>1, <1>2, <2>1 DEF Reported, Advance, Onward, SameLists, SameButState
  <2>2. CASE Listed(s, j)
    <3>1. j \in s.queued /\ s.owner[j] \in Users /\ s.state[j] # "COMPLETED"
      BY <2>2 DEF Listed, Lists, UserLists, StatesFit, Service
    <3>2. \A k \in Jobs : s.state[k] = "COMPLETED" => t.state[k] = "COMPLETED"
      BY <1>1, <2>2, <3>1 DEF Reported
    <3>3. CASE state # "COMPLETED"
      BY <1>1, <1>2, <2>2, <3>2, <3>3 DEF Reported, Advance, Onward, SameLists, SameButState
    <3>4. CASE state = "COMPLETED"
      <4>1. t.uQueued = [s.uQueued EXCEPT ![s.owner[j]] = @ \ {j}] /\ t.state[j] = "COMPLETED"
        BY <1>1, <2>2, <3>4 DEF Reported, Without
      <4>2. s.uQueued \in [Users -> SUBSET Jobs]
        BY DEF Lists, Service
      <4>3. \A w \in Users : \A k \in s.uQueued[w] \ t.uQueued[w] : k = j
        BY <3>1, <4>1, <4>2
      <4> QED
        BY <1>1, <1>2, <3>2, <4>1, <4>3 DEF Advance, Onward, SameButState
    <3> QED
      BY <3>3, <3>4
  <2> QED
    BY <2>1, <2>2
<1> QED
  BY <1>1, <1>2, <1>3, <1>4 DEF t

\* Reports, where the invariant holds.
LEMMA ReportsKeep ==
    ASSUME NEW s, NEW u \in Users, NEW j \in Jobs, NEW state \in ReportStates,
           Good(s)
    PROVE  LET t == UpdatePrintJobState(s, u, j, state) IN
           /\ Good(t) /\ Advance(s, t) /\ SameButState(s, t)
           /\ \A k \in Jobs : t.state[k] \in {"new", "PREPARED"} => t.state[k] = s.state[k]
<1> DEFINE t == UpdatePrintJobState(s, u, j, state)
<1>1. /\ t \in Service /\ Reported(s, t, u, j, state) /\ Advance(s, t) /\ SameButState(s, t)
      /\ \A k \in Jobs : t.state[k] \in {"new", "PREPARED"} => t.state[k] = s.state[k]
  BY ReportAdvances DEF Good
<1> HIDE DEF t
<1>2. Good(t)
  BY <1>1, ReportKeeps DEF Good, FreshInv, Lists
<1> QED
  BY <1>1, <1>2 DEF t

\* The print client takes a copy of a job that was started from place to place.
LEMMA ClientKeeps ==
    ASSUME NEW s, NEW j \in Jobs, NEW n \in {1, 2}, NEW place \in Places,
           Good(s), ~Fresh(s, j),
           \/ s.client[<<j, n>>] # "none" \/ n = 1
           \/ j \notin s.prepared /\ s.state[j] \notin {"new", "PREPARED"},
           <<j, n>> \notin s.leaving \/ place = "monitored",
           place \in {"waiting", "sending", "monitored"} =>
              j \in s.queued \cup s.over \/ s.state[j] = "COMPLETED"
    PROVE  LET t == [s EXCEPT !.client[<<j, n>>] = place] IN
           Good(t) /\ Advance(s, t) /\ t.state = s.state /\ t.prepared = s.prepared
<1> DEFINE t == [s EXCEPT !.client[<<j, n>>] = place]
<1>1. s \in Service
  BY DEF Good, Lists
<1>2. /\ t \in Service /\ t.client = [s.client EXCEPT ![<<j, n>>] = place]
      /\ SameLists(s, t) /\ t.state = s.state /\ t.history = s.history /\ t.users = s.users
      /\ t.prepared = s.prepared /\ t.owner = s.owner /\ t.uPrepared = s.uPrepared
      /\ t.printer = s.printer /\ t.over = s.over /\ t.leaving = s.leaving
      /\ t.blocked = s.blocked /\ t.stray = s.stray
  BY <1>1 DEF Service, SameLists
<1>3. \A c \in Copies : t.client[c] = IF c = <<j, n>> THEN place ELSE s.client[c]
  BY <1>1, <1>2 DEF Service
<1>4. \A k \in Jobs, m \in {1, 2} :
         t.client[<<k, m>>] = IF k = j /\ m = n THEN place ELSE s.client[<<k, m>>]
  BY <1>3 DEF Copies
<1> HIDE DEF t
<1>5. UserLists(t) /\ PrinterLists(t) /\ Strict(t)
  BY <1>2 DEF UserLists, PrinterLists, Strict, SameLists, Good, Lists
<1>6. StatesFit(t)
  BY <1>2, <1>4 DEF StatesFit, HeldIn, SameLists, Good, Lists
<1>7. CopiesFit(t)
  <2>1. ASSUME NEW k \in Jobs, k \in t.prepared \/ t.state[k] \in {"new", "PREPARED"}
        PROVE  t.client[<<k, 2>>] = "none"
    BY <1>2, <1>4, <2>1 DEF CopiesFit, Good, Lists
  <2>2. ASSUME NEW c \in t.leaving
        PROVE  t.client[c] = "monitored"
    <3>1. c \in Copies
      BY <1>1, <1>2 DEF Service
    <3> QED
      BY <1>2, <1>3, <3>1 DEF CopiesFit, Good, Lists
  <2> QED
    BY <2>1, <2>2 DEF CopiesFit
<1>8. FreshInv(t)
  <2>1. ASSUME NEW k \in Jobs
        PROVE  FreshJob(t, k)
    BY <1>2, <1>4 DEF FreshInv, FreshJob, Fresh, SameLists, Good
  <2> QED
    BY <2>1 DEF FreshInv
<1>9. Advance(s, t)
  <2>1. Exact(s) => Exact(t)
    BY <1>2, SameIsQuiet, QuietIsExact
  <2> QED
    BY <1>2, <2>1 DEF Advance, Onward, SameLists
<1> QED
  BY <1>2, <1>5, <1>6, <1>7, <1>8, <1>9 DEF t, Good, Lists

\* The copies that were cancelled, and those that the monitor is done with.
LEMMA MarksKeep ==
    ASSUME NEW s, NEW T \in SUBSET Copies, Good(s)
    PROVE  /\ LET t == [s EXCEPT !.told = T] IN
              Good(t) /\ Advance(s, t)
           /\ LET t == [s EXCEPT !.leaving = T] IN
              (\A c \in T : s.client[c] = "monitored") => Good(t) /\ Advance(s, t)
<1> DEFINE Same(t) ==
      /\ t \in Service /\ t.client = s.client
      /\ SameLists(s, t) /\ t.state = s.state /\ t.history = s.history /\ t.users = s.users
      /\ t.prepared = s.prepared /\ t.owner = s.owner /\ t.uPrepared = s.uPrepared
      /\ t.printer = s.printer /\ t.over = s.over /\ t.blocked = s.blocked
      /\ t.stray = s.stray
<1>1. /\ Same([s EXCEPT !.told = T]) /\ [s EXCEPT !.told = T].leaving = s.leaving
      /\ Same([s EXCEPT !.leaving = T]) /\ [s EXCEPT !.leaving = T].leaving = T
  BY DEF Good, Lists, Service, SameLists
<1>2. ASSUME NEW t, Same(t), \A c \in t.leaving : s.client[c] = "monitored"
      PROVE  Good(t) /\ Advance(s, t)
  <2> USE <1>2 DEF SameLists, Good, Lists
  <2>1. UserLists(t) /\ PrinterLists(t) /\ Strict(t)
    BY DEF UserLists, PrinterLists, Strict
  <2>2. StatesFit(t)
    BY DEF StatesFit, HeldIn
  <2>3. CopiesFit(t)
    BY DEF CopiesFit
  <2>4. FreshInv(t)
    BY DEF FreshInv, FreshJob, Fresh
  <2>5. Exact(s) => Exact(t)
    BY SameIsQuiet, QuietIsExact
  <2> QED
    BY <2>1, <2>2, <2>3, <2>4, <2>5 DEF Advance, Onward
<1>3. \A c \in s.leaving : s.client[c] = "monitored"
  BY DEF Good, Lists, CopiesFit
<1> QED
  BY <1>1, <1>2, <1>3

\* The copy that is found first.
LEMMA OlderIs ==
    ASSUME NEW s, NEW j \in Jobs, NEW place \in Places, CopiesAt(s, j, place) # {}
    PROVE  \E n \in {1, 2} : /\ Older(CopiesAt(s, j, place)) = <<j, n>>
                             /\ s.client[<<j, n>>] = place
<1> DEFINE C == CopiesAt(s, j, place)
           P(c) == \A d \in C : c[2] <= d[2]
<1>1. C \subseteq {<<j, 1>>, <<j, 2>>}
  BY DEF CopiesAt
<1>2. \E c \in C : P(c)
  <2>1. CASE <<j, 1>> \in C
    BY <1>1, <2>1
  <2>2. CASE <<j, 1>> \notin C
    BY <1>1, <2>2
  <2> QED
    BY <2>1, <2>2
<1>3. Older(C) = CHOOSE c \in C : P(c)
  BY DEF Older
<1> HIDE DEF P
<1>4. Older(C) \in C
  BY <1>2, <1>3
<1>5. \A c \in C : s.client[c] = place
  BY DEF CopiesAt
<1> HIDE DEF C
<1> QED
  BY <1>1, <1>4, <1>5 DEF C

\* CancelCupsJob: the client drops a copy only where it waits.
LEMMA CancelCupsKeeps ==
    ASSUME NEW s, NEW u \in Users, NEW j \in Jobs, Good(s)
    PROVE  LET t == CancelCupsJob(s, u, j) IN Good(t) /\ Advance(s, t)
<1> DEFINE waiting == CopiesAt(s, j, "waiting")
           monitored == CopiesAt(s, j, "monitored")
           t == CancelCupsJob(s, u, j)
<1>1. s \in Service /\ "COMPLETED" \in ReportStates
  BY DEF Good, Lists, ReportStates
<1>2. CASE waiting # {}
  <2>1. PICK n \in {1, 2} : Older(waiting) = <<j, n>> /\ s.client[<<j, n>>] = "waiting"
    BY <1>2, OlderIs DEF Places
  <2> DEFINE m == [s EXCEPT !.client[<<j, n>>] = "gone"]
  <2>2. t = UpdatePrintJobState(m, u, j, "COMPLETED")
    BY <1>2, <2>1 DEF CancelCupsJob
  <2>3. ~Fresh(s, j)
    BY <2>1 DEF Good, FreshInv, FreshJob
  <2>4. <<j, n>> \notin s.leaving /\ "gone" \in Places
    BY <2>1 DEF Good, Lists, CopiesFit, Places
  <2>5. Good(m) /\ Advance(s, m)
    BY <2>1, <2>3, <2>4, ClientKeeps
  <2> HIDE DEF m, t
  <2>6. Good(t) /\ Advance(m, t)
    BY <1>1, <2>2, <2>5, ReportsKeep
  <2>7. Advance(s, t)
    BY <1>1, <2>5, <2>6, AdvanceTrans DEF Good, Lists
  <2> QED
    BY <2>6, <2>7 DEF t
<1>3. CASE waiting = {} /\ monitored # {}
  <2>1. PICK n \in {1, 2} : Older(monitored) = <<j, n>> /\ s.client[<<j, n>>] = "monitored"
    <3>1. "monitored" \in Places
      BY DEF Places
    <3> QED
      BY <1>3, <3>1, OlderIs
  <2> DEFINE T == s.told \cup {<<j, n>>}
  <2>2. t = [s EXCEPT !.told = T]
    BY <1>1, <1>3, <2>1 DEF CancelCupsJob
  <2>3. T \in SUBSET Copies
    BY <1>1 DEF Service, Copies
  <2> HIDE DEF t, T
  <2>4. Good(t) /\ Advance(s, t)
    BY <2>2, <2>3, MarksKeep
  <2> QED
    BY <2>4 DEF t
<1>4. CASE waiting = {} /\ monitored = {}
  <2>1. t = UpdatePrintJobState(s, u, j, "COMPLETED")
    BY <1>4 DEF CancelCupsJob
  <2> HIDE DEF t
  <2> QED
    BY <1>1, <2>1, ReportsKeep DEF t
<1> QED
  BY <1>2, <1>3, <1>4

\* A cancelled copy of a job is listed as prepared.
LEMMA PrepareFields ==
    ASSUME NEW s \in Service, NEW u \in Users, NEW j \in Jobs
    PROVE  LET t == [s EXCEPT !.uPrepared[u] = @ \cup {j}, !.prepared = @ \cup {j}] IN
           /\ t \in Service /\ SameLists(s, t) /\ t.users = s.users
           /\ t.state = s.state /\ t.history = s.history /\ t.owner = s.owner
           /\ t.printer = s.printer /\ t.client = s.client /\ t.over = s.over
           /\ t.stray = s.stray /\ t.leaving = s.leaving
           /\ t.prepared = s.prepared \cup {j} /\ t.blocked = s.blocked
           /\ \A k \in Jobs, w \in Users :
                 k \in t.uPrepared[w] <=> k \in s.uPrepared[w] \/ (k = j /\ w = u)
<1> DEFINE t == [s EXCEPT !.uPrepared[u] = @ \cup {j}, !.prepared = @ \cup {j}]
<1>1. /\ t \in Service /\ SameLists(s, t) /\ t.users = s.users
      /\ t.state = s.state /\ t.history = s.history /\ t.owner = s.owner
      /\ t.printer = s.printer /\ t.client = s.client /\ t.over = s.over
      /\ t.stray = s.stray /\ t.leaving = s.leaving
      /\ t.prepared = s.prepared \cup {j} /\ t.blocked = s.blocked
  BY DEF Service, SameLists
<1>2. t.uPrepared = [s.uPrepared EXCEPT ![u] = @ \cup {j}]
      /\ s.uPrepared \in [Users -> SUBSET Jobs]
  BY DEF Service
<1> HIDE DEF t
<1>3. ASSUME NEW k \in Jobs, NEW w \in Users
      PROVE  k \in t.uPrepared[w] <=> k \in s.uPrepared[w] \/ (k = j /\ w = u)
  BY <1>2
<1> QED
  BY <1>1, <1>3 DEF t

\* A native job that is cancelled before anything was reported of it.
LEMMA SetCanceledKeeps ==
    ASSUME NEW s, NEW u \in Users, NEW j \in Jobs, Good(s),
           j \in s.uQueued[u], s.state[j] = "PREPARED"
    PROVE  LET t == SetPrintJobCanceled(s, u, j) IN Good(t) /\ Advance(s, t)
<1> DEFINE s1 == LookUp(s, u, j)
           v == UserDataOf(s1, u, j)
           s2 == [s1 EXCEPT !.uPrepared[u] = @ \cup {j}, !.prepared = @ \cup {j}]
           t == SetPrintJobCanceled(s, u, j)
<1>1. s \in Service /\ Lists(s) /\ Strict(s) /\ FreshInv(s)
  BY DEF Good, Lists
<1>2. s.owner[j] = u /\ Listed(s, j)
  BY <1>1, UsersAssumption DEF Listed, Strict
<1>3. /\ s1 \in Service /\ SameButState(s, s1) /\ SameLists(s, s1)
      /\ s1.state = s.state /\ s1.history = s.history /\ s.users \subseteq s1.users
      /\ s1.blocked = s.blocked
  BY <1>1, LookUpFields
<1>4. v = u
  BY <1>1, <1>2, UserDataIs DEF Lists
<1>5. t = UpdatePrintJobState(s2, u, j, "COMPLETED")
  BY <1>4, UsersAssumption DEF SetPrintJobCanceled
<1> HIDE DEF s1, v, t
<1>6. /\ s2 \in Service /\ SameLists(s1, s2) /\ s2.users = s1.users
      /\ s2.state = s1.state /\ s2.history = s1.history /\ s2.owner = s1.owner
      /\ s2.printer = s1.printer /\ s2.client = s1.client /\ s2.over = s1.over
      /\ s2.stray = s1.stray /\ s2.leaving = s1.leaving
      /\ s2.prepared = s1.prepared \cup {j} /\ s2.blocked = s1.blocked
      /\ \A k \in Jobs, w \in Users :
            k \in s2.uPrepared[w] <=> k \in s1.uPrepared[w] \/ (k = j /\ w = u)
  BY <1>3, PrepareFields
<1> HIDE DEF s2
<1>7. \A k \in Jobs, w \in Users :
         k \in s2.uPrepared[w] <=> k \in s.uPrepared[w] \/ (k = j /\ w = u)
  BY <1>3, <1>6 DEF SameButState
<1>8. Lists(s2) /\ Strict(s2) /\ Listed(s2, j)
  <2> USE <1>1, <1>2, <1>3, <1>6 DEF SameLists, SameButState, Lists
  <2>1. \A w \in Users : s2.uPrepared[w] \subseteq Jobs
    BY DEF Service
  <2>2. UserLists(s2) /\ Strict(s2)
    BY <1>7, <2>1 DEF UserLists, Strict
  <2>3. PrinterLists(s2)
    BY DEF PrinterLists
  <2>4. StatesFit(s2)
    BY DEF StatesFit, HeldIn
  <2>5. CopiesFit(s2)
    BY DEF CopiesFit
  <2>6. Listed(s2, j)
    BY DEF Listed
  <2> QED
    BY <2>2, <2>3, <2>4, <2>5, <2>6
<1>9. \A k \in Jobs \ {j} : FreshJob(s2, k)
  <2> SUFFICES ASSUME NEW k \in Jobs \ {j} PROVE FreshJob(s2, k)
    OBVIOUS
  <2>1. FreshJob(s, k)
    BY <1>1 DEF FreshInv
  <2>2. Fresh(s2, k) <=> Fresh(s, k)
    BY <1>3, <1>6 DEF Fresh, SameButState
  <2>3. \A w \in Users : k \in s2.uPrepared[w] => k \in s.uPrepared[w]
    BY <1>7
  <2>4. /\ s2.owner = s.owner /\ s2.state = s.state /\ s2.client = s.client
        /\ k \in s2.prepared <=> k \in s.prepared
        /\ s2.queued = s.queued /\ s2.over = s.over /\ s2.stray = s.stray
        /\ s2.uQueued = s.uQueued
    BY <1>3, <1>6 DEF SameButState, SameLists
  <2> QED
    BY <2>1, <2>2, <2>3, <2>4 DEF FreshJob
<1>10. /\ t \in Service /\ Reported(s2, t, u, j, "COMPLETED") /\ Advance(s2, t)
  BY <1>5, <1>8, ReportAdvances DEF ReportStates
<1>11. Good(t)
  BY <1>6, <1>8, <1>9, <1>10, ReportKeeps DEF ReportStates
<1>12. Advance(s, s2)
  <2>1. Exact(s) => Exact(s2)
    BY <1>3, <1>6, SameIsQuiet, QuietIsExact DEF SameLists
  <2> QED
    BY <1>3, <1>6, <2>1 DEF Advance, Onward, SameLists, SameButState
<1>13. Advance(s, t)
  BY <1>1, <1>6, <1>10, <1>12, AdvanceTrans
<1> QED
  BY <1>11, <1>13 DEF t

\* CancelPrintJob, whatever it finds of the job.
LEMMA CancelKeeps ==
    ASSUME NEW s, NEW u \in Users, NEW j \in Jobs, Good(s)
    PROVE  LET t == CancelPrintJob(s, u, j) IN Good(t) /\ Advance(s, t)
<1> DEFINE s1 == AddUser(s, u)
           t == CancelPrintJob(s, u, j)
<1>1. Good(s1) /\ Advance(s, s1)
  BY AddUserKeeps
<1>2. t = IF j \notin s1.uQueued[u] \cup s1.history[u] THEN s1
          ELSE IF s1.state[j] = "PREPARED" THEN SetPrintJobCanceled(s1, u, j)
          ELSE CancelCupsJob(s1, u, j)
  BY DEF CancelPrintJob
<1> HIDE DEF s1, t
<1>3. CASE t = s1
  BY <1>1, <1>3 DEF t
<1>4. CASE /\ j \in s1.uQueued[u] /\ s1.state[j] = "PREPARED"
           /\ t = SetPrintJobCanceled(s1, u, j)
  <2>1. Good(t) /\ Advance(s1, t)
    BY <1>1, <1>4, SetCanceledKeeps
  <2>2. Advance(s, t)
    BY <1>1, <2>1, AdvanceTrans DEF Good, Lists
  <2> QED
    BY <2>1, <2>2 DEF t
<1>5. CASE t = CancelCupsJob(s1, u, j)
  <2>1. Good(t) /\ Advance(s1, t)
    BY <1>1, <1>5, CancelCupsKeeps
  <2>2. Advance(s, t)
    BY <1>1, <2>1, AdvanceTrans DEF Good, Lists
  <2> QED
    BY <2>1, <2>2 DEF t
<1>6. j \in s1.history[u] => s1.state[j] # "PREPARED"
  BY <1>1 DEF Good, Lists, StatesFit
<1> QED
  BY <1>2, <1>3, <1>4, <1>5, <1>6

-----------------------------------------------------------------------------
(* Starting a job *)

\* State r is state s but for the job j: what the three kinds of start do before
\* the job is listed.  A job in a queue keeps its state, a fresh one may get an owner.
Ready(s, r, j) ==
    /\ r \in Service /\ SameLists(s, r) /\ r.history = s.history
    /\ r.printer = s.printer /\ r.client = s.client /\ r.over = s.over /\ r.stray = s.stray
    /\ r.leaving = s.leaving /\ r.blocked = s.blocked /\ s.users \subseteq r.users
    /\ \A k \in Jobs \ {j} :
          /\ r.owner[k] = s.owner[k] /\ r.state[k] = s.state[k]
          /\ k \in r.prepared <=> k \in s.prepared
          /\ \A w \in Users : k \in r.uPrepared[w] <=> k \in s.uPrepared[w]
    /\ r.state[j] \notin {"new", "COMPLETED"} /\ ~Fresh(r, j)
    /\ \A w \in Users : j \in r.uPrepared[w] => r.owner[j] = w /\ j \notin s.uQueued[w]
    /\ r.owner[j] # s.owner[j] => Fresh(s, j)
    /\ j \in r.prepared \/ r.state[j] = "PREPARED" => Fresh(s, j)
    /\ (\E w \in Users : j \in s.uQueued[w]) => r.state[j] = s.state[j]
    /\ (\A w \in Users : j \notin s.uQueued[w]) => r.state[j] # "BLOCKED"

\* What UpdateQueuedJobList may do.
ListedIn(s, t, u, j) ==
    /\ t \in Service
    /\ t.users = s.users /\ t.prepared = s.prepared /\ t.owner = s.owner
    /\ t.printer = s.printer /\ t.printerJobs = s.printerJobs
    /\ t.history = s.history /\ t.state = s.state /\ t.client = s.client
    /\ t.leaving = s.leaving /\ t.blocked = s.blocked
    /\ \/ /\ j \notin s.queued /\ t.queued = s.queued /\ t.stray = s.stray
          /\ t.over = s.over \cup {j}
          /\ t.uQueued = s.uQueued /\ t.uPrepared = s.uPrepared
       \/ /\ t.queued = s.queued \cup {j} /\ t.stray = s.stray \cup {j} /\ t.over = s.over
          /\ t.uQueued = s.uQueued /\ t.uPrepared = s.uPrepared
       \/ /\ u \in s.users /\ j \in s.uPrepared[u]
          /\ t.queued = s.queued \cup {j} /\ t.stray = s.stray /\ t.over = s.over
          /\ \A k \in Jobs, w \in Users :
                /\ k \in t.uQueued[w] <=> k \in s.uQueued[w] \/ (k = j /\ w = u)
                /\ k \in t.uPrepared[w] <=> k \in s.uPrepared[w] /\ ~(k = j /\ w = u)

\* The list is full, or the job goes to that of the service, and to the user's when
\* the user has prepared it.
LEMMA ListingFields ==
    ASSUME NEW s \in Service, NEW u \in Users, NEW j \in Jobs
    PROVE  ListedIn(s, UpdateQueuedJobList(s, u, j), u, j)
<1> DEFINE l == UpdateQueuedJobList(s, u, j)
           a == [s EXCEPT !.over = @ \cup {j}]
           b == [s EXCEPT !.queued = @ \cup {j}, !.stray = @ \cup {j}]
           c == [s EXCEPT !.queued = @ \cup {j},
                          !.uPrepared[u] = @ \ {j}, !.uQueued[u] = @ \cup {j}]
           full == j \notin s.queued /\ Cardinality(s.queued) >= MaxJobs
           other == u \notin s.users \/ j \notin s.uPrepared[u]
<1>1. CASE full
  <2>1. l = a
    BY <1>1 DEF UpdateQueuedJobList
  <2>2. /\ a \in Service
        /\ a.users = s.users /\ a.prepared = s.prepared /\ a.owner = s.owner
        /\ a.printer = s.printer /\ a.printerJobs = s.printerJobs
        /\ a.history = s.history /\ a.state = s.state /\ a.client = s.client
        /\ a.leaving = s.leaving /\ a.blocked = s.blocked
        /\ a.queued = s.queued /\ a.stray = s.stray /\ a.over = s.over \cup {j}
        /\ a.uQueued = s.uQueued /\ a.uPrepared = s.uPrepared
    BY DEF Service
  <2> HIDE DEF a, l
  <2> QED
    BY <1>1, <2>1, <2>2 DEF ListedIn, l
<1>2. CASE ~full /\ other
  <2>1. l = b
    BY <1>2 DEF UpdateQueuedJobList
  <2>2. /\ b \in Service
        /\ b.users = s.users /\ b.prepared = s.prepared /\ b.owner = s.owner
        /\ b.printer = s.printer /\ b.printerJobs = s.printerJobs
        /\ b.history = s.history /\ b.state = s.state /\ b.client = s.client
        /\ b.leaving = s.leaving /\ b.blocked = s.blocked
        /\ b.queued = s.queued \cup {j} /\ b.stray = s.stray \cup {j} /\ b.over = s.over
        /\ b.uQueued = s.uQueued /\ b.uPrepared = s.uPrepared
    BY DEF Service
  <2> HIDE DEF b, l
  <2> QED
    BY <2>1, <2>2 DEF ListedIn, l
<1>3. CASE ~full /\ ~other
  <2>1. l = c
    BY <1>3 DEF UpdateQueuedJobList
  <2>2. /\ c.users = s.users /\ c.prepared = s.prepared /\ c.owner = s.owner
        /\ c.printer = s.printer /\ c.printerJobs = s.printerJobs
        /\ c.history = s.history /\ c.state = s.state /\ c.client = s.client
        /\ c.leaving = s.leaving /\ c.blocked = s.blocked
        /\ c.queued = s.queued \cup {j} /\ c.stray = s.stray /\ c.over = s.over
    BY DEF Service
  <2>3. /\ c.uQueued = [s.uQueued EXCEPT ![u] = @ \cup {j}]
        /\ c.uPrepared = [s.uPrepared EXCEPT ![u] = @ \ {j}]
        /\ s.uQueued \in [Users -> SUBSET Jobs] /\ s.uPrepared \in [Users -> SUBSET Jobs]
    BY DEF Service
  <2>4. c \in Service
    BY DEF Service
  <2> HIDE DEF c, l
  <2>5. ASSUME NEW k \in Jobs, NEW w \in Users
        PROVE  /\ k \in c.uQueued[w] <=> k \in s.uQueued[w] \/ (k = j /\ w = u)
               /\ k \in c.uPrepared[w] <=> k \in s.uPrepared[w] /\ ~(k = j /\ w = u)
    BY <2>3
  <2> QED
    BY <1>3, <2>1, <2>2, <2>4, <2>5 DEF ListedIn, l
<1> QED
  BY <1>1, <1>2, <1>3

\* Job j is on printer q, and among the jobs of printer p.
Placed(s, t, j, p, q) ==
    /\ t \in Service
    /\ t.queued = s.queued /\ t.uQueued = s.uQueued /\ t.over = s.over /\ t.stray = s.stray
    /\ t.users = s.users /\ t.prepared = s.prepared /\ t.owner = s.owner
    /\ t.uPrepared = s.uPrepared /\ t.history = s.history
    /\ t.state = s.state /\ t.client = s.client /\ t.leaving = s.leaving
    /\ t.blocked = s.blocked
    /\ \A k \in Jobs : t.printer[k] = IF k = j THEN q ELSE s.printer[k]
    /\ \A d \in Printers, k \in Jobs :
          k \in t.printerJobs[d] <=> k \in s.printerJobs[d] \/ (k = j /\ d = p)

\* The start gives the job a printer, unless the PrintJob that is queued stays.
LEMMA PrinterFields ==
    ASSUME NEW s \in Service, NEW j \in Jobs, NEW p \in Printers, NEW q \in Printers
    PROVE  LET t == [s EXCEPT !.printer[j] = p, !.printerJobs[p] = @ \cup {j}] IN
           Placed(s, t, j, p, p) /\ Placed(s, [t EXCEPT !.printer[j] = q], j, p, q)
<1> DEFINE t == [s EXCEPT !.printer[j] = p, !.printerJobs[p] = @ \cup {j}]
           z == [t EXCEPT !.printer[j] = q]
<1>1. /\ t \in Service
      /\ t.queued = s.queued /\ t.uQueued = s.uQueued /\ t.over = s.over
      /\ t.stray = s.stray
      /\ t.users = s.users /\ t.prepared = s.prepared /\ t.owner = s.owner
      /\ t.uPrepared = s.uPrepared /\ t.history = s.history
      /\ t.state = s.state /\ t.client = s.client /\ t.leaving = s.leaving
      /\ t.blocked = s.blocked
      /\ t.printer = [s.printer EXCEPT ![j] = p]
      /\ t.printerJobs = [s.printerJobs EXCEPT ![p] = @ \cup {j}]
  BY DEF Service
<1>2. /\ s.printer \in [Jobs -> Printers \cup {NoPrinter}]
      /\ s.printerJobs \in [Printers -> SUBSET Jobs]
  BY DEF Service
<1> HIDE DEF t
<1>3. Placed(s, t, j, p, p)
  <2>1. \A k \in Jobs : t.printer[k] = IF k = j THEN p ELSE s.printer[k]
    BY <1>1, <1>2
  <2>2. \A d \in Printers, k \in Jobs :
          k \in t.printerJobs[d] <=> k \in s.printerJobs[d] \/ (k = j /\ d = p)
    BY <1>1, <1>2
  <2> QED
    BY <1>1, <2>1, <2>2 DEF Placed
<1>4. /\ z \in Service
      /\ z.queued = t.queued /\ z.uQueued = t.uQueued /\ z.over = t.over
      /\ z.stray = t.stray
      /\ z.users = t.users /\ z.prepared = t.prepared /\ z.owner = t.owner
      /\ z.uPrepared = t.uPrepared /\ z.history = t.history
      /\ z.state = t.state /\ z.client = t.client /\ z.leaving = t.leaving
      /\ z.blocked = t.blocked /\ z.printerJobs = t.printerJobs
      /\ z.printer = [t.printer EXCEPT ![j] = q]
  BY <1>1 DEF Service
<1> HIDE DEF z
<1>5. Placed(s, z, j, p, q)
  <2>1. \A k \in Jobs : z.printer[k] = IF k = j THEN q ELSE s.printer[k]
    BY <1>1, <1>2, <1>4
  <2> QED
    BY <1>3, <1>4, <2>1 DEF Placed
<1> QED
  BY <1>3, <1>5 DEF t, z

\* What a job has become that has been listed.
Enqueued(s, r, t, j) ==
    /\ Good(t) /\ Onward(s, t, {j}) /\ (Exact(s) => Exact(t))
    /\ \A w \in Users : s.uQueued[w] \subseteq t.uQueued[w]
    /\ t.client = s.client /\ t.prepared = r.prepared /\ t.state = r.state
    /\ j \in t.queued \cup t.over /\ ~Fresh(t, j)

\* The job is listed for its user and its printer, or only for its printer.
LEMMA EnqueueKeeps ==
    ASSUME NEW s, NEW r, NEW l, NEW t, NEW u \in Users, NEW j \in Jobs,
           NEW p \in Printers, NEW q \in Printers,
           Good(s), Ready(s, r, j), ListedIn(r, l, u, j), Placed(l, t, j, p, q),
           \/ q = p
           \/ q = s.printer[j] /\ \E w \in Users : j \in s.uQueued[w]
    PROVE  Enqueued(s, r, t, j)
<1>1. /\ s \in Service /\ r \in Service /\ t \in Service
      /\ Lists(s) /\ Strict(s) /\ FreshInv(s) /\ FreshJob(s, j)
  BY DEF Good, Lists, Ready, Placed, FreshInv
<1>2. Fresh(s, j) =>
         /\ j \notin s.queued \cup s.over \cup s.stray /\ s.client[<<j, 2>>] = "none"
         /\ \A w \in Users : j \notin s.uQueued[w] /\ j \notin s.history[w]
  BY <1>1 DEF FreshJob, Fresh, Lists, UserLists, StatesFit
<1>3. /\ t.client = s.client /\ t.history = s.history /\ t.leaving = s.leaving
      /\ t.blocked = s.blocked /\ s.users \subseteq t.users
      /\ t.prepared = r.prepared /\ t.state = r.state /\ t.owner = r.owner
      /\ t.users = r.users /\ ~Fresh(t, j)
  BY DEF Ready, ListedIn, Placed, Fresh
<1>4. /\ \A k \in Jobs \ {j} :
            /\ t.owner[k] = s.owner[k] /\ t.state[k] = s.state[k]
            /\ k \in t.prepared <=> k \in s.prepared
      /\ \A k \in Jobs : t.printer[k] = IF k = j THEN q ELSE s.printer[k]
      /\ \A d \in Printers, k \in Jobs :
            k \in t.printerJobs[d] <=> k \in s.printerJobs[d] \/ (k = j /\ d = p)
  BY <1>3 DEF Ready, ListedIn, Placed, SameLists
<1>5. /\ s.queued \subseteq t.queued /\ t.queued \subseteq s.queued \cup {j}
      /\ s.over \subseteq t.over /\ t.over \subseteq s.over \cup {j}
      /\ s.stray \subseteq t.stray /\ t.stray \subseteq s.stray \cup {j}
      /\ j \in t.queued \cup t.over
  BY DEF Ready, ListedIn, Placed, SameLists
<1>6. \A k \in Jobs \ {j}, w \in Users :
         /\ k \in t.uQueued[w] <=> k \in s.uQueued[w]
         /\ k \in t.uPrepared[w] <=> k \in s.uPrepared[w]
  BY DEF Ready, ListedIn, Placed, SameLists
<1>7. /\ j \in s.queued \/ ~(j \in t.queued) \/ j \in t.stray \/ j \in r.uPrepared[u]
      /\ \A w \in Users : j \in s.uQueued[w] => j \in t.uQueued[w]
      /\ \A w \in Users : j \in t.uPrepared[w] => j \in r.uPrepared[w] /\ j \notin t.uQueued[w]
      /\ \A w \in Users : j \in t.uQueued[w] /\ j \notin s.uQueued[w] =>
            w = u /\ u \in r.users /\ j \in r.uPrepared[u] /\ j \in t.queued
      /\ j \in t.queued /\ j \notin t.stray => j \in t.uQueued[u] /\ j \in r.uPrepared[u]
      /\ j \notin t.over \cup t.stray => j \in t.queued
      /\ j \in s.queued => j \in t.stray \/ j \in r.uPrepared[u]
  BY <1>1 DEF Ready, ListedIn, Placed, SameLists
<1>8. /\ \A w \in Users : j \in r.uPrepared[w] => r.owner[j] = w /\ j \notin s.uQueued[w]
      /\ r.owner[j] # s.owner[j] => Fresh(s, j)
      /\ r.state[j] \notin {"new", "COMPLETED"}
      /\ j \in r.prepared \/ r.state[j] = "PREPARED" => Fresh(s, j)
      /\ (\E w \in Users : j \in s.uQueued[w]) => r.state[j] = s.state[j]
      /\ (\A w \in Users : j \notin s.uQueued[w]) => r.state[j] # "BLOCKED"
  BY DEF Ready
<1>9. \A w \in Users : s.uQueued[w] \subseteq Jobs /\ t.uQueued[w] \subseteq Jobs
         /\ s.uPrepared[w] \subseteq Jobs /\ t.uPrepared[w] \subseteq Jobs
         /\ s.history[w] \subseteq Jobs
  BY <1>1 DEF Service
<1>10. \A w \in Users : j \in s.uQueued[w] =>
          s.owner[j] = w /\ r.owner[j] = w /\ j \notin r.uPrepared[u] /\ j \in s.queued
  BY <1>1, <1>2, <1>8 DEF Strict, Lists, UserLists
<1>11. UserLists(t) /\ Strict(t)
  <2>1. ASSUME NEW w \in Users, NEW k \in t.uQueued[w]
        PROVE  w \in t.users /\ k \in t.queued /\ t.owner[k] = w
    <3>1. CASE k = j
      BY <1>1, <1>3, <1>5, <1>7, <1>8, <1>10, <2>1, <3>1 DEF Lists, UserLists
    <3>2. CASE k # j
      BY <1>1, <1>3, <1>4, <1>5, <1>6, <1>9, <2>1, <3>2 DEF Lists, UserLists, Strict
    <3> QED
      BY <3>1, <3>2
  <2>2. ASSUME NEW k \in t.queued \ t.stray, t.owner[k] # NoUser
        PROVE  k \in t.uQueued[t.owner[k]]
    <3>1. CASE k = j
      BY <1>3, <1>7, <1>8, <2>2, <3>1
    <3>2. CASE k # j
      <4>1. k \in Jobs /\ t.owner[k] \in Users
        BY <1>1, <2>2 DEF Service
      <4>2. k \in s.queued \ s.stray /\ s.owner[k] = t.owner[k]
        BY <1>4, <1>5, <2>2, <3>2, <4>1
      <4> QED
        BY <1>1, <1>6, <2>2, <3>2, <4>1, <4>2 DEF Lists, UserLists
    <3> QED
      BY <3>1, <3>2
  <2>3. ASSUME NEW w \in Users, NEW k \in t.uPrepared[w]
        PROVE  t.owner[k] = w
    <3>1. CASE k = j
      BY <1>3, <1>7, <1>8, <2>3, <3>1
    <3>2. CASE k # j
      BY <1>1, <1>4, <1>6, <1>9, <2>3, <3>2 DEF Lists, UserLists
    <3> QED
      BY <3>1, <3>2
  <2> QED
    BY <2>1, <2>2, <2>3 DEF UserLists, Strict
<1>12. PrinterLists(t)
  <2>1. ASSUME NEW k \in t.queued
        PROVE  t.printer[k] \in Printers /\ k \in t.printerJobs[t.printer[k]]
    <3>1. k \in Jobs
      BY <1>1 DEF Service
    <3>2. CASE k = j
      <4>1. q = p \/ j \in s.printerJobs[q]
        BY <1>1, <1>10 DEF Lists, PrinterLists
      <4> QED
        BY <1>4, <3>1, <3>2, <4>1
    <3>3. CASE k # j
      BY <1>1, <1>4, <1>5, <2>1, <3>1, <3>3 DEF Lists, PrinterLists
    <3> QED
      BY <3>2, <3>3
  <2>2. ASSUME NEW d \in Printers, NEW k \in t.printerJobs[d]
        PROVE  (t.printer[k] = d /\ k \in t.queued) \/ k \in t.over \cup t.stray
    <3>1. k \in Jobs
      BY <1>1 DEF Service
    <3>2. CASE k = j
      <4>1. CASE j \in t.over \cup t.stray
        BY <3>2, <4>1
      <4>2. CASE j \notin t.over \cup t.stray
        <5>1. j \in t.queued /\ j \in t.uQueued[u] /\ j \in r.uPrepared[u] /\ t.owner[j] = u
          BY <1>3, <1>7, <1>8, <4>2
        <5>2. q = p
          BY <1>10, <5>1
        <5>3. j \notin s.queued
          <6>1. j \notin s.uQueued[u] /\ u # NoUser /\ j \notin s.stray
            BY <1>5, <1>8, <4>2, <5>1, UsersAssumption
          <6>2. j \in s.queued => s.owner[j] = u
            BY <1>2, <1>3, <1>8, <5>1
          <6> QED
            BY <1>1, <6>1, <6>2 DEF Lists, UserLists
        <5>4. j \notin s.printerJobs[d]
          BY <1>1, <1>5, <4>2, <5>3 DEF Lists, PrinterLists
        <5> QED
          BY <1>4, <2>2, <3>1, <3>2, <5>1, <5>2, <5>4
      <4> QED
        BY <4>1, <4>2
    <3>3. CASE k # j
      BY <1>1, <1>4, <1>5, <2>2, <3>1, <3>3 DEF Lists, PrinterLists
    <3> QED
      BY <3>2, <3>3
  <2> QED
    BY <2>1, <2>2 DEF PrinterLists
<1>13. StatesFit(t)
  <2>1. ASSUME NEW k \in Jobs, HeldIn(t, k)
        PROVE  k \in t.queued \cup t.over \/ t.state[k] = "COMPLETED"
    <3>1. CASE k = j
      BY <1>5, <3>1
    <3>2. CASE k # j
      BY <1>1, <1>3, <1>4, <1>5, <2>1, <3>2 DEF Lists, StatesFit, HeldIn
    <3> QED
      BY <3>1, <3>2
  <2>2. ASSUME NEW k \in t.queued
        PROVE  t.state[k] # "COMPLETED"
    <3>1. k \in Jobs
      BY <1>1 DEF Service
    <3> QED
      BY <1>1, <1>3, <1>4, <1>5, <1>8, <2>2, <3>1 DEF Lists, StatesFit
  <2>3. ASSUME NEW w \in Users, NEW k \in t.history[w]
        PROVE  /\ t.state[k] \notin {"new", "PREPARED"} /\ t.owner[k] \in {w, NoUser}
               /\ t.printer[k] \in Printers
    <3>1. k \in Jobs /\ k \in s.history[w]
      BY <1>3, <1>9, <2>3
    <3>2. CASE k = j
      <4>1. ~Fresh(s, j)
        BY <1>2, <3>1, <3>2
      <4> QED
        BY <1>1, <1>3, <1>4, <1>8, <3>1, <3>2, <4>1 DEF Lists, StatesFit
    <3>3. CASE k # j
      BY <1>1, <1>4, <3>1, <3>3 DEF Lists, StatesFit
    <3> QED
      BY <3>2, <3>3
  <2> QED
    BY <2>1, <2>2, <2>3 DEF StatesFit
<1>14. CopiesFit(t)
  <2>1. ASSUME NEW k \in Jobs, k \in t.prepared \/ t.state[k] \in {"new", "PREPARED"}
        PROVE  t.client[<<k, 2>>] = "none"
    <3>1. CASE k = j
      BY <1>2, <1>3, <1>8, <2>1, <3>1
    <3>2. CASE k # j
      BY <1>1, <1>3, <1>4, <2>1, <3>2 DEF Lists, CopiesFit
    <3> QED
      BY <3>1, <3>2
  <2> QED
    BY <1>1, <1>3, <2>1 DEF Lists, CopiesFit
<1>15. FreshInv(t)
  <2>1. ASSUME NEW k \in Jobs \ {j}
        PROVE  FreshJob(t, k)
    <3>1. FreshJob(s, k)
      BY <1>1 DEF FreshInv
    <3>2. Fresh(t, k) <=> Fresh(s, k)
      BY <1>4 DEF Fresh
    <3> QED
      BY <1>3, <1>4, <1>5, <1>6, <3>1, <3>2 DEF FreshJob
  <2>2. FreshJob(t, j)
    BY <1>3, <1>7, <1>8 DEF FreshJob
  <2> QED
    BY <2>1, <2>2 DEF FreshInv
<1>16. \A w \in Users : s.uQueued[w] \subseteq t.uQueued[w]
  BY <1>6, <1>7, <1>9
<1>17. Quiet(s, t)
  <2>1. ASSUME NEW w \in Users, NEW k \in t.uQueued[w]
        PROVE  t.state[k] = "BLOCKED" <=> k \in s.uQueued[w] /\ s.state[k] = "BLOCKED"
    <3>1. CASE k = j
      <4>1. CASE j \in s.uQueued[w]
        BY <1>3, <1>8, <3>1, <4>1
      <4>2. CASE j \notin s.uQueued[w]
        <5>1. \A v \in Users : j \notin s.uQueued[v]
          BY <1>7, <1>10, <2>1, <3>1, <4>2
        <5> QED
          BY <1>3, <1>8, <3>1, <4>2, <5>1
      <4> QED
        BY <4>1, <4>2
    <3>2. CASE k # j
      BY <1>4, <1>6, <1>9, <2>1, <3>2
    <3> QED
      BY <3>1, <3>2
  <2> QED
    BY <1>3, <1>16, <2>1 DEF Quiet
<1>18. Onward(s, t, {j}) /\ (Exact(s) => Exact(t))
  BY <1>4, <1>16, <1>17, QuietIsExact DEF Onward
<1>19. Good(t)
  BY <1>1, <1>11, <1>12, <1>13, <1>14, <1>15 DEF Good, Lists
<1> QED
  BY <1>3, <1>5, <1>16, <1>18, <1>19 DEF Enqueued

\* StartPrintJobInternal of a job that is listed now, in all its ends: the client
\* is given a copy that it does not have.
LEMMA StartKeeps ==
    ASSUME NEW s, NEW u \in Users, NEW j \in Jobs, NEW end \in Ends,
           Good(s), j \in s.queued \cup s.over, ~Fresh(s, j),
           s.client[NextCopy(s, j)] = "none",
           \/ s.client[<<j, 1>>] = "none"
           \/ j \notin s.prepared /\ s.state[j] \notin {"new", "PREPARED"}
    PROVE  LET t == StartPrintJobInternal(s, u, j, end) IN
           Good(t) /\ Advance(s, t) /\ t.prepared = s.prepared
<1> DEFINE t == StartPrintJobInternal(s, u, j, end)
<1>1. PICK n \in {1, 2} :
         /\ NextCopy(s, j) = <<j, n>> /\ s.client[<<j, n>>] = "none"
         /\ n = 1 \/ (j \notin s.prepared /\ s.state[j] \notin {"new", "PREPARED"})
  BY DEF NextCopy
<1> DEFINE w == [s EXCEPT !.client[<<j, n>>] = "waiting"]
           g == [s EXCEPT !.client[<<j, n>>] = "gone"]
<1>2. <<j, n>> \notin s.leaving /\ "waiting" \in Places /\ "gone" \in Places
  BY <1>1 DEF Good, Lists, CopiesFit, Places
<1>3. /\ Good(w) /\ Advance(s, w) /\ w.state = s.state /\ w.prepared = s.prepared
      /\ Good(g) /\ Advance(s, g) /\ g.state = s.state /\ g.prepared = s.prepared
  <2>1. \/ s.client[<<j, n>>] # "none" \/ n = 1
        \/ j \notin s.prepared /\ s.state[j] \notin {"new", "PREPARED"}
    BY <1>1
  <2>2. /\ Good(w) /\ Advance(s, w) /\ w.state = s.state /\ w.prepared = s.prepared
    BY <1>2, <2>1, ClientKeeps
  <2>3. /\ Good(g) /\ Advance(s, g) /\ g.state = s.state /\ g.prepared = s.prepared
    BY <1>2, <2>1, ClientKeeps
  <2> HIDE DEF w, g
  <2> QED
    BY <2>2, <2>3
<1>4. s \in Service /\ "BLOCKED" \in ReportStates /\ "QUEUED" \in ReportStates
  BY DEF Good, Lists, ReportStates
<1> HIDE DEF w, g
<1>5. CASE end = "reported"
  <2>1. t = UpdatePrintJobState(s, u, j, "BLOCKED")
    BY <1>5 DEF StartPrintJobInternal
  <2> HIDE DEF t
  <2>2. Good(t) /\ Advance(s, t) /\ SameButState(s, t)
    BY <1>4, <2>1, ReportsKeep
  <2> QED
    BY <2>2 DEF SameButState, t
<1>6. CASE end = "banned"
  <2>1. t = s
    BY <1>6 DEF StartPrintJobInternal
  <2> HIDE DEF t
  <2> QED
    BY <2>1 DEF Advance, Onward, t
<1>7. CASE end = "lost"
  <2>1. t = g
    BY <1>1, <1>7 DEF StartPrintJobInternal, g
  <2> HIDE DEF t
  <2> QED
    BY <2>1, <1>3 DEF t
<1>8. CASE end = "sent"
  <2>1. t = w
    BY <1>1, <1>8 DEF StartPrintJobInternal, AddCupsPrintJob, w
  <2> HIDE DEF t
  <2> QED
    BY <2>1, <1>3 DEF t
<1>9. CASE end = "queued"
  <2>1. t = UpdatePrintJobState(w, u, j, "QUEUED")
    BY <1>1, <1>9 DEF StartPrintJobInternal, AddCupsPrintJob, w
  <2> HIDE DEF t
  <2>2. Good(t) /\ Advance(w, t) /\ SameButState(w, t)
    BY <1>3, <1>4, <2>1, ReportsKeep
  <2>3. Advance(s, t)
    BY <1>3, <1>4, <2>2, AdvanceTrans DEF Good, Lists
  <2> QED
    BY <1>3, <2>2, <2>3 DEF SameButState, t
<1> QED
  BY <1>5, <1>6, <1>7, <1>8, <1>9 DEF Ends

\* The client has no second copy of a job that is made ready in r, and if it has a
\* first one, then the job does not look like one that it has no copy of.
Startable(s, r, j) ==
    /\ s.client[<<j, 2>>] = "none"
    /\ \/ s.client[<<j, 1>>] = "none"
       \/ j \notin r.prepared /\ r.state[j] \notin {"new", "PREPARED"}

\* A job that is made ready, listed and started, and may have a copy at the client
\* already: nothing but that job goes back.
LEMMA ReadyKeeps ==
    ASSUME NEW s, NEW r, NEW e, NEW u \in Users, NEW j \in Jobs, NEW end \in Ends,
           s \in Service, Enqueued(s, r, e, j), Startable(s, r, j)
    PROVE  LET t == StartPrintJobInternal(e, u, j, end) IN
           /\ Good(t) /\ Onward(s, t, {j}) /\ (Exact(s) => Exact(t))
           /\ t.prepared = r.prepared
<1> DEFINE t == StartPrintJobInternal(e, u, j, end)
<1>1. /\ Good(e) /\ Onward(s, e, {j}) /\ (Exact(s) => Exact(e))
      /\ \A w \in Users : s.uQueued[w] \subseteq e.uQueued[w]
      /\ e.client = s.client /\ e.prepared = r.prepared /\ e.state = r.state
      /\ j \in e.queued \cup e.over /\ ~Fresh(e, j)
  BY DEF Enqueued
<1>2. e.client[NextCopy(e, j)] = "none"
  BY <1>1 DEF NextCopy, Startable
<1>3. Good(t) /\ Advance(e, t) /\ t.prepared = e.prepared
  BY <1>1, <1>2, StartKeeps DEF Startable
<1> HIDE DEF t
<1>4. Onward(s, t, {j})
  BY <1>1, <1>3 DEF Onward, Advance
<1>5. Exact(s) => Exact(t)
  BY <1>1, <1>3 DEF Advance
<1> QED
  BY <1>1, <1>3, <1>4, <1>5 DEF t

\* The data of a user takes a prepared job.
LEMMA UserPrepares ==
    ASSUME NEW s \in Service, NEW u \in Users, NEW j \in Jobs
    PROVE  [s EXCEPT !.uPrepared[u] = @ \cup {j}] \in Service
  BY DEF Service

\* AddToPrintJobList for a job that was given its id just now.
LEMMA AddFields ==
    ASSUME NEW s \in Service, NEW u \in Users, NEW j \in Jobs, s.owner[j] = NoUser
    PROVE  LET t == AddToPrintJobList(s, u, j)
           IN  /\ t \in Service
               /\ t.users = s.users \cup {u} /\ t.prepared = s.prepared \cup {j}
               /\ t.owner = [s.owner EXCEPT ![j] = u]
               /\ t.uPrepared = [s.uPrepared EXCEPT ![u] = @ \cup {j}]
               /\ t.printer = s.printer /\ t.history = s.history /\ t.state = s.state
               /\ t.client = s.client /\ t.over = s.over /\ t.stray = s.stray
               /\ t.leaving = s.leaving /\ SameLists(s, t) /\ t.blocked = s.blocked
<1> DEFINE a == AddUser(s, u)
           t == [a EXCEPT !.prepared = @ \cup {j}, !.owner[j] = u,
                          !.uPrepared[u] = @ \cup {j}]
<1>1. /\ a \in Service
      /\ a.users = s.users \cup {u} /\ SameButState(s, a) /\ SameLists(s, a)
      /\ a.state = s.state /\ a.history = s.history /\ a.blocked = s.blocked
  BY AddUserFields
<1> HIDE DEF a
<1>2. AddToPrintJobList(s, u, j) = t
  <2>1. a.owner[j] = NoUser
    BY <1>1 DEF SameButState
  <2> QED
    BY <2>1 DEF AddToPrintJobList, a
<1>3. t.users = a.users /\ t.prepared = a.prepared \cup {j}
  BY <1>1 DEF Service
<1>4. t \in Service
  <2>1. [a EXCEPT !.prepared = @ \cup {j}, !.owner[j] = u] \in Service
    BY <1>1 DEF Service
  <2> DEFINE b == [a EXCEPT !.prepared = @ \cup {j}, !.owner[j] = u]
  <2>2. t = [b EXCEPT !.uPrepared[u] = @ \cup {j}]
    BY <1>1 DEF Service
  <2> HIDE DEF b, t
  <2>3. [b EXCEPT !.uPrepared[u] = @ \cup {j}] \in Service
    BY <2>1, UserPrepares DEF b
  <2> QED
    BY <2>2, <2>3
<1>5. t.owner = [a.owner EXCEPT ![j] = u]
  BY <1>1 DEF Service
<1>6. t.uPrepared = [a.uPrepared EXCEPT ![u] = @ \cup {j}]
  BY <1>1 DEF Service
<1>7. /\ t.printer = a.printer /\ t.history = a.history /\ t.state = a.state
      /\ t.client = a.client /\ t.over = a.over /\ t.stray = a.stray
      /\ t.leaving = a.leaving /\ SameLists(a, t) /\ t.blocked = a.blocked
  BY <1>1 DEF Service, SameLists
<1> HIDE DEF t
<1> QED
  BY <1>1, <1>2, <1>3, <1>4, <1>5, <1>6, <1>7 DEF SameButState, SameLists

\* A job that was given its id just now and is prepared by user u.
LEMMA NewIsReady ==
    ASSUME NEW s, NEW r, NEW u \in Users, NEW j \in Jobs, Good(s),
           s.state[j] = "new",
           \/ r = [AddToPrintJobList(s, u, j) EXCEPT !.state[j] = "QUEUED"]
           \/ r = [AddToPrintJobList(s, u, j) EXCEPT !.state[j] = "PREPARED",
                                                     !.prepared = @ \ {j}]
    PROVE  Ready(s, r, j) /\ Startable(s, r, j)
<1> DEFINE a == AddToPrintJobList(s, u, j)
<1>1. /\ s \in Service /\ s.owner[j] = NoUser /\ Fresh(s, j) /\ j \notin s.queued
      /\ s.client[<<j, 1>>] = "none" /\ s.client[<<j, 2>>] = "none"
      /\ \A w \in Users : j \notin s.uPrepared[w] /\ j \notin s.uQueued[w]
  BY DEF Good, Lists, UserLists, FreshInv, FreshJob, Fresh
<1>2. /\ a \in Service
      /\ a.users = s.users \cup {u} /\ a.prepared = s.prepared \cup {j}
      /\ a.owner = [s.owner EXCEPT ![j] = u]
      /\ a.uPrepared = [s.uPrepared EXCEPT ![u] = @ \cup {j}]
      /\ a.printer = s.printer /\ a.history = s.history /\ a.state = s.state
      /\ a.client = s.client /\ a.over = s.over /\ a.stray = s.stray
      /\ a.leaving = s.leaving /\ SameLists(s, a) /\ a.blocked = s.blocked
  BY <1>1, AddFields
<1> HIDE DEF a
<1> DEFINE q == [a EXCEPT !.state[j] = "QUEUED"]
           n == [a EXCEPT !.state[j] = "PREPARED", !.prepared = @ \ {j}]
<1>3. /\ q \in Service /\ SameLists(a, q) /\ q.history = a.history
      /\ q.blocked = a.blocked /\ q.leaving = a.leaving
      /\ q.printer = a.printer /\ q.client = a.client /\ q.over = a.over
      /\ q.stray = a.stray
      /\ q.users = a.users /\ q.owner = a.owner /\ q.uPrepared = a.uPrepared
      /\ q.state = [a.state EXCEPT ![j] = "QUEUED"] /\ q.prepared = a.prepared
  BY <1>2 DEF Service, SameLists, JobStates
<1>4. /\ n \in Service /\ SameLists(a, n) /\ n.history = a.history
      /\ n.blocked = a.blocked /\ n.leaving = a.leaving
      /\ n.printer = a.printer /\ n.client = a.client /\ n.over = a.over
      /\ n.stray = a.stray
      /\ n.users = a.users /\ n.owner = a.owner /\ n.uPrepared = a.uPrepared
      /\ n.state = [a.state EXCEPT ![j] = "PREPARED"] /\ n.prepared = a.prepared \ {j}
  BY <1>2 DEF Service, SameLists, JobStates
<1>5. r = q \/ r = n
  BY DEF a
<1> HIDE DEF q, n
<1>6. /\ s.owner \in [Jobs -> Users \cup {NoUser}] /\ s.state \in [Jobs -> JobStates]
      /\ s.uPrepared \in [Users -> SUBSET Jobs]
  BY <1>1 DEF Service
<1>7. /\ r \in Service /\ SameLists(s, r) /\ r.history = s.history /\ r.leaving = s.leaving
      /\ r.blocked = s.blocked /\ r.stray = s.stray
      /\ r.printer = s.printer /\ r.client = s.client /\ r.over = s.over
      /\ s.users \subseteq r.users
      /\ r.owner = [s.owner EXCEPT ![j] = u]
      /\ r.uPrepared = [s.uPrepared EXCEPT ![u] = @ \cup {j}]
  BY <1>2, <1>3, <1>4, <1>5 DEF SameLists
<1>8. /\ r.owner[j] = u /\ \A k \in Jobs \ {j} : r.owner[k] = s.owner[k]
      /\ \A k \in Jobs, w \in Users :
            k \in r.uPrepared[w] <=> k \in s.uPrepared[w] \/ (k = j /\ w = u)
  BY <1>6, <1>7
<1>9. /\ r.state[j] \in {"PREPARED", "QUEUED"} /\ ~Fresh(r, j)
      /\ \A k \in Jobs \ {j} : r.state[k] = s.state[k] /\ (k \in r.prepared <=> k \in s.prepared)
  <2>1. CASE r = q
    BY <1>2, <1>3, <1>6, <2>1 DEF Fresh
  <2>2. CASE r = n
    BY <1>2, <1>4, <1>6, <2>2 DEF Fresh
  <2> QED
    BY <1>5, <2>1, <2>2
<1> QED
  BY <1>1, <1>7, <1>8, <1>9 DEF Ready, Startable

\* A fresh job that is listed and started.
LEMMA NewKeeps ==
    ASSUME NEW s, NEW r, NEW u \in Users, NEW j \in Jobs, NEW p \in Printers,
           NEW end \in Ends, Good(s), s.state[j] = "new",
           \/ r = [AddToPrintJobList(s, u, j) EXCEPT !.state[j] = "QUEUED"]
           \/ r = [AddToPrintJobList(s, u, j) EXCEPT !.state[j] = "PREPARED",
                                                     !.prepared = @ \ {j}]
    PROVE  LET t == StartPrintJobInternal(Enqueue(r, u, j, p), u, j, end) IN
           Good(t) /\ Advance(s, t)
<1> DEFINE l == UpdateQueuedJobList(r, u, j)
           e == Enqueue(r, u, j, p)
           t == StartPrintJobInternal(e, u, j, end)
<1>1. /\ Ready(s, r, j) /\ Startable(s, r, j)
      /\ s \in Service /\ r \in Service
  <2>1. Ready(s, r, j) /\ Startable(s, r, j)
    BY NewIsReady
  <2>2. r \in Service
    BY <2>1 DEF Ready
  <2> QED
    BY <2>1, <2>2 DEF Good, Lists
<1>2. ListedIn(r, l, u, j) /\ l \in Service
  BY <1>1, ListingFields DEF ListedIn
<1> HIDE DEF l
<1>3. Placed(l, e, j, p, p)
  BY <1>2, PrinterFields DEF Enqueue, l
<1> HIDE DEF e
<1>4. Enqueued(s, r, e, j)
  BY <1>1, <1>2, <1>3, EnqueueKeeps
<1>5. Good(t) /\ Onward(s, t, {j}) /\ (Exact(s) => Exact(t))
  BY <1>1, <1>4, ReadyKeeps
<1> HIDE DEF t
<1>6. Advance(s, t)
  BY <1>5 DEF Advance, Onward
<1> QED
  BY <1>5, <1>6 DEF t, e

\* With the lists in order, the jobs that stay are those that a user has queued.
LEMMA StaysIs ==
    ASSUME NEW s, NEW u \in Users, NEW j \in Jobs, Good(s)
    PROVE  Stays(s, u, j) <=> \E w \in Users : j \in s.uQueued[w]
<1>1. FreshJob(s, j)
  BY DEF Good, FreshInv
<1> QED
  BY <1>1 DEF Stays, FreshJob

\* CheckPrintJob, of a job that is in printJobList_ for the first time or again.
LEMMA CheckedIsReady ==
    ASSUME NEW s, NEW u \in Users, NEW j \in Jobs, Good(s), j \in s.prepared
    PROVE  LET r == CheckPrintJob(s, u, j) IN
           Ready(s, r, j) /\ Startable(s, r, j) /\ j \notin r.prepared
<1> DEFINE state == IF Stays(s, u, j) THEN s.state[j] ELSE "QUEUED"
           r == [s EXCEPT !.prepared = @ \ {j}, !.state[j] = state]
<1>1. s \in Service /\ s.state \in [Jobs -> JobStates] /\ Lists(s) /\ FreshJob(s, j)
  BY DEF Good, Lists, Service, FreshInv
<1>2. CheckPrintJob(s, u, j) = r
  BY DEF CheckPrintJob
<1>3. (\E w \in Users : j \in s.uQueued[w]) => j \in s.queued /\ state = s.state[j]
  BY <1>1, StaysIs DEF Lists, UserLists
<1>4. (\A w \in Users : j \notin s.uQueued[w]) => state = "QUEUED"
  BY StaysIs
<1>5. state \in JobStates /\ state \notin {"new", "PREPARED", "COMPLETED"}
  BY <1>1, <1>3, <1>4 DEF Lists, StatesFit, FreshJob, Fresh, JobStates
<1> HIDE DEF state
<1>6. /\ r \in Service /\ SameLists(s, r) /\ r.history = s.history /\ r.leaving = s.leaving
      /\ r.blocked = s.blocked /\ r.stray = s.stray
      /\ r.printer = s.printer /\ r.client = s.client /\ r.over = s.over
      /\ r.users = s.users /\ r.owner = s.owner /\ r.uPrepared = s.uPrepared
      /\ r.state = [s.state EXCEPT ![j] = state] /\ r.prepared = s.prepared \ {j}
  BY <1>1, <1>5 DEF Service, SameLists
<1> HIDE DEF r
<1>7. r.state[j] = state /\ \A k \in Jobs \ {j} : r.state[k] = s.state[k]
  BY <1>1, <1>6
<1>8. \A w \in Users : j \in s.uPrepared[w] => s.owner[j] = w /\ j \notin s.uQueued[w]
  BY <1>1 DEF Lists, UserLists, FreshJob
<1>9. Ready(s, r, j)
  BY <1>3, <1>4, <1>5, <1>6, <1>7, <1>8 DEF Ready, Fresh
<1>10. s.client[<<j, 2>>] = "none"
  BY <1>1 DEF Lists, CopiesFit
<1> QED
  BY <1>2, <1>5, <1>6, <1>7, <1>9, <1>10 DEF Startable


-----------------------------------------------------------------------------
(* The invariant, of the specification *)

\* While a user is removed, its queue holds its jobs that are still to be
\* cancelled and those that have lost their owner.
RemovalFits ==
    /\ removal # NoLoop => deletion = NoLoop
    /\ deletion # NoLoop => deletion.user \in Users
    /\ \A w \in Users \ {removal.user} : \A j \in svc.uQueued[w] : svc.owner[j] = w
    /\ removal # NoLoop =>
          /\ \A j \in svc.uQueued[removal.user] :
                svc.owner[j] = removal.user => j \in removal.todo
          /\ \A j \in removal.todo :
                j \in svc.uQueued[removal.user] /\ svc.owner[j] = removal.user

\* As long as nobody was removed.
ExactTillRemoval == accounts = Users => Exact(svc)

IInv == TypeOK /\ Lists(svc) /\ FreshInv(svc) /\ RemovalFits /\ ExactTillRemoval

\* Nothing is listed at first.
LEMMA InvInit == Init => IInv
  BY UsersAssumption
     DEF Init, IInv, TypeOK, Service, JobStates, Places, Copies, NoLoop, Lists, UserLists,
         PrinterLists, StatesFit, HeldIn, CopiesFit, FreshInv, FreshJob, Fresh, RemovalFits,
         ExactTillRemoval, Exact, HasBlocked

\* When no user is being removed, each one queues only jobs of its own.
LEMMA Calm ==
    ASSUME IInv, removal = NoLoop
    PROVE  Good(svc) /\ svc \in Service /\ accounts \subseteq Users
           /\ active \in Users /\ NoUser \notin Users
<1>1. removal.user = NoUser
  BY DEF NoLoop
<1> QED
  BY <1>1, UsersAssumption DEF IInv, Good, Strict, RemovalFits, TypeOK, Lists

\* What most steps do to the record when no user is being removed.
Keeps(s, t) == Good(t) /\ Advance(s, t)

\* What the rest of the proof needs to know of a step: the jobs that go back are
\* among those that it takes off printJobList_.
StepFits ==
    /\ Good(svc') /\ Onward(svc, svc', svc.prepared \ svc'.prepared)
    /\ Exact(svc) => Exact(svc')

\* What the operators keep is what the invariant needs.
LEMMA KeepsFits ==
    ASSUME Keeps(svc, svc')
    PROVE  StepFits
  BY DEF StepFits, Keeps, Advance, Onward

\* Steps outside a removal.
LEMMA CalmStep ==
    ASSUME IInv, removal = NoLoop, StepFits, UNCHANGED accounts,
           active' \in accounts, running' \in BOOLEAN, removal' = NoLoop,
           deletion' \in [user : Users \cup {NoUser}, todo : SUBSET Jobs],
           deletion' # NoLoop => deletion'.user \in Users
    PROVE  IInv'
<1>1. removal'.user = NoUser
  BY DEF NoLoop
<1>2. TypeOK'
  BY DEF TypeOK, IInv, StepFits, Good, Lists, NoLoop
<1>3. RemovalFits'
  BY <1>1 DEF RemovalFits, StepFits, Good, Strict
<1> QED
  BY <1>2, <1>3 DEF IInv, StepFits, Good, ExactTillRemoval

-----------------------------------------------------------------------------
(* The steps, one by one *)

\* An application prepares a job.
LEMMA StartPrintKeeps ==
    ASSUME IInv, NEW u \in accounts, NEW j \in Jobs, StartPrint(u, j)
    PROVE  Keeps(svc, svc')
<1> DEFINE a == AddToPrintJobList(svc, u, j)
           t == [a EXCEPT !.state[j] = "PREPARED"]
<1>1. /\ Good(svc) /\ svc \in Service /\ u \in Users
      /\ svc.state[j] = "new" /\ svc' = t
  BY Calm DEF StartPrint, CanCall, Becomes
<1>2. /\ svc.owner[j] = NoUser /\ j \notin svc.queued \cup svc.over \cup svc.stray
      /\ svc.client[<<j, 1>>] = "none" /\ svc.client[<<j, 2>>] = "none"
      /\ \A w \in Users : j \notin svc.uPrepared[w]
  BY <1>1 DEF Good, FreshInv, FreshJob, Fresh
<1>3. /\ a \in Service
      /\ a.users = svc.users \cup {u} /\ a.prepared = svc.prepared \cup {j}
      /\ a.owner = [svc.owner EXCEPT ![j] = u]
      /\ a.uPrepared = [svc.uPrepared EXCEPT ![u] = @ \cup {j}]
      /\ a.printer = svc.printer /\ a.history = svc.history /\ a.state = svc.state
      /\ a.client = svc.client /\ a.over = svc.over /\ a.stray = svc.stray
      /\ a.leaving = svc.leaving /\ SameLists(svc, a) /\ a.blocked = svc.blocked
  BY <1>1, <1>2, AddFields
<1> HIDE DEF a
<1>4. /\ t \in Service /\ SameLists(a, t) /\ t.history = a.history /\ t.leaving = a.leaving
      /\ t.printer = a.printer /\ t.client = a.client /\ t.over = a.over
      /\ t.users = a.users /\ t.owner = a.owner /\ t.uPrepared = a.uPrepared
      /\ t.state = [a.state EXCEPT ![j] = "PREPARED"] /\ t.prepared = a.prepared
      /\ t.blocked = a.blocked /\ t.stray = a.stray
  BY <1>3 DEF Service, SameLists, JobStates
<1> HIDE DEF t
<1>5. /\ svc.owner \in [Jobs -> Users \cup {NoUser}] /\ svc.state \in [Jobs -> JobStates]
      /\ svc.uPrepared \in [Users -> SUBSET Jobs]
  BY <1>1 DEF Service
<1>6. /\ t.owner[j] = u /\ t.state[j] = "PREPARED" /\ u \in t.users
      /\ t.prepared = svc.prepared \cup {j}
      /\ \A k \in Jobs \ {j} : t.owner[k] = svc.owner[k] /\ t.state[k] = svc.state[k]
  BY <1>3, <1>4, <1>5
<1>7. \A k \in Jobs, w \in Users :
         k \in t.uPrepared[w] <=> k \in svc.uPrepared[w] \/ (k = j /\ w = u)
  <2>1. t.uPrepared = [svc.uPrepared EXCEPT ![u] = @ \cup {j}]
    BY <1>3, <1>4
  <2> QED
    BY <1>5, <2>1
<1>8. /\ t.client = svc.client /\ t.over = svc.over /\ t.printer = svc.printer
      /\ t.history = svc.history /\ SameLists(svc, t) /\ svc.users \subseteq t.users
      /\ t.leaving = svc.leaving /\ t.blocked = svc.blocked /\ t.stray = svc.stray
  BY <1>3, <1>4 DEF SameLists
<1>9. \A w \in Users : j \notin svc.uQueued[w] /\ j \notin svc.history[w]
  BY <1>1, <1>2 DEF Good, Lists, UserLists, StatesFit
<1>10. /\ svc.queued \subseteq Jobs /\ t.prepared \subseteq Jobs
       /\ \A w \in Users : /\ svc.uQueued[w] \subseteq Jobs /\ svc.history[w] \subseteq Jobs
                           /\ t.uPrepared[w] \subseteq Jobs
  BY <1>1, <1>4 DEF Service
<1>11. UserLists(t) /\ Strict(t)
  BY <1>1, <1>2, <1>6, <1>7, <1>8, <1>9, <1>10
     DEF Good, Lists, UserLists, Strict, SameLists
<1>12. PrinterLists(t)
  BY <1>1, <1>8 DEF Good, Lists, PrinterLists, SameLists
<1>13. StatesFit(t) /\ CopiesFit(t)
  <2>1. StatesFit(t)
    BY <1>1, <1>2, <1>6, <1>8, <1>9, <1>10 DEF Good, Lists, StatesFit, HeldIn, SameLists
  <2>2. CopiesFit(t)
    BY <1>1, <1>2, <1>6, <1>8 DEF Good, Lists, CopiesFit
  <2> QED
    BY <2>1, <2>2
<1>14. FreshInv(t)
  <2>1. ASSUME NEW k \in Jobs \ {j}
        PROVE  FreshJob(t, k)
    <3>1. FreshJob(svc, k)
      BY <1>1 DEF Good, FreshInv
    <3>2. Fresh(t, k) <=> Fresh(svc, k)
      BY <1>6 DEF Fresh
    <3> QED
      BY <1>6, <1>7, <1>8, <3>1, <3>2 DEF FreshJob, SameLists
  <2>2. FreshJob(t, j)
    BY <1>2, <1>6, <1>8, <1>9 DEF FreshJob, SameLists
  <2> QED
    BY <2>1, <2>2 DEF FreshInv
<1>15. Advance(svc, t)
  <2>1. Quiet(svc, t)
    BY <1>6, <1>8, <1>9, <1>10 DEF Quiet, SameLists
  <2> QED
    BY <1>1, <1>6, <1>8, <2>1, QuietIsExact DEF Advance, Onward, SameLists
<1>16. Good(t)
  BY <1>4, <1>11, <1>12, <1>13, <1>14 DEF Good, Lists
<1> QED
  BY <1>1, <1>15, <1>16 DEF Keeps

\* CheckPrintJob led from s to r, and the listing of the job to e.
Checked(s, r, e, u, j, p) ==
    /\ r = CheckPrintJob(s, u, j)
    /\ e = IF Stays(s, u, j) THEN [Enqueue(r, u, j, p) EXCEPT !.printer[j] = s.printer[j]]
           ELSE Enqueue(r, u, j, p)

\* A job of printJobList_ that is checked, listed and started: only that job may go
\* back, and it is off the list.
LEMMA CheckedKeeps ==
    ASSUME NEW s, NEW r, NEW e, NEW u \in Users, NEW j \in Jobs, NEW p \in Printers,
           NEW end \in Ends, Good(s), j \in s.prepared, Checked(s, r, e, u, j, p)
    PROVE  LET t == StartPrintJobInternal(e, u, j, end) IN
           /\ Good(t) /\ Onward(s, t, s.prepared \ t.prepared) /\ (Exact(s) => Exact(t))
<1> DEFINE l == UpdateQueuedJobList(r, u, j)
           b == [l EXCEPT !.printer[j] = p, !.printerJobs[p] = @ \cup {j}]
           t == StartPrintJobInternal(e, u, j, end)
<1>1. Ready(s, r, j) /\ Startable(s, r, j) /\ j \notin r.prepared
  BY CheckedIsReady DEF Checked
<1>2. b = Enqueue(r, u, j, p)
  BY DEF Enqueue
<1>3. s \in Service /\ r \in Service
  BY <1>1 DEF Ready, Good, Lists
<1>4. ListedIn(r, l, u, j) /\ l \in Service
  BY <1>3, ListingFields DEF ListedIn
<1> HIDE DEF l
<1>5. \E q \in Printers : /\ Placed(l, e, j, p, q)
                          /\ \/ q = p
                             \/ q = s.printer[j] /\ \E w \in Users : j \in s.uQueued[w]
  <2>1. CASE Stays(s, u, j)
    <3>1. PICK w \in Users : j \in s.uQueued[w]
      BY <2>1, StaysIs
    <3>2. s.printer[j] \in Printers
      BY <3>1 DEF Good, Lists, UserLists, PrinterLists
    <3>3. e = [b EXCEPT !.printer[j] = s.printer[j]]
      BY <1>2, <2>1 DEF Checked
    <3>4. Placed(l, e, j, p, s.printer[j])
      BY <1>4, <3>2, <3>3, PrinterFields
    <3> QED
      BY <3>1, <3>2, <3>4
  <2>2. CASE ~Stays(s, u, j)
    <3>1. e = b
      BY <1>2, <2>2 DEF Checked
    <3>2. Placed(l, e, j, p, p)
      BY <1>4, <3>1, PrinterFields
    <3> QED
      BY <3>2
  <2> QED
    BY <2>1, <2>2
<1> HIDE DEF b
<1>6. Enqueued(s, r, e, j)
  BY <1>1, <1>4, <1>5, EnqueueKeeps
<1>7. /\ Good(t) /\ Onward(s, t, {j}) /\ (Exact(s) => Exact(t))
      /\ t.prepared = r.prepared
  BY <1>1, <1>3, <1>6, ReadyKeeps
<1> HIDE DEF t
<1>8. j \in s.prepared \ t.prepared
  BY <1>1, <1>7
<1>9. Onward(s, t, s.prepared \ t.prepared)
  BY <1>7, <1>8 DEF Onward
<1> QED
  BY <1>7, <1>9 DEF t

\* A spooler starts a job of printJobList_.
LEMMA StartPrintJobKeeps ==
    ASSUME IInv, NEW u \in accounts, NEW j \in Jobs, StartPrintJob(u, j)
    PROVE  StepFits
<1> DEFINE r == CheckPrintJob(svc, u, j)
<1>1. Good(svc) /\ u \in Users /\ j \in svc.prepared
  BY Calm DEF StartPrintJob, CanCall
<1>2. PICK p \in Printers, end \in Ends :
         LET s1 == Enqueue(r, u, j, p)
             s2 == IF Stays(svc, u, j) THEN [s1 EXCEPT !.printer[j] = svc.printer[j]]
                   ELSE s1
         IN  svc' = StartPrintJobInternal(s2, u, j, end)
  BY DEF StartPrintJob, Becomes
<1> DEFINE e == IF Stays(svc, u, j)
                THEN [Enqueue(r, u, j, p) EXCEPT !.printer[j] = svc.printer[j]]
                ELSE Enqueue(r, u, j, p)
           t == StartPrintJobInternal(e, u, j, end)
<1>3. svc' = t
  BY <1>2
<1>4. Checked(svc, r, e, u, j, p)
  BY DEF Checked
<1> HIDE DEF r, e
<1>5. Good(t) /\ Onward(svc, t, svc.prepared \ t.prepared) /\ (Exact(svc) => Exact(t))
  BY <1>1, <1>4, CheckedKeeps
<1> HIDE DEF t
<1> QED
  BY <1>3, <1>5 DEF StepFits

\* A native application starts its job.
LEMMA StartNativeKeeps ==
    ASSUME IInv, NEW u \in accounts, NEW j \in Jobs, StartNativePrintJob(u, j)
    PROVE  Keeps(svc, svc')
<1> DEFINE r == [AddToPrintJobList(svc, u, j) EXCEPT !.state[j] = "PREPARED",
                                                     !.prepared = @ \ {j}]
<1>1. Good(svc) /\ u \in Users /\ svc.state[j] = "new"
  BY Calm DEF StartNativePrintJob, CanCall
<1>2. PICK p \in Printers, end \in Ends :
         svc' = StartPrintJobInternal(Enqueue(r, u, j, p), u, j, end)
  BY DEF StartNativePrintJob, Becomes
<1> QED
  BY <1>1, <1>2, NewKeeps DEF Keeps

\* A restart: the new job is started before the old one is cancelled.
LEMMA RestartKeeps ==
    ASSUME IInv, NEW u \in accounts, NEW j \in Jobs, RestartPrintJob(u, j)
    PROVE  Keeps(svc, svc')
<1>1. /\ Good(svc) /\ svc \in Service /\ u \in Users
      /\ j \in svc.uQueued[u] \cup svc.history[u]
  BY Calm DEF RestartPrintJob, CanCall
<1>2. CASE svc' = UpdatePrintJobState(AddUser(svc, u), u, j, "BLOCKED")
  <2> DEFINE a == AddUser(svc, u)
  <2>1. Good(a) /\ Advance(svc, a)
    BY <1>1, AddUserKeeps
  <2> HIDE DEF a
  <2>2. svc' = UpdatePrintJobState(a, u, j, "BLOCKED")
    BY <1>2 DEF a
  <2>3. "BLOCKED" \in ReportStates
    BY DEF ReportStates
  <2>4. Good(svc') /\ Advance(a, svc')
    BY <1>1, <2>1, <2>2, <2>3, ReportsKeep
  <2>5. Advance(svc, svc')
    BY <1>1, <2>1, <2>4, AdvanceTrans DEF Good, Lists
  <2> QED
    BY <2>4, <2>5 DEF Keeps
<1>3. ASSUME NEW k \in Jobs, NEW end \in Ends, svc.state[k] = "new",
             LET s1 == [AddToPrintJobList(svc, u, k) EXCEPT !.state[k] = "QUEUED"]
                 s2 == StartPrintJobInternal(Enqueue(s1, u, k, svc.printer[j]), u, k, end)
             IN  svc' = IF Started(end) THEN CancelPrintJob(s2, u, j) ELSE s2
      PROVE  Keeps(svc, svc')
  <2> DEFINE s1 == [AddToPrintJobList(svc, u, k) EXCEPT !.state[k] = "QUEUED"]
             s2 == StartPrintJobInternal(Enqueue(s1, u, k, svc.printer[j]), u, k, end)
  <2>1. svc' = IF Started(end) THEN CancelPrintJob(s2, u, j) ELSE s2
    BY <1>3
  <2>2. svc.printer[j] \in Printers
    BY <1>1 DEF Good, Lists, UserLists, PrinterLists, StatesFit
  <2>3. Good(s2) /\ Advance(svc, s2)
    BY <1>1, <1>3, <2>2, NewKeeps
  <2> HIDE DEF s2
  <2>4. CASE svc' = s2
    BY <2>3, <2>4 DEF Keeps
  <2>5. CASE svc' = CancelPrintJob(s2, u, j)
    <3>1. Good(svc') /\ Advance(s2, svc')
      BY <1>1, <2>3, <2>5, CancelKeeps
    <3>2. Advance(svc, svc')
      BY <1>1, <2>3, <3>1, AdvanceTrans DEF Good, Lists
    <3> QED
      BY <3>1, <3>2 DEF Keeps
  <2> QED
    BY <2>1, <2>4, <2>5
<1> QED
  BY <1>2, <1>3 DEF RestartPrintJob, Becomes

\* An application cancels a job.
LEMMA CancelCallKeeps ==
    ASSUME IInv, NEW u \in accounts, NEW j \in Jobs, Cancel(u, j)
    PROVE  Keeps(svc, svc')
<1>1. Good(svc) /\ u \in Users /\ svc' = CancelPrintJob(svc, u, j)
  BY Calm DEF Cancel, CanCall, Becomes
<1> QED
  BY <1>1, CancelKeeps DEF Keeps

\* What the calls of the applications leave alone.
LEMMA CallStays ==
    ASSUME NEW u, NEW j, Call(u, j)
    PROVE  CanCall /\ UNCHANGED <<active, accounts, removal, deletion, running>>
  BY DEF Call, StartPrint, StartPrintJob, StartNativePrintJob, RestartPrintJob, Cancel, Becomes

\* EraseHistories shortens histories and makes users known.
LEMMA EraseFields ==
    ASSUME NEW s \in Service, NEW p, NEW stored \in SUBSET Users
    PROVE  LET t == EraseHistories(s, p, stored)
           IN  /\ t \in Service /\ SameButState(s, t) /\ SameLists(s, t) /\ t.state = s.state
               /\ s.users \subseteq t.users /\ t.blocked = s.blocked
               /\ \A w \in Users : t.history[w] \subseteq s.history[w]
<1> DEFINE h == [v \in Users |-> IF v \in stored THEN {j \in s.history[v] : s.printer[j] # p}
                                                 ELSE s.history[v]]
           t == [s EXCEPT !.users = @ \cup stored, !.history = h]
<1>1. s.history \in [Users -> SUBSET Jobs]
  BY DEF Service
<1>2. h \in [Users -> SUBSET Jobs] /\ \A w \in Users : h[w] \subseteq s.history[w]
  BY <1>1
<1>3. EraseHistories(s, p, stored) = t
  BY DEF EraseHistories
<1> HIDE DEF h
<1>4. /\ t \in Service /\ SameButState(s, t) /\ SameLists(s, t) /\ t.state = s.state
      /\ t.users = s.users \cup stored /\ t.history = h /\ t.blocked = s.blocked
  BY <1>2 DEF Service, SameButState, SameLists
<1> HIDE DEF t
<1> QED
  BY <1>2, <1>3, <1>4

\* The deletion of a printer begins.
LEMMA DeletePrinterKeeps ==
    ASSUME IInv, NEW u \in accounts, NEW p \in Printers, DeletePrinter(u, p)
    PROVE  Keeps(svc, svc')
<1>1. Good(svc) /\ svc \in Service /\ accounts \subseteq Users
  BY Calm DEF DeletePrinter, CanCall
<1>2. PICK stored \in {svc.users, Users} : svc' = EraseHistories(svc, p, stored)
  BY DEF DeletePrinter
<1>3. stored \in SUBSET Users
  BY <1>1 DEF Service
<1> DEFINE t == EraseHistories(svc, p, stored)
<1>4. /\ t \in Service /\ SameButState(svc, t) /\ SameLists(svc, t) /\ t.state = svc.state
      /\ svc.users \subseteq t.users /\ t.blocked = svc.blocked
      /\ \A w \in Users : t.history[w] \subseteq svc.history[w]
  BY <1>1, <1>3, EraseFields
<1> HIDE DEF t
<1> USE <1>1, <1>4 DEF Good, Lists, SameLists, SameButState
<1>5. UserLists(t) /\ Strict(t)
  BY DEF UserLists, Strict
<1>6. PrinterLists(t)
  BY DEF PrinterLists
<1>7. StatesFit(t) /\ CopiesFit(t)
  BY DEF StatesFit, HeldIn, CopiesFit
<1>8. FreshInv(t)
  BY DEF FreshInv, FreshJob, Fresh
<1>9. Advance(svc, t)
  <2>1. Exact(svc) => Exact(t)
    BY SameIsQuiet, QuietIsExact
  <2> QED
    BY <2>1 DEF Advance, Onward
<1> QED
  BY <1>2, <1>5, <1>6, <1>7, <1>8, <1>9 DEF Keeps, t

\* The deletion of a printer cancels one of its jobs.
LEMMA CancelNextKeeps ==
    ASSUME IInv, CancelNextOfPrinter
    PROVE  removal = NoLoop /\ Keeps(svc, svc')
<1>1. PICK j \in deletion.todo : svc' = CancelPrintJob(svc, deletion.user, j)
  BY DEF CancelNextOfPrinter
<1>2. deletion # NoLoop /\ removal = NoLoop /\ deletion.user \in Users /\ j \in Jobs
  BY <1>1 DEF NoLoop, IInv, RemovalFits, TypeOK
<1>3. Good(svc)
  BY <1>2, Calm
<1> QED
  BY <1>1, <1>2, <1>3, CancelKeeps DEF Keeps

-----------------------------------------------------------------------------
(* The steps of the client *)

\* A thread of the client takes a copy to a place, and may report a state.
LEMMA PlaceKeeps ==
    ASSUME IInv, CanCall, NEW c \in Copies, NEW place \in Places, NEW state \in ReportStates,
           svc.client[c] # "none", c \notin svc.leaving \/ place = "monitored",
           place \in {"waiting", "sending", "monitored"} =>
              svc.client[c] \in {"waiting", "sending", "monitored"},
           \/ svc' = [svc EXCEPT !.client[c] = place]
           \/ svc' = UpdatePrintJobState([svc EXCEPT !.client[c] = place], active, c[1], state)
    PROVE  StepFits
<1>1. PICK j \in Jobs, n \in {1, 2} : c = <<j, n>>
  BY DEF Copies
<1> DEFINE m == [svc EXCEPT !.client[<<j, n>>] = place]
<1>2. Good(svc) /\ active \in Users
  BY Calm DEF CanCall
<1>3. ~Fresh(svc, j)
  BY <1>1, <1>2 DEF Good, FreshInv, FreshJob
<1>4. place \in {"waiting", "sending", "monitored"} =>
         j \in svc.queued \cup svc.over \/ svc.state[j] = "COMPLETED"
  BY <1>1, <1>2 DEF Good, Lists, StatesFit, HeldIn
<1>5. Good(m) /\ Advance(svc, m)
  BY <1>1, <1>2, <1>3, <1>4, ClientKeeps
<1>6. svc' = m \/ svc' = UpdatePrintJobState(m, active, j, state)
  BY <1>1
<1> HIDE DEF m
<1>7. CASE svc' = m
  BY <1>5, <1>7, KeepsFits DEF Keeps
<1>8. CASE svc' = UpdatePrintJobState(m, active, j, state)
  <2>1. Good(svc') /\ Advance(m, svc')
    BY <1>2, <1>5, <1>8, ReportsKeep
  <2>2. Advance(svc, svc')
    BY <1>2, <1>5, <2>1, AdvanceTrans DEF Good, Lists
  <2> QED
    BY <2>1, <2>2, KeepsFits DEF Keeps
<1> QED
  BY <1>6, <1>7, <1>8

\* What the monitor will drop is monitored.
LEMMA LeavingAre ==
    ASSUME IInv, NEW c \in svc.leaving
    PROVE  svc.client[c] = "monitored"
  BY DEF IInv, Lists, CopiesFit

\* A sender takes a copy: the only one that is sent.
LEMMA SendNextKeeps ==
    ASSUME IInv, NEW c \in Copies, SendNext(c)
    PROVE  StepFits
<1>1. /\ CanCall /\ svc.client[c] = "waiting" /\ svc' = [svc EXCEPT !.client[c] = "sending"]
  BY DEF SendNext, Moves, Becomes
<1> QED
  BY <1>1, PlaceKeeps, LeavingAre DEF Places, ReportStates

\* A sender is done with its copy, or leaves it to the monitor.
LEMMA EndSendingKeeps ==
    ASSUME IInv, NEW c \in Copies, EndSending(c)
    PROVE  StepFits
<1>1. CanCall /\ svc.client[c] = "sending" /\ c \notin svc.leaving
  BY LeavingAre DEF EndSending
<1>2. PICK place \in {"gone", "monitored"} :
         \/ svc' = [svc EXCEPT !.client[c] = place]
         \/ svc' = UpdatePrintJobState([svc EXCEPT !.client[c] = place],
                                       active, c[1], "BLOCKED")
  BY DEF EndSending, Moves, Reports, Becomes
<1>3. place \in Places /\ "BLOCKED" \in ReportStates
  BY DEF Places, ReportStates
<1> QED
  BY <1>1, <1>2, <1>3, PlaceKeeps

\* The late report of the last job of the queue.
LEMMA ReportLastKeeps ==
    ASSUME IInv, NEW c \in Copies, ReportLast(c)
    PROVE  StepFits
<1> DEFINE place == svc.client[c]
<1>1. /\ CanCall /\ place # "none"
      /\ svc' = UpdatePrintJobState([svc EXCEPT !.client[c] = place], active, c[1], "QUEUED")
  BY DEF ReportLast, Reports, Becomes
<1>2. place \in Places /\ "QUEUED" \in ReportStates
  BY DEF ReportStates, IInv, TypeOK, Service
<1>3. c \notin svc.leaving \/ place = "monitored"
  BY LeavingAre
<1>4. place \in {"waiting", "sending", "monitored"} =>
         svc.client[c] \in {"waiting", "sending", "monitored"}
  OBVIOUS
<1>5. svc.client[c] # "none"
  BY <1>1
<1> HIDE DEF place
<1> QED
  BY <1>1, <1>2, <1>3, <1>4, <1>5, PlaceKeeps

\* The monitor reports, and marks the copies that it will drop.
LEMMA MonitorKeeps ==
    ASSUME IInv, NEW c \in Copies, Monitor(c)
    PROVE  StepFits
<1>1. /\ CanCall /\ svc.client[c] = "monitored" /\ c \notin svc.leaving
  BY DEF Monitor
<1>2. Good(svc) /\ svc \in Service /\ active \in Users
  BY <1>1, Calm DEF CanCall
<1>3. ASSUME NEW state \in {"QUEUED", "RUNNING", "BLOCKED"}, Reports(c, "monitored", state)
      PROVE  StepFits
  <2>1. svc' = UpdatePrintJobState([svc EXCEPT !.client[c] = "monitored"],
                                   active, c[1], state)
    BY <1>3 DEF Reports, Becomes
  <2>2. "monitored" \in Places /\ state \in ReportStates
    BY DEF Places, ReportStates
  <2> QED
    BY <1>1, <2>1, <2>2, PlaceKeeps
<1>4. ASSUME NEW state \in {"BLOCKED", "COMPLETED"},
             svc' = UpdatePrintJobState([svc EXCEPT !.leaving = @ \cup {c}],
                                        active, c[1], state)
      PROVE  StepFits
  <2> DEFINE T == svc.leaving \cup {c}
             m == [svc EXCEPT !.leaving = T]
  <2>1. T \in SUBSET Copies /\ state \in ReportStates /\ c[1] \in Jobs
    BY <1>2 DEF ReportStates, Service, Copies
  <2>2. \A d \in T : svc.client[d] = "monitored"
    BY <1>1, LeavingAre
  <2>3. svc' = UpdatePrintJobState(m, active, c[1], state)
    BY <1>4
  <2> HIDE DEF T
  <2>4. Good(m) /\ Advance(svc, m)
    BY <1>2, <2>1, <2>2, MarksKeep
  <2> HIDE DEF m
  <2>5. Good(svc') /\ Advance(m, svc')
    BY <1>2, <2>1, <2>3, <2>4, ReportsKeep
  <2>6. Advance(svc, svc')
    BY <1>2, <2>4, <2>5, AdvanceTrans DEF Good, Lists
  <2> QED
    BY <2>5, <2>6, KeepsFits DEF Keeps
<1>5. CASE Moves(c, "gone")
  <2>1. svc' = [svc EXCEPT !.client[c] = "gone"]
    BY <1>5 DEF Moves, Becomes
  <2> QED
    BY <1>1, <2>1, PlaceKeeps DEF Places, ReportStates
<1> QED
  BY <1>3, <1>4, <1>5 DEF Monitor, Becomes

\* What Drop does to the record.
LEMMA DropFields ==
    ASSUME NEW s \in Service, NEW c \in Copies
    PROVE  LET t == [s EXCEPT !.client[c] = "gone", !.leaving = @ \ {c}]
           IN  /\ t \in Service /\ SameLists(s, t) /\ t.users = s.users
               /\ t.prepared = s.prepared /\ t.owner = s.owner /\ t.uPrepared = s.uPrepared
               /\ t.history = s.history /\ t.printer = s.printer /\ t.state = s.state
               /\ t.over = s.over /\ t.stray = s.stray /\ t.leaving = s.leaving \ {c}
               /\ t.client = [s.client EXCEPT ![c] = "gone"] /\ t.blocked = s.blocked
  BY DEF Service, SameLists, Places

\* The monitor drops a copy whoever holds apiMutex_, so also during a removal.
LEMMA DropKeeps ==
    ASSUME IInv, NEW c \in Copies, Drop(c)
    PROVE  IInv' /\ Onward(svc, svc', {})
<1> DEFINE t == [svc EXCEPT !.client[c] = "gone", !.leaving = @ \ {c}]
<1>1. /\ svc' = t /\ c \in svc.leaving /\ svc \in Service
      /\ UNCHANGED <<active, accounts, removal, deletion, running>>
  BY DEF Drop, Becomes, IInv, TypeOK
<1>2. /\ t \in Service /\ SameLists(svc, t) /\ t.users = svc.users
      /\ t.prepared = svc.prepared /\ t.owner = svc.owner /\ t.uPrepared = svc.uPrepared
      /\ t.history = svc.history /\ t.printer = svc.printer /\ t.state = svc.state
      /\ t.over = svc.over /\ t.stray = svc.stray /\ t.leaving = svc.leaving \ {c}
      /\ t.client = [svc.client EXCEPT ![c] = "gone"] /\ t.blocked = svc.blocked
  BY <1>1, DropFields
<1> HIDE DEF t
<1>3. svc.client[c] = "monitored" /\ svc.client \in [Copies -> Places]
  BY <1>1, LeavingAre DEF Service
<1>4. \A d \in Copies : t.client[d] = IF d = c THEN "gone" ELSE svc.client[d]
  BY <1>2, <1>3
<1>5. \A j \in Jobs, n \in {1, 2} :
         \/ t.client[<<j, n>>] = svc.client[<<j, n>>]
         \/ t.client[<<j, n>>] = "gone" /\ svc.client[<<j, n>>] = "monitored"
  BY <1>3, <1>4 DEF Copies
<1>6. TypeOK' /\ RemovalFits'
  BY <1>1, <1>2 DEF IInv, TypeOK, RemovalFits, SameLists
<1>7. Lists(t)
  <2>1. UserLists(t) /\ PrinterLists(t)
    BY <1>2 DEF IInv, Lists, UserLists, PrinterLists, SameLists
  <2>2. StatesFit(t)
    BY <1>2, <1>5 DEF IInv, Lists, StatesFit, HeldIn, SameLists
  <2>3. CopiesFit(t)
    <3>1. ASSUME NEW j \in Jobs, j \in t.prepared \/ t.state[j] \in {"new", "PREPARED"}
          PROVE  t.client[<<j, 2>>] = "none"
      BY <1>2, <1>5, <3>1 DEF IInv, Lists, CopiesFit
    <3>2. ASSUME NEW d \in t.leaving
          PROVE  t.client[d] = "monitored"
      <4>1. d \in Copies /\ d \in svc.leaving /\ d # c
        BY <1>1, <1>2 DEF Service
      <4> QED
        BY <1>4, <4>1, LeavingAre
    <3> QED
      BY <3>1, <3>2 DEF CopiesFit
  <2> QED
    BY <1>2, <2>1, <2>2, <2>3 DEF Lists
<1>8. FreshInv(t)
  <2> SUFFICES ASSUME NEW k \in Jobs PROVE FreshJob(t, k)
    BY DEF FreshInv
  <2>1. FreshJob(svc, k)
    BY DEF IInv, FreshInv
  <2>2. Fresh(t, k) <=> Fresh(svc, k)
    BY <1>2 DEF Fresh
  <2>3. \A n \in {1, 2} : svc.client[<<k, n>>] = "none" => t.client[<<k, n>>] = "none"
    BY <1>5
  <2> QED
    BY <1>2, <2>1, <2>2, <2>3 DEF FreshJob, SameLists
<1>9. Onward(svc, t, {})
  BY <1>2 DEF Onward, SameLists
<1>10. ExactTillRemoval'
  BY <1>1, <1>2, SameIsQuiet, QuietIsExact DEF IInv, ExactTillRemoval
<1> QED
  BY <1>1, <1>6, <1>7, <1>8, <1>9, <1>10 DEF IInv

-----------------------------------------------------------------------------
(* The steps of the accounts *)

\* The active user becomes known.
LEMMA UserSwitchedKeeps ==
    ASSUME IInv, UserSwitched
    PROVE  StepFits
<1>1. Good(svc) /\ active \in Users /\ svc' = AddUser(svc, active)
  BY Calm DEF UserSwitched, CanCall, Becomes
<1>2. Good(svc') /\ Advance(svc, svc')
  BY <1>1, AddUserKeeps
<1> QED
  BY <1>2, KeepsFits DEF Keeps

\* The jobs in the user's queue of which the client has a copy that waits.
Waiting(s, u) == {j \in s.uQueued[u] : CopiesAt(s, j, "waiting") # {}}

\* The record that BlockUserPrintJobs leads to
BlockedUser(s, u) ==
    LET W == Waiting(s, u)
    IN  [s EXCEPT
            !.client = [c \in Copies |->
                IF c[1] \in W /\ c = Older(CopiesAt(s, c[1], "waiting"))
                THEN "gone" ELSE @[c]],
            !.state = [j \in Jobs |-> IF j \in W THEN "BLOCKED" ELSE @[j]],
            !.history[u] = @ \cup W,
            !.blocked = @ \/ W # {}]

\* What blocking the jobs of a user does to the record.
LEMMA BlockFields ==
    ASSUME NEW s \in Service, NEW u \in Users
    PROVE  LET W == Waiting(s, u)
               t == BlockedUser(s, u)
           IN  /\ t \in Service /\ SameLists(s, t) /\ t.users = s.users
               /\ t.prepared = s.prepared /\ t.owner = s.owner /\ t.uPrepared = s.uPrepared
               /\ t.printer = s.printer /\ t.over = s.over /\ t.stray = s.stray
               /\ t.leaving = s.leaving
               /\ \A c \in Copies : \/ t.client[c] = s.client[c]
                                    \/ t.client[c] = "gone" /\ s.client[c] = "waiting"
               /\ \A j \in Jobs : t.state[j] = IF j \in W THEN "BLOCKED" ELSE s.state[j]
               /\ \A w \in Users, j \in Jobs :
                     j \in t.history[w] <=> j \in s.history[w] \/ (w = u /\ j \in W)
               /\ t.blocked <=> s.blocked \/ W # {}
<1> DEFINE W == Waiting(s, u)
           f == [c \in Copies |-> IF c[1] \in W /\ c = Older(CopiesAt(s, c[1], "waiting"))
                                  THEN "gone" ELSE s.client[c]]
           g == [j \in Jobs |-> IF j \in W THEN "BLOCKED" ELSE s.state[j]]
           b == s.blocked \/ W # {}
           t == [s EXCEPT !.client = f, !.state = g, !.history[u] = @ \cup W, !.blocked = b]
<1>1. /\ s.client \in [Copies -> Places] /\ s.state \in [Jobs -> JobStates]
      /\ s.history \in [Users -> SUBSET Jobs] /\ W \subseteq Jobs
  BY DEF Service, Waiting
<1>2. \A c \in Copies : f[c] = s.client[c] \/ (f[c] = "gone" /\ s.client[c] = "waiting")
  <2> SUFFICES ASSUME NEW c \in Copies, f[c] # s.client[c]
               PROVE  f[c] = "gone" /\ s.client[c] = "waiting"
    OBVIOUS
  <2>1. c[1] \in W /\ c = Older(CopiesAt(s, c[1], "waiting")) /\ f[c] = "gone"
    OBVIOUS
  <2>2. PICK j \in Jobs : j = c[1]
    BY <1>1, <2>1
  <2>3. CopiesAt(s, j, "waiting") # {} /\ "waiting" \in Places
    BY <2>1, <2>2 DEF Waiting, Places
  <2>4. \E n \in {1, 2} : /\ Older(CopiesAt(s, j, "waiting")) = <<j, n>>
                          /\ s.client[<<j, n>>] = "waiting"
    <3> HIDE DEF f, W, g, b, t
    <3> QED
      BY <2>3, OlderIs
  <2> HIDE DEF f, W
  <2> QED
    BY <2>1, <2>2, <2>4
<1>3. f \in [Copies -> Places]
  BY <1>1 DEF Places
<1>4. /\ g \in [Jobs -> JobStates]
      /\ \A j \in Jobs : g[j] = IF j \in W THEN "BLOCKED" ELSE s.state[j]
  BY <1>1 DEF JobStates
<1>5. b \in BOOLEAN
  OBVIOUS
<1> HIDE DEF W, f, g, b
<1>6. /\ t \in Service /\ SameLists(s, t) /\ t.users = s.users
      /\ t.prepared = s.prepared /\ t.owner = s.owner /\ t.uPrepared = s.uPrepared
      /\ t.printer = s.printer /\ t.over = s.over /\ t.stray = s.stray
      /\ t.leaving = s.leaving /\ t.client = f /\ t.state = g /\ t.blocked = b
      /\ t.history = [s.history EXCEPT ![u] = @ \cup W]
  <2> DEFINE r == [s EXCEPT !.client = f, !.state = g, !.blocked = b]
  <2>1. r \in Service
    BY <1>3, <1>4, <1>5 DEF Service
  <2>2. t = [r EXCEPT !.history[u] = @ \cup W]
    BY DEF Service
  <2>3. /\ SameLists(s, r) /\ r.users = s.users /\ r.history = s.history
        /\ r.prepared = s.prepared /\ r.owner = s.owner /\ r.uPrepared = s.uPrepared
        /\ r.printer = s.printer /\ r.over = s.over /\ r.stray = s.stray
        /\ r.leaving = s.leaving /\ r.client = f /\ r.state = g /\ r.blocked = b
    BY DEF Service, SameLists
  <2> HIDE DEF r, t
  <2>4. /\ t \in Service /\ SameLists(r, t) /\ t.users = r.users
        /\ t.prepared = r.prepared /\ t.owner = r.owner /\ t.uPrepared = r.uPrepared
        /\ t.printer = r.printer /\ t.over = r.over /\ t.stray = r.stray
        /\ t.leaving = r.leaving /\ t.client = r.client /\ t.state = r.state
        /\ t.blocked = r.blocked /\ t.history = [r.history EXCEPT ![u] = @ \cup W]
    BY <1>1, <2>1, <2>2 DEF Service, SameLists
  <2> QED
    BY <2>3, <2>4 DEF SameLists
<1>7. \A w \in Users, j \in Jobs :
         j \in t.history[w] <=> j \in s.history[w] \/ (w = u /\ j \in W)
  <2> HIDE DEF t
  <2> QED
    BY <1>1, <1>6
<1>8. t = BlockedUser(s, u)
  BY DEF BlockedUser, W, f, g, b
<1> HIDE DEF t
<1>9. t.blocked <=> s.blocked \/ W # {}
  BY <1>6 DEF b
<1> QED
  BY <1>2, <1>4, <1>6, <1>7, <1>8, <1>9 DEF W

\* The jobs of a user that is switched away from are blocked, with their history and
\* the flag, before they are sent.
LEMMA BlockUserKeeps ==
    ASSUME IInv, NEW u \in Users, BlockUserPrintJobs(u)
    PROVE  StepFits
<1> DEFINE W == Waiting(svc, u)
           t == svc'
<1>1. Good(svc) /\ svc \in Service
  BY Calm DEF BlockUserPrintJobs, CanCall
<1>2. /\ t \in Service /\ SameLists(svc, t) /\ t.users = svc.users
      /\ t.prepared = svc.prepared /\ t.owner = svc.owner /\ t.uPrepared = svc.uPrepared
      /\ t.printer = svc.printer /\ t.over = svc.over /\ t.stray = svc.stray
      /\ t.leaving = svc.leaving
      /\ \A c \in Copies : \/ t.client[c] = svc.client[c]
                           \/ t.client[c] = "gone" /\ svc.client[c] = "waiting"
      /\ \A j \in Jobs : t.state[j] = IF j \in W THEN "BLOCKED" ELSE svc.state[j]
      /\ \A w \in Users, j \in Jobs :
            j \in t.history[w] <=> j \in svc.history[w] \/ (w = u /\ j \in W)
      /\ t.blocked <=> svc.blocked \/ W # {}
  <2>1. t = BlockedUser(svc, u)
    BY DEF BlockUserPrintJobs, Becomes, BlockedUser, Waiting
  <2> HIDE DEF t, W
  <2> QED
    BY <1>1, <2>1, BlockFields DEF W
<1>3. u \in svc.users
  BY DEF BlockUserPrintJobs
<1>4. \A j \in W : /\ j \in Jobs /\ j \in svc.uQueued[u] /\ j \in svc.queued
                   /\ svc.owner[j] = u /\ svc.state[j] # "COMPLETED"
                   /\ svc.printer[j] \in Printers
  BY <1>1 DEF Waiting, Good, Lists, UserLists, Strict, StatesFit, PrinterLists, Service
<1>5. \A j \in Jobs, n \in {1, 2} :
         \/ t.client[<<j, n>>] = svc.client[<<j, n>>]
         \/ t.client[<<j, n>>] = "gone" /\ svc.client[<<j, n>>] = "waiting"
  BY <1>2 DEF Copies
<1>6. \A j \in W : svc.state[j] # "new" /\ ~Fresh(svc, j)
  BY <1>1, <1>4 DEF Good, FreshInv, FreshJob, Fresh
<1> HIDE DEF t, W
<1>7. \A j \in Jobs : t.state[j] \in {"new", "PREPARED"} => t.state[j] = svc.state[j]
  BY <1>2
<1>8. UserLists(t) /\ PrinterLists(t) /\ Strict(t)
  BY <1>1, <1>2 DEF Good, Lists, UserLists, PrinterLists, Strict, SameLists
<1>9. StatesFit(t)
  <2>1. ASSUME NEW j \in Jobs, HeldIn(t, j)
        PROVE  j \in t.queued \cup t.over \/ t.state[j] = "COMPLETED"
    <3>1. HeldIn(svc, j)
      BY <1>5, <2>1 DEF HeldIn
    <3> QED
      BY <1>1, <1>2, <1>4, <3>1 DEF Good, Lists, StatesFit, SameLists
  <2>2. ASSUME NEW j \in t.queued
        PROVE  t.state[j] # "COMPLETED"
    BY <1>1, <1>2, <2>2 DEF Good, Lists, StatesFit, SameLists, Service
  <2>3. ASSUME NEW w \in Users, NEW j \in t.history[w]
        PROVE  /\ t.state[j] \notin {"new", "PREPARED"} /\ t.owner[j] \in {w, NoUser}
               /\ t.printer[j] \in Printers
    <3>1. j \in Jobs
      BY <1>2 DEF Service
    <3>2. CASE j \in W
      BY <1>1, <1>2, <1>4, <2>3, <3>1, <3>2 DEF Good, Lists, StatesFit
    <3>3. CASE j \notin W
      BY <1>1, <1>2, <2>3, <3>1, <3>3 DEF Good, Lists, StatesFit
    <3> QED
      BY <3>2, <3>3
  <2> QED
    BY <2>1, <2>2, <2>3 DEF StatesFit
<1>10. CopiesFit(t)
  <2>1. ASSUME NEW j \in Jobs, j \in t.prepared \/ t.state[j] \in {"new", "PREPARED"}
        PROVE  t.client[<<j, 2>>] = "none"
    <3>1. svc.client[<<j, 2>>] = "none"
      BY <1>1, <1>2, <1>7, <2>1 DEF Good, Lists, CopiesFit
    <3> QED
      BY <1>5, <3>1
  <2>2. ASSUME NEW c \in t.leaving
        PROVE  t.client[c] = "monitored"
    <3>1. c \in Copies /\ svc.client[c] = "monitored"
      BY <1>1, <1>2 DEF Service, Good, Lists, CopiesFit
    <3> QED
      BY <1>2, <3>1
  <2> QED
    BY <2>1, <2>2 DEF CopiesFit
<1>11. FreshInv(t)
  <2> SUFFICES ASSUME NEW k \in Jobs PROVE FreshJob(t, k)
    BY DEF FreshInv
  <2>1. FreshJob(svc, k)
    BY <1>1 DEF Good, FreshInv
  <2>2. Fresh(t, k) => Fresh(svc, k)
    BY <1>2, <1>7 DEF Fresh
  <2>3. \A n \in {1, 2} : svc.client[<<k, n>>] = "none" => t.client[<<k, n>>] = "none"
    BY <1>5
  <2> QED
    BY <1>2, <1>7, <2>1, <2>2, <2>3 DEF FreshJob, SameLists
<1>12. Onward(svc, t, svc.prepared \ t.prepared)
  <2>1. \A j \in Jobs : svc.state[j] = "COMPLETED" => t.state[j] = "COMPLETED"
    BY <1>2, <1>4
  <2> QED
    BY <1>2, <2>1 DEF Onward, SameLists
<1>13. ASSUME Exact(svc)
       PROVE  Exact(t)
  <2> SUFFICES ASSUME NEW o \in Users, t.users \subseteq {o}
               PROVE  /\ t.blocked <=> HasBlocked(t, o)
                      /\ \A w \in Users : t.history[w] \subseteq t.uQueued[w]
    BY DEF Exact
  <2>1. o = u /\ svc.users \subseteq {o}
    BY <1>2, <1>3
  <2>2. /\ svc.blocked <=> HasBlocked(svc, u)
        /\ \A w \in Users : svc.history[w] \subseteq svc.uQueued[w]
    BY <1>13, <2>1 DEF Exact
  <2>3. t.uQueued = svc.uQueued /\ \A w \in Users : svc.uQueued[w] \subseteq Jobs
    BY <1>1, <1>2 DEF SameLists, Service
  <2>4. HasBlocked(t, u) <=> HasBlocked(svc, u) \/ W # {}
    BY <1>2, <1>4, <2>3 DEF HasBlocked
  <2>5. ASSUME NEW w \in Users, NEW j \in t.history[w]
        PROVE  j \in t.uQueued[w]
    <3>1. j \in Jobs
      BY <1>2 DEF Service
    <3> QED
      BY <1>2, <1>4, <2>2, <2>3, <2>5, <3>1
  <2> QED
    BY <1>2, <2>1, <2>2, <2>4, <2>5
<1>14. Good(t)
  BY <1>2, <1>8, <1>9, <1>10, <1>11 DEF Good, Lists
<1> QED
  BY <1>12, <1>13, <1>14 DEF StepFits, t

\* A removal begins: all jobs in the queue of the user are its own.
LEMMA UserRemovedKeeps ==
    ASSUME IInv, NEW u \in accounts, UserRemoved(u)
    PROVE  IInv'
<1>1. /\ removal = NoLoop /\ deletion = NoLoop /\ u # active /\ u \in Users
      /\ accounts' = accounts \ {u} /\ UNCHANGED <<svc, active, deletion, running>>
      /\ removal' = IF u \in svc.users THEN [user |-> u, todo |-> svc.uQueued[u]] ELSE NoLoop
  BY DEF UserRemoved, CanCall, IInv, TypeOK
<1>2. svc \in Service /\ Strict(svc) /\ NoUser \notin Users
  BY <1>1, Calm DEF Good
<1>3. TypeOK'
  BY <1>1, <1>2 DEF IInv, TypeOK, NoLoop, Service
<1>4. FreshInv(svc')
  BY <1>1 DEF IInv, FreshInv, FreshJob
<1>5. RemovalFits'
  BY <1>1, <1>2 DEF RemovalFits, Strict, NoLoop
<1>6. accounts' # Users
  BY <1>1
<1> QED
  BY <1>1, <1>3, <1>4, <1>5, <1>6 DEF IInv, ExactTillRemoval

\* A job loses its owner.
LEMMA OwnerFields ==
    ASSUME NEW s \in Service, NEW j \in Jobs
    PROVE  LET t == [s EXCEPT !.owner[j] = NoUser]
           IN  /\ t \in Service /\ SameLists(s, t) /\ t.users = s.users
               /\ t.owner = [s.owner EXCEPT ![j] = NoUser]
               /\ t.prepared = s.prepared /\ t.uPrepared = s.uPrepared
               /\ t.history = s.history /\ t.printer = s.printer /\ t.state = s.state
               /\ t.over = s.over /\ t.stray = s.stray
               /\ t.leaving = s.leaving /\ t.client = s.client
  BY DEF Service, SameLists

\* The jobs of the removed user are not found in the data of the active one: all
\* that becomes of them is that they lose their owner.
LEMMA CancelNextOfUserKeeps ==
    ASSUME IInv, CancelNextOfUser
    PROVE  IInv' /\ Onward(svc, svc', {})
<1>1. PICK j \in removal.todo :
         /\ svc' = [CancelPrintJob(svc, active, j) EXCEPT !.owner[j] = NoUser]
         /\ removal' = [removal EXCEPT !.todo = @ \ {j}]
         /\ UNCHANGED <<active, accounts, deletion, running>>
  BY DEF CancelNextOfUser
<1> DEFINE ru == removal.user
<1>2. /\ removal # NoLoop /\ ru \in svc.users \ accounts /\ active \in accounts
      /\ svc \in Service /\ active \in Users /\ ru \in Users /\ j \in Jobs /\ active # ru
      /\ j \in svc.uQueued[ru] /\ svc.owner[j] = ru
      /\ removal \in [user : Users \cup {NoUser}, todo : SUBSET Jobs]
  BY <1>1 DEF NoLoop, IInv, TypeOK, RemovalFits, Service
<1> DEFINE a == AddUser(svc, active)
<1>3. /\ a \in Service /\ a.users = svc.users \cup {active} /\ SameButState(svc, a)
      /\ SameLists(svc, a) /\ a.state = svc.state /\ a.history = svc.history
  BY <1>2, AddUserFields
<1>4. j \notin a.uQueued[active] \cup a.history[active]
  BY <1>2, <1>3, UsersAssumption DEF IInv, RemovalFits, Lists, StatesFit, SameLists
<1>5. CancelPrintJob(svc, active, j) = a
  BY <1>4 DEF CancelPrintJob
<1> HIDE DEF a
<1> DEFINE t == [a EXCEPT !.owner[j] = NoUser]
<1>6. svc' = t
  BY <1>1, <1>5
<1>7. /\ t \in Service /\ SameLists(a, t) /\ t.users = a.users
      /\ t.owner = [a.owner EXCEPT ![j] = NoUser]
      /\ t.prepared = a.prepared /\ t.uPrepared = a.uPrepared
      /\ t.history = a.history /\ t.printer = a.printer /\ t.state = a.state
      /\ t.over = a.over /\ t.stray = a.stray
      /\ t.leaving = a.leaving /\ t.client = a.client
  BY <1>2, <1>3, OwnerFields
<1> HIDE DEF t
<1>8. /\ SameLists(svc, t) /\ t.users = svc.users \cup {active}
      /\ t.prepared = svc.prepared /\ t.uPrepared = svc.uPrepared
      /\ t.history = svc.history /\ t.printer = svc.printer /\ t.state = svc.state
      /\ t.over = svc.over /\ t.stray = svc.stray
      /\ t.leaving = svc.leaving /\ t.client = svc.client
  BY <1>3, <1>7 DEF SameButState, SameLists
<1>9. \A k \in Jobs : t.owner[k] = IF k = j THEN NoUser ELSE svc.owner[k]
  <2>1. t.owner = [svc.owner EXCEPT ![j] = NoUser]
    BY <1>3, <1>7 DEF SameButState
  <2> QED
    BY <1>2, <2>1 DEF Service
<1>10. j \in svc.queued /\ svc.queued \subseteq Jobs
       /\ \A w \in Users : /\ svc.uQueued[w] \subseteq Jobs /\ svc.history[w] \subseteq Jobs
                           /\ svc.uPrepared[w] \subseteq Jobs
  BY <1>2 DEF IInv, Lists, UserLists, Service
<1>11. UserLists(t) /\ PrinterLists(t) /\ StatesFit(t) /\ CopiesFit(t)
  <2>1. \A w \in Users : j \notin svc.uPrepared[w]
    BY <1>2 DEF IInv, Lists, UserLists, FreshInv, FreshJob
  <2>2. UserLists(t)
    BY <1>8, <1>9, <1>10, <2>1 DEF IInv, Lists, UserLists, SameLists
  <2>3. PrinterLists(t)
    BY <1>8 DEF IInv, Lists, PrinterLists, SameLists
  <2>4. StatesFit(t)
    BY <1>8, <1>9, <1>10 DEF IInv, Lists, StatesFit, HeldIn, SameLists
  <2>5. CopiesFit(t)
    BY <1>8 DEF IInv, Lists, CopiesFit
  <2> QED
    BY <2>2, <2>3, <2>4, <2>5
<1>12. FreshInv(t)
  <2>1. ~Fresh(svc, j) /\ svc.state[j] # "new"
    BY <1>2, <1>10 DEF IInv, FreshInv, FreshJob, Fresh
  <2> SUFFICES ASSUME NEW k \in Jobs PROVE FreshJob(t, k)
    BY DEF FreshInv
  <2>2. FreshJob(svc, k)
    BY DEF IInv, FreshInv
  <2>3. Fresh(t, k) <=> Fresh(svc, k)
    BY <1>8 DEF Fresh
  <2> QED
    BY <1>8, <1>9, <2>1, <2>2, <2>3 DEF FreshJob, SameLists
<1>13. Onward(svc, t, {})
  BY <1>8 DEF Onward, SameLists
<1>14. /\ removal'.user = ru /\ removal'.todo = removal.todo \ {j}
       /\ removal' \in [user : Users \cup {NoUser}, todo : SUBSET Jobs]
  BY <1>1, <1>2
<1>15. removal' # NoLoop
  BY <1>2, <1>14, UsersAssumption DEF NoLoop
<1>16. TypeOK'
  BY <1>1, <1>2, <1>6, <1>7, <1>8, <1>14 DEF IInv, TypeOK
<1>17. RemovalFits'
  <2>1. deletion' = NoLoop
    BY <1>1, <1>2 DEF IInv, RemovalFits
  <2>2. \A w \in Users \ {ru} : \A k \in svc'.uQueued[w] : svc'.owner[k] = w
    BY <1>2, <1>6, <1>8, <1>9, <1>10 DEF IInv, RemovalFits, SameLists
  <2>3. \A k \in svc'.uQueued[ru] : svc'.owner[k] = ru => k \in removal'.todo
    BY <1>2, <1>6, <1>8, <1>9, <1>10, <1>14, UsersAssumption DEF IInv, RemovalFits, SameLists
  <2>4. \A k \in removal'.todo : k \in svc'.uQueued[ru] /\ svc'.owner[k] = ru
    BY <1>2, <1>6, <1>8, <1>9, <1>10, <1>14 DEF IInv, RemovalFits, SameLists
  <2> QED
    BY <1>14, <2>1, <2>2, <2>3, <2>4 DEF RemovalFits
<1>18. ExactTillRemoval'
  BY <1>1, <1>2 DEF ExactTillRemoval
<1> QED
  BY <1>1, <1>6, <1>7, <1>8, <1>11, <1>12, <1>13, <1>16, <1>17, <1>18 DEF IInv, Lists

\* The data of a user is erased.
LEMMA ForgetFields ==
    ASSUME NEW s \in Service, NEW u \in Users
    PROVE  LET t == [s EXCEPT !.users = @ \ {u}, !.uPrepared[u] = {}, !.uQueued[u] = {},
                              !.history[u] = {}]
           IN  /\ t \in Service /\ t.users = s.users \ {u}
               /\ t.queued = s.queued /\ t.owner = s.owner /\ t.prepared = s.prepared
               /\ t.uQueued = [s.uQueued EXCEPT ![u] = {}]
               /\ t.uPrepared = [s.uPrepared EXCEPT ![u] = {}]
               /\ t.history = [s.history EXCEPT ![u] = {}]
               /\ t.printerJobs = s.printerJobs /\ t.printer = s.printer /\ t.state = s.state
               /\ t.over = s.over /\ t.stray = s.stray
               /\ t.leaving = s.leaving /\ t.client = s.client
<1> DEFINE p == [s EXCEPT !.users = @ \ {u}, !.uPrepared[u] = {}]
           q == [s EXCEPT !.users = @ \ {u}, !.uPrepared[u] = {}, !.uQueued[u] = {}]
           t == [s EXCEPT !.users = @ \ {u}, !.uPrepared[u] = {}, !.uQueued[u] = {},
                          !.history[u] = {}]
<1>1. p \in Service
  BY DEF Service
<1>2. \A r \in Service : [r EXCEPT !.uQueued[u] = {}] \in Service
                         /\ [r EXCEPT !.history[u] = {}] \in Service
  BY DEF Service
<1>3. q = [p EXCEPT !.uQueued[u] = {}] /\ t = [q EXCEPT !.history[u] = {}]
  BY DEF Service
<1>4. t \in Service
  <2> HIDE DEF p, q, t
  <2> QED
    BY <1>1, <1>2, <1>3
<1>5. /\ t.users = s.users \ {u}
      /\ t.queued = s.queued /\ t.owner = s.owner /\ t.prepared = s.prepared
      /\ t.printerJobs = s.printerJobs /\ t.printer = s.printer /\ t.state = s.state
      /\ t.over = s.over /\ t.stray = s.stray
      /\ t.leaving = s.leaving /\ t.client = s.client
  BY DEF Service
<1>6. /\ t.uQueued = [s.uQueued EXCEPT ![u] = {}]
      /\ t.uPrepared = [s.uPrepared EXCEPT ![u] = {}]
      /\ t.history = [s.history EXCEPT ![u] = {}]
  BY DEF Service
<1> HIDE DEF t
<1> QED
  BY <1>4, <1>5, <1>6 DEF t

\* The removal ends: no job is left that only the removed user lists.
LEMMA ForgetUserKeeps ==
    ASSUME IInv, ForgetUser
    PROVE  /\ IInv' /\ svc'.state = svc.state
           /\ \A w \in Users : svc'.uQueued[w] = svc.uQueued[w] \/ w \notin svc'.users
<1> DEFINE ru == removal.user
           t == [svc EXCEPT !.users = @ \ {ru}, !.uPrepared[ru] = {}, !.uQueued[ru] = {},
                            !.history[ru] = {}]
<1>1. /\ ru # NoUser /\ removal.todo = {} /\ svc' = t /\ removal' = NoLoop
      /\ UNCHANGED <<active, accounts, deletion, running>>
  BY DEF ForgetUser
<1>2. /\ removal # NoLoop /\ ru \in Users \ accounts /\ svc \in Service /\ deletion = NoLoop
  BY <1>1 DEF NoLoop, IInv, TypeOK, RemovalFits, Service
<1>3. /\ t \in Service /\ t.users = svc.users \ {ru}
      /\ t.queued = svc.queued /\ t.owner = svc.owner /\ t.prepared = svc.prepared
      /\ t.uQueued = [svc.uQueued EXCEPT ![ru] = {}]
      /\ t.uPrepared = [svc.uPrepared EXCEPT ![ru] = {}]
      /\ t.history = [svc.history EXCEPT ![ru] = {}]
      /\ t.printerJobs = svc.printerJobs /\ t.printer = svc.printer /\ t.state = svc.state
      /\ t.over = svc.over /\ t.stray = svc.stray
      /\ t.leaving = svc.leaving /\ t.client = svc.client
  BY <1>2, ForgetFields
<1> HIDE DEF t
<1>4. /\ t.uQueued[ru] = {} /\ t.history[ru] = {}
      /\ \A w \in Users \ {ru} : /\ t.uQueued[w] = svc.uQueued[w]
                                 /\ t.history[w] = svc.history[w]
                                 /\ t.uPrepared[w] = svc.uPrepared[w]
      /\ t.uPrepared[ru] = {}
  BY <1>2, <1>3 DEF Service
<1>5. UserLists(t)
  <2>1. \A j \in svc.uQueued[ru] : svc.owner[j] = NoUser
    BY <1>1, <1>2 DEF IInv, RemovalFits, Lists, UserLists
  <2>2. \A j \in svc.queued : svc.owner[j] \in Users \cup {NoUser}
    BY <1>2 DEF Service
  <2>3. ASSUME NEW w \in Users, NEW j \in t.uQueued[w]
        PROVE  w \in t.users /\ j \in t.queued /\ t.owner[j] \in {w, NoUser}
    BY <1>3, <1>4, <2>3 DEF IInv, Lists, UserLists
  <2>4. ASSUME NEW j \in t.queued \ t.stray, t.owner[j] # NoUser
        PROVE  j \in t.uQueued[t.owner[j]]
    <3>1. j \in svc.uQueued[svc.owner[j]] /\ svc.owner[j] \in Users
      BY <1>3, <2>2, <2>4 DEF IInv, Lists, UserLists
    <3>2. svc.owner[j] # ru
      BY <1>3, <2>1, <2>4, <3>1
    <3> QED
      BY <1>3, <1>4, <3>1, <3>2
  <2>5. ASSUME NEW w \in Users, NEW j \in t.uPrepared[w]
        PROVE  t.owner[j] = w
    BY <1>3, <1>4, <2>5 DEF IInv, Lists, UserLists
  <2> QED
    BY <2>3, <2>4, <2>5 DEF UserLists
<1>6. PrinterLists(t)
  BY <1>3 DEF IInv, Lists, PrinterLists
<1>7. StatesFit(t) /\ CopiesFit(t)
  BY <1>3, <1>4 DEF IInv, Lists, StatesFit, HeldIn, CopiesFit
<1>8. FreshInv(t)
  <2> SUFFICES ASSUME NEW k \in Jobs PROVE FreshJob(t, k)
    BY DEF FreshInv
  <2>1. FreshJob(svc, k)
    BY DEF IInv, FreshInv
  <2>2. Fresh(t, k) <=> Fresh(svc, k)
    BY <1>3 DEF Fresh
  <2> QED
    BY <1>2, <1>3, <1>4, <2>1, <2>2 DEF FreshJob
<1>9. TypeOK' /\ RemovalFits'
  BY <1>1, <1>2, <1>3, <1>4 DEF IInv, TypeOK, RemovalFits, NoLoop
<1>10. accounts' # Users
  BY <1>1, <1>2
<1> QED
  BY <1>1, <1>3, <1>4, <1>5, <1>6, <1>7, <1>8, <1>9, <1>10
     DEF IInv, Lists, ExactTillRemoval

-----------------------------------------------------------------------------
(* Every step *)

\* What the action properties ask of a step.
Steps == /\ \A j \in Jobs : svc.state[j] = "COMPLETED" =>
               svc'.state[j] = "COMPLETED" \/ j \in svc.prepared \ svc'.prepared
         /\ \A u \in Users : \A j \in svc.uQueued[u] \ svc'.uQueued[u] :
               svc'.state[j] = "COMPLETED" \/ u \notin svc'.users

\* With no job in queuedJobList_ no user has one in its queue.
LEMMA UnloadFields ==
    ASSUME IInv, UnloadSystemAbility
    PROVE  /\ UNCHANGED <<svc, active, accounts, removal, deletion>> /\ running' = FALSE
           /\ \A u \in Users : svc.uQueued[u] = {}
           /\ \A j \in Jobs \ svc.over : Held(j) => svc.state[j] = "COMPLETED"
<1>1. svc.queued = {} /\ svc \in Service
  BY DEF UnloadSystemAbility, IInv, TypeOK
<1> QED
  BY <1>1 DEF UnloadSystemAbility, IInv, Lists, UserLists, StatesFit, HeldIn, Held

\* One case for each action.
LEMMA NextKeeps ==
    ASSUME IInv, Next
    PROVE  IInv' /\ Steps
<1>1. StepFits => Steps
  BY DEF StepFits, Steps, Onward
<1>2. active \in accounts /\ running \in BOOLEAN /\ accounts \subseteq Users
      /\ deletion \in [user : Users \cup {NoUser}, todo : SUBSET Jobs]
      /\ (deletion # NoLoop => deletion.user \in Users)
  BY DEF IInv, TypeOK, RemovalFits
<1>3. ASSUME NEW u \in accounts, NEW j \in Jobs, Call(u, j)
      PROVE  IInv' /\ Steps
  <2>1. StepFits
    BY <1>3, StartPrintKeeps, StartPrintJobKeeps, StartNativeKeeps, RestartKeeps,
       CancelCallKeeps, KeepsFits DEF Call
  <2>2. CanCall /\ UNCHANGED <<active, accounts, removal, deletion, running>>
    BY <1>3, CallStays
  <2> QED
    BY <1>1, <1>2, <2>1, <2>2, CalmStep DEF CanCall
<1>4. ASSUME NEW u \in accounts, NEW p \in Printers, DeletePrinter(u, p)
      PROVE  IInv' /\ Steps
  <2>1. StepFits
    BY <1>4, DeletePrinterKeeps, KeepsFits
  <2>2. /\ removal = NoLoop /\ UNCHANGED <<active, accounts, removal, running>>
        /\ deletion' = IF svc.printerJobs[p] = {} THEN NoLoop
                       ELSE [user |-> u, todo |-> svc.printerJobs[p]]
    BY <1>4 DEF DeletePrinter, CanCall
  <2>3. svc.printerJobs[p] \subseteq Jobs
    BY DEF IInv, TypeOK, Service
  <2>4. /\ deletion' \in [user : Users \cup {NoUser}, todo : SUBSET Jobs]
        /\ deletion' # NoLoop => deletion'.user \in Users
    BY <1>2, <2>2, <2>3 DEF NoLoop
  <2> QED
    BY <1>1, <1>2, <2>1, <2>2, <2>4, CalmStep
<1>5. CASE CancelNextOfPrinter
  <2>1. StepFits /\ removal = NoLoop
    BY <1>5, CancelNextKeeps, KeepsFits
  <2>2. PICK j \in deletion.todo :
           deletion' = IF deletion.todo = {j} THEN NoLoop
                       ELSE [deletion EXCEPT !.todo = @ \ {j}]
    BY <1>5 DEF CancelNextOfPrinter
  <2>3. UNCHANGED <<active, accounts, removal, running>>
    BY <1>5 DEF CancelNextOfPrinter
  <2>4. deletion # NoLoop
    BY <2>2 DEF NoLoop
  <2>5. /\ deletion' \in [user : Users \cup {NoUser}, todo : SUBSET Jobs]
        /\ deletion' # NoLoop => deletion'.user \in Users
    BY <1>2, <2>2, <2>4 DEF NoLoop
  <2> QED
    BY <1>1, <1>2, <2>1, <2>3, <2>5, CalmStep
<1>6. ASSUME NEW c \in Copies, SendNext(c) \/ EndSending(c) \/ ReportLast(c) \/ Monitor(c)
      PROVE  IInv' /\ Steps
  <2>1. StepFits
    BY <1>6, SendNextKeeps, EndSendingKeeps, ReportLastKeeps, MonitorKeeps
  <2>2. removal = NoLoop /\ UNCHANGED <<active, accounts, removal, deletion, running>>
    BY <1>6 DEF SendNext, EndSending, ReportLast, Monitor, CanCall, Moves, Reports, Becomes
  <2> QED
    BY <1>1, <1>2, <2>1, <2>2, CalmStep
<1>7. ASSUME NEW c \in Copies, Drop(c)
      PROVE  IInv' /\ Steps
  BY <1>7, DropKeeps DEF Steps, Onward
<1>8. ASSUME NEW u \in accounts, SwitchAccount(u)
      PROVE  IInv' /\ Steps
  <2>1. active' \in accounts /\ UNCHANGED <<svc, accounts, removal, deletion, running>>
    BY <1>8 DEF SwitchAccount
  <2> QED
    BY <2>1 DEF IInv, TypeOK, RemovalFits, ExactTillRemoval, Steps
<1>9. ASSUME NEW u \in accounts, UserRemoved(u)
      PROVE  IInv' /\ Steps
  BY <1>9, UserRemovedKeeps DEF UserRemoved, Steps
<1>10. CASE UserSwitched \/ \E u \in Users : BlockUserPrintJobs(u)
  <2>1. StepFits
    BY <1>10, UserSwitchedKeeps, BlockUserKeeps
  <2>2. removal = NoLoop /\ UNCHANGED <<active, accounts, removal, deletion, running>>
    BY <1>10 DEF UserSwitched, BlockUserPrintJobs, CanCall, Becomes
  <2> QED
    BY <1>1, <1>2, <2>1, <2>2, CalmStep
<1>11. CASE CancelNextOfUser
  BY <1>11, CancelNextOfUserKeeps DEF Steps, Onward
<1>12. CASE ForgetUser
  BY <1>12, ForgetUserKeeps DEF Steps
<1>13. CASE UnloadSystemAbility
  BY <1>13, UnloadFields DEF IInv, TypeOK, RemovalFits, ExactTillRemoval, Steps
<1> QED
  BY <1>3, <1>4, <1>5, <1>6, <1>7, <1>8, <1>9, <1>10, <1>11, <1>12, <1>13
     DEF Next, ClientStep, AccountStep

\* The invariant is inductive.
LEMMA InvNext == IInv /\ [Next]_vars => IInv'
<1> SUFFICES ASSUME IInv, [Next]_vars
             PROVE  IInv'
  OBVIOUS
<1>1. CASE UNCHANGED vars
  BY <1>1 DEF vars, IInv, TypeOK, RemovalFits, ExactTillRemoval
<1> QED
  BY <1>1, NextKeeps

\* The invariant holds in every behaviour.
LEMMA InvAlways == Spec => []IInv
  BY InvInit, InvNext, PTL DEF Spec

-----------------------------------------------------------------------------
(* Theorems *)

\* The types of TypeOK: above all, an account that is being removed is known to
\* the service and is not the active one (CancelUserPrintJobs).
THEOREM TypeCorrect == Spec => []TypeOK
<1>1. IInv => TypeOK
  BY DEF IInv
<1> QED
  BY <1>1, InvAlways, PTL

\* queuedJobList_, the queues of the users and userJobMap_ never disagree, for any
\* number of users, jobs and printers (UpdateQueuedJobList, HandleJobCompletedState
\* and the removal of a user), but for the jobs that their starter had not prepared.
THEOREM ListsAlwaysAgree == Spec => []ListsAgree
<1>1. IInv => ListsAgree
  <2> SUFFICES ASSUME IInv PROVE ListsAgree
    OBVIOUS
  <2>1. NoUser \notin svc.users
    BY UsersAssumption DEF IInv, TypeOK, Service
  <2> QED
    BY <2>1 DEF IInv, Lists, UserLists, RemovalFits, ListsAgree, Owned
<1> QED
  BY <1>1, InvAlways, PTL

\* printerJobMap_ has each listed job under its printer and no job that is not
\* listed, but those over MAX_JOBQUEUE_NUM and those their starter had not prepared.
THEOREM PrintersKnow == Spec => []PrinterKnowsItsJobs
<1>1. IInv => PrinterKnowsItsJobs
  BY DEF IInv, Lists, PrinterLists, PrinterKnowsItsJobs
<1> QED
  BY <1>1, InvAlways, PTL

\* The print client never holds a job that the service has forgotten, unless the
\* job was completed or found the list full.
THEOREM HeldJobsAreListed == Spec => []HeldIsListed
<1>1. IInv => HeldIsListed
  BY DEF IInv, Lists, StatesFit, HeldIn, HeldIsListed, Held
<1> QED
  BY <1>1, InvAlways, PTL

\* CheckPrintJob finds only ids that the client was given once at most: with the
\* jobs of SetPrintJobCanceled and of RestartPrintJob in printJobList_, an id can be
\* started a second time and never a third.
THEOREM NeverAThird == Spec => []NoThirdStart
<1>1. IInv => NoThirdStart
  BY DEF IInv, Lists, CopiesFit, NoThirdStart, Service
<1> QED
  BY <1>1, InvAlways, PTL

\* As long as one user is known, CheckJobQueueBlocked leaves isJobQueueBlocked_ as
\* it is in the user's queue, and HandleJobCompletedState no completed job in the
\* history, whatever the number of jobs and the order of the reports.
THEOREM ExactWithOneUser == Spec => []ExactForOneUser
<1>1. IInv => ExactForOneUser
  <2> SUFFICES ASSUME IInv, OneUser, NEW u \in Users
               PROVE  /\ u \in svc.users => (svc.blocked <=> HasBlocked(svc, u))
                      /\ \A j \in svc.history[u] : svc.state[j] # "COMPLETED"
    BY DEF ExactForOneUser
  <2>1. Exact(svc) /\ Lists(svc)
    BY DEF IInv, ExactTillRemoval, OneUser
  <2>2. PICK o \in Users : svc.users \subseteq {o}
    BY DEF OneUser
  <2>3. \A j \in svc.history[u] : j \in svc.uQueued[u] /\ j \in svc.queued
    BY <2>1, <2>2 DEF Exact, Lists, UserLists
  <2> QED
    BY <2>1, <2>2, <2>3 DEF Exact, Lists, StatesFit
<1> QED
  BY <1>1, InvAlways, PTL

\* No report, restart or cancellation takes a job out of the queue of its user
\* without completing it; only the removal of the user does.
THEOREM OnlyFinishedLeave == Spec => OnlyFinishedJobsLeave
<1>1. IInv /\ [Next]_vars =>
         [\A u \in Users : \A j \in svc.uQueued[u] \ svc'.uQueued[u] :
             svc'.state[j] = "COMPLETED" \/ u \notin svc'.users]_vars
  BY NextKeeps DEF Steps
<1> QED
  BY <1>1, InvAlways, PTL DEF Spec, OnlyFinishedJobsLeave

\* No report that comes late, no restart, cancellation or switch of the user changes
\* a completed job: only CheckPrintJob does, which takes its id off printJobList_.
THEOREM CompletedStays == Spec => CompletedIsFinal
<1>1. IInv /\ [Next]_vars =>
         [\A j \in Jobs : svc.state[j] = "COMPLETED" =>
             svc'.state[j] = "COMPLETED" \/ j \in svc.prepared \ svc'.prepared]_vars
  BY NextKeeps DEF Steps
<1> QED
  BY <1>1, InvAlways, PTL DEF Spec, CompletedIsFinal

\* Nothing else than UnloadSystemAbility ends the service.
LEMMA OnlyUnloadStops ==
    ASSUME Next, running, ~running'
    PROVE  UnloadSystemAbility
<1>1. ASSUME NEW u, NEW j, Call(u, j)
      PROVE  FALSE
  BY <1>1, CallStays
<1>2. ASSUME NEW u, NEW p, DeletePrinter(u, p) \/ CancelNextOfPrinter
      PROVE  FALSE
  BY <1>2 DEF DeletePrinter, CancelNextOfPrinter
<1>3. ASSUME NEW c, ClientStep(c)
      PROVE  FALSE
  BY <1>3 DEF ClientStep, SendNext, EndSending, ReportLast, Monitor, Drop, Moves, Reports,
              Becomes
<1>4. ~AccountStep
  BY DEF AccountStep, SwitchAccount, UserSwitched, BlockUserPrintJobs, UserRemoved,
         CancelNextOfUser, ForgetUser, Becomes
<1> QED
  BY <1>1, <1>2, <1>3, <1>4 DEF Next

\* When UnloadSystemAbility stops the service, no user has a job in its queue, and
\* every job that the client still holds was completed.
THEOREM NoJobIsUnloaded == Spec => UnloadLosesNoJob
<1>1. IInv /\ [Next]_vars =>
         [running /\ ~running' =>
             /\ \A u \in Users : svc.uQueued[u] = {}
             /\ \A j \in Jobs \ svc.over : Held(j) => svc.state[j] = "COMPLETED"]_vars
  BY OnlyUnloadStops, UnloadFields
<1> QED
  BY <1>1, InvAlways, PTL DEF Spec, UnloadLosesNoJob
==============================================================================
