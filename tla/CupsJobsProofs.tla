--------------------------- MODULE CupsJobsProofs ---------------------------
(***************************************************************************)
(* Proofs about CupsJobs for every set of jobs and any number of calls.    *)
(***************************************************************************)
EXTENDS CupsJobs, SequenceTheorems, WellFoundedInduction, TLAPS

-----------------------------------------------------------------------------
(* What the operations of jobQueue_ and monitorList_ return: push_back       *)
(* (Append), taking the first (Head, Tail), find and erase (RemoveFirst)     *)

\* An empty list has no member and no duplicate.
LEMMA EmptyListFacts ==
    /\ \A S : <<>> \in Seq(S)
    /\ ToSet(<<>>) = {}
    /\ IsInjective(<<>>)
  BY DEF ToSet, IsInjective

\* Append adds one member, at the end.
LEMMA AppendFacts ==
    ASSUME NEW S, NEW s \in Seq(S), NEW e \in S
    PROVE  /\ Append(s, e) \in Seq(S)
           /\ Append(s, e) # <<>>
           /\ Len(Append(s, e)) = Len(s) + 1
           /\ ToSet(Append(s, e)) = ToSet(s) \cup {e}
           /\ IsInjective(s) /\ e \notin ToSet(s) => IsInjective(Append(s, e))
  <1>1. /\ Append(s, e) \in Seq(S)
        /\ Append(s, e) # <<>>
        /\ Len(Append(s, e)) = Len(s) + 1
        /\ DOMAIN s = 1..Len(s) /\ Len(s) \in Nat
        /\ DOMAIN Append(s, e) = 1..Len(s) + 1
        /\ \A i \in 1..Len(s) : Append(s, e)[i] = s[i]
        /\ Append(s, e)[Len(s) + 1] = e
    OBVIOUS
  <1>2. ToSet(Append(s, e)) \subseteq ToSet(s) \cup {e}
    BY <1>1 DEF ToSet
  <1>3. ToSet(s) \cup {e} \subseteq ToSet(Append(s, e))
    <2>1. e \in ToSet(Append(s, e))
      BY <1>1 DEF ToSet
    <2>2. ToSet(s) \subseteq ToSet(Append(s, e))
      BY <1>1 DEF ToSet
    <2> QED
      BY <2>1, <2>2
  <1>4. IsInjective(s) /\ e \notin ToSet(s) => IsInjective(Append(s, e))
    BY <1>1 DEF IsInjective, ToSet
  <1> QED
    BY <1>1, <1>2, <1>3, <1>4

\* Taking the first element of a list leaves the other ones.
LEMMA HeadTailFacts ==
    ASSUME NEW S, NEW s \in Seq(S), s # <<>>
    PROVE  /\ Head(s) \in S
           /\ Tail(s) \in Seq(S)
           /\ Len(s) \in Nat \ {0}
           /\ Len(Tail(s)) = Len(s) - 1
           /\ Head(s) = s[1]
           /\ Head(s) \in ToSet(s)
           /\ ToSet(s) = ToSet(Tail(s)) \cup {Head(s)}
           /\ IsInjective(s) => IsInjective(Tail(s)) /\ Head(s) \notin ToSet(Tail(s))
  <1>1. /\ Head(s) \in S
        /\ Tail(s) \in Seq(S)
        /\ Len(s) \in Nat \ {0}
        /\ Len(Tail(s)) = Len(s) - 1
        /\ Head(s) = s[1]
        /\ DOMAIN s = 1..Len(s)
        /\ DOMAIN Tail(s) = 1..Len(s) - 1
        /\ \A i \in 1..Len(s) - 1 : Tail(s)[i] = s[i + 1]
    OBVIOUS
  <1>2. Head(s) \in ToSet(s)
    BY <1>1 DEF ToSet
  <1>3. ToSet(Tail(s)) \subseteq ToSet(s)
    BY <1>1 DEF ToSet
  <1>4. ToSet(s) \subseteq ToSet(Tail(s)) \cup {Head(s)}
    <2> SUFFICES ASSUME NEW i \in 1..Len(s), i # 1
                 PROVE  s[i] \in ToSet(Tail(s))
      BY <1>1 DEF ToSet
    <2>1. i - 1 \in 1..Len(s) - 1 /\ Tail(s)[i - 1] = s[i]
      BY <1>1
    <2> QED
      BY <1>1, <2>1 DEF ToSet
  <1>5. IsInjective(s) => IsInjective(Tail(s)) /\ Head(s) \notin ToSet(Tail(s))
    BY <1>1 DEF IsInjective, ToSet
  <1> QED
    BY <1>1, <1>2, <1>3, <1>4, <1>5

\* Only a list of one element has an empty tail.
LEMMA EmptyTailFacts ==
    ASSUME NEW S, NEW s \in Seq(S), s # <<>>, Len(s) # 1
    PROVE  Tail(s) # <<>>
  <1> DEFINE t == Tail(s)
  <1>1. Len(t) = Len(s) - 1 /\ Len(s) \in Nat
    BY HeadTailFacts
  <1> HIDE DEF t
  <1>2. t = <<>> => Len(t) = 0
    OBVIOUS
  <1> QED
    BY <1>1, <1>2 DEF t

\* A non-empty set of natural numbers has a least element.
LEMMA MinIsMember ==
    ASSUME NEW I \in SUBSET Nat, I # {}
    PROVE  Min(I) \in I
  <1> DEFINE R == OpToRel(<, Nat)
  <1>1. \A x, y \in Nat : <<x, y>> \in R <=> x < y
    BY DEF OpToRel
  <1>2. IsWellFoundedOn(R, Nat)
    BY NatLessThanWellFounded
  <1> HIDE DEF R
  <1>3. PICK x \in I : \A y \in I : ~ (<<y, x>> \in R)
    BY <1>2, WFMin
  <1>4. ASSUME NEW y \in I
        PROVE  x =< y
    <2>1. x \in Nat /\ y \in Nat
      OBVIOUS
    <2>2. ~ (y < x)
      BY <1>1, <1>3, <2>1
    <2> QED
      BY <2>1, <2>2
  <1> QED
    BY <1>3, <1>4 DEF Min

\* Find and erase takes a member off the list, and no other one.
LEMMA RemoveFirstFacts ==
    ASSUME NEW S, NEW s \in Seq(S), NEW e
    PROVE  /\ RemoveFirst(s, e) \in Seq(S)
           /\ ToSet(s) \subseteq ToSet(RemoveFirst(s, e)) \cup {e}
           /\ ToSet(RemoveFirst(s, e)) \subseteq ToSet(s)
           /\ IsInjective(s) => /\ IsInjective(RemoveFirst(s, e))
                                /\ e \notin ToSet(RemoveFirst(s, e))
  <1> DEFINE I == {i \in 1..Len(s) : s[i] = e}
  <1>0. Len(s) \in Nat /\ DOMAIN s = 1..Len(s) /\ \A i \in 1..Len(s) : s[i] \in S
    OBVIOUS
  <1>1. CASE I = {}
    <2>1. RemoveFirst(s, e) = s
      BY <1>1 DEF RemoveFirst
    <2>2. e \notin ToSet(s)
      BY <1>0, <1>1 DEF ToSet
    <2> QED
      BY <2>1, <2>2
  <1>2. CASE I # {}
    <2> DEFINE k == Min(I)
               r == RemoveFirst(s, e)
    <2>1. k \in 1..Len(s) /\ s[k] = e
      <3>1. I \in SUBSET Nat
        OBVIOUS
      <3> QED
        BY <1>2, <3>1, MinIsMember
    <2>2. r = SubSeq(s, 1, k - 1) \o SubSeq(s, k + 1, Len(s))
      BY <1>2 DEF RemoveFirst, RemoveAt, SelectInSeq
    <2> HIDE DEF k, r
    <2>3. /\ SubSeq(s, 1, k - 1) \in Seq(S)
          /\ Len(SubSeq(s, 1, k - 1)) = k - 1
          /\ \A i \in 1..k - 1 : SubSeq(s, 1, k - 1)[i] = s[i]
      <3>1. 1 \in Int /\ k - 1 \in Int /\ \A i \in 1..k - 1 : s[i] \in S
        BY <1>0, <2>1
      <3>2. /\ SubSeq(s, 1, k - 1) \in Seq(S)
            /\ Len(SubSeq(s, 1, k - 1)) = IF 1 <= k - 1 THEN k - 1 - 1 + 1 ELSE 0
            /\ \A i \in 1..k - 1 - 1 + 1 : SubSeq(s, 1, k - 1)[i] = s[1 + i - 1]
        BY <3>1, SubSeqProperties
      <3> QED
        BY <1>0, <2>1, <3>2
    <2>4. /\ SubSeq(s, k + 1, Len(s)) \in Seq(S)
          /\ Len(SubSeq(s, k + 1, Len(s))) = Len(s) - k
          /\ \A i \in 1..Len(s) - k : SubSeq(s, k + 1, Len(s))[i] = s[k + i]
      <3>1. k + 1 \in Int /\ Len(s) \in Int /\ \A i \in k + 1..Len(s) : s[i] \in S
        BY <1>0, <2>1
      <3>2. /\ SubSeq(s, k + 1, Len(s)) \in Seq(S)
            /\ Len(SubSeq(s, k + 1, Len(s)))
                 = IF k + 1 <= Len(s) THEN Len(s) - (k + 1) + 1 ELSE 0
            /\ \A i \in 1..Len(s) - (k + 1) + 1 :
                  SubSeq(s, k + 1, Len(s))[i] = s[k + 1 + i - 1]
        BY <3>1, SubSeqProperties
      <3>3. /\ Len(s) - (k + 1) + 1 = Len(s) - k
            /\ k + 1 <= Len(s) \/ Len(s) - k = 0
            /\ \A i \in 1..Len(s) - k : k + 1 + i - 1 = k + i
        <4> DEFINE n == Len(s)
        <4>1. n \in Nat /\ k \in 1..n
          BY <1>0, <2>1
        <4> HIDE DEF n
        <4>2. n - (k + 1) + 1 = n - k
          BY <4>1
        <4>3. k + 1 <= n \/ n - k = 0
          BY <4>1
        <4>4. \A i \in 1..n - k : k + 1 + i - 1 = k + i
          BY <4>1
        <4> QED
          BY <4>2, <4>3, <4>4 DEF n
      <3>4. Len(SubSeq(s, k + 1, Len(s))) = Len(s) - k
        BY <3>2, <3>3
      <3>5. \A i \in 1..Len(s) - k : SubSeq(s, k + 1, Len(s))[i] = s[k + i]
        BY <3>2, <3>3
      <3> QED
        BY <3>2, <3>4, <3>5
    <2>5. /\ r \in Seq(S)
          /\ Len(r) = Len(s) - 1
          /\ \A i \in 1..Len(s) - 1 : r[i] = IF i < k THEN s[i] ELSE s[i + 1]
      <3> DEFINE u == SubSeq(s, 1, k - 1)
                 v == SubSeq(s, k + 1, Len(s))
      <3>1. r = u \o v /\ u \in Seq(S) /\ v \in Seq(S)
        BY <2>2, <2>3, <2>4
      <3>2. Len(u) = k - 1 /\ Len(v) = Len(s) - k
        BY <2>3, <2>4
      <3>3. \A i \in 1..k - 1 : u[i] = s[i]
        BY <2>3
      <3>4. \A i \in 1..Len(s) - k : v[i] = s[k + i]
        BY <2>4
      <3> HIDE DEF u, v
      <3>5. /\ u \o v \in Seq(S)
            /\ Len(u \o v) = Len(u) + Len(v)
            /\ \A i \in 1..Len(u) + Len(v) :
                  (u \o v)[i] = IF i <= Len(u) THEN u[i] ELSE v[i - Len(u)]
        BY <3>1, ConcatProperties
      <3> QED
        BY <1>0, <2>1, <3>1, <3>2, <3>3, <3>4, <3>5
    <2>6. DOMAIN r = 1..Len(s) - 1
      BY <2>5
    <2>7. ToSet(r) \subseteq ToSet(s)
      <3>1. \A i \in DOMAIN r : r[i] = s[i] \/ r[i] = s[i + 1]
        BY <2>5, <2>6
      <3>2. \A i \in DOMAIN r : i \in DOMAIN s /\ i + 1 \in DOMAIN s
        BY <1>0, <2>6
      <3> QED
        BY <3>1, <3>2 DEF ToSet
    <2>8. ToSet(s) \subseteq ToSet(r) \cup {e}
      <3> SUFFICES ASSUME NEW i \in 1..Len(s), i # k
                   PROVE  s[i] \in ToSet(r)
        BY <1>0, <2>1 DEF ToSet
      <3>1. CASE i < k
        BY <1>0, <2>1, <2>5, <2>6, <3>1 DEF ToSet
      <3>2. CASE i > k
        <4>1. i - 1 \in 1..Len(s) - 1 /\ r[i - 1] = s[i]
          BY <1>0, <2>1, <2>5, <3>2
        <4> QED
          BY <2>6, <4>1 DEF ToSet
      <3> QED
        BY <2>1, <3>1, <3>2
    <2>9. IsInjective(s) => IsInjective(r) /\ e \notin ToSet(r)
      <3> SUFFICES ASSUME IsInjective(s)
                   PROVE  IsInjective(r) /\ e \notin ToSet(r)
        OBVIOUS
      <3> DEFINE p(i) == IF i < k THEN i ELSE i + 1
      <3>1. \A i \in DOMAIN r : p(i) \in 1..Len(s) /\ p(i) # k /\ r[i] = s[p(i)]
        BY <1>0, <2>1, <2>5, <2>6
      <3>2. \A i, j \in DOMAIN r : p(i) = p(j) => i = j
        BY <2>1, <2>6
      <3> HIDE DEF p
      <3>3. IsInjective(r)
        BY <1>0, <3>1, <3>2 DEF IsInjective
      <3>4. e \notin ToSet(r)
        BY <1>0, <2>1, <3>1 DEF IsInjective, ToSet
      <3> QED
        BY <3>3, <3>4
    <2> QED
      BY <2>5, <2>7, <2>8, <2>9 DEF r
  <1> QED
    BY <1>1, <1>2

-----------------------------------------------------------------------------
(* Type correctness *)

\* While the monitor handles a job, its snapshot holds that job.
WatchesOne == mon.step \notin {"off", "round", "end"} => mon.todo # <<>>

Typed == TypeOK /\ WatchesOne

\* The parts of TypeOK about the actors each action works for.
ServiceTypes == /\ svc \in [Jobs -> ServiceStates]
                /\ calls \in 0..MaxCalls
                /\ api \in [step : ApiSteps, job : Jobs \cup {NoJob}]
SenderTypes == /\ sendCancel => currentJob # NoJob
               /\ jobQueue \in Seq(Jobs)
               /\ currentJob \in Jobs \cup {NoJob}
               /\ sendCancel \in BOOLEAN
               /\ sender \in [Jobs -> SenderStates]
               /\ stale \in [Jobs -> Jobs \cup {NoJob}]
               /\ outcome \in [Jobs -> Outcomes]
CupsTypes == cups \in [Jobs -> CupsStates]
MonitorTypes == /\ monitorList \in Seq(Jobs)
                /\ monitoring \in BOOLEAN
                /\ isCanceled \in [Jobs -> BOOLEAN]
                /\ isInterrupt \in [Jobs -> BOOLEAN]
                /\ firstQuery \in [Jobs -> BOOLEAN]
                /\ mon \in MonitorThread
                /\ WatchesOne

LEMMA TypesOfAll == Typed <=> ServiceTypes /\ SenderTypes /\ CupsTypes /\ MonitorTypes
  BY DEF Typed, TypeOK, ServiceTypes, SenderTypes, CupsTypes, MonitorTypes

LEMMA ReportTypes ==
    ASSUME svc \in [Jobs -> ServiceStates], NEW j, NEW state \in ServiceStates,
           Report(j, state)
    PROVE  svc' \in [Jobs -> ServiceStates]
  BY DEF Report, ServiceStates

LEMMA CupsCancelTypes ==
    ASSUME CupsTypes, NEW j, CupsCancelAccepted(j)
    PROVE  CupsTypes'
  BY DEF CupsTypes, CupsCancelAccepted, CupsStates

LEMMA UnchangedTypes ==
    /\ MonitorTypes /\ UNCHANGED monitorVars => MonitorTypes'
    /\ CupsTypes /\ UNCHANGED cups => CupsTypes'
    /\ SenderTypes /\ UNCHANGED senderVars => SenderTypes'
    /\ ServiceTypes /\ UNCHANGED <<svc, calls, api>> => ServiceTypes'
  <1>1. MonitorTypes /\ UNCHANGED monitorVars => MonitorTypes'
    BY DEF MonitorTypes, monitorVars, WatchesOne
  <1>2. CupsTypes /\ UNCHANGED cups => CupsTypes'
    BY DEF CupsTypes
  <1>3. SenderTypes /\ UNCHANGED senderVars => SenderTypes'
    BY DEF SenderTypes, senderVars
  <1>4. ServiceTypes /\ UNCHANGED <<svc, calls, api>> => ServiceTypes'
    BY DEF ServiceTypes
  <1> QED
    BY <1>1, <1>2, <1>3, <1>4

LEMMA ApiCallTypes ==
    ASSUME NEW s \in ApiSteps, NEW j \in Jobs
    PROVE  /\ [step |-> s, job |-> j] \in [step : ApiSteps, job : Jobs \cup {NoJob}]
           /\ Idle \in [step : ApiSteps, job : Jobs \cup {NoJob}]
  BY DEF Idle, ApiSteps

LEMMA CallStep ==
    ASSUME Typed, NEW j \in Jobs, StartJob(j) \/ CancelJob(j) \/ BlockJob(j)
    PROVE  Typed'
  <1>0. ServiceTypes /\ SenderTypes /\ CupsTypes /\ MonitorTypes
    BY TypesOfAll
  <1>1. Append(jobQueue, j) \in Seq(Jobs) /\ RemoveFirst(jobQueue, j) \in Seq(Jobs)
    BY <1>0, AppendFacts, RemoveFirstFacts DEF SenderTypes
  <1>2. CupsTypes' /\ MonitorTypes'
    BY <1>0, UnchangedTypes DEF StartJob, CancelJob, BlockJob
  <1>3. svc' \in [Jobs -> ServiceStates]
    <2>1. /\ svc \in [Jobs -> ServiceStates]
          /\ "QUEUED" \in ServiceStates /\ "COMPLETED" \in ServiceStates
          /\ "BLOCKED" \in ServiceStates
      BY <1>0 DEF ServiceTypes, ServiceStates, Live
    <2>2. \/ svc' = svc \/ svc' = [svc EXCEPT ![j] = "QUEUED"]
          \/ Report(j, "COMPLETED") \/ Report(j, "BLOCKED")
      BY DEF StartJob, CancelJob, BlockJob
    <2> QED
      BY <2>1, <2>2, ReportTypes
  <1>4. calls' \in 0..MaxCalls
    <2>1. calls' = calls \/ (calls < MaxCalls /\ calls' = calls + 1)
      BY DEF StartJob, CancelJob, BlockJob
    <2> QED
      BY <1>0, <2>1, MaxCallsAssumption DEF ServiceTypes
  <1>5. api' \in [step : ApiSteps, job : Jobs \cup {NoJob}]
    <2>1. \/ api' = api
          \/ \E s \in {"startNext", "cancelMonitor", "blockMonitor"} :
                api' = [step |-> s, job |-> j]
      BY DEF StartJob, CancelJob, BlockJob
    <2>2. {"startNext", "cancelMonitor", "blockMonitor"} \subseteq ApiSteps
      BY DEF ApiSteps
    <2> QED
      BY <1>0, <2>1, <2>2, ApiCallTypes DEF ServiceTypes
  <1>6. SenderTypes'
    <2>1. /\ jobQueue' \in {jobQueue, Append(jobQueue, j), RemoveFirst(jobQueue, j)}
          /\ outcome' \in {outcome, [outcome EXCEPT ![j] = "silent"],
                           [outcome EXCEPT ![j] = "reported"]}
          /\ UNCHANGED <<currentJob, sender, stale>>
          /\ sendCancel' = sendCancel \/ sendCancel' = (sendCancel \/ currentJob = j)
      BY DEF StartJob, CancelJob, BlockJob
    <2>2. jobQueue' \in Seq(Jobs)
      BY <1>0, <1>1, <2>1 DEF SenderTypes
    <2>3. outcome' \in [Jobs -> Outcomes]
      BY <1>0, <2>1 DEF SenderTypes, Outcomes
    <2>4. sendCancel' \in BOOLEAN
      BY <1>0, <2>1 DEF SenderTypes
    <2>5. sendCancel' => currentJob' # NoJob
      BY <1>0, <2>1, JobsAssumption DEF SenderTypes
    <2>6. currentJob' \in Jobs \cup {NoJob} /\ sender' \in [Jobs -> SenderStates]
          /\ stale' \in [Jobs -> Jobs \cup {NoJob}]
      BY <1>0, <2>1 DEF SenderTypes
    <2> QED
      BY <2>2, <2>3, <2>4, <2>5, <2>6 DEF SenderTypes
  <1>7. ServiceTypes'
    BY <1>3, <1>4, <1>5 DEF ServiceTypes
  <1> QED
    BY <1>2, <1>6, <1>7 DEF Typed, TypeOK, ServiceTypes, SenderTypes, CupsTypes, MonitorTypes

\* What taking the next job does to the types, whoever takes it.
LEMMA TakeNextJobTypes ==
    ASSUME SenderTypes, TakeNextJob
    PROVE  /\ Head(jobQueue) \in Jobs
           /\ jobQueue' \in Seq(Jobs)
           /\ currentJob' \in Jobs
           /\ sendCancel' = FALSE
  BY HeadTailFacts DEF SenderTypes, TakeNextJob

LEMMA LastInQueueType ==
    ASSUME SenderTypes, jobQueue # <<>>
    PROVE  LastInQueue \in Jobs
  <1>1. Len(jobQueue) \in 1..Len(jobQueue)
    BY DEF SenderTypes
  <1> QED
    BY <1>1, ElementOfSeq DEF SenderTypes, LastInQueue

LEMMA ApiStepTypes ==
    ASSUME Typed, ApiStep
    PROVE  Typed'
  <1>0. ServiceTypes /\ SenderTypes /\ CupsTypes /\ MonitorTypes
    BY TypesOfAll
  <1>1. /\ svc \in [Jobs -> ServiceStates]
        /\ {"QUEUED", "COMPLETED"} \subseteq ServiceStates
    BY <1>0 DEF ServiceTypes, ServiceStates, Live
  <1>2. svc' \in [Jobs -> ServiceStates]
    <2>1. svc' = svc \/ Report(LastInQueue, "QUEUED") \/ Report(api.job, "COMPLETED")
      BY DEF ApiStep, ApiStartNext, ApiCancelMonitor, ApiBlockMonitor, ApiBlockCups, ApiBlockFlag
    <2> QED
      BY <1>1, <2>1, ReportTypes
  <1>3. calls' \in 0..MaxCalls
    BY <1>0 DEF ServiceTypes, ApiStep, ApiStartNext, ApiCancelMonitor, ApiBlockMonitor,
                ApiBlockCups, ApiBlockFlag
  <1>4. api' \in [step : ApiSteps, job : Jobs \cup {NoJob}]
    <2>1. api' = Idle \/ (\E s \in ApiSteps : api' = [api EXCEPT !.step = s])
      BY DEF ApiStep, ApiStartNext, ApiCancelMonitor, ApiBlockMonitor, ApiBlockCups, ApiBlockFlag,
             ApiSteps
    <2>2. Idle \in [step : ApiSteps, job : Jobs \cup {NoJob}]
      BY DEF Idle, ApiSteps
    <2> QED
      BY <1>0, <2>1, <2>2 DEF ServiceTypes
  <1>5. ServiceTypes'
    BY <1>2, <1>3, <1>4 DEF ServiceTypes
  <1>6. SenderTypes' /\ MonitorTypes' /\ CupsTypes'
    <2>1. CASE ApiStartNext
      <3>1. CupsTypes' /\ MonitorTypes'
        BY <1>0, <2>1, UnchangedTypes DEF ApiStartNext
      <3>2. SenderTypes'
        <4>1. CASE UNCHANGED senderVars
          BY <1>0, <4>1, UnchangedTypes
        <4>2. CASE TakeNextJob /\ sender' = [sender EXCEPT ![Head(jobQueue)] = "verify"]
          BY <1>0, <2>1, <4>2, TakeNextJobTypes, JobsAssumption
             DEF ApiStartNext, SenderTypes, SenderStates, Sending
        <4> QED
          BY <2>1, <4>1, <4>2 DEF ApiStartNext, senderVars
      <3> QED
        BY <3>1, <3>2
    <2>2. CASE ApiCancelMonitor
      <3>1. SenderTypes' /\ CupsTypes'
        BY <1>0, <2>2, UnchangedTypes DEF ApiCancelMonitor
      <3>2. MonitorTypes'
        BY <1>0, <2>2 DEF ApiCancelMonitor, MonitorTypes, WatchesOne
      <3> QED
        BY <3>1, <3>2
    <2>3. CASE ApiBlockMonitor
      BY <1>0, <2>3, UnchangedTypes DEF ApiBlockMonitor
    <2>4. CASE ApiBlockCups
      <3>1. SenderTypes' /\ MonitorTypes'
        BY <1>0, <2>4, UnchangedTypes DEF ApiBlockCups
      <3>2. CupsTypes'
        BY <1>0, <2>4, UnchangedTypes, CupsCancelTypes DEF ApiBlockCups
      <3> QED
        BY <3>1, <3>2
    <2>5. CASE ApiBlockFlag
      <3>1. SenderTypes' /\ CupsTypes'
        BY <1>0, <2>5, UnchangedTypes DEF ApiBlockFlag
      <3>2. MonitorTypes'
        BY <1>0, <2>5 DEF ApiBlockFlag, MonitorTypes, WatchesOne
      <3> QED
        BY <3>1, <3>2
    <2> QED
      BY <2>1, <2>2, <2>3, <2>4, <2>5 DEF ApiStep
  <1> QED
    BY <1>5, <1>6 DEF Typed, TypeOK, ServiceTypes, SenderTypes, CupsTypes, MonitorTypes

LEMMA SenderStepTypes ==
    ASSUME Typed, NEW j \in Jobs, SenderStep(j)
    PROVE  Typed'
  <1>0. ServiceTypes /\ SenderTypes /\ CupsTypes /\ MonitorTypes
    BY TypesOfAll
  <1> USE DEF SenderStep, Verify, TestCanceled, HandleFiles, Register, JobSent,
              SenderStartNext, ReportLast, EndsReported, EndsSilent, GoesOn, SenderGoes
  <1>1. ServiceTypes'
    <2>1. {"QUEUED", "BLOCKED"} \subseteq ServiceStates
      BY DEF ServiceStates, Live
    <2>2. UNCHANGED <<calls, api>>
      OBVIOUS
    <2>3. svc' = svc \/ Report(j, "BLOCKED") \/ Report(stale[j], "QUEUED")
      OBVIOUS
    <2> QED
      BY <1>0, <2>1, <2>2, <2>3, ReportTypes DEF ServiceTypes
  <1>2. CupsTypes'
    <2>1. \/ cups' = cups
          \/ \E c \in {"created", "ended", "active"} : cups' = [cups EXCEPT ![j] = c]
      OBVIOUS
    <2> QED
      BY <1>0, <2>1 DEF CupsTypes, CupsStates
  <1>3. MonitorTypes'
    <2>1. CASE UNCHANGED monitorVars
      BY <1>0, <2>1, UnchangedTypes
    <2>2. CASE /\ monitorList' = Append(monitorList, j)
               /\ monitoring' = TRUE
               /\ mon' = IF monitoring THEN mon ELSE [mon EXCEPT !.step = "round"]
               /\ UNCHANGED <<isCanceled, isInterrupt, firstQuery>>
      <3>1. monitorList' \in Seq(Jobs)
        BY <1>0, <2>2, AppendFacts DEF MonitorTypes
      <3>2. mon' \in MonitorThread
        BY <1>0, <2>2 DEF MonitorTypes, MonitorThread, MonitorSteps
      <3>3. WatchesOne'
        BY <1>0, <2>2 DEF MonitorTypes, MonitorThread, WatchesOne
      <3> QED
        BY <1>0, <2>2, <3>1, <3>2, <3>3 DEF MonitorTypes
    <2> QED
      BY <2>1, <2>2 DEF monitorVars
  <1>4. SenderTypes'
    <2>1. \A p \in SenderStates : [sender EXCEPT ![j] = p] \in [Jobs -> SenderStates]
      BY <1>0 DEF SenderTypes
    <2>2. {"test", "send", "register", "sent", "next", "stale", "done", "verify"} \subseteq SenderStates
      BY DEF SenderStates, Sending
    <2>3. sender' \in [Jobs -> SenderStates]
      <3>1. \/ \E p \in {"test", "send", "register", "sent", "next", "stale", "done"} :
                  sender' = [sender EXCEPT ![j] = p]
            \/ TakeNextJob /\ sender' = [sender EXCEPT ![j] = "done", ![Head(jobQueue)] = "verify"]
        OBVIOUS
      <3>2. CASE TakeNextJob /\ sender' = [sender EXCEPT ![j] = "done", ![Head(jobQueue)] = "verify"]
        BY <1>0, <2>2, <3>2 DEF SenderTypes
      <3> QED
        BY <2>1, <2>2, <3>1, <3>2
    <2>4. outcome' \in [Jobs -> Outcomes]
      <3>1. \/ outcome' = outcome
            \/ \E o \in {"monitored", "reported", "silent"} : outcome' = [outcome EXCEPT ![j] = o]
        OBVIOUS
      <3> QED
        BY <1>0, <3>1 DEF SenderTypes, Outcomes
    <2>5. stale' \in [Jobs -> Jobs \cup {NoJob}]
      <3>1. \/ stale' = stale
            \/ stale' = [stale EXCEPT ![j] = NoJob]
            \/ jobQueue # <<>> /\ stale' = [stale EXCEPT ![j] = LastInQueue]
        BY DEF SenderIsBusy
      <3> QED
        BY <1>0, <3>1, LastInQueueType DEF SenderTypes
    <2>6. /\ jobQueue' \in Seq(Jobs) /\ currentJob' \in Jobs \cup {NoJob} /\ sendCancel' \in BOOLEAN
          /\ sendCancel' => currentJob' # NoJob
      <3>1. \/ UNCHANGED <<jobQueue, currentJob, sendCancel>>
            \/ UNCHANGED jobQueue /\ currentJob' = NoJob /\ sendCancel' = FALSE
            \/ TakeNextJob
        OBVIOUS
      <3>2. CASE TakeNextJob
        BY <1>0, <3>2, TakeNextJobTypes, JobsAssumption
      <3>3. CASE UNCHANGED jobQueue /\ currentJob' = NoJob /\ sendCancel' = FALSE
        BY <1>0, <3>3 DEF SenderTypes
      <3>4. CASE UNCHANGED <<jobQueue, currentJob, sendCancel>>
        BY <1>0, <3>4 DEF SenderTypes
      <3> QED
        BY <3>1, <3>2, <3>3, <3>4
    <2> QED
      BY <2>3, <2>4, <2>5, <2>6 DEF SenderTypes
  <1> QED
    BY <1>1, <1>2, <1>3, <1>4 DEF Typed, TypeOK, ServiceTypes, SenderTypes, CupsTypes, MonitorTypes

\* While a job is handled, NextWatched, WillReport and WillDrop leave the monitor
\* with a job in its snapshot, or at the end of the round.
LEMMA WatchedTypes ==
    ASSUME mon \in MonitorThread, mon.todo # <<>>
    PROVE  /\ Watched \in Jobs
           /\ NextWatched => mon' \in MonitorThread /\ WatchesOne'
           /\ \A state \in Live \cup {"COMPLETED"}, keep \in BOOLEAN :
                 WillReport(state, keep) => mon' \in MonitorThread /\ WatchesOne'
           /\ WillDrop => mon' \in MonitorThread /\ WatchesOne'
  <1> DEFINE todo == mon.todo
  <1>1. /\ todo \in Seq(Jobs) /\ Head(todo) \in Jobs /\ Tail(todo) \in Seq(Jobs)
        /\ Len(todo) # 1 => Tail(todo) # <<>>
    <2>1. todo \in Seq(Jobs) /\ todo # <<>>
      BY DEF MonitorThread
    <2> HIDE DEF todo
    <2>2. /\ Head(todo) \in Jobs /\ Tail(todo) \in Seq(Jobs)
          /\ Len(todo) \in Nat /\ Len(Tail(todo)) = Len(todo) - 1
      BY <2>1, HeadTailFacts
    <2> QED
      BY <2>1, <2>2, EmptyTailFacts
  <1>2. Watched \in Jobs
    BY <1>1 DEF Watched
  <1>3. /\ mon.step \in MonitorSteps /\ mon.keep \in BOOLEAN
        /\ mon.report \in Live \cup {"COMPLETED"}
        /\ mon = [step |-> mon.step, todo |-> mon.todo, report |-> mon.report, keep |-> mon.keep]
    BY DEF MonitorThread
  <1>4. "BLOCKED" \in Live \cup {"COMPLETED"}
    BY DEF Live
  <1>5. ASSUME NextWatched
        PROVE  mon' \in MonitorThread /\ WatchesOne'
    <2>1. mon' = [step |-> IF Len(todo) = 1 THEN "end" ELSE "check", todo |-> Tail(todo),
                  report |-> "BLOCKED", keep |-> TRUE]
      BY <1>5 DEF NextWatched, NoMonitor
    <2>2. mon' \in MonitorThread
      BY <1>1, <1>4, <2>1 DEF MonitorThread, MonitorSteps
    <2>3. WatchesOne'
      BY <1>1, <2>1 DEF WatchesOne
    <2> QED
      BY <2>2, <2>3
  <1>6. ASSUME NEW state \in Live \cup {"COMPLETED"}, NEW keep \in BOOLEAN, WillReport(state, keep)
        PROVE  mon' \in MonitorThread /\ WatchesOne'
    BY <1>3, <1>6 DEF WillReport, MonitorThread, MonitorSteps, WatchesOne
  <1>7. ASSUME WillDrop
        PROVE  mon' \in MonitorThread /\ WatchesOne'
    BY <1>1, <1>4, <1>7 DEF WillDrop, NoMonitor, MonitorThread, MonitorSteps, WatchesOne
  <1> QED
    BY <1>2, <1>5, <1>6, <1>7

LEMMA MonitorStepTypes ==
    ASSUME Typed, MonitorStep
    PROVE  Typed'
  <1>0. ServiceTypes /\ SenderTypes /\ CupsTypes /\ MonitorTypes
    BY TypesOfAll
  <1>1. mon \in MonitorThread /\ WatchesOne
    BY <1>0 DEF MonitorTypes
  <1>2. mon.step \in {"check", "interrupt", "query", "report", "drop"} => mon.todo # <<>> /\ Watched \in Jobs
    BY <1>1, WatchedTypes DEF WatchesOne
  <1>3. {"QUEUED", "RUNNING", "BLOCKED", "COMPLETED"} = Live \cup {"COMPLETED"}
        /\ {TRUE, FALSE} \subseteq BOOLEAN
    BY DEF Live
  <1> USE DEF QueryAnswered, AnswerPending, AnswerProcessing, AnswerStopped, AnswerEnded, AnswerAborted
  <1>4. ServiceTypes'
    <2>1. svc' = svc \/ Report(Watched, mon.report)
      BY DEF MonitorStep, BeginRound, CheckCanceled, CheckInterrupt, QueryOffline, QuerySkipped,
             MonitorReport, DropJob, EndRound
    <2>2. UNCHANGED <<calls, api>>
      BY DEF MonitorStep, BeginRound, CheckCanceled, CheckInterrupt, QueryOffline, QuerySkipped,
             MonitorReport, DropJob, EndRound
    <2>3. mon.report \in ServiceStates
      BY <1>1 DEF MonitorThread, ServiceStates
    <2> QED
      BY <1>0, <2>1, <2>2, <2>3, ReportTypes DEF ServiceTypes
  <1>5. SenderTypes'
    <2>1. \/ UNCHANGED senderVars
          \/ /\ UNCHANGED <<jobQueue, currentJob, sendCancel, sender, stale>>
             /\ \/ outcome' = outcome
                \/ outcome' = [outcome EXCEPT ![Watched] = "silent"]
                \/ outcome' = [outcome EXCEPT ![Watched] = "reported"]
      BY DEF MonitorStep, BeginRound, CheckCanceled, CheckInterrupt, QueryOffline, QuerySkipped,
             MonitorReport, DropJob, EndRound
    <2> QED
      BY <1>0, <2>1, UnchangedTypes DEF SenderTypes, Outcomes
  <1>6. CupsTypes'
    <2>1. cups' = cups \/ CupsCancelAccepted(Watched)
      BY DEF MonitorStep, BeginRound, CheckCanceled, CheckInterrupt, QueryOffline, QuerySkipped,
             MonitorReport, DropJob, EndRound
    <2> QED
      BY <1>0, <2>1, UnchangedTypes, CupsCancelTypes
  <1>7. mon' \in MonitorThread /\ WatchesOne'
    <2>1. CASE BeginRound
      <3>1. monitorList \in Seq(Jobs)
        BY <1>0 DEF MonitorTypes
      <3> QED
        BY <1>1, <2>1, <3>1 DEF BeginRound, MonitorThread, MonitorSteps, WatchesOne
    <2>2. CASE CheckCanceled \/ CheckInterrupt
      <3>1. \/ \E s \in {"interrupt", "query"} : mon' = [mon EXCEPT !.step = s]
            \/ WillReport("COMPLETED", FALSE)
            \/ WillReport("BLOCKED", FALSE)
        BY <2>2 DEF CheckCanceled, CheckInterrupt
      <3>2. mon.todo # <<>>
        BY <1>2, <2>2 DEF CheckCanceled, CheckInterrupt
      <3>3. CASE \E s \in {"interrupt", "query"} : mon' = [mon EXCEPT !.step = s]
        BY <1>1, <3>2, <3>3 DEF MonitorThread, MonitorSteps, WatchesOne
      <3> QED
        BY <1>1, <1>3, <3>1, <3>2, <3>3, WatchedTypes
    <2>3. CASE QueryOffline \/ QuerySkipped \/ QueryAnswered
      <3>1. \/ \E s \in {"QUEUED", "RUNNING", "BLOCKED", "COMPLETED"}, k \in {TRUE, FALSE} : WillReport(s, k)
            \/ NextWatched
            \/ WillDrop
        BY <2>3 DEF QueryOffline, QuerySkipped
      <3>2. mon.todo # <<>>
        BY <1>2, <2>3 DEF QueryOffline, QuerySkipped
      <3> QED
        BY <1>1, <1>3, <3>1, <3>2, WatchedTypes
    <2>4. CASE MonitorReport \/ DropJob
      <3>1. NextWatched \/ WillDrop
        BY <2>4 DEF MonitorReport, DropJob
      <3>2. mon.todo # <<>>
        BY <1>2, <2>4 DEF MonitorReport, DropJob
      <3> QED
        BY <1>1, <3>1, <3>2, WatchedTypes
    <2>5. CASE EndRound
      BY <1>1, <2>5 DEF EndRound, MonitorThread, MonitorSteps, WatchesOne
    <2> QED
      BY <2>1, <2>2, <2>3, <2>4, <2>5 DEF MonitorStep
  <1>8. /\ monitorList' \in Seq(Jobs)
        /\ monitoring' \in BOOLEAN
        /\ isCanceled' \in [Jobs -> BOOLEAN]
        /\ isInterrupt' \in [Jobs -> BOOLEAN]
        /\ firstQuery' \in [Jobs -> BOOLEAN]
    <2>1. monitorList' = monitorList \/ monitorList' = RemoveFirst(monitorList, Watched)
      BY DEF MonitorStep, BeginRound, CheckCanceled, CheckInterrupt, QueryOffline, QuerySkipped,
             MonitorReport, DropJob, EndRound
    <2>2. monitoring' = monitoring \/ monitoring' = FALSE
      BY DEF MonitorStep, BeginRound, CheckCanceled, CheckInterrupt, QueryOffline, QuerySkipped,
             MonitorReport, DropJob, EndRound
    <2>3. /\ isCanceled' = isCanceled \/ isCanceled' = [isCanceled EXCEPT ![Watched] = FALSE]
          /\ isInterrupt' = isInterrupt \/ isInterrupt' = [isInterrupt EXCEPT ![Watched] = FALSE]
          /\ \/ firstQuery' = firstQuery
             \/ \E b \in BOOLEAN : firstQuery' = [firstQuery EXCEPT ![Watched] = b]
      BY DEF MonitorStep, BeginRound, CheckCanceled, CheckInterrupt, QueryOffline, QuerySkipped,
             MonitorReport, DropJob, EndRound
    <2>4. /\ monitorList \in Seq(Jobs) /\ monitoring \in BOOLEAN
          /\ isCanceled \in [Jobs -> BOOLEAN] /\ isInterrupt \in [Jobs -> BOOLEAN]
          /\ firstQuery \in [Jobs -> BOOLEAN]
      BY <1>0 DEF MonitorTypes
    <2>5. monitorList' \in Seq(Jobs)
      BY <2>1, <2>4, RemoveFirstFacts
    <2> QED
      BY <2>2, <2>3, <2>4, <2>5
  <1>9. MonitorTypes'
    BY <1>7, <1>8 DEF MonitorTypes
  <1> QED
    BY <1>4, <1>5, <1>6, <1>9 DEF Typed, TypeOK, ServiceTypes, SenderTypes, CupsTypes, MonitorTypes

LEMMA TypeStep == Typed /\ [Next]_vars => Typed'
  <1> SUFFICES ASSUME Typed, [Next]_vars
               PROVE  Typed'
    OBVIOUS
  <1>1. ASSUME NEW j \in Jobs, StartJob(j) \/ CancelJob(j) \/ BlockJob(j)
        PROVE  Typed'
    BY <1>1, CallStep
  <1>2. CASE ApiStep
    BY <1>2, ApiStepTypes
  <1>3. ASSUME NEW j \in Jobs, SenderStep(j)
        PROVE  Typed'
    BY <1>3, SenderStepTypes
  <1>4. CASE MonitorStep
    BY <1>4, MonitorStepTypes
  <1>5. ASSUME NEW j \in Jobs, CupsStep(j)
        PROVE  Typed'
    <2>1. ServiceTypes /\ SenderTypes /\ CupsTypes /\ MonitorTypes
      BY TypesOfAll
    <2>2. ServiceTypes' /\ SenderTypes' /\ MonitorTypes'
      BY <1>5, <2>1, UnchangedTypes DEF CupsStep
    <2>3. CupsTypes'
      BY <1>5, <2>1 DEF CupsStep, CupsTypes
    <2> QED
      BY <2>2, <2>3 DEF Typed, TypeOK, ServiceTypes, SenderTypes, CupsTypes, MonitorTypes
  <1>6. CASE UNCHANGED vars
    BY <1>6, TypesOfAll, UnchangedTypes
       DEF vars, Typed, TypeOK, ServiceTypes, SenderTypes, CupsTypes, MonitorTypes
  <1> QED
    BY <1>1, <1>2, <1>3, <1>4, <1>5, <1>6 DEF Next

LEMMA TypeInit == Init => Typed
  <1> SUFFICES ASSUME Init
               PROVE  Typed
    OBVIOUS
  <1>1. ServiceTypes
    BY MaxCallsAssumption DEF Init, ServiceTypes, ServiceStates, Idle, ApiSteps
  <1>2. SenderTypes
    BY EmptyListFacts DEF Init, SenderTypes, SenderStates, Outcomes
  <1>3. CupsTypes
    BY DEF Init, CupsTypes, CupsStates
  <1>4. MonitorTypes
    BY EmptyListFacts DEF Init, MonitorTypes, NoMonitor, MonitorThread, MonitorSteps, Live, WatchesOne
  <1> QED
    BY <1>1, <1>2, <1>3, <1>4, TypesOfAll

\* Every variable of CupsJobs has its type, however many jobs there are.
THEOREM TypeCorrect == Spec => []TypeOK
  <1>1. Typed => TypeOK
    BY DEF Typed
  <1> QED
    BY <1>1, TypeInit, TypeStep, PTL DEF Spec

-----------------------------------------------------------------------------
(* Safety: an inductive invariant.  The properties are not inductive one by  *)
(* one: that a job is in one place rests on where new and watched jobs are,  *)
(* and that none is lost on when its outcome is written.                     *)

\* The phases after JobSentCallback has been reached.
Past == {"sent", "next", "stale", "done"}

\* A job the service does not know is unknown to the client.
NewIsNowhere == \A j \in Jobs : svc[j] = "new" => sender[j] = "none" /\ j \notin ToSet(jobQueue)

\* When sending has ended, how it ended is known.
SentIsDisposed == \A j \in Jobs : sender[j] \in Past => outcome[j] # "none"

\* A job handed to the monitor is on its list until its outcome is known.
MonitoredIsListed == \A j \in Jobs : outcome[j] = "monitored" => j \in ToSet(monitorList)
DroppedIsDisposed == mon.step = "drop" => outcome[Watched] \in {"reported", "silent"}

PlacesInv == /\ OnePlace
             /\ NewIsNowhere
             /\ WatchedIsListed
             /\ IsInjective(mon.todo)

\* A job nobody has disposed of waits in the queue or is being sent.
WaitingOrSent ==
    \A j \in Jobs : svc[j] \in Live /\ outcome[j] = "none" => j \in ToSet(jobQueue) \/ currentJob = j

OutcomesInv == SentIsDisposed /\ MonitoredIsListed /\ DroppedIsDisposed /\ WaitingOrSent

IInv == Typed /\ OneSender /\ QueueIsServed /\ MonitorServes /\ PlacesInv /\ OutcomesInv

\* Which variables the actions of each actor leave alone.
LEMMA Footprints ==
    /\ \A j \in Jobs : StartJob(j) \/ CancelJob(j) \/ BlockJob(j) =>
          UNCHANGED <<currentJob, sender, stale, cups>> /\ UNCHANGED monitorVars
    /\ ApiStartNext => UNCHANGED <<outcome, stale, cups>> /\ UNCHANGED monitorVars
    /\ ApiCancelMonitor \/ ApiBlockMonitor \/ ApiBlockCups \/ ApiBlockFlag =>
          UNCHANGED senderVars /\ UNCHANGED <<monitorList, monitoring, mon>>
    /\ \A j \in Jobs : SenderStep(j) => UNCHANGED <<calls, api>>
    /\ MonitorStep => UNCHANGED <<calls, api, jobQueue, currentJob, sendCancel, sender, stale>>
    /\ \A j \in Jobs : CupsStep(j) =>
          UNCHANGED <<svc, calls, api>> /\ UNCHANGED senderVars /\ UNCHANGED monitorVars
  <1>1. ASSUME NEW j \in Jobs, StartJob(j) \/ CancelJob(j) \/ BlockJob(j)
        PROVE  UNCHANGED <<currentJob, sender, stale, cups>> /\ UNCHANGED monitorVars
    BY <1>1 DEF StartJob, CancelJob, BlockJob
  <1>2. ASSUME ApiStartNext
        PROVE  UNCHANGED <<outcome, stale, cups>> /\ UNCHANGED monitorVars
    BY <1>2 DEF ApiStartNext
  <1>3. ASSUME ApiCancelMonitor \/ ApiBlockMonitor \/ ApiBlockCups \/ ApiBlockFlag
        PROVE  UNCHANGED senderVars /\ UNCHANGED <<monitorList, monitoring, mon>>
    BY <1>3 DEF ApiCancelMonitor, ApiBlockMonitor, ApiBlockCups, ApiBlockFlag, monitorVars
  <1>4. ASSUME NEW j \in Jobs, SenderStep(j)
        PROVE  UNCHANGED <<calls, api>>
    BY <1>4 DEF SenderStep, Verify, TestCanceled, HandleFiles, Register, JobSent,
                SenderStartNext, ReportLast
  <1>5. ASSUME MonitorStep
        PROVE  UNCHANGED <<calls, api, jobQueue, currentJob, sendCancel, sender, stale>>
    BY <1>5 DEF MonitorStep, BeginRound, CheckCanceled, CheckInterrupt, QueryOffline, QuerySkipped,
                QueryAnswered, MonitorReport, DropJob, EndRound, senderVars
  <1>6. ASSUME NEW j \in Jobs, CupsStep(j)
        PROVE  UNCHANGED <<svc, calls, api>> /\ UNCHANGED senderVars /\ UNCHANGED monitorVars
    BY <1>6 DEF CupsStep
  <1> QED
    BY <1>1, <1>2, <1>3, <1>4, <1>5, <1>6

LEMMA OneSenderStep == Typed /\ OneSender /\ [Next]_vars => OneSender'
  <1> SUFFICES ASSUME Typed, OneSender, [Next]_vars
               PROVE  OneSender'
    OBVIOUS
  <1>0. /\ SenderTypes
        /\ sender \in [Jobs -> SenderStates]
        /\ NoJob \notin Jobs
    BY TypesOfAll, JobsAssumption DEF SenderTypes
  <1>1. CASE UNCHANGED <<currentJob, sender>>
    BY <1>1 DEF OneSender
  <1>2. CASE ApiStartNext
    <2>1. CASE TakeNextJob /\ sender' = [sender EXCEPT ![Head(jobQueue)] = "verify"]
      <3>1. Head(jobQueue) \in Jobs
        BY <1>0, <2>1, TakeNextJobTypes
      <3>2. currentJob = NoJob /\ currentJob' = Head(jobQueue)
        BY <2>1 DEF TakeNextJob
      <3> QED
        BY <1>0, <2>1, <3>1, <3>2 DEF OneSender, Sending
    <2> QED
      BY <1>1, <1>2, <2>1 DEF ApiStartNext
  <1>3. ASSUME NEW j \in Jobs, SenderStep(j)
        PROVE  OneSender'
    <2> USE DEF EndsReported, EndsSilent, GoesOn, SenderGoes
    <2>1. CASE Verify(j) \/ TestCanceled(j) \/ HandleFiles(j) \/ Register(j)
      <3>1. /\ sender[j] \in {"verify", "test", "send", "register"}
            /\ \E p \in {"test", "send", "register", "sent"} : sender' = [sender EXCEPT ![j] = p]
            /\ currentJob' = currentJob
        BY <2>1 DEF Verify, TestCanceled, HandleFiles, Register
      <3> QED
        BY <1>0, <3>1 DEF OneSender, Sending
    <2>2. CASE JobSent(j)
      <3>1. sender[j] = "sent" /\ currentJob' = NoJob /\ sender' = [sender EXCEPT ![j] = "next"]
        BY <2>2 DEF JobSent
      <3>2. currentJob = j
        BY <3>1 DEF OneSender, Sending
      <3> QED
        BY <1>0, <3>1, <3>2 DEF OneSender, Sending
    <2>3. CASE SenderStartNext(j)
      <3>1. sender[j] = "next"
        BY <2>3 DEF SenderStartNext
      <3>2. CASE \E p \in {"done", "stale"} :
                    sender' = [sender EXCEPT ![j] = p] /\ UNCHANGED currentJob
        BY <1>0, <3>1, <3>2 DEF OneSender, Sending
      <3>3. CASE TakeNextJob /\ sender' = [sender EXCEPT ![j] = "done", ![Head(jobQueue)] = "verify"]
        <4>1. Head(jobQueue) \in Jobs
          BY <1>0, <3>3, TakeNextJobTypes
        <4>2. currentJob = NoJob /\ currentJob' = Head(jobQueue)
          BY <3>3 DEF TakeNextJob
        <4> QED
          BY <1>0, <3>1, <3>3, <4>1, <4>2 DEF OneSender, Sending
      <3> QED
        BY <2>3, <3>2, <3>3 DEF SenderStartNext
    <2>4. CASE ReportLast(j)
      <3>1. sender[j] = "stale" /\ currentJob' = currentJob /\ sender' = [sender EXCEPT ![j] = "done"]
        BY <2>4 DEF ReportLast
      <3> QED
        BY <1>0, <3>1 DEF OneSender, Sending
    <2> QED
      BY <1>3, <2>1, <2>2, <2>3, <2>4 DEF SenderStep
  <1> QED
    BY <1>1, <1>2, <1>3, Footprints DEF Next, ApiStep, senderVars, vars

LEMMA MonitorServesStep == Typed /\ MonitorServes /\ [Next]_vars => MonitorServes'
  <1> SUFFICES ASSUME Typed, MonitorServes, [Next]_vars
               PROVE  MonitorServes'
    OBVIOUS
  <1>0. mon \in MonitorThread /\ monitoring \in BOOLEAN /\ mon.step \in MonitorSteps
    BY TypesOfAll DEF MonitorTypes, MonitorThread
  <1>1. CASE UNCHANGED <<monitorList, monitoring, mon>>
    BY <1>1 DEF MonitorServes
  <1>2. ASSUME NEW j \in Jobs, SenderStep(j)
        PROVE  MonitorServes'
    <2>1. \/ UNCHANGED <<monitorList, monitoring, mon>>
          \/ /\ monitoring' = TRUE
             /\ mon' = IF monitoring THEN mon ELSE [mon EXCEPT !.step = "round"]
      BY <1>2 DEF SenderStep, Verify, TestCanceled, HandleFiles, Register, JobSent,
                  SenderStartNext, ReportLast, monitorVars
    <2>2. CASE /\ monitoring' = TRUE
               /\ mon' = IF monitoring THEN mon ELSE [mon EXCEPT !.step = "round"]
      BY <1>0, <2>2 DEF MonitorServes, MonitorThread
    <2> QED
      BY <1>1, <2>1, <2>2
  <1>3. CASE MonitorStep
    <2> USE DEF QueryAnswered, AnswerPending, AnswerProcessing, AnswerStopped, AnswerEnded,
                AnswerAborted
    <2>1. CASE EndRound
      BY <1>0, <2>1 DEF EndRound, MonitorServes, MonitorThread
    <2>2. ASSUME ~EndRound
          PROVE  mon.step # "off" /\ mon'.step # "off" /\ UNCHANGED monitoring
      <3>1. mon.step # "off" /\ UNCHANGED monitoring
        BY <1>3, <2>2 DEF MonitorStep, BeginRound, CheckCanceled, CheckInterrupt, QueryOffline,
                          QuerySkipped, MonitorReport, DropJob
      <3>2. \/ \E s \in MonitorSteps \ {"off"} : mon' = [mon EXCEPT !.step = s]
            \/ BeginRound
            \/ NextWatched
            \/ WillDrop
            \/ \E s \in Live \cup {"COMPLETED"}, k \in BOOLEAN : WillReport(s, k)
        BY <1>3, <2>2 DEF MonitorStep, CheckCanceled, CheckInterrupt, QueryOffline,
                          QuerySkipped, MonitorReport, DropJob, MonitorSteps, Live
      <3>3. mon'.step # "off"
        BY <1>0, <3>2 DEF BeginRound, NextWatched, WillDrop, WillReport, NoMonitor, MonitorThread
      <3> QED
        BY <3>1, <3>3
    <2> QED
      BY <2>1, <2>2 DEF MonitorServes
  <1> QED
    BY <1>1, <1>2, <1>3, Footprints DEF Next, ApiStep, monitorVars, vars

LEMMA QueueIsServedStep == Typed /\ QueueIsServed /\ [Next]_vars => QueueIsServed'
  <1> SUFFICES ASSUME Typed, QueueIsServed, [Next]_vars
               PROVE  QueueIsServed'
    OBVIOUS
  <1>0. /\ SenderTypes /\ NoJob \notin Jobs /\ sender \in [Jobs -> SenderStates]
        /\ api \in [step : ApiSteps, job : Jobs \cup {NoJob}]
    BY TypesOfAll, JobsAssumption DEF SenderTypes, ServiceTypes
  <1>1. CASE UNCHANGED <<jobQueue, currentJob, sender, api>>
    BY <1>1 DEF QueueIsServed
  <1>2. ASSUME NEW j \in Jobs, StartJob(j) \/ CancelJob(j) \/ BlockJob(j)
        PROVE  QueueIsServed'
    <2>1. UNCHANGED <<currentJob, sender>> /\ api = Idle
      BY <1>2, Footprints DEF StartJob, CancelJob, BlockJob, NoApiCall
    <2>2. jobQueue' # <<>> => jobQueue # <<>> \/ api'.step = "startNext"
      <3>1. \/ jobQueue' = jobQueue
            \/ api' = [step |-> "startNext", job |-> j]
            \/ j \in ToSet(jobQueue)
        BY <1>2 DEF StartJob, CancelJob, BlockJob
      <3>2. j \in ToSet(jobQueue) => jobQueue # <<>>
        BY EmptyListFacts
      <3> QED
        BY <3>1, <3>2
    <2>3. api.step # "startNext"
      BY <2>1 DEF Idle
    <2> QED
      BY <2>1, <2>2, <2>3 DEF QueueIsServed
  <1>3. CASE ApiStep
    <2>1. CASE ApiStartNext
      <3>1. CASE jobQueue = <<>> /\ jobQueue' = jobQueue
        BY <3>1 DEF QueueIsServed
      <3>2. CASE TakeNextJob
        BY <1>0, <3>2, TakeNextJobTypes DEF QueueIsServed
      <3>3. CASE currentJob # NoJob /\ currentJob' = currentJob
        BY <3>3 DEF QueueIsServed
      <3> QED
        BY <2>1, <3>1, <3>2, <3>3 DEF ApiStartNext, QueueIsEmpty, SenderIsBusy
    <2>2. CASE ApiCancelMonitor \/ ApiBlockMonitor \/ ApiBlockCups \/ ApiBlockFlag
      <3>1. UNCHANGED <<jobQueue, currentJob, sender>>
        BY <2>2, Footprints DEF senderVars
      <3>2. api.step # "startNext"
        BY <2>2 DEF ApiCancelMonitor, ApiBlockMonitor, ApiBlockCups, ApiBlockFlag
      <3> QED
        BY <3>1, <3>2 DEF QueueIsServed
    <2> QED
      BY <1>3, <2>1, <2>2 DEF ApiStep
  <1>4. ASSUME NEW j \in Jobs, SenderStep(j)
        PROVE  QueueIsServed'
    <2> USE DEF EndsReported, EndsSilent, GoesOn, SenderGoes
    <2>0. UNCHANGED api
      BY <1>4, Footprints
    <2>1. CASE Verify(j) \/ TestCanceled(j) \/ HandleFiles(j) \/ Register(j) \/ ReportLast(j)
      <3>1. /\ sender[j] # "next"
            /\ \E p \in SenderStates : sender' = [sender EXCEPT ![j] = p]
            /\ UNCHANGED <<jobQueue, currentJob>>
        BY <2>1 DEF Verify, TestCanceled, HandleFiles, Register, ReportLast, SenderStates, Sending
      <3> QED
        BY <1>0, <2>0, <3>1 DEF QueueIsServed
    <2>2. CASE JobSent(j)
      BY <1>0, <2>2 DEF JobSent, QueueIsServed
    <2>3. CASE SenderStartNext(j)
      <3>1. CASE jobQueue = <<>> /\ jobQueue' = jobQueue
        BY <3>1 DEF QueueIsServed
      <3>2. CASE TakeNextJob
        BY <1>0, <3>2, TakeNextJobTypes DEF QueueIsServed
      <3>3. CASE currentJob # NoJob /\ currentJob' = currentJob
        BY <3>3 DEF QueueIsServed
      <3> QED
        BY <2>3, <3>1, <3>2, <3>3 DEF SenderStartNext, QueueIsEmpty, SenderIsBusy
    <2> QED
      BY <1>4, <2>1, <2>2, <2>3 DEF SenderStep
  <1> QED
    BY <1>1, <1>2, <1>3, <1>4, Footprints DEF Next, senderVars, vars

-----------------------------------------------------------------------------
(* Places *)

\* What a report does to the states of the jobs: no job becomes new, or known.
LEMMA ReportKeepsNew ==
    ASSUME svc \in [Jobs -> ServiceStates], NEW i, NEW state \in ServiceStates \ {"new"},
           Report(i, state), NEW j \in Jobs
    PROVE  svc'[j] = "new" <=> svc[j] = "new"
  BY DEF Report, Live

\* The queue's part of OnePlace, and the list's part.
QueuePlaces == /\ IsInjective(jobQueue)
               /\ \A j \in ToSet(jobQueue) :
                     sender[j] = "none" /\ currentJob # j /\ j \notin ToSet(monitorList)
ListPlaces == /\ IsInjective(monitorList)
              /\ \A j \in ToSet(monitorList) : sender[j] \in Past

LEMMA PlacesOfAll == OnePlace <=> QueuePlaces /\ ListPlaces
  BY DEF OnePlace, QueuePlaces, ListPlaces, Past

LEMMA MembersAreJobs ==
    ASSUME Typed
    PROVE  ToSet(jobQueue) \subseteq Jobs /\ ToSet(monitorList) \subseteq Jobs
  BY TypesOfAll DEF SenderTypes, MonitorTypes, ToSet

LEMMA CallPlaces ==
    ASSUME Typed, OneSender, PlacesInv,
           NEW j \in Jobs, StartJob(j) \/ CancelJob(j) \/ BlockJob(j)
    PROVE  PlacesInv'
  <1>0. /\ jobQueue \in Seq(Jobs) /\ svc \in [Jobs -> ServiceStates]
        /\ QueuePlaces /\ ListPlaces /\ NewIsNowhere /\ WatchedIsListed /\ IsInjective(mon.todo)
    BY TypesOfAll, PlacesOfAll DEF SenderTypes, ServiceTypes, PlacesInv
  <1>1. UNCHANGED <<currentJob, sender, monitorList, mon>>
    BY Footprints DEF monitorVars
  <1>2. ListPlaces' /\ WatchedIsListed' /\ IsInjective(mon.todo)'
    BY <1>0, <1>1 DEF ListPlaces, WatchedIsListed
  <1>3. CASE StartJob(j)
    <2>1. /\ svc[j] = "new" /\ svc' = [svc EXCEPT ![j] = "QUEUED"]
          /\ jobQueue' = jobQueue \/ jobQueue' = Append(jobQueue, j)
      BY <1>3 DEF StartJob
    <2>2. sender[j] = "none" /\ j \notin ToSet(jobQueue) /\ currentJob # j /\ j \notin ToSet(monitorList)
      BY <1>0, <2>1 DEF NewIsNowhere, OneSender, Sending, ListPlaces, Past
    <2>3. ToSet(jobQueue') \subseteq ToSet(jobQueue) \cup {j} /\ IsInjective(jobQueue')
      <3>1. IsInjective(jobQueue)
        BY <1>0 DEF QueuePlaces
      <3>2. /\ ToSet(Append(jobQueue, j)) = ToSet(jobQueue) \cup {j}
            /\ IsInjective(Append(jobQueue, j))
        BY <1>0, <2>2, <3>1, AppendFacts
      <3> QED
        BY <2>1, <3>1, <3>2
    <2>4. QueuePlaces'
      BY <1>0, <1>1, <2>2, <2>3 DEF QueuePlaces
    <2>5. NewIsNowhere'
      BY <1>0, <1>1, <2>1, <2>3 DEF NewIsNowhere
    <2> QED
      BY <1>2, <2>4, <2>5, PlacesOfAll DEF PlacesInv, OnePlace, QueuePlaces, ListPlaces, Past
  <1>4. CASE CancelJob(j) \/ BlockJob(j)
    <2>1. /\ jobQueue' = jobQueue \/ jobQueue' = RemoveFirst(jobQueue, j)
          /\ UNCHANGED svc \/ Report(j, "COMPLETED") \/ Report(j, "BLOCKED")
      BY <1>4 DEF CancelJob, BlockJob
    <2>2. ToSet(jobQueue') \subseteq ToSet(jobQueue) /\ IsInjective(jobQueue')
      BY <1>0, <2>1, RemoveFirstFacts DEF QueuePlaces
    <2>3. QueuePlaces'
      BY <1>0, <1>1, <2>2 DEF QueuePlaces
    <2>4. "COMPLETED" \in ServiceStates \ {"new"} /\ "BLOCKED" \in ServiceStates \ {"new"}
      BY DEF ServiceStates, Live
    <2>5. \A k \in Jobs : svc'[k] = "new" <=> svc[k] = "new"
      BY <1>0, <2>1, <2>4, ReportKeepsNew
    <2>6. NewIsNowhere'
      BY <1>0, <1>1, <2>2, <2>5 DEF NewIsNowhere
    <2> QED
      BY <1>2, <2>3, <2>6, PlacesOfAll DEF PlacesInv, OnePlace, QueuePlaces, ListPlaces, Past
  <1> QED
    BY <1>3, <1>4

\* Taking the head of the queue moves it to the sender that starts with it.
LEMMA TakePlaces ==
    ASSUME Typed, OneSender, PlacesInv, TakeNextJob, NEW s \in [Jobs -> SenderStates],
           \A k \in Jobs : sender[k] # s[k] => sender[k] \in Past,
           \A k \in Jobs : sender[k] \in Past => s[k] \in Past,
           sender' = [s EXCEPT ![Head(jobQueue)] = "verify"],
           UNCHANGED <<svc, monitorList, mon>>
    PROVE  PlacesInv'
  <1> DEFINE h == Head(jobQueue)
  <1>0. /\ jobQueue \in Seq(Jobs) /\ jobQueue # <<>> /\ jobQueue' = Tail(jobQueue)
        /\ currentJob' = h
        /\ QueuePlaces /\ ListPlaces /\ NewIsNowhere /\ WatchedIsListed /\ IsInjective(mon.todo)
        /\ ToSet(jobQueue) \subseteq Jobs /\ ToSet(monitorList) \subseteq Jobs
    BY TypesOfAll, PlacesOfAll, MembersAreJobs DEF SenderTypes, PlacesInv, TakeNextJob
  <1>1. /\ h \in Jobs /\ h \in ToSet(jobQueue)
        /\ ToSet(jobQueue') \subseteq ToSet(jobQueue) /\ h \notin ToSet(jobQueue')
        /\ IsInjective(jobQueue')
    BY <1>0, HeadTailFacts DEF QueuePlaces
  <1>2. sender[h] = "none" /\ h \notin ToSet(monitorList)
    BY <1>0, <1>1 DEF QueuePlaces
  <1>3. svc[h] # "new"
    BY <1>0, <1>1 DEF NewIsNowhere
  <1>4. \A k \in Jobs : sender'[k] = IF k = h THEN "verify" ELSE s[k]
    OBVIOUS
  <1>5. QueuePlaces'
    BY <1>0, <1>1, <1>4 DEF QueuePlaces, Past
  <1>6. ListPlaces'
    BY <1>0, <1>2, <1>4 DEF ListPlaces
  <1>7. NewIsNowhere'
    BY <1>0, <1>1, <1>3, <1>4 DEF NewIsNowhere, Past
  <1>8. WatchedIsListed' /\ IsInjective(mon.todo)'
    BY <1>0 DEF WatchedIsListed
  <1> QED
    BY <1>5, <1>6, <1>7, <1>8 DEF PlacesInv, OnePlace, QueuePlaces, ListPlaces, Past

LEMMA ApiPlaces ==
    ASSUME Typed, OneSender, PlacesInv, ApiStep
    PROVE  PlacesInv'
  <1>0. /\ QueuePlaces /\ ListPlaces /\ NewIsNowhere /\ WatchedIsListed /\ IsInjective(mon.todo)
        /\ svc \in [Jobs -> ServiceStates] /\ sender \in [Jobs -> SenderStates]
    BY TypesOfAll, PlacesOfAll DEF SenderTypes, ServiceTypes, PlacesInv
  <1>1. UNCHANGED <<monitorList, mon>>
    BY Footprints DEF ApiStep, monitorVars
  <1>2. CASE ApiStartNext /\ TakeNextJob
    <2>1. sender' = [sender EXCEPT ![Head(jobQueue)] = "verify"] /\ UNCHANGED svc
      BY <1>2 DEF ApiStartNext, TakeNextJob, QueueIsEmpty, SenderIsBusy
    <2> QED
      BY <1>0, <1>1, <1>2, <2>1, TakePlaces
  <1>3. CASE ~(ApiStartNext /\ TakeNextJob)
    <2>1. UNCHANGED <<jobQueue, currentJob, sender>>
      BY <1>3, Footprints DEF ApiStep, ApiStartNext, senderVars
    <2>2. UNCHANGED svc \/ Report(LastInQueue, "QUEUED") \/ Report(api.job, "COMPLETED")
      BY DEF ApiStep, ApiStartNext, ApiCancelMonitor, ApiBlockMonitor, ApiBlockCups, ApiBlockFlag
    <2>3. "COMPLETED" \in ServiceStates \ {"new"} /\ "QUEUED" \in ServiceStates \ {"new"}
      BY DEF ServiceStates, Live
    <2>4. \A k \in Jobs : svc'[k] = "new" <=> svc[k] = "new"
      BY <1>0, <2>2, <2>3, ReportKeepsNew
    <2> QED
      BY <1>0, <1>1, <2>1, <2>4
         DEF PlacesInv, OnePlace, QueuePlaces, ListPlaces, Past, NewIsNowhere, WatchedIsListed
  <1> QED
    BY <1>2, <1>3

LEMMA SenderPlaces ==
    ASSUME Typed, OneSender, PlacesInv, NEW j \in Jobs, SenderStep(j)
    PROVE  PlacesInv'
  <1>0. /\ QueuePlaces /\ ListPlaces /\ NewIsNowhere /\ WatchedIsListed /\ IsInjective(mon.todo)
        /\ svc \in [Jobs -> ServiceStates] /\ sender \in [Jobs -> SenderStates]
        /\ ToSet(jobQueue) \subseteq Jobs /\ ToSet(monitorList) \subseteq Jobs
        /\ monitorList \in Seq(Jobs)
    BY TypesOfAll, PlacesOfAll, MembersAreJobs DEF SenderTypes, ServiceTypes, MonitorTypes, PlacesInv
  <1> USE DEF EndsReported, EndsSilent, GoesOn, SenderGoes
  <1>1. \A k \in Jobs : svc'[k] = "new" <=> svc[k] = "new"
    <2>1. UNCHANGED svc \/ Report(j, "BLOCKED") \/ Report(stale[j], "QUEUED")
      BY DEF SenderStep, Verify, TestCanceled, HandleFiles, Register, JobSent, SenderStartNext,
             ReportLast
    <2>2. "BLOCKED" \in ServiceStates \ {"new"} /\ "QUEUED" \in ServiceStates \ {"new"}
      BY DEF ServiceStates, Live
    <2> QED
      BY <1>0, <2>1, <2>2, ReportKeepsNew
  <1>2. CASE SenderStartNext(j) /\ TakeNextJob
    <2> DEFINE s == [sender EXCEPT ![j] = "done"]
    <2>1. /\ sender[j] = "next" /\ sender' = [s EXCEPT ![Head(jobQueue)] = "verify"]
          /\ UNCHANGED <<svc, monitorList, mon>>
      BY <1>2 DEF SenderStartNext, TakeNextJob, QueueIsEmpty, SenderIsBusy, monitorVars
    <2>2. s \in [Jobs -> SenderStates]
      BY <1>0 DEF SenderStates
    <2>3. \A k \in Jobs : sender[k] # s[k] => sender[k] \in Past
      BY <1>0, <2>1 DEF Past
    <2>4. \A k \in Jobs : sender[k] \in Past => s[k] \in Past
      BY <1>0, <2>1 DEF Past
    <2> HIDE DEF s
    <2> QED
      BY <1>2, <2>1, <2>2, <2>3, <2>4, TakePlaces
  <1>3. CASE Register(j) /\ monitorList' = Append(monitorList, j)
    <2>1. /\ sender[j] = "register" /\ sender' = [sender EXCEPT ![j] = "sent"]
          /\ UNCHANGED <<jobQueue, currentJob>>
          /\ mon' = IF monitoring THEN mon ELSE [mon EXCEPT !.step = "round"]
      BY <1>3 DEF Register
    <2>2. j \notin ToSet(monitorList) /\ j \notin ToSet(jobQueue)
      BY <1>0, <2>1 DEF ListPlaces, QueuePlaces, Past
    <2>3. ToSet(monitorList') = ToSet(monitorList) \cup {j} /\ IsInjective(monitorList')
      BY <1>0, <1>3, <2>2, AppendFacts DEF ListPlaces
    <2>4. \A k \in Jobs : sender'[k] = IF k = j THEN "sent" ELSE sender[k]
      BY <1>0, <2>1
    <2>5. QueuePlaces'
      BY <1>0, <2>1, <2>2, <2>3, <2>4 DEF QueuePlaces
    <2>6. ListPlaces'
      BY <1>0, <2>3, <2>4 DEF ListPlaces, Past
    <2>7. NewIsNowhere'
      BY <1>0, <1>1, <2>1, <2>4 DEF NewIsNowhere
    <2>8. mon'.todo = mon.todo /\ mon'.step \in {mon.step, "round"}
      <3>1. mon \in MonitorThread
        BY TypesOfAll DEF MonitorTypes
      <3> QED
        BY <2>1, <3>1 DEF MonitorThread
    <2>9. WatchedIsListed' /\ IsInjective(mon.todo)'
      BY <1>0, <2>3, <2>8 DEF WatchedIsListed
    <2> QED
      BY <2>5, <2>6, <2>7, <2>9 DEF PlacesInv, OnePlace, QueuePlaces, ListPlaces, Past
  <1>4. CASE /\ ~(SenderStartNext(j) /\ TakeNextJob)
             /\ ~(Register(j) /\ monitorList' = Append(monitorList, j))
    <2>1. UNCHANGED <<jobQueue, monitorList, mon>>
      BY <1>4 DEF SenderStep, Verify, TestCanceled, HandleFiles, Register, JobSent, SenderStartNext,
                  ReportLast, monitorVars
    <2>2. currentJob' \in {currentJob, NoJob}
      BY <1>4 DEF SenderStep, Verify, TestCanceled, HandleFiles, Register, JobSent, SenderStartNext,
                  ReportLast
    <2>3. /\ sender[j] # "none" /\ sender'[j] # "none"
          /\ sender[j] \in Past => sender'[j] \in Past
          /\ \A k \in Jobs : k # j => sender'[k] = sender[k]
      <3>1. /\ sender[j] # "none"
            /\ \E p \in SenderStates \ {"none"} :
                  /\ sender' = [sender EXCEPT ![j] = p]
                  /\ sender[j] \in Past => p \in Past
        BY <1>4 DEF SenderStep, Verify, TestCanceled, HandleFiles, Register, JobSent,
                    SenderStartNext, ReportLast, SenderStates, Sending, Past
      <3> QED
        BY <1>0, <3>1
    <2>4. QueuePlaces'
      BY <1>0, <2>1, <2>2, <2>3, JobsAssumption DEF QueuePlaces
    <2>5. ListPlaces'
      BY <1>0, <2>1, <2>3 DEF ListPlaces
    <2>6. NewIsNowhere'
      BY <1>0, <1>1, <2>1, <2>3 DEF NewIsNowhere
    <2>7. WatchedIsListed' /\ IsInjective(mon.todo)'
      BY <1>0, <2>1 DEF WatchedIsListed
    <2> QED
      BY <2>4, <2>5, <2>6, <2>7 DEF PlacesInv, OnePlace, QueuePlaces, ListPlaces, Past
  <1> QED
    BY <1>2, <1>3, <1>4

LEMMA MonitorPlaces ==
    ASSUME Typed, OneSender, PlacesInv, MonitorStep
    PROVE  PlacesInv'
  <1>0. /\ QueuePlaces /\ ListPlaces /\ NewIsNowhere /\ WatchedIsListed /\ IsInjective(mon.todo)
        /\ svc \in [Jobs -> ServiceStates] /\ monitorList \in Seq(Jobs)
        /\ mon \in MonitorThread /\ mon.todo \in Seq(Jobs) /\ mon.report \in ServiceStates \ {"new"}
    BY TypesOfAll, PlacesOfAll
       DEF SenderTypes, ServiceTypes, MonitorTypes, PlacesInv, MonitorThread, ServiceStates, Live
  <1>1. UNCHANGED <<jobQueue, currentJob, sender>>
    BY Footprints
  <1> USE DEF QueryAnswered, AnswerPending, AnswerProcessing, AnswerStopped, AnswerEnded, AnswerAborted
  <1>2. NewIsNowhere'
    <2>1. UNCHANGED svc \/ Report(Watched, mon.report)
      BY DEF MonitorStep, BeginRound, CheckCanceled, CheckInterrupt, QueryOffline, QuerySkipped,
             MonitorReport, DropJob, EndRound
    <2>2. \A k \in Jobs : svc'[k] = "new" <=> svc[k] = "new"
      BY <1>0, <2>1, ReportKeepsNew
    <2> QED
      BY <1>0, <1>1, <2>2 DEF NewIsNowhere
  <1>3. CASE DropJob
    <2>1. /\ mon.step = "drop" /\ monitorList' = RemoveFirst(monitorList, Watched) /\ NextWatched
          /\ mon.todo # <<>> /\ ToSet(mon.todo) \subseteq ToSet(monitorList)
      BY <1>0, <1>3 DEF DropJob, WatchedIsListed
    <2>2. /\ ToSet(monitorList) \subseteq ToSet(monitorList') \cup {Watched}
          /\ ToSet(monitorList') \subseteq ToSet(monitorList)
          /\ IsInjective(monitorList')
      BY <1>0, <2>1, RemoveFirstFacts DEF ListPlaces
    <2>3. QueuePlaces' /\ ListPlaces'
      BY <1>0, <1>1, <2>2 DEF QueuePlaces, ListPlaces
    <2> DEFINE todo == mon.todo
    <2>4. /\ ToSet(todo) = ToSet(Tail(todo)) \cup {Head(todo)}
          /\ Head(todo) \notin ToSet(Tail(todo)) /\ IsInjective(Tail(todo))
          /\ Len(todo) # 1 => Tail(todo) # <<>>
      <3>1. todo \in Seq(Jobs) /\ todo # <<>> /\ IsInjective(todo)
        BY <1>0, <2>1
      <3> HIDE DEF todo
      <3> QED
        BY <3>1, HeadTailFacts, EmptyTailFacts
    <2>5. mon'.todo = Tail(todo) /\ mon'.step = IF Len(todo) = 1 THEN "end" ELSE "check"
      BY <2>1 DEF NextWatched, NoMonitor
    <2>6. ToSet(Tail(todo)) \subseteq ToSet(monitorList')
      BY <2>1, <2>2, <2>4 DEF Watched
    <2>7. WatchedIsListed' /\ IsInjective(mon.todo)'
      BY <2>4, <2>5, <2>6 DEF WatchedIsListed
    <2> QED
      BY <1>2, <2>3, <2>7 DEF PlacesInv, OnePlace, QueuePlaces, ListPlaces, Past
  <1>4. CASE ~DropJob
    <2>1. UNCHANGED monitorList
      BY <1>4 DEF MonitorStep, BeginRound, CheckCanceled, CheckInterrupt, QueryOffline, QuerySkipped,
                  MonitorReport, EndRound
    <2>2. QueuePlaces' /\ ListPlaces'
      BY <1>0, <1>1, <2>1 DEF QueuePlaces, ListPlaces
    <2>3. \/ BeginRound
          \/ EndRound
          \/ /\ mon.todo # <<>> /\ ToSet(mon.todo) \subseteq ToSet(monitorList)
             /\ \/ mon'.todo = mon.todo
                \/ NextWatched
      <3>1. \/ BeginRound
            \/ EndRound
            \/ /\ mon.step \in {"check", "interrupt", "query", "report"}
               /\ \/ mon' \in {[mon EXCEPT !.step = "interrupt"], [mon EXCEPT !.step = "query"]}
                  \/ \E s \in Live \cup {"COMPLETED"}, k \in BOOLEAN : WillReport(s, k)
                  \/ NextWatched
                  \/ WillDrop
        BY <1>4 DEF MonitorStep, CheckCanceled, CheckInterrupt, QueryOffline,
                    QuerySkipped, MonitorReport, Live
      <3> QED
        BY <1>0, <3>1 DEF WillReport, WillDrop, NoMonitor, MonitorThread, WatchedIsListed
    <2>4. WatchedIsListed' /\ IsInjective(mon.todo)'
      <3>1. CASE BeginRound
        BY <1>0, <2>1, <3>1 DEF BeginRound, MonitorThread, WatchedIsListed, ListPlaces
      <3>2. CASE EndRound
        BY <1>0, <3>2 DEF EndRound, MonitorThread, WatchedIsListed
      <3>3. CASE mon.todo # <<>> /\ ToSet(mon.todo) \subseteq ToSet(monitorList) /\ mon'.todo = mon.todo
        BY <1>0, <2>1, <3>3 DEF WatchedIsListed
      <3>4. CASE mon.todo # <<>> /\ ToSet(mon.todo) \subseteq ToSet(monitorList) /\ NextWatched
        <4> DEFINE todo == mon.todo
        <4>1. /\ ToSet(Tail(todo)) \subseteq ToSet(todo) /\ IsInjective(Tail(todo))
              /\ Len(todo) # 1 => Tail(todo) # <<>>
          <5>1. todo \in Seq(Jobs) /\ todo # <<>> /\ IsInjective(todo)
            BY <1>0, <3>4
          <5> HIDE DEF todo
          <5> QED
            BY <5>1, HeadTailFacts, EmptyTailFacts
        <4>2. mon'.todo = Tail(todo) /\ mon'.step = IF Len(todo) = 1 THEN "end" ELSE "check"
          BY <3>4 DEF NextWatched, NoMonitor
        <4> QED
          BY <2>1, <3>4, <4>1, <4>2 DEF WatchedIsListed
      <3> QED
        BY <2>3, <3>1, <3>2, <3>3, <3>4
    <2> QED
      BY <1>2, <2>2, <2>4 DEF PlacesInv, OnePlace, QueuePlaces, ListPlaces, Past
  <1> QED
    BY <1>3, <1>4

LEMMA PlacesStep == Typed /\ OneSender /\ PlacesInv /\ [Next]_vars => PlacesInv'
  <1> SUFFICES ASSUME Typed, OneSender, PlacesInv, [Next]_vars
               PROVE  PlacesInv'
    OBVIOUS
  <1>1. CASE UNCHANGED <<svc, senderVars, monitorVars>>
    BY <1>1 DEF PlacesInv, OnePlace, NewIsNowhere, WatchedIsListed, senderVars, monitorVars
  <1> QED
    BY <1>1, CallPlaces, ApiPlaces, SenderPlaces, MonitorPlaces, Footprints DEF Next, vars

-----------------------------------------------------------------------------
(* Outcomes *)

\* A report never makes a job live that was not.
LEMMA ReportKeepsLive ==
    ASSUME svc \in [Jobs -> ServiceStates], NEW i, NEW state, Report(i, state), NEW j \in Jobs
    PROVE  svc'[j] \in Live => svc[j] \in Live
  BY DEF Report

\* The states of the jobs only change by reports, but for the job that is started.
LEMMA LiveStep ==
    ASSUME Typed, Next, NEW k \in Jobs, ~StartJob(k)
    PROVE  svc'[k] \in Live => svc[k] \in Live
  <1>0. svc \in [Jobs -> ServiceStates]
    BY TypesOfAll DEF ServiceTypes
  <1>1. ASSUME NEW j \in Jobs, StartJob(j) \/ CancelJob(j) \/ BlockJob(j)
        PROVE  svc'[k] \in Live => svc[k] \in Live
    <2>1. \/ j # k /\ svc' = [svc EXCEPT ![j] = "QUEUED"]
          \/ UNCHANGED svc \/ Report(j, "COMPLETED") \/ Report(j, "BLOCKED")
      BY <1>1 DEF StartJob, CancelJob, BlockJob
    <2> QED
      BY <1>0, <2>1, ReportKeepsLive
  <1>2. CASE ApiStep
    <2>1. UNCHANGED svc \/ Report(LastInQueue, "QUEUED") \/ Report(api.job, "COMPLETED")
      BY <1>2 DEF ApiStep, ApiStartNext, ApiCancelMonitor, ApiBlockMonitor, ApiBlockCups, ApiBlockFlag
    <2> QED
      BY <1>0, <2>1, ReportKeepsLive
  <1>3. ASSUME NEW j \in Jobs, SenderStep(j)
        PROVE  svc'[k] \in Live => svc[k] \in Live
    <2>1. UNCHANGED svc \/ Report(j, "BLOCKED") \/ Report(stale[j], "QUEUED")
      BY <1>3 DEF SenderStep, Verify, TestCanceled, HandleFiles, Register, JobSent, SenderStartNext,
                  ReportLast, EndsReported, EndsSilent, GoesOn
    <2> QED
      BY <1>0, <2>1, ReportKeepsLive
  <1>4. CASE MonitorStep
    <2>1. UNCHANGED svc \/ Report(Watched, mon.report)
      BY <1>4 DEF MonitorStep, BeginRound, CheckCanceled, CheckInterrupt, QueryOffline, QuerySkipped,
                  MonitorReport, DropJob, EndRound, QueryAnswered
    <2> QED
      BY <1>0, <2>1, ReportKeepsLive
  <1>5. ASSUME NEW j \in Jobs, CupsStep(j)
        PROVE  svc'[k] \in Live => svc[k] \in Live
    BY <1>5 DEF CupsStep
  <1> QED
    BY <1>1, <1>2, <1>3, <1>4, <1>5 DEF Next

\* How the outcomes change: only a sender hands a job to the monitor, and only
\* the monitor gets to the step that drops a job, when it has disposed of it.
LEMMA OutcomeChanges ==
    ASSUME Typed, Next
    PROVE  /\ \A k \in Jobs :
                 /\ outcome'[k] = "none" => outcome[k] = "none"
                 /\ \/ outcome'[k] = outcome[k]
                    \/ outcome'[k] \in {"reported", "silent"}
                    \/ outcome'[k] = "monitored" /\ Register(k) /\ monitorList' = Append(monitorList, k)
           /\ mon'.step = "drop" => \/ mon' = mon
                                    \/ /\ MonitorStep
                                       /\ Watched' = Watched
                                       /\ outcome'[Watched] \in {"reported", "silent"}
  <1>0. /\ outcome \in [Jobs -> Outcomes] /\ mon \in MonitorThread
        /\ mon.step \in {"check", "interrupt", "query", "report", "drop"} => Watched \in Jobs
    <2>1. mon \in MonitorThread /\ WatchesOne /\ outcome \in [Jobs -> Outcomes]
      BY TypesOfAll DEF MonitorTypes, SenderTypes
    <2> QED
      BY <2>1, WatchedTypes DEF WatchesOne
  <1> DEFINE A == \A k \in Jobs :
                    /\ outcome'[k] = "none" => outcome[k] = "none"
                    /\ \/ outcome'[k] = outcome[k]
                       \/ outcome'[k] \in {"reported", "silent"}
                       \/ outcome'[k] = "monitored" /\ Register(k) /\ monitorList' = Append(monitorList, k)
             B == mon'.step = "drop" => \/ mon' = mon
                                        \/ /\ MonitorStep
                                           /\ Watched' = Watched
                                           /\ outcome'[Watched] \in {"reported", "silent"}
  <1>1. ASSUME NEW j \in Jobs, StartJob(j) \/ CancelJob(j) \/ BlockJob(j)
        PROVE  A /\ B
    <2>1. /\ \/ outcome' = outcome
             \/ \E o \in {"reported", "silent"} : outcome' = [outcome EXCEPT ![j] = o]
          /\ mon' = mon
      BY <1>1 DEF StartJob, CancelJob, BlockJob, monitorVars
    <2> QED
      BY <1>0, <2>1
  <1>2. CASE ApiStep
    <2>1. outcome' = outcome /\ mon' = mon
      BY <1>2, Footprints DEF ApiStep, senderVars, monitorVars
    <2> QED
      BY <2>1
  <1>3. ASSUME NEW j \in Jobs, SenderStep(j)
        PROVE  A /\ B
    <2>1. \/ outcome' = outcome
          \/ \E o \in {"reported", "silent"} : outcome' = [outcome EXCEPT ![j] = o]
          \/ /\ Register(j) /\ monitorList' = Append(monitorList, j)
             /\ outcome' = [outcome EXCEPT ![j] = "monitored"]
      BY <1>3 DEF SenderStep, Verify, TestCanceled, HandleFiles, Register, JobSent, SenderStartNext,
                  ReportLast, EndsReported, EndsSilent, GoesOn, SenderGoes
    <2>2. A
      BY <1>0, <2>1
    <2>3. mon' = mon \/ mon' = [mon EXCEPT !.step = "round"]
      BY <1>3 DEF SenderStep, Verify, TestCanceled, HandleFiles, Register, JobSent, SenderStartNext,
                  ReportLast, monitorVars
    <2>4. B
      BY <1>0, <2>3 DEF MonitorThread
    <2> QED
      BY <2>2, <2>4
  <1>4. CASE MonitorStep
    <2>1. \/ UNCHANGED outcome
          \/ \E o \in {"reported", "silent"} :
                Watched \in Jobs /\ WillDrop /\ outcome' = [outcome EXCEPT ![Watched] = o]
      BY <1>0, <1>4 DEF MonitorStep, BeginRound, CheckCanceled, CheckInterrupt, QueryOffline,
                  QuerySkipped, MonitorReport, DropJob, EndRound, QueryAnswered, AnswerPending,
                  AnswerProcessing, AnswerStopped, AnswerEnded, AnswerAborted, senderVars
    <2>2. A
      BY <1>0, <2>1
    <2>3. \/ \E o \in {"reported", "silent"} :
                Watched \in Jobs /\ WillDrop /\ outcome' = [outcome EXCEPT ![Watched] = o]
          \/ mon'.step # "drop"
      <3>1. \/ \E o \in {"reported", "silent"} :
                  Watched \in Jobs /\ WillDrop /\ outcome' = [outcome EXCEPT ![Watched] = o]
            \/ BeginRound \/ EndRound \/ NextWatched
            \/ \E s \in {"interrupt", "query"} : mon' = [mon EXCEPT !.step = s]
            \/ \E s \in Live \cup {"COMPLETED"}, b \in BOOLEAN : WillReport(s, b)
        BY <1>0, <1>4 DEF MonitorStep, CheckCanceled, CheckInterrupt, QueryOffline,
                    QuerySkipped, MonitorReport, DropJob, QueryAnswered, AnswerPending,
                    AnswerProcessing, AnswerStopped, AnswerEnded, AnswerAborted, Live
      <3>2. CASE BeginRound \/ EndRound
        BY <1>0, <3>2 DEF BeginRound, EndRound, MonitorThread
      <3>3. CASE NextWatched
        BY <3>3 DEF NextWatched, NoMonitor
      <3>4. CASE \E s \in {"interrupt", "query"} : mon' = [mon EXCEPT !.step = s]
        BY <1>0, <3>4 DEF MonitorThread
      <3>5. CASE \E s \in Live \cup {"COMPLETED"}, b \in BOOLEAN : WillReport(s, b)
        BY <1>0, <3>5 DEF MonitorThread, WillReport
      <3> QED
        BY <3>1, <3>2, <3>3, <3>4, <3>5
    <2>4. B
      <3>1. WillDrop => Watched' = Watched
        BY DEF WillDrop, NoMonitor, Watched
      <3> QED
        BY <1>0, <1>4, <2>3, <3>1
    <2> QED
      BY <2>2, <2>4
  <1>5. ASSUME NEW j \in Jobs, CupsStep(j)
        PROVE  A /\ B
    BY <1>5 DEF CupsStep, senderVars, monitorVars
  <1> QED
    BY <1>1, <1>2, <1>3, <1>4, <1>5 DEF Next

LEMMA SentIsDisposedStep ==
    ASSUME Typed, SentIsDisposed, Next
    PROVE  SentIsDisposed'
  <1> SUFFICES ASSUME NEW k \in Jobs, sender'[k] \in Past
               PROVE  outcome'[k] # "none"
    BY DEF SentIsDisposed
  <1>0. /\ sender \in [Jobs -> SenderStates] /\ outcome \in [Jobs -> Outcomes]
        /\ jobQueue \in Seq(Jobs)
    BY TypesOfAll DEF SenderTypes
  <1>1. CASE sender[k] \in Past
    BY <1>1, OutcomeChanges DEF SentIsDisposed
  <1>2. CASE sender[k] \notin Past
    <2>1. PICK j \in Jobs : SenderStep(j) \/ ApiStartNext
      BY <1>2, Footprints DEF Next, ApiStep, senderVars
    <2>2. ~ApiStartNext
      BY <1>0, <1>2, HeadTailFacts DEF ApiStartNext, TakeNextJob, Past
    <2>3. j = k
      BY <1>0, <1>2, <2>1, <2>2
         DEF SenderStep, Verify, TestCanceled, HandleFiles, Register, JobSent, SenderStartNext,
             ReportLast, EndsReported, EndsSilent, GoesOn, SenderGoes, Past
    <2>4. \E o \in {"reported", "silent", "monitored"} : outcome' = [outcome EXCEPT ![k] = o]
      BY <1>0, <1>2, <2>1, <2>2, <2>3
         DEF SenderStep, Verify, TestCanceled, HandleFiles, Register, JobSent, SenderStartNext,
             ReportLast, EndsReported, EndsSilent, GoesOn, SenderGoes, Past
    <2> QED
      BY <1>0, <2>4
  <1> QED
    BY <1>1, <1>2

LEMMA MonitoredIsListedStep ==
    ASSUME Typed, MonitoredIsListed, DroppedIsDisposed, Next
    PROVE  MonitoredIsListed'
  <1> SUFFICES ASSUME NEW k \in Jobs, outcome'[k] = "monitored"
               PROVE  k \in ToSet(monitorList')
    BY DEF MonitoredIsListed
  <1>0. monitorList \in Seq(Jobs)
    BY TypesOfAll DEF MonitorTypes
  <1>1. CASE monitorList' = Append(monitorList, k)
    BY <1>0, <1>1, AppendFacts
  <1>2. CASE outcome[k] = "monitored"
    <2>1. k \in ToSet(monitorList)
      BY <1>2 DEF MonitoredIsListed
    <2>2. \/ UNCHANGED monitorList
          \/ \E j \in Jobs : monitorList' = Append(monitorList, j)
          \/ DropJob
      <3>1. ASSUME NEW j \in Jobs, SenderStep(j)
            PROVE  UNCHANGED monitorList \/ monitorList' = Append(monitorList, j)
        BY <3>1 DEF SenderStep, Verify, TestCanceled, HandleFiles, Register, JobSent,
                    SenderStartNext, ReportLast, monitorVars
      <3>2. ASSUME MonitorStep
            PROVE  UNCHANGED monitorList \/ DropJob
        BY <3>2 DEF MonitorStep, BeginRound, CheckCanceled, CheckInterrupt, QueryOffline,
                    QuerySkipped, MonitorReport, EndRound, QueryAnswered
      <3> QED
        BY <3>1, <3>2, Footprints DEF Next, ApiStep, monitorVars
    <2>3. CASE DropJob
      <3>1. Watched # k /\ monitorList' = RemoveFirst(monitorList, Watched)
        BY <1>2, <2>3 DEF DropJob, DroppedIsDisposed
      <3> QED
        BY <1>0, <2>1, <3>1, RemoveFirstFacts
    <2>4. ASSUME NEW j \in Jobs, monitorList' = Append(monitorList, j)
          PROVE  k \in ToSet(monitorList')
      BY <1>0, <2>1, <2>4, AppendFacts
    <2> QED
      BY <2>1, <2>2, <2>3, <2>4
  <1> QED
    BY <1>1, <1>2, OutcomeChanges

LEMMA DroppedIsDisposedStep ==
    ASSUME Typed, PlacesInv, DroppedIsDisposed, Next
    PROVE  DroppedIsDisposed'
  <1> SUFFICES ASSUME mon'.step = "drop"
               PROVE  outcome'[Watched'] \in {"reported", "silent"}
    BY DEF DroppedIsDisposed
  <1>0. /\ mon \in MonitorThread /\ WatchesOne /\ outcome \in [Jobs -> Outcomes]
    BY TypesOfAll DEF MonitorTypes, SenderTypes
  <1>1. CASE mon' = mon
    <2>1. mon.step = "drop" /\ Watched' = Watched
      BY <1>1 DEF Watched
    <2>2. Watched \in Jobs /\ Watched \in ToSet(mon.todo)
      <3> DEFINE todo == mon.todo
      <3>1. todo \in Seq(Jobs) /\ todo # <<>>
        BY <1>0, <2>1 DEF MonitorThread, WatchesOne
      <3> HIDE DEF todo
      <3>2. Head(todo) \in Jobs /\ Head(todo) \in ToSet(todo)
        BY <3>1, HeadTailFacts
      <3> QED
        BY <3>2 DEF Watched, todo
    <2>3. sender[Watched] \in Past
      BY <2>1, <2>2 DEF PlacesInv, WatchedIsListed, OnePlace, Past
    <2>4. ~Register(Watched)
      BY <2>3 DEF Register, Past
    <2> QED
      BY <2>1, <2>2, <2>4, OutcomeChanges DEF DroppedIsDisposed
  <1>2. CASE mon' # mon
    BY <1>2, OutcomeChanges
  <1> QED
    BY <1>1, <1>2

LEMMA WaitingOrSentStep ==
    ASSUME Typed, OneSender, SentIsDisposed, WaitingOrSent, Next
    PROVE  WaitingOrSent'
  <1> SUFFICES ASSUME NEW k \in Jobs, svc'[k] \in Live, outcome'[k] = "none"
               PROVE  k \in ToSet(jobQueue') \/ currentJob' = k
    BY DEF WaitingOrSent
  <1>0. /\ jobQueue \in Seq(Jobs) /\ outcome \in [Jobs -> Outcomes]
        /\ sender \in [Jobs -> SenderStates] /\ NoJob \notin Jobs
    BY TypesOfAll, JobsAssumption DEF SenderTypes
  <1>1. CASE StartJob(k)
    <2>1. jobQueue' = Append(jobQueue, k)
      BY <1>0, <1>1 DEF StartJob
    <2> QED
      BY <1>0, <2>1, AppendFacts
  <1>2. CASE ~StartJob(k)
    <2>1. k \in ToSet(jobQueue) \/ currentJob = k
      BY <1>2, LiveStep, OutcomeChanges DEF WaitingOrSent
    <2>2. CASE UNCHANGED <<jobQueue, currentJob>>
      BY <2>1, <2>2
    <2>3. CASE TakeNextJob
      BY <1>0, <2>1, <2>3, HeadTailFacts DEF TakeNextJob
    <2>4. ASSUME NEW j \in Jobs, StartJob(j) \/ CancelJob(j) \/ BlockJob(j)
          PROVE  k \in ToSet(jobQueue') \/ currentJob' = k
      <3>1. /\ currentJob' = currentJob
            /\ \/ jobQueue' = jobQueue
               \/ jobQueue' = Append(jobQueue, j)
               \/ jobQueue' = RemoveFirst(jobQueue, j) /\ j # k
        <4>1. /\ currentJob' = currentJob
              /\ \/ jobQueue' = jobQueue
                 \/ jobQueue' = Append(jobQueue, j)
                 \/ /\ jobQueue' = RemoveFirst(jobQueue, j)
                    /\ outcome' = [outcome EXCEPT ![j] = "reported"]
          BY <2>4 DEF StartJob, CancelJob, BlockJob
        <4>2. outcome' = [outcome EXCEPT ![j] = "reported"] => j # k
          BY <1>0
        <4> QED
          BY <4>1, <4>2
      <3>2. ToSet(Append(jobQueue, j)) = ToSet(jobQueue) \cup {j}
        BY <1>0, AppendFacts
      <3>3. ToSet(jobQueue) \subseteq ToSet(RemoveFirst(jobQueue, j)) \cup {j}
        BY <1>0, RemoveFirstFacts
      <3> QED
        BY <2>1, <3>1, <3>2, <3>3
    <2>5. ASSUME NEW j \in Jobs, SenderStep(j)
          PROVE  k \in ToSet(jobQueue') \/ currentJob' = k
      <3>1. \/ UNCHANGED <<jobQueue, currentJob>> \/ TakeNextJob
            \/ JobSent(j)
        BY <2>5 DEF SenderStep, Verify, TestCanceled, HandleFiles, Register, SenderStartNext,
                    ReportLast
      <3>2. CASE JobSent(j)
        <4>1. sender[j] = "sent" /\ jobQueue' = jobQueue /\ outcome' = outcome
          BY <3>2 DEF JobSent
        <4>2. currentJob = j /\ outcome[j] # "none"
          BY <4>1 DEF OneSender, Sending, SentIsDisposed, Past
        <4> QED
          BY <2>1, <4>1, <4>2
      <3> QED
        BY <2>2, <2>3, <3>1, <3>2
    <2>6. ApiStep => UNCHANGED <<jobQueue, currentJob>> \/ TakeNextJob
      BY Footprints DEF ApiStep, ApiStartNext, senderVars
    <2>7. (MonitorStep \/ \E j \in Jobs : CupsStep(j)) => UNCHANGED <<jobQueue, currentJob>>
      BY Footprints DEF senderVars
    <2> QED
      BY <2>2, <2>3, <2>4, <2>5, <2>6, <2>7 DEF Next
  <1> QED
    BY <1>1, <1>2

LEMMA OutcomesStep == Typed /\ OneSender /\ PlacesInv /\ OutcomesInv /\ [Next]_vars => OutcomesInv'
  <1> SUFFICES ASSUME Typed, OneSender, PlacesInv, OutcomesInv, [Next]_vars
               PROVE  OutcomesInv'
    OBVIOUS
  <1>1. CASE Next
    BY <1>1, SentIsDisposedStep, MonitoredIsListedStep, DroppedIsDisposedStep, WaitingOrSentStep
       DEF OutcomesInv
  <1>2. CASE UNCHANGED vars
    BY <1>2 DEF OutcomesInv, SentIsDisposed, MonitoredIsListed, DroppedIsDisposed, WaitingOrSent,
                Watched, vars, senderVars, monitorVars
  <1> QED
    BY <1>1, <1>2

LEMMA IInvInit == Init => IInv
  <1> SUFFICES ASSUME Init
               PROVE  IInv
    OBVIOUS
  <1>1. OneSender
    BY JobsAssumption DEF Init, OneSender, Sending
  <1>2. QueueIsServed /\ MonitorServes
    BY DEF Init, QueueIsServed, MonitorServes, NoMonitor
  <1>3. PlacesInv
    BY EmptyListFacts DEF Init, PlacesInv, OnePlace, NewIsNowhere, WatchedIsListed, NoMonitor
  <1>4. OutcomesInv
    BY DEF Init, OutcomesInv, SentIsDisposed, MonitoredIsListed, DroppedIsDisposed, WaitingOrSent,
           NoMonitor, Past, Live
  <1> QED
    BY <1>1, <1>2, <1>3, <1>4, TypeInit DEF IInv

LEMMA IInvStep == IInv /\ [Next]_vars => IInv'
  BY TypeStep, OneSenderStep, QueueIsServedStep, MonitorServesStep, PlacesStep, OutcomesStep DEF IInv

LEMMA IInvIsSafe ==
    IInv => /\ TypeOK /\ OneSender /\ OnePlace /\ QueueIsServed
            /\ MonitorServes /\ WatchedIsListed /\ NoJobIsLost
  <1> SUFFICES ASSUME IInv
               PROVE  NoJobIsLost
    BY DEF IInv, Typed, PlacesInv
  <1>1. \A j \in Jobs : outcome[j] = "monitored" => j \in ToSet(monitorList)
    BY DEF IInv, OutcomesInv, MonitoredIsListed
  <1>2. \A j \in Jobs : svc[j] \in Live /\ outcome[j] = "none" => j \in ToSet(jobQueue) \/ currentJob = j
    BY DEF IInv, OutcomesInv, WaitingOrSent
  <1> QED
    BY <1>1, <1>2 DEF NoJobIsLost, InHand

\* One thread sends at a time, and only the current job.
THEOREM SendingIsExclusive == Spec => []HandOverIsExclusive
  BY IInvInit, IInvStep, IInvIsSafe, PTL DEF Spec, HandOverIsExclusive

\* A queued job has somebody to start it, a registered one a running monitor,
\* and the monitor only handles jobs that are still registered.
THEOREM JobsAreServed == Spec => [](WorkIsServed /\ WatchedIsListed)
  BY IInvInit, IInvStep, IInvIsSafe, PTL DEF Spec, WorkIsServed

\* No interleaving of the service calls, the senders and the monitor loses a job
\* on its way from the queue to the sender and to the monitor.
THEOREM NoInterleavingLosesAJob == Spec => []NoJobIsLost
  BY IInvInit, IInvStep, IInvIsSafe, PTL DEF Spec

-----------------------------------------------------------------------------
(* CupsJobs implements PrintClient: for every set of jobs and any number of  *)
(* calls, the queue, the sender threads and the monitor move each job from   *)
(* place to place only as PrintClient allows.                                *)

\* What Place looks at is as before for job k.
Stays(k) == /\ k \in ToSet(jobQueue)' <=> k \in ToSet(jobQueue)
            /\ sender'[k] \in Sending \ {"sent"} <=> sender[k] \in Sending \ {"sent"}
            /\ k \in ToSet(monitorList)' <=> k \in ToSet(monitorList)
            /\ svc'[k] = "new" <=> svc[k] = "new"

LEMMA PlaceStays ==
    ASSUME NEW k, Stays(k)
    PROVE  Place(k)' = Place(k)
  BY DEF Stays, Place

\* A step that every job stays through is a stutter of PrintClient.
LEMMA AllStay ==
    ASSUME \A k \in Jobs : Stays(k)
    PROVE  [Promise!Next]_([j \in Jobs |-> Place(j)])
  <1>1. \A k \in Jobs : Place(k)' = Place(k)
    BY PlaceStays
  <1> QED
    BY <1>1

\* A step that only one job does not stay through moves that job.
LEMMA OneMoves ==
    ASSUME NEW j \in Jobs, \A k \in Jobs \ {j} : Stays(k)
    PROVE  Promise!Goes(j, Place(j), Place(j)')
  <1>1. \A k \in Jobs \ {j} : Place(k)' = Place(k)
    BY PlaceStays
  <1> QED
    BY <1>1 DEF Promise!Goes

\* The facts of the invariant about where a job can be.
LEMMA WhereJobsAre ==
    ASSUME IInv
    PROVE  /\ jobQueue \in Seq(Jobs) /\ monitorList \in Seq(Jobs)
           /\ IsInjective(jobQueue) /\ IsInjective(monitorList)
           /\ sender \in [Jobs -> SenderStates] /\ svc \in [Jobs -> ServiceStates]
           /\ \A j \in ToSet(jobQueue) : sender[j] = "none" /\ j \notin ToSet(monitorList)
           /\ \A j \in ToSet(monitorList) : sender[j] \in Past
           /\ \A j \in Jobs : svc[j] = "new" => sender[j] = "none" /\ j \notin ToSet(jobQueue)
           /\ \A j \in Jobs : sender[j] \in Sending <=> currentJob = j
  BY TypesOfAll DEF IInv, PlacesInv, OnePlace, NewIsNowhere, OneSender, SenderTypes, MonitorTypes,
                    ServiceTypes, Past

\* Whoever takes it, the head of the queue moves to the only sender.
LEMMA TakeSends ==
    ASSUME IInv, TakeNextJob, UNCHANGED <<svc, monitorList>>,
           sender'[Head(jobQueue)] = "verify",
           \A k \in Jobs \ {Head(jobQueue)} :
               sender'[k] \in Sending \ {"sent"} <=> sender[k] \in Sending \ {"sent"}
    PROVE  Promise!Next
  <1>1. /\ jobQueue \in Seq(Jobs) /\ jobQueue # <<>> /\ jobQueue' = Tail(jobQueue)
        /\ IsInjective(jobQueue) /\ currentJob = NoJob
    BY WhereJobsAre DEF TakeNextJob
  <1>2. PICK h \in Jobs : h = Head(jobQueue)
    BY <1>1, HeadTailFacts
  <1>3. /\ h \in ToSet(jobQueue)
        /\ ToSet(jobQueue)' = ToSet(jobQueue) \ {h}
    BY <1>1, <1>2, HeadTailFacts
  <1>4. \A k \in Jobs \ {h} : Stays(k)
    BY <1>2, <1>3 DEF Stays
  <1>5. Promise!Goes(h, Place(h), Place(h)')
    BY <1>4, OneMoves
  <1>6. Place(h) = "waiting"
    BY <1>3 DEF Place
  <1>7. Place(h)' = "sending"
    BY <1>2, <1>3 DEF Place, Sending
  <1>8. \A k \in Jobs : Place(k) # "sending"
    BY <1>1, WhereJobsAre, JobsAssumption DEF Place
  <1> QED
    BY <1>5, <1>6, <1>7, <1>8 DEF Promise!Next, Promise!Send

LEMMA CallMoves ==
    ASSUME IInv, NEW j \in Jobs, StartJob(j) \/ CancelJob(j) \/ BlockJob(j)
    PROVE  [Promise!Next]_([i \in Jobs |-> Place(i)])
  <1>1. UNCHANGED <<sender, monitorList>>
    BY Footprints DEF monitorVars
  <1>2. CASE StartJob(j)
    <2>1. /\ svc[j] = "new" /\ svc' = [svc EXCEPT ![j] = "QUEUED"]
          /\ jobQueue' = jobQueue \/ jobQueue' = Append(jobQueue, j)
      BY <1>2 DEF StartJob
    <2>2. sender[j] = "none" /\ j \notin ToSet(jobQueue) /\ j \notin ToSet(monitorList)
      BY <2>1, WhereJobsAre DEF Past
    <2>3. ToSet(jobQueue)' = ToSet(jobQueue) \/ ToSet(jobQueue)' = ToSet(jobQueue) \cup {j}
      <3>1. ToSet(Append(jobQueue, j)) = ToSet(jobQueue) \cup {j}
        BY WhereJobsAre, AppendFacts
      <3> QED
        BY <2>1, <3>1
    <2>4. \A k \in Jobs \ {j} : Stays(k)
      BY <1>1, <2>1, <2>3, WhereJobsAre DEF Stays
    <2>5. Place(j) = "none"
      BY <2>1, <2>2 DEF Place, Sending
    <2>6. Place(j)' \in {"waiting", "gone"}
      BY <1>1, <2>1, <2>2, WhereJobsAre DEF Place, Sending
    <2> QED
      BY <2>4, <2>5, <2>6, OneMoves DEF Promise!Next, Promise!Accept, Promise!Finish
  <1>3. CASE CancelJob(j) \/ BlockJob(j)
    <2>1. \/ UNCHANGED <<svc, jobQueue>>
          \/ /\ j \in ToSet(jobQueue) /\ jobQueue' = RemoveFirst(jobQueue, j)
             /\ Report(j, "COMPLETED") \/ Report(j, "BLOCKED")
      BY <1>3 DEF CancelJob, BlockJob
    <2>2. CASE UNCHANGED <<svc, jobQueue>>
      BY <1>1, <2>2, AllStay DEF Stays
    <2>3. CASE /\ j \in ToSet(jobQueue) /\ jobQueue' = RemoveFirst(jobQueue, j)
               /\ Report(j, "COMPLETED") \/ Report(j, "BLOCKED")
      <3>1. ToSet(jobQueue)' = ToSet(jobQueue) \ {j}
        BY <2>3, WhereJobsAre, RemoveFirstFacts
      <3>2. "COMPLETED" \in ServiceStates \ {"new"} /\ "BLOCKED" \in ServiceStates \ {"new"}
        BY DEF ServiceStates, Live
      <3>3. \A k \in Jobs : svc'[k] = "new" <=> svc[k] = "new"
        BY <2>3, <3>2, WhereJobsAre, ReportKeepsNew
      <3>4. \A k \in Jobs \ {j} : Stays(k)
        BY <1>1, <3>1, <3>3 DEF Stays
      <3>5. Place(j) = "waiting"
        BY <2>3 DEF Place
      <3>6. Place(j)' = "gone"
        BY <1>1, <2>3, <3>1, <3>3, WhereJobsAre DEF Place, Sending
      <3> QED
        BY <3>4, <3>5, <3>6, OneMoves DEF Promise!Next, Promise!GiveUp
    <2> QED
      BY <2>1, <2>2, <2>3
  <1> QED
    BY <1>2, <1>3

LEMMA ApiMoves ==
    ASSUME IInv, ApiStep
    PROVE  [Promise!Next]_([i \in Jobs |-> Place(i)])
  <1>1. UNCHANGED monitorList
    BY Footprints DEF ApiStep, monitorVars
  <1>2. CASE ApiStartNext /\ TakeNextJob
    <2>1. /\ sender' = [sender EXCEPT ![Head(jobQueue)] = "verify"] /\ UNCHANGED svc
          /\ Head(jobQueue) \in Jobs
      BY <1>2, WhereJobsAre, HeadTailFacts
         DEF ApiStartNext, TakeNextJob, QueueIsEmpty, SenderIsBusy
    <2> QED
      BY <1>1, <1>2, <2>1, WhereJobsAre, TakeSends
  <1>3. CASE ~(ApiStartNext /\ TakeNextJob)
    <2>1. UNCHANGED <<jobQueue, sender>>
      BY <1>3, Footprints DEF ApiStep, ApiStartNext, senderVars
    <2>2. UNCHANGED svc \/ Report(LastInQueue, "QUEUED") \/ Report(api.job, "COMPLETED")
      BY DEF ApiStep, ApiStartNext, ApiCancelMonitor, ApiBlockMonitor, ApiBlockCups, ApiBlockFlag
    <2>3. "COMPLETED" \in ServiceStates \ {"new"} /\ "QUEUED" \in ServiceStates \ {"new"}
      BY DEF ServiceStates, Live
    <2>4. \A k \in Jobs : svc'[k] = "new" <=> svc[k] = "new"
      BY <2>2, <2>3, WhereJobsAre, ReportKeepsNew
    <2> QED
      BY <1>1, <2>1, <2>4, AllStay DEF Stays
  <1> QED
    BY <1>2, <1>3

LEMMA SenderMoves ==
    ASSUME IInv, NEW j \in Jobs, SenderStep(j)
    PROVE  [Promise!Next]_([i \in Jobs |-> Place(i)])
  <1> USE DEF EndsReported, EndsSilent, GoesOn, SenderGoes
  <1>1. \A k \in Jobs : svc'[k] = "new" <=> svc[k] = "new"
    <2>1. UNCHANGED svc \/ Report(j, "BLOCKED") \/ Report(stale[j], "QUEUED")
      BY DEF SenderStep, Verify, TestCanceled, HandleFiles, Register, JobSent, SenderStartNext,
             ReportLast
    <2>2. "BLOCKED" \in ServiceStates \ {"new"} /\ "QUEUED" \in ServiceStates \ {"new"}
      BY DEF ServiceStates, Live
    <2> QED
      BY <2>1, <2>2, WhereJobsAre, ReportKeepsNew
  <1>2. CASE SenderStartNext(j)
    <2>1. sender[j] = "next" /\ UNCHANGED <<svc, monitorList>>
      BY <1>2 DEF SenderStartNext, monitorVars
    <2>2. CASE TakeNextJob /\ sender' = [sender EXCEPT ![j] = "done", ![Head(jobQueue)] = "verify"]
      <3>1. Head(jobQueue) \in Jobs
        BY <2>2, WhereJobsAre, HeadTailFacts DEF TakeNextJob
      <3>2. /\ sender'[Head(jobQueue)] = "verify"
            /\ \A k \in Jobs \ {Head(jobQueue)} :
                  sender'[k] \in Sending \ {"sent"} <=> sender[k] \in Sending \ {"sent"}
        BY <2>1, <2>2, <3>1, WhereJobsAre DEF Sending
      <3> QED
        BY <2>1, <2>2, <3>2, TakeSends
    <2>3. CASE /\ UNCHANGED jobQueue
               /\ \E p \in {"done", "stale"} : sender' = [sender EXCEPT ![j] = p]
      <3>1. \A k \in Jobs : Stays(k)
        BY <2>1, <2>3, WhereJobsAre DEF Stays, Sending
      <3> QED
        BY <3>1, AllStay
    <2> QED
      BY <1>2, <2>2, <2>3 DEF SenderStartNext
  <1>3. CASE JobSent(j) \/ ReportLast(j)
    <2>1. /\ sender[j] \in {"sent", "stale"} /\ UNCHANGED <<jobQueue, monitorList>>
          /\ \E p \in {"next", "done"} : sender' = [sender EXCEPT ![j] = p]
      BY <1>3 DEF JobSent, ReportLast, monitorVars
    <2>2. \A k \in Jobs : Stays(k)
      BY <1>1, <2>1, WhereJobsAre DEF Stays, Sending
    <2> QED
      BY <2>2, AllStay
  <1>4. CASE Verify(j) \/ TestCanceled(j) \/ HandleFiles(j) \/ Register(j)
    <2>1. /\ sender[j] \in Sending \ {"sent"} /\ UNCHANGED jobQueue
          /\ \/ /\ UNCHANGED monitorList
                /\ \E p \in {"test", "send", "register", "sent"} :
                      sender' = [sender EXCEPT ![j] = p]
             \/ /\ monitorList' = Append(monitorList, j)
                /\ sender' = [sender EXCEPT ![j] = "sent"]
      BY <1>4 DEF Verify, TestCanceled, HandleFiles, Register, Sending, monitorVars
    <2>2. /\ j \notin ToSet(jobQueue) /\ j \notin ToSet(monitorList)
          /\ svc[j] # "new" /\ Place(j) = "sending"
      BY <2>1, WhereJobsAre DEF Sending, Past, Place
    <2>3. CASE UNCHANGED monitorList /\ sender' = [sender EXCEPT ![j] = "sent"]
      <3>1. \A k \in Jobs \ {j} : Stays(k)
        BY <1>1, <2>1, <2>3, WhereJobsAre DEF Stays
      <3>2. Place(j)' = "gone"
        BY <1>1, <2>1, <2>2, <2>3, WhereJobsAre DEF Place
      <3> QED
        BY <2>2, <3>1, <3>2, OneMoves DEF Promise!Next, Promise!Finish
    <2>4. CASE /\ UNCHANGED monitorList
               /\ \E p \in {"test", "send", "register"} : sender' = [sender EXCEPT ![j] = p]
      <3>1. \A k \in Jobs : Stays(k)
        BY <1>1, <2>1, <2>4, WhereJobsAre DEF Stays, Sending
      <3> QED
        BY <3>1, AllStay
    <2>5. CASE monitorList' = Append(monitorList, j) /\ sender' = [sender EXCEPT ![j] = "sent"]
      <3>1. ToSet(monitorList)' = ToSet(monitorList) \cup {j}
        BY <2>5, WhereJobsAre, AppendFacts
      <3>2. \A k \in Jobs \ {j} : Stays(k)
        BY <1>1, <2>1, <2>5, <3>1, WhereJobsAre DEF Stays
      <3>3. Place(j)' = "monitored"
        BY <2>1, <2>2, <2>5, <3>1, WhereJobsAre DEF Place
      <3> QED
        BY <2>2, <3>2, <3>3, OneMoves DEF Promise!Next, Promise!Watch
    <2> QED
      BY <2>1, <2>3, <2>4, <2>5
  <1> QED
    BY <1>2, <1>3, <1>4 DEF SenderStep

LEMMA MonitorMoves ==
    ASSUME IInv, MonitorStep
    PROVE  [Promise!Next]_([i \in Jobs |-> Place(i)])
  <1>1. UNCHANGED <<jobQueue, sender>>
    BY Footprints
  <1>2. CASE DropJob
    <2>1. PICK w \in Jobs : w = Watched /\ w \in ToSet(monitorList)
      <3>1. /\ mon.step = "drop" /\ mon.todo # <<>> /\ mon \in MonitorThread
            /\ ToSet(mon.todo) \subseteq ToSet(monitorList)
        BY <1>2, TypesOfAll DEF DropJob, IInv, PlacesInv, WatchedIsListed, MonitorTypes
      <3>2. mon.todo \in Seq(Jobs)
        BY <3>1 DEF MonitorThread
      <3>3. Head(mon.todo) \in Jobs /\ Head(mon.todo) \in ToSet(mon.todo)
        BY <3>1, <3>2, HeadTailFacts
      <3> QED
        BY <3>1, <3>3 DEF Watched
    <2>2. monitorList' = RemoveFirst(monitorList, w) /\ UNCHANGED svc
      BY <1>2, <2>1 DEF DropJob
    <2>3. ToSet(monitorList)' = ToSet(monitorList) \ {w}
      BY <2>1, <2>2, WhereJobsAre, RemoveFirstFacts
    <2>4. \A k \in Jobs \ {w} : Stays(k)
      BY <1>1, <2>2, <2>3 DEF Stays
    <2>5. sender[w] \in Past /\ w \notin ToSet(jobQueue) /\ svc[w] # "new"
      BY <2>1, WhereJobsAre DEF Past
    <2>6. Place(w) = "monitored"
      BY <2>1, <2>5 DEF Place, Sending, Past
    <2>7. Place(w)' = "gone"
      BY <1>1, <2>2, <2>3, <2>5 DEF Place, Sending, Past
    <2> QED
      BY <2>1, <2>4, <2>6, <2>7, OneMoves DEF Promise!Next, Promise!Finish
  <1>3. CASE ~DropJob
    <2>1. UNCHANGED monitorList
      BY <1>3 DEF MonitorStep, BeginRound, CheckCanceled, CheckInterrupt, QueryOffline, QuerySkipped,
                  QueryAnswered, MonitorReport, EndRound
    <2>2. UNCHANGED svc \/ Report(Watched, mon.report)
      BY <1>3 DEF MonitorStep, BeginRound, CheckCanceled, CheckInterrupt, QueryOffline, QuerySkipped,
                  QueryAnswered, MonitorReport, EndRound
    <2>3. mon.report \in ServiceStates \ {"new"}
      <3>1. mon.report \in Live \cup {"COMPLETED"}
        BY TypesOfAll DEF IInv, MonitorTypes, MonitorThread
      <3> QED
        BY <3>1 DEF ServiceStates, Live
    <2>4. \A k \in Jobs : svc'[k] = "new" <=> svc[k] = "new"
      BY <2>2, <2>3, WhereJobsAre, ReportKeepsNew
    <2> QED
      BY <1>1, <2>1, <2>4, AllStay DEF Stays
  <1> QED
    BY <1>2, <1>3

LEMMA StepsKeepThePromise ==
    IInv /\ [Next]_vars => [Promise!Next]_([j \in Jobs |-> Place(j)])
  <1> SUFFICES ASSUME IInv, [Next]_vars
               PROVE  [Promise!Next]_([j \in Jobs |-> Place(j)])
    OBVIOUS
  <1>1. CASE UNCHANGED <<svc, jobQueue, sender, monitorList>>
    BY <1>1, AllStay DEF Stays
  <1>2. ASSUME NEW j \in Jobs, CupsStep(j)
        PROVE  UNCHANGED <<svc, jobQueue, sender, monitorList>>
    BY <1>2, Footprints DEF senderVars, monitorVars
  <1>3. UNCHANGED vars => UNCHANGED <<svc, jobQueue, sender, monitorList>>
    BY DEF vars, senderVars, monitorVars
  <1> QED
    BY <1>1, <1>2, <1>3, CallMoves, ApiMoves, SenderMoves, MonitorMoves DEF Next

\* The threads of the print client move a job only from the queue to the one
\* sender, from there to the monitor, and away: what PrintJobs relies on.
THEOREM ClientKeepsItsPromise == Spec => ImplementsPrintClient
  <1>1. Init => Promise!Init
    <2> SUFFICES ASSUME Init
                 PROVE  \A j \in Jobs : Place(j) = "none"
      BY DEF Promise!Init
    <2> QED
      BY EmptyListFacts DEF Init, Place, Sending
  <1> QED
    BY <1>1, IInvInit, IInvStep, StepsKeepThePromise, PTL DEF Spec, ImplementsPrintClient, Promise!Spec
=============================================================================
