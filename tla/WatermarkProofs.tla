--------------------------- MODULE WatermarkProofs ---------------------------
(***************************************************************************)
(* Proofs about Watermark for any applications, jobs and number of files.  *)
(* A file is only left behind with the marks of all that stayed, because   *)
(* an answer that is taken for the head of todo is the one to the request  *)
(* that was made last (Answers): a thread never leaves a request open      *)
(* behind it except by giving its job up, and no two threads are between   *)
(* opening and sending at once (OneAtATime).  Who stays is in every copy   *)
(* of the callbacks (StillThere).                                          *)
(***************************************************************************)
EXTENDS Watermark, SequenceTheorems, WellFoundedInduction, TLAPS

Marked(f) == \A a \in staying : <<f, a>> \in marks

OneAtATime == \A j, k \in Jobs : ~Ended(j) /\ ~Ended(k) => j = k

StillThere ==
    \A j \in Jobs : ~Ended(j) /\ ~At(j, "check") => staying \subseteq ToSet(callbacks)

Progress(j) ==
    /\ At(j, "new") \/ At(j, "check") => thread[j].file = 1
    /\ At(j, "copy") \/ At(j, "ask") \/ At(j, "wait") =>
         \A f \in Files : f < thread[j].file => Marked(f)
    /\ At(j, "ask") \/ At(j, "wait") =>
         /\ thread[j].todo # <<>>
         /\ \A a \in staying \ ToSet(thread[j].todo) : <<thread[j].file, a>> \in marks
    /\ At(j, "reopen") => \A f \in Files : Marked(f)

Answers ==
    /\ \A j \in Jobs : statusMap[j] # "absent" => At(j, "wait")
    /\ \A j \in Jobs : statusMap[j] = "good" =>
         <<thread[j].file, Head(thread[j].todo)>> \in marks
    /\ \A r \in asked :
         /\ ~At(r.job, "new")
         /\ ~Ended(r.job) => /\ At(r.job, "wait") /\ statusMap[r.job] = "pending"
                             /\ r = Request(r.job)

Inv == TypeOK /\ OneAtATime /\ StillThere /\ (\A j \in Jobs : Progress(j)) /\ Answers

-----------------------------------------------------------------------------
(* The copies of the callbacks *)

LEMMA EmptyListFacts == ToSet(<<>>) = {}
BY DEF ToSet

LEMMA AppendFacts ==
    ASSUME NEW s \in Seq(Apps), NEW a \in Apps
    PROVE  Append(s, a) \in Seq(Apps) /\ ToSet(s) \subseteq ToSet(Append(s, a))
<1>1. /\ Append(s, a) \in Seq(Apps)
      /\ DOMAIN s = 1..Len(s) /\ Len(s) \in Nat /\ DOMAIN Append(s, a) = 1..Len(s) + 1
      /\ \A i \in 1..Len(s) : Append(s, a)[i] = s[i]
  OBVIOUS
<1> QED
  BY <1>1 DEF ToSet

LEMMA HeadTailFacts ==
    ASSUME NEW s \in Seq(Apps), s # <<>>
    PROVE  /\ Head(s) \in Apps /\ Tail(s) \in Seq(Apps)
           /\ ToSet(s) = ToSet(Tail(s)) \cup {Head(s)}
<1>1. /\ Head(s) \in Apps /\ Tail(s) \in Seq(Apps) /\ Head(s) = s[1]
      /\ Len(s) \in Nat \ {0} /\ DOMAIN s = 1..Len(s) /\ DOMAIN Tail(s) = 1..Len(s) - 1
      /\ \A i \in 1..Len(s) - 1 : Tail(s)[i] = s[i + 1]
  OBVIOUS
<1>2. ToSet(Tail(s)) \cup {Head(s)} \subseteq ToSet(s)
  BY <1>1 DEF ToSet
<1>3. ToSet(s) \subseteq ToSet(Tail(s)) \cup {Head(s)}
  <2> SUFFICES ASSUME NEW i \in 1..Len(s), i # 1
               PROVE  s[i] \in ToSet(Tail(s))
    BY <1>1 DEF ToSet
  <2>1. i - 1 \in 1..Len(s) - 1 /\ Tail(s)[i - 1] = s[i]
    BY <1>1
  <2> QED
    BY <1>1, <2>1 DEF ToSet
<1> QED
  BY <1>1, <1>2, <1>3

\* A non-empty set of natural numbers has a least element.
LEMMA MinIsMember ==
    ASSUME NEW I \in SUBSET Nat, I # {}
    PROVE  Min(I) \in I
<1> DEFINE R == OpToRel(<, Nat)
<1>1. \A x, y \in Nat : <<x, y>> \in R <=> x < y
  BY DEF OpToRel
<1>2. IsWellFoundedOn(R, Nat)
  BY NatLessThanWellFounded
<1> HIDE DEF R
<1>3. PICK x \in I : \A y \in I : ~ (<<y, x>> \in R)
  BY <1>2, WFMin
<1>4. ASSUME NEW y \in I
      PROVE  x =< y
  <2>1. x \in Nat /\ y \in Nat
    OBVIOUS
  <2>2. ~ (y < x)
    BY <1>1, <1>3, <2>1
  <2> QED
    BY <2>1, <2>2
<1> QED
  BY <1>3, <1>4 DEF Min

\* Find and erase takes a member off the list, and no other one.
LEMMA RemoveFirstFacts ==
    ASSUME NEW s \in Seq(Apps), NEW e
    PROVE  /\ RemoveFirst(s, e) \in Seq(Apps)
           /\ ToSet(s) \subseteq ToSet(RemoveFirst(s, e)) \cup {e}
<1> DEFINE I == {i \in 1..Len(s) : s[i] = e}
<1>0. Len(s) \in Nat /\ DOMAIN s = 1..Len(s) /\ \A i \in 1..Len(s) : s[i] \in Apps
  OBVIOUS
<1>1. CASE I = {}
  <2>1. RemoveFirst(s, e) = s
    BY <1>1 DEF RemoveFirst
  <2> QED
    BY <2>1
<1>2. CASE I # {}
  <2> DEFINE k == Min(I)
             r == RemoveFirst(s, e)
  <2>1. k \in 1..Len(s) /\ s[k] = e
    <3>1. I \in SUBSET Nat
      OBVIOUS
    <3> QED
      BY <1>2, <3>1, MinIsMember
  <2>2. r = SubSeq(s, 1, k - 1) \o SubSeq(s, k + 1, Len(s))
    BY <1>2 DEF RemoveFirst, RemoveAt, SelectInSeq
  <2> HIDE DEF k, r
  <2>3. /\ SubSeq(s, 1, k - 1) \in Seq(Apps)
        /\ Len(SubSeq(s, 1, k - 1)) = k - 1
        /\ \A i \in 1..k - 1 : SubSeq(s, 1, k - 1)[i] = s[i]
    <3>1. 1 \in Int /\ k - 1 \in Int /\ \A i \in 1..k - 1 : s[i] \in Apps
      BY <1>0, <2>1
    <3>2. /\ SubSeq(s, 1, k - 1) \in Seq(Apps)
          /\ Len(SubSeq(s, 1, k - 1)) = IF 1 <= k - 1 THEN k - 1 - 1 + 1 ELSE 0
          /\ \A i \in 1..k - 1 - 1 + 1 : SubSeq(s, 1, k - 1)[i] = s[1 + i - 1]
      BY <3>1, SubSeqProperties
    <3> QED
      BY <1>0, <2>1, <3>2
  <2>4. /\ SubSeq(s, k + 1, Len(s)) \in Seq(Apps)
        /\ Len(SubSeq(s, k + 1, Len(s))) = Len(s) - k
        /\ \A i \in 1..Len(s) - k : SubSeq(s, k + 1, Len(s))[i] = s[k + i]
    <3>1. k + 1 \in Int /\ Len(s) \in Int /\ \A i \in k + 1..Len(s) : s[i] \in Apps
      BY <1>0, <2>1
    <3>2. /\ SubSeq(s, k + 1, Len(s)) \in Seq(Apps)
          /\ Len(SubSeq(s, k + 1, Len(s)))
               = IF k + 1 <= Len(s) THEN Len(s) - (k + 1) + 1 ELSE 0
          /\ \A i \in 1..Len(s) - (k + 1) + 1 :
                SubSeq(s, k + 1, Len(s))[i] = s[k + 1 + i - 1]
      BY <3>1, SubSeqProperties
    <3>3. /\ Len(s) - (k + 1) + 1 = Len(s) - k
          /\ k + 1 <= Len(s) \/ Len(s) - k = 0
          /\ \A i \in 1..Len(s) - k : k + 1 + i - 1 = k + i
      <4> DEFINE n == Len(s)
      <4>1. n \in Nat /\ k \in 1..n
        BY <1>0, <2>1
      <4> HIDE DEF n
      <4>2. n - (k + 1) + 1 = n - k
        BY <4>1
      <4>3. k + 1 <= n \/ n - k = 0
        BY <4>1
      <4>4. \A i \in 1..n - k : k + 1 + i - 1 = k + i
        BY <4>1
      <4> QED
        BY <4>2, <4>3, <4>4 DEF n
    <3>4. Len(SubSeq(s, k + 1, Len(s))) = Len(s) - k
      BY <3>2, <3>3
    <3>5. \A i \in 1..Len(s) - k : SubSeq(s, k + 1, Len(s))[i] = s[k + i]
      BY <3>2, <3>3
    <3> QED
      BY <3>2, <3>4, <3>5
  <2>5. /\ r \in Seq(Apps)
        /\ Len(r) = Len(s) - 1
        /\ \A i \in 1..Len(s) - 1 : r[i] = IF i < k THEN s[i] ELSE s[i + 1]
    <3> DEFINE u == SubSeq(s, 1, k - 1)
               v == SubSeq(s, k + 1, Len(s))
    <3>1. r = u \o v /\ u \in Seq(Apps) /\ v \in Seq(Apps)
      BY <2>2, <2>3, <2>4
    <3>2. Len(u) = k - 1 /\ Len(v) = Len(s) - k
      BY <2>3, <2>4
    <3>3. \A i \in 1..k - 1 : u[i] = s[i]
      BY <2>3
    <3>4. \A i \in 1..Len(s) - k : v[i] = s[k + i]
      BY <2>4
    <3> HIDE DEF u, v
    <3>5. /\ u \o v \in Seq(Apps)
          /\ Len(u \o v) = Len(u) + Len(v)
          /\ \A i \in 1..Len(u) + Len(v) :
                (u \o v)[i] = IF i <= Len(u) THEN u[i] ELSE v[i - Len(u)]
      BY <3>1, ConcatProperties
    <3> QED
      BY <1>0, <2>1, <3>1, <3>2, <3>3, <3>4, <3>5
  <2>6. DOMAIN r = 1..Len(s) - 1
    BY <2>5
  <2>7. ToSet(s) \subseteq ToSet(r) \cup {e}
    <3> SUFFICES ASSUME NEW i \in 1..Len(s), i # k
                 PROVE  s[i] \in ToSet(r)
      BY <1>0, <2>1 DEF ToSet
    <3>1. CASE i < k
      BY <1>0, <2>1, <2>5, <2>6, <3>1 DEF ToSet
    <3>2. CASE i > k
      <4>1. i - 1 \in 1..Len(s) - 1 /\ r[i - 1] = s[i]
        BY <1>0, <2>1, <2>5, <3>2
      <4> QED
        BY <2>6, <4>1 DEF ToSet
    <3> QED
      BY <2>1, <3>1, <3>2
  <2> QED
    BY <2>5, <2>7 DEF r
<1> QED
  BY <1>1, <1>2
-----------------------------------------------------------------------------
(* The initial states, and the steps of a thread *)

LEMMA InitInv == Init => Inv
<1> SUFFICES ASSUME Init
             PROVE  Inv
  OBVIOUS
<1> USE NumFilesAssumption DEF Init
<1>1. <<>> \in Seq(Apps)
  OBVIOUS
<1>2. 1 \in Files
  BY DEF Files
<1>3. TypeOK
  BY <1>1, <1>2 DEF TypeOK, Steps
<1>4. \A j \in Jobs : Ended(j) /\ Progress(j)
  BY DEF Ended, Progress, At
<1> QED
  BY <1>3, <1>4 DEF Inv, OneAtATime, StillThere, Answers

\* a thread that goes to another step keeps its file and its list
LEMMA GotoFacts ==
    ASSUME TypeOK, NEW j \in Jobs, NEW s \in Steps,
           thread' = [thread EXCEPT ![j].step = s]
    PROVE  /\ thread' \in [Jobs -> [step : Steps, file : Files, todo : Seq(Apps)]]
           /\ \A k \in Jobs \ {j} : thread'[k] = thread[k]
           /\ thread'[j].step = s
           /\ thread'[j].file = thread[j].file
           /\ thread'[j].todo = thread[j].todo
BY DEF TypeOK

\* the loop goes to the next file or ends, within its bounds
LEMMA NextFileFacts ==
    ASSUME TypeOK, NEW j \in Jobs, NextFile(j)
    PROVE  /\ thread' \in [Jobs -> [step : Steps, file : Files, todo : Seq(Apps)]]
           /\ \A k \in Jobs \ {j} : thread'[k] = thread[k]
           /\ \/ /\ thread[j].file = NumFiles /\ thread'[j].step = "reopen"
              \/ /\ thread'[j].step = "copy"
                 /\ thread'[j].file = thread[j].file + 1
<1> USE NumFilesAssumption DEF TypeOK
<1>1. <<>> \in Seq(Apps) /\ thread[j].file \in Files
  OBVIOUS
<1>2. CASE thread[j].file = NumFiles
  <2>1. thread' = [thread EXCEPT ![j].step = "reopen"] /\ "reopen" \in Steps
    BY <1>2 DEF NextFile, Goto, Steps
  <2> QED
    BY <1>2, <2>1, GotoFacts
<1>3. CASE thread[j].file # NumFiles
  <2>1. thread[j].file + 1 \in Files
    BY <1>1, <1>3 DEF Files
  <2> DEFINE next == [step |-> "copy", file |-> thread[j].file + 1, todo |-> <<>>]
  <2>2. next \in [step : Steps, file : Files, todo : Seq(Apps)]
    BY <1>1, <2>1 DEF Steps
  <2>3. thread' = [thread EXCEPT ![j] = next]
    BY <1>3 DEF NextFile
  <2> QED
    BY <2>2, <2>3
<1> QED
  BY <1>2, <1>3

LEMMA OpenCacheKeeps ==
    ASSUME Inv, NEW j \in Jobs, OpenCache(j)
    PROVE  Inv'
<1> USE DEF OpenCache, Inv
<1>1. PICK s \in {"check", "failed"} : thread' = [thread EXCEPT ![j].step = s]
  BY DEF Goto
<1>2. /\ thread' \in [Jobs -> [step : Steps, file : Files, todo : Seq(Apps)]]
      /\ \A k \in Jobs \ {j} : thread'[k] = thread[k]
      /\ thread'[j].step = s /\ thread'[j].file = thread[j].file
  BY <1>1, GotoFacts DEF Steps
<1>3. TypeOK'
  BY <1>2 DEF TypeOK, apps
<1>4. OneAtATime'
  BY <1>2 DEF OneAtATime, Ended
<1>5. StillThere'
  BY <1>1, <1>2 DEF StillThere, Ended, At
<1>6. \A k \in Jobs : Progress(k)'
  <2> TAKE k \in Jobs
  <2>1. CASE k = j
    BY <1>1, <1>2, <2>1 DEF Progress, At
  <2>2. CASE k # j
    BY <1>2, <2>2 DEF Progress, At, Ended
  <2> QED
    BY <2>1, <2>2
<1>7. Answers'
  <2>1. \A k \in Jobs : statusMap[k] = "absent"
    BY DEF Answers, Ended, At
  <2>2. \A r \in asked : r.job \in Jobs /\ r.job # j
    BY DEF Answers, At, TypeOK, Requests
  <2>3. \A r \in asked : thread'[r.job] = thread[r.job] /\ Ended(r.job)
    BY <1>2, <2>2
  <2> QED
    BY <2>1, <2>3 DEF Answers, At, Ended
<1> QED
  BY <1>3, <1>4, <1>5, <1>6, <1>7

LEMMA CheckRegisteredKeeps ==
    ASSUME Inv, NEW j \in Jobs, CheckRegistered(j)
    PROVE  Inv'
<1> USE DEF CheckRegistered, Inv
<1>1. PICK s \in {"failed", "copy"} : thread' = [thread EXCEPT ![j].step = s]
  BY DEF Goto
<1>2. /\ thread' \in [Jobs -> [step : Steps, file : Files, todo : Seq(Apps)]]
      /\ \A k \in Jobs \ {j} : thread'[k] = thread[k]
      /\ thread'[j].step = s /\ thread'[j].file = thread[j].file
  BY <1>1, GotoFacts DEF Steps
<1>3. ToSet(callbacks) \subseteq Apps
  BY DEF TypeOK, ToSet
<1>4. TypeOK'
  BY <1>2, <1>3 DEF TypeOK, apps
<1>5. ~Ended(j) /\ \A k \in Jobs \ {j} : Ended(k)
  BY DEF OneAtATime, Ended, At
<1>6. \A k \in Jobs : Ended(k)' \/ k = j
  BY <1>2, <1>5 DEF Ended
<1>7. OneAtATime'
  BY <1>6 DEF OneAtATime
<1>8. StillThere'
  BY DEF StillThere, apps
<1>9. \A k \in Jobs : Progress(k)'
  <2> TAKE k \in Jobs
  <2>1. CASE k = j
    <3>1. thread[j].file = 1
      BY DEF Progress, At
    <3>2. \A f \in Files : ~(f < 1)
      BY DEF Files
    <3> QED
      BY <1>1, <1>2, <2>1, <3>1, <3>2 DEF Progress, At
  <2>2. CASE k # j
    BY <1>2, <1>5, <2>2 DEF Progress, At, Ended
  <2> QED
    BY <2>1, <2>2
<1>10. Answers'
  <2>1. \A k \in Jobs : statusMap[k] = "absent"
    BY <1>5 DEF Answers, Ended, At
  <2>2. \A r \in asked : r.job \in Jobs /\ r.job # j
    BY <1>5 DEF Answers, At, TypeOK, Requests
  <2>3. \A r \in asked : thread'[r.job] = thread[r.job] /\ Ended(r.job)
    BY <1>2, <1>5, <2>2
  <2> QED
    BY <2>1, <2>3 DEF Answers, At, Ended
<1> QED
  BY <1>4, <1>7, <1>8, <1>9, <1>10

\* the loop over the files, from a state where the file is done
LEMMA NextFileKeeps ==
    ASSUME Inv, NEW j \in Jobs, NextFile(j), Marked(thread[j].file),
           ~Ended(j), ~At(j, "check"), ~At(j, "reopen"),
           \A r \in asked : r.job # j,
           statusMap' = [statusMap EXCEPT ![j] = "absent"],
           UNCHANGED <<apps, asked, marks, staying>>
    PROVE  Inv'
<1> USE DEF Inv
<1>1. /\ thread' \in [Jobs -> [step : Steps, file : Files, todo : Seq(Apps)]]
      /\ \A k \in Jobs \ {j} : thread'[k] = thread[k]
      /\ thread'[j].step \in {"copy", "reopen"}
      /\ thread'[j].step = "copy" => thread'[j].file = thread[j].file + 1
      /\ thread'[j].step = "reopen" => thread[j].file = NumFiles
  BY NextFileFacts
<1>2. TypeOK'
  BY <1>1 DEF TypeOK, apps
<1>3. \A k \in Jobs \ {j} : Ended(k) /\ Ended(k)'
  BY <1>1 DEF OneAtATime, Ended
<1>4. OneAtATime'
  BY <1>3 DEF OneAtATime
<1>5. StillThere'
  BY <1>3 DEF StillThere, apps
<1>6. \A k \in Jobs : Progress(k)'
  <2> TAKE k \in Jobs
  <2>1. CASE k = j
    <3>1. \A f \in Files : f < thread[j].file => Marked(f)
      BY DEF Progress, Ended, At, TypeOK, Steps
    <3>2. \A f \in Files : f < thread[j].file + 1 => Marked(f)
      <4> TAKE f \in Files
      <4>1. f < thread[j].file + 1 => f < thread[j].file \/ f = thread[j].file
        BY DEF TypeOK, Files
      <4> QED
        BY <3>1, <4>1
    <3>3. thread[j].file = NumFiles => \A f \in Files : f < thread[j].file + 1
      BY NumFilesAssumption DEF Files
    <3>4. Marked(1)' = Marked(1) /\ \A f \in Files : Marked(f)' = Marked(f)
      BY DEF Marked
    <3> QED
      BY <1>1, <2>1, <3>2, <3>3, <3>4 DEF Progress, At
  <2>2. CASE k # j
    BY <1>1, <1>3, <2>2 DEF Progress, At, Ended
  <2> QED
    BY <2>1, <2>2
<1>7. Answers'
  <2>1. \A k \in Jobs : statusMap'[k] = "absent"
    BY <1>3 DEF Answers, Ended, At, TypeOK
  <2>2. \A r \in asked : r.job \in Jobs \ {j}
    BY DEF TypeOK, Requests
  <2>3. \A r \in asked : thread'[r.job] = thread[r.job] /\ Ended(r.job)
    BY <1>1, <1>3, <2>2
  <2> QED
    BY <2>1, <2>3 DEF Answers, At, Ended
<1> QED
  BY <1>2, <1>4, <1>5, <1>6, <1>7

LEMMA CopyCallbacksKeeps ==
    ASSUME Inv, NEW j \in Jobs, CopyCallbacks(j)
    PROVE  Inv'
<1> USE DEF CopyCallbacks, Inv
<1>1. statusMap[j] = "absent" /\ \A r \in asked : r.job # j
  BY DEF Answers, At, Ended
<1>2. ~Ended(j) /\ ~At(j, "check") /\ ~At(j, "reopen")
  BY DEF Ended, At
<1>3. staying \subseteq ToSet(callbacks)
  BY <1>2 DEF StillThere
<1>4. CASE callbacks = <<>>
  <2>1. Marked(thread[j].file)
    BY <1>3, <1>4, EmptyListFacts DEF Marked
  <2>2. statusMap' = [statusMap EXCEPT ![j] = "absent"]
    BY <1>1 DEF TypeOK
  <2> QED
    BY <1>1, <1>2, <1>4, <2>1, <2>2, NextFileKeeps
<1>5. CASE callbacks # <<>>
  <2>1. /\ thread' \in [Jobs -> [step : Steps, file : Files, todo : Seq(Apps)]]
        /\ \A k \in Jobs \ {j} : thread'[k] = thread[k]
        /\ thread'[j].step = "ask" /\ thread'[j].file = thread[j].file
        /\ thread'[j].todo = callbacks
    <3>1. thread' = [thread EXCEPT ![j].step = "ask", ![j].todo = callbacks]
      BY <1>5
    <3>2. callbacks \in Seq(Apps) /\ "ask" \in Steps
      BY DEF TypeOK, Steps
    <3> QED
      BY <3>1, <3>2 DEF TypeOK
  <2>2. TypeOK'
    BY <2>1 DEF TypeOK, apps
  <2>3. \A k \in Jobs \ {j} : Ended(k) /\ Ended(k)'
    BY <1>2, <2>1 DEF OneAtATime, Ended
  <2>4. OneAtATime'
    BY <2>3 DEF OneAtATime
  <2>5. StillThere'
    BY <1>3, <2>3 DEF StillThere, apps
  <2>6. \A k \in Jobs : Progress(k)'
    <3> TAKE k \in Jobs
    <3>1. CASE k = j
      <4>1. \A f \in Files : f < thread[j].file => Marked(f)'
        BY DEF Progress, Marked
      <4> QED
        BY <1>3, <1>5, <2>1, <3>1, <4>1 DEF Progress, At
    <3>2. CASE k # j
      BY <2>1, <2>3, <3>2 DEF Progress, At, Ended
    <3> QED
      BY <3>1, <3>2
  <2>7. Answers'
    <3>1. \A r \in asked : r.job \in Jobs \ {j}
      BY <1>1 DEF TypeOK, Requests
    <3>2. \A r \in asked : thread'[r.job] = thread[r.job] /\ Ended(r.job)
      BY <2>1, <2>3, <3>1
    <3>3. \A k \in Jobs : statusMap[k] = "absent"
      BY <1>1, <2>3 DEF Answers, Ended, At
    <3> QED
      BY <3>2, <3>3 DEF Answers, At, Ended
  <2> QED
    BY <2>2, <2>4, <2>5, <2>6, <2>7
<1> QED
  BY <1>4, <1>5

LEMMA TriggerKeeps ==
    ASSUME Inv, NEW j \in Jobs, TriggerWatermarkProcess(j)
    PROVE  Inv'
<1> USE DEF TriggerWatermarkProcess, Inv
<1>1. /\ thread' \in [Jobs -> [step : Steps, file : Files, todo : Seq(Apps)]]
      /\ \A k \in Jobs \ {j} : thread'[k] = thread[k]
      /\ thread'[j].step = "wait" /\ thread'[j].file = thread[j].file
      /\ thread'[j].todo = thread[j].todo
  BY GotoFacts DEF Goto, Steps
<1>2. ~Ended(j) /\ ~At(j, "check") /\ \A r \in asked : r.job # j
  BY DEF Answers, At, Ended
<1>3. thread[j].todo # <<>> /\ thread[j].todo \in Seq(Apps)
  BY DEF Progress, TypeOK
<1>4. Head(thread[j].todo) \in Apps
  BY <1>3, HeadTailFacts
<1>5. Request(j) \in Requests /\ Request(j).job = j /\ Request(j)' = Request(j)
  BY <1>1, <1>4 DEF Request, Requests, TypeOK
<1>6. statusMap' \in [Jobs -> {"absent", "pending", "good", "bad"}]
      /\ statusMap'[j] = "pending"
      /\ \A k \in Jobs \ {j} : statusMap'[k] = statusMap[k]
  BY DEF TypeOK
<1>7. TypeOK'
  BY <1>1, <1>5, <1>6 DEF TypeOK, apps
<1>8. \A k \in Jobs \ {j} : Ended(k) /\ Ended(k)'
  BY <1>1, <1>2 DEF OneAtATime, Ended
<1>9. OneAtATime'
  BY <1>8 DEF OneAtATime
<1>10. StillThere'
  BY <1>2, <1>8 DEF StillThere, apps
<1>11. \A k \in Jobs : Progress(k)'
  <2> TAKE k \in Jobs
  <2>1. CASE k = j
    BY <1>1, <2>1 DEF Progress, At, Marked
  <2>2. CASE k # j
    BY <1>1, <1>8, <2>2 DEF Progress, At, Ended
  <2> QED
    BY <2>1, <2>2
<1>12. Answers'
  <2>1. \A k \in Jobs \ {j} : statusMap'[k] = "absent"
    BY <1>6, <1>8 DEF Answers, Ended, At
  <2>2. \A r \in asked : /\ r.job \in Jobs /\ thread'[r.job] = thread[r.job]
                         /\ Ended(r.job)
    BY <1>1, <1>2, <1>8 DEF TypeOK, Requests
  <2>3. \A r \in asked' : r \in asked \/ r = Request(j)
    OBVIOUS
  <2>4. ASSUME NEW r \in asked'
        PROVE  ~At(r.job, "new")' /\ (~Ended(r.job)' =>
                 /\ At(r.job, "wait")' /\ statusMap'[r.job] = "pending"
                 /\ r = Request(r.job)')
    <3>1. CASE r \in asked
      BY <2>2, <3>1 DEF Answers, At, Ended
    <3>2. CASE r = Request(j)
      BY <1>1, <1>5, <1>6, <3>2 DEF At
    <3> QED
      BY <2>3, <3>1, <3>2
  <2> QED
    BY <1>1, <1>6, <2>1, <2>4 DEF Answers, At
<1> QED
  BY <1>7, <1>9, <1>10, <1>11, <1>12

\* giving a job up, and sending it, end its claims
LEMMA EndKeeps ==
    ASSUME Inv, NEW j \in Jobs, NEW s \in {"sent", "failed"}, Goto(j, s),
           ~At(j, "new"),
           statusMap' = [statusMap EXCEPT ![j] = "absent"],
           UNCHANGED <<apps, asked, marks, staying>>
    PROVE  Inv'
<1> USE DEF Inv
<1>1. /\ thread' \in [Jobs -> [step : Steps, file : Files, todo : Seq(Apps)]]
      /\ \A k \in Jobs \ {j} : thread'[k] = thread[k]
      /\ thread'[j].step = s
  BY GotoFacts DEF Goto, Steps
<1>2. TypeOK'
  BY <1>1 DEF TypeOK, apps
<1>3. Ended(j)' /\ \A k \in Jobs \ {j} : Ended(k)' = Ended(k)
  BY <1>1 DEF Ended
<1>4. OneAtATime'
  BY <1>3 DEF OneAtATime
<1>5. StillThere'
  BY <1>1, <1>3 DEF StillThere, At, apps
<1>6. \A k \in Jobs : Progress(k)'
  BY <1>1 DEF Progress, At, Marked
<1>7. Answers'
  <2>1. \A k \in Jobs : statusMap'[k] = IF k = j THEN "absent" ELSE statusMap[k]
    BY DEF TypeOK
  <2>2. ASSUME NEW r \in asked
        PROVE  ~At(r.job, "new")' /\ (~Ended(r.job)' =>
                 /\ At(r.job, "wait")' /\ statusMap'[r.job] = "pending"
                 /\ r = Request(r.job)')
    <3>1. r.job \in Jobs
      BY DEF TypeOK, Requests
    <3>2. CASE r.job = j
      BY <1>1, <1>3, <3>2 DEF At
    <3>3. CASE r.job # j
      BY <1>1, <1>3, <2>1, <3>1, <3>3 DEF Answers, At, Request
    <3> QED
      BY <3>2, <3>3
  <2>3. \A k \in Jobs : statusMap'[k] # "absent" =>
          k # j /\ statusMap'[k] = statusMap[k] /\ thread'[k] = thread[k]
    BY <1>1, <2>1
  <2>4. \A k \in Jobs : statusMap'[k] # "absent" => At(k, "wait")'
    BY <2>3 DEF Answers, At
  <2>5. \A k \in Jobs : statusMap'[k] = "good" =>
          <<thread'[k].file, Head(thread'[k].todo)>> \in marks'
    BY <2>3 DEF Answers
  <2> QED
    BY <2>2, <2>4, <2>5 DEF Answers
<1> QED
  BY <1>2, <1>4, <1>5, <1>6, <1>7

LEMMA WaitAnsweredKeeps ==
    ASSUME Inv, NEW j \in Jobs, WaitAnswered(j)
    PROVE  Inv'
<1> USE DEF WaitAnswered, Inv
<1>1. ~Ended(j) /\ ~At(j, "check") /\ ~At(j, "reopen") /\ ~At(j, "new")
  BY DEF Ended, At
<1>2. \A r \in asked : r.job # j
  BY <1>1 DEF Answers
<1>3. CASE statusMap[j] = "bad"
  BY <1>1, <1>3, EndKeeps
<1>4. CASE statusMap[j] = "good"
  <2> DEFINE todo == thread[j].todo
  <2>1. todo # <<>> /\ todo \in Seq(Apps)
    BY DEF Progress, TypeOK
  <2>2. /\ Tail(todo) \in Seq(Apps) /\ ToSet(todo) = ToSet(Tail(todo)) \cup {Head(todo)}
    BY <2>1, HeadTailFacts
  <2>3. \A a \in staying \ ToSet(Tail(todo)) : <<thread[j].file, a>> \in marks
    BY <1>4, <2>2 DEF Progress, Answers
  <2>4. CASE Tail(todo) # <<>>
    <3>1. /\ thread' \in [Jobs -> [step : Steps, file : Files, todo : Seq(Apps)]]
          /\ \A k \in Jobs \ {j} : thread'[k] = thread[k]
          /\ thread'[j].step = "ask" /\ thread'[j].file = thread[j].file
          /\ thread'[j].todo = Tail(todo)
      <4>1. thread' = [thread EXCEPT ![j].step = "ask", ![j].todo = Tail(todo)]
        BY <1>4, <2>4
      <4>2. Tail(todo) \in Seq(Apps) /\ "ask" \in Steps
        BY <2>2 DEF Steps
      <4> QED
        BY <4>1, <4>2 DEF TypeOK
    <3>2. TypeOK'
      BY <3>1 DEF TypeOK, apps
    <3>3. \A k \in Jobs \ {j} : Ended(k) /\ Ended(k)'
      BY <1>1, <3>1 DEF OneAtATime, Ended
    <3>4. OneAtATime'
      BY <3>3 DEF OneAtATime
    <3>5. StillThere'
      BY <1>1, <3>3 DEF StillThere, apps
    <3>6. \A k \in Jobs : Progress(k)'
      <4> TAKE k \in Jobs
      <4>1. CASE k = j
        <5>1. \A f \in Files : f < thread[j].file => Marked(f)'
          BY DEF Progress, Marked
        <5> QED
          BY <2>3, <2>4, <3>1, <4>1, <5>1 DEF Progress, At
      <4>2. CASE k # j
        BY <3>1, <3>3, <4>2 DEF Progress, At, Ended
      <4> QED
        BY <4>1, <4>2
    <3>7. Answers'
      <4>1. \A r \in asked : r.job \in Jobs \ {j}
        BY <1>2 DEF TypeOK, Requests
      <4>2. \A r \in asked : thread'[r.job] = thread[r.job] /\ Ended(r.job)
        BY <3>1, <3>3, <4>1
      <4>3. \A k \in Jobs : statusMap'[k] = "absent"
        BY <3>3 DEF Answers, Ended, At, TypeOK
      <4> QED
        BY <4>2, <4>3 DEF Answers, At, Ended
    <3> QED
      BY <3>2, <3>4, <3>5, <3>6, <3>7
  <2>5. CASE Tail(todo) = <<>>
    <3>1. ToSet(Tail(todo)) = {}
      BY <2>5, EmptyListFacts
    <3>2. Marked(thread[j].file)
      BY <2>3, <3>1 DEF Marked
    <3>3. NextFile(j)
      BY <1>4, <2>5
    <3> QED
      BY <1>1, <1>2, <3>2, <3>3, NextFileKeeps
  <2> QED
    BY <2>4, <2>5
<1> QED
  BY <1>3, <1>4

LEMMA ThreadStepKeeps ==
    ASSUME Inv, NEW j \in Jobs, ThreadStep(j)
    PROVE  Inv'
<1>1. CASE CheckRegistered(j)
  BY <1>1, CheckRegisteredKeeps
<1>2. CASE CopyCallbacks(j)
  BY <1>2, CopyCallbacksKeeps
<1>3. CASE TriggerWatermarkProcess(j)
  BY <1>3, TriggerKeeps
<1>4. CASE WaitAnswered(j)
  BY <1>4, WaitAnsweredKeeps
<1>5. CASE WaitTimesOut(j)
  <2>1. ~At(j, "new")
    BY <1>5 DEF WaitTimesOut, At
  <2> QED
    BY <1>5, <2>1, EndKeeps DEF WaitTimesOut
<1>6. CASE ReopenCache(j)
  <2>1. ~At(j, "new") /\ ~At(j, "wait")
    BY <1>6 DEF ReopenCache, At
  <2>2. statusMap' = [statusMap EXCEPT ![j] = "absent"]
    BY <1>6, <2>1 DEF ReopenCache, Inv, Answers, TypeOK
  <2> QED
    BY <1>6, <2>1, <2>2, EndKeeps DEF ReopenCache
<1> QED
  BY <1>1, <1>2, <1>3, <1>4, <1>5, <1>6 DEF ThreadStep

-----------------------------------------------------------------------------
(* The steps of the applications *)

\* what an application does to the callbacks keeps those who stay in them
LEMMA CallbacksKeep ==
    ASSUME Inv, TypeOK', staying' \subseteq staying,
           \/ staying' \subseteq ToSet(callbacks')
           \/ \A j \in Jobs : Ended(j) \/ At(j, "check"),
           asked' \subseteq asked, UNCHANGED <<statusMap, thread, marks>>
    PROVE  Inv'
<1> USE DEF Inv
<1>1. OneAtATime'
  BY DEF OneAtATime, Ended
<1>2. StillThere'
  BY DEF StillThere, Ended, At
<1>3. \A j \in Jobs : Progress(j)'
  BY DEF Progress, At, Marked
<1>4. Answers'
  BY DEF Answers, At, Ended, Request
<1> QED
  BY <1>1, <1>2, <1>3, <1>4

\* nobody stays but who is registered, or nothing depends on it
LEMMA StayersAreRegistered ==
    ASSUME Inv
    PROVE  staying \subseteq ToSet(callbacks) \/ \A j \in Jobs : Ended(j) \/ At(j, "check")
BY DEF Inv, StillThere

\* the callback of one application goes
LEMMA EraseFacts ==
    ASSUME Inv, NEW a \in Apps, Erase(a)
    PROVE  /\ callbacks' \in Seq(Apps)
           /\ ToSet(callbacks) \subseteq ToSet(callbacks') \cup {a}
           /\ staying' = staying \ {a}
BY RemoveFirstFacts DEF Inv, TypeOK, Erase

LEMMA AppStepKeeps ==
    ASSUME Inv, NEW a \in Apps, AppStep(a)
    PROVE  Inv'
<1>1. CASE RegisterCallback(a)
  <2>1. callbacks \in Seq(Apps)
    BY DEF Inv, TypeOK
  <2>2. callbacks' \in Seq(Apps) /\ ToSet(callbacks) \subseteq ToSet(callbacks')
    BY <1>1, <2>1, AppendFacts DEF RegisterCallback
  <2>3. TypeOK'
    BY <1>1, <2>2 DEF Inv, TypeOK, RegisterCallback
  <2>4. /\ staying' = staying /\ asked' = asked
        /\ UNCHANGED <<statusMap, thread, marks>>
    BY <1>1 DEF RegisterCallback
  <2>5. \/ staying' \subseteq ToSet(callbacks')
        \/ \A j \in Jobs : Ended(j) \/ At(j, "check")
    BY <2>2, <2>4, StayersAreRegistered
  <2> QED
    BY <2>3, <2>4, <2>5, CallbacksKeep
<1>2. CASE UnregisterCallback(a)
  <2>1. /\ callbacks' \in Seq(Apps) /\ staying' = staying \ {a}
        /\ ToSet(callbacks) \subseteq ToSet(callbacks') \cup {a}
    BY <1>2, EraseFacts DEF UnregisterCallback
  <2>2. TypeOK' /\ asked' = asked /\ UNCHANGED <<statusMap, thread, marks>>
    BY <1>2, <2>1 DEF Inv, TypeOK, UnregisterCallback
  <2>3. \/ staying' \subseteq ToSet(callbacks')
        \/ \A j \in Jobs : Ended(j) \/ At(j, "check")
    BY <2>1, StayersAreRegistered
  <2> QED
    BY <2>1, <2>2, <2>3, CallbacksKeep
<1>3. CASE AppDies(a)
  <2>1. TypeOK' /\ asked' \subseteq asked /\ UNCHANGED <<callbacks, staying>>
        /\ UNCHANGED <<statusMap, thread, marks>>
    BY <1>3 DEF Inv, TypeOK, AppDies
  <2> QED
    BY <2>1, StayersAreRegistered, CallbacksKeep
<1>4. CASE OnCallbackDied(a)
  <2>1. /\ callbacks' \in Seq(Apps) /\ staying' = staying \ {a}
        /\ ToSet(callbacks) \subseteq ToSet(callbacks') \cup {a}
    BY <1>4, EraseFacts DEF OnCallbackDied
  <2>2. TypeOK' /\ asked' = asked /\ UNCHANGED <<statusMap, thread, marks>>
    BY <1>4, <2>1 DEF Inv, TypeOK, OnCallbackDied
  <2>3. \/ staying' \subseteq ToSet(callbacks')
        \/ \A j \in Jobs : Ended(j) \/ At(j, "check")
    BY <2>1, StayersAreRegistered
  <2> QED
    BY <2>1, <2>2, <2>3, CallbacksKeep
<1> QED
  BY <1>1, <1>2, <1>3, <1>4 DEF AppStep

\* An answer in time is the one to the request that is open; one that comes
\* too late finds no entry of its job.
LEMMA AnswerKeeps ==
    ASSUME Inv, NEW r \in asked, NEW good \in BOOLEAN, Answer(r, good)
    PROVE  Inv'
<1> USE DEF Answer, Inv
<1>1. /\ r \in Requests /\ r.job \in Jobs /\ r.file \in Files /\ r.app \in Apps
  BY DEF TypeOK, Requests
<1>2. \A k \in Jobs \ {r.job} : statusMap'[k] = statusMap[k]
  BY DEF NotifyComplete, TypeOK
<1>3. statusMap'[r.job] = IF statusMap[r.job] = "absent" THEN "absent"
                          ELSE IF good THEN "good" ELSE "bad"
  BY <1>1 DEF NotifyComplete, TypeOK
<1>4. marks \subseteq marks' /\ marks' \subseteq Files \X Apps
  BY <1>1 DEF TypeOK
<1>5. TypeOK'
  BY <1>1, <1>2, <1>3, <1>4 DEF TypeOK, NotifyComplete, apps
<1>6. OneAtATime' /\ StillThere'
  BY DEF OneAtATime, StillThere, Ended, At, apps
<1>7. \A j \in Jobs : Progress(j)'
  BY <1>4 DEF Progress, At, Marked
<1>8. \A j \in Jobs : statusMap'[j] # "absent" => At(j, "wait")'
  BY <1>2, <1>3 DEF Answers, At
<1>9. ASSUME NEW j \in Jobs, statusMap'[j] = "good"
      PROVE  <<thread'[j].file, Head(thread'[j].todo)>> \in marks'
  <2>1. CASE j # r.job
    BY <1>2, <1>4, <1>9, <2>1 DEF Answers
  <2>2. CASE j = r.job
    <3>1. statusMap[j] # "absent" /\ good
      BY <1>3, <1>9, <2>2
    <3>2. ~Ended(j)
      BY <3>1 DEF Answers, At, Ended
    <3>3. r = Request(j)
      BY <2>2, <3>2 DEF Answers
    <3>4. <<r.file, r.app>> \in marks'
      BY <2>2, <3>1, <3>2
    <3> QED
      BY <3>3, <3>4 DEF Request
  <2> QED
    BY <2>1, <2>2
<1>10. ASSUME NEW q \in asked'
       PROVE  ~At(q.job, "new")' /\ (~Ended(q.job)' =>
                /\ At(q.job, "wait")' /\ statusMap'[q.job] = "pending"
                /\ q = Request(q.job)')
  <2>1. q \in asked /\ q # r /\ q.job \in Jobs
    BY DEF TypeOK, Requests
  <2>2. CASE Ended(q.job)
    BY <2>1, <2>2 DEF Answers, At, Ended
  <2>3. CASE ~Ended(q.job)
    <3>1. q = Request(q.job)
      BY <2>1, <2>3 DEF Answers
    <3>2. q.job # r.job
      BY <2>1, <2>3, <3>1 DEF Answers
    <3> QED
      BY <1>2, <2>1, <2>3, <3>1, <3>2 DEF Answers, At, Ended, Request
  <2> QED
    BY <2>2, <2>3
<1>11. Answers'
  BY <1>8, <1>9, <1>10 DEF Answers
<1> QED
  BY <1>5, <1>6, <1>7, <1>11

-----------------------------------------------------------------------------
(* The theorems *)

LEMMA Invariance == Spec => []Inv
<1>1. Inv /\ [Next]_vars => Inv'
  <2> SUFFICES ASSUME Inv, [Next]_vars
               PROVE  Inv'
    OBVIOUS
  <2>1. ASSUME NEW j \in Jobs, OpenCache(j)
        PROVE  Inv'
    BY <2>1, OpenCacheKeeps
  <2>2. ASSUME NEW j \in Jobs, ThreadStep(j)
        PROVE  Inv'
    BY <2>2, ThreadStepKeeps
  <2>3. ASSUME NEW a \in Apps, AppStep(a)
        PROVE  Inv'
    BY <2>3, AppStepKeeps
  <2>4. ASSUME NEW r \in asked, NEW good \in BOOLEAN, Answer(r, good)
        PROVE  Inv'
    BY <2>4, AnswerKeeps
  <2>5. CASE UNCHANGED vars
    BY <2>5 DEF vars, apps, Inv, TypeOK, OneAtATime, StillThere, Progress, Answers,
                Ended, At, Request, Marked
  <2> QED
    BY <2>1, <2>2, <2>3, <2>4, <2>5 DEF Next
<1> QED
  BY <1>1, InitInv, PTL DEF Spec

\* The watermark manager and the threads that wait in it keep their types: a
\* thread never counts beyond the files of its job.
THEOREM TypeCorrect == Spec => []TypeOK
<1>1. Inv => TypeOK
  BY DEF Inv
<1> QED
  BY <1>1, Invariance, PTL

\* A job that is about to be sent has on each of its files the mark of every
\* application that stayed registered since the job was checked
\* (WatermarkManager::ProcessWatermarkForFiles), whoever else came, left, died
\* or answered too late.
THEOREM FilesAreMarked == Spec => []MarkedByAll
<1>1. Inv => MarkedByAll
  <2> SUFFICES ASSUME Inv, NEW j \in Jobs, At(j, "reopen")
               PROVE  Files \X staying \subseteq marks
    BY DEF MarkedByAll
  <2>1. \A f \in Files : \A a \in staying : <<f, a>> \in marks
    BY DEF Inv, Progress, Marked
  <2> QED
    BY <2>1
<1> QED
  BY <1>1, Invariance, PTL
=============================================================================
