-------------------------- MODULE EmailQueue_proofs --------------------------
(* Proofs about EmailQueue, for any number of jobs, workers, attempts and
   stalls. *)
EXTENDS EmailQueue, FiniteSetTheorems, TLAPS

(* The workers that may still send a mail for a job, the lock lost or not. *)
Busy(j) == {w \in Workers : worker[w].job = j /\ worker[w].at \in {"Lookup", "Send"}}

(* A lock is held on an active job, by a worker that is on it. *)
LockSound(j) ==
    LET w == job[j].lock
    IN  w # None => /\ job[j].state = "active"
                    /\ worker[w].at # "idle" /\ worker[w].job = j

(* Every time the job was taken ended in a failure or a stall that was counted,
   except the one it is in now or was completed in; each time sends one mail at
   most. *)
TakesLeft(j) == IF job[j].state \in {"active", "completed"} THEN 1 ELSE 0

SentSound(j) ==
    job[j].sent + Cardinality(Busy(j)) <= job[j].attempts + job[j].stalls + TakesLeft(j)

CountersSound(j) ==
    /\ job[j].attempts + job[j].stalls <= Chances + MaxStalled
    /\ job[j].state # "failed" => job[j].attempts < Chances /\ job[j].stalls <= MaxStalled

(* A worker is on a job that was queued, and is done with it only after a mail
   or for want of a user. *)
DoneWith(j) ==
    \/ job[j].sent > 0
    \/ job[j].data.kind = "signin"
    \/ Recipients(job[j].data) = {}

WorkerSound(w) ==
    worker[w].at # "idle" =>
      /\ job[worker[w].job].state # "new"
      /\ worker[w].at = "Done" => DoneWith(worker[w].job)

QueueInv ==
    /\ QueueTypeOK
    /\ \A j \in Jobs : LockSound(j)
    /\ \A j \in Jobs : SentSound(j)
    /\ \A j \in Jobs : CountersSound(j)
    /\ \A w \in Workers : WorkerSound(w)
    /\ CompletedMeansSentOrGone

-----------------------------------------------------------------------------
LEMMA SomeKind == AnyKind \in Kinds
<1>1. PICK k \in Kinds : TRUE
  BY QueueAssumption
<1> QED
  BY <1>1 DEF AnyKind

LEMMA QueueTypeInit == QueueInit => QueueTypeOK
BY AccountNone, QueueAssumption, SomeKind
   DEF AccountInit, QueueInit, QueueTypeOK, Job, JobData, NoData, Worker, Idle

(* A job with one or more fields replaced by values of their types is a job. *)
LEMMA JobUpdates ==
    ASSUME NEW x \in Job
    PROVE  /\ \A s \in {"waiting", "active", "delayed", "completed", "failed"},
                 l \in Workers \cup {None} :
                [x EXCEPT !.state = s, !.lock = l] \in Job
           /\ \A s \in {"waiting", "delayed", "failed"} :
                /\ [x EXCEPT !.state = s] \in Job
                /\ [x EXCEPT !.state = s, !.stalls = x.stalls + 1] \in Job
                /\ [x EXCEPT !.state = s, !.lock = None, !.attempts = x.attempts + 1] \in Job
           /\ \A d \in JobData : [x EXCEPT !.state = "waiting", !.data = d] \in Job
           /\ [x EXCEPT !.sent = x.sent + 1] \in Job
           /\ [x EXCEPT !.lock = None] \in Job
<1>1. x.stalls + 1 \in Nat /\ x.attempts + 1 \in Nat /\ x.sent + 1 \in Nat
  BY DEF Job
<1> QED
  BY <1>1 DEF Job

(* The accounts keep their types. *)
LEMMA AccountType ==
    ASSUME QueueTypeOK, AccountStep
    PROVE  email' \in [Users -> Emails \cup {None}]
BY DEF QueueTypeOK, AccountStep, DeleteUser, ChangeEmail

(* Replacing one job, or one worker, by one of its type. *)
LEMMA JobType ==
    ASSUME QueueTypeOK, NEW j \in Jobs, NEW x \in Job, job' = [job EXCEPT ![j] = x]
    PROVE  job' \in [Jobs -> Job]
BY DEF QueueTypeOK

LEMMA UnlockedType ==
    ASSUME QueueTypeOK, NEW w \in Workers, worker[w].job \in Jobs, Unlocked(w)
    PROVE  job' \in [Jobs -> Job]
<1>1. [job[worker[w].job] EXCEPT !.lock = None] \in Job
  BY JobUpdates DEF QueueTypeOK
<1> QED
  BY <1>1, JobType DEF Unlocked, QueueTypeOK

WorkersTyped(f) ==
    /\ f \in [Workers -> Worker]
    /\ \A w \in Workers :
         /\ f[w].at # "idle" => f[w].job \in Jobs
         /\ f[w].at = "Send" => f[w].to \in Emails

LEMMA WorkerType ==
    ASSUME QueueTypeOK, NEW w \in Workers, NEW x \in Worker,
           worker' = [worker EXCEPT ![w] = x],
           x.at # "idle" => x.job \in Jobs, x.at = "Send" => x.to \in Emails
    PROVE  WorkersTyped(worker')
BY DEF QueueTypeOK, WorkersTyped

LEMMA IdleType == Idle \in Worker /\ Idle.at = "idle"
BY DEF Idle, Worker

LEMMA GoesType ==
    ASSUME QueueTypeOK, NEW w \in Workers, worker[w].at # "idle",
           NEW at \in {"Send", "Done", "Threw"}, NEW to \in Emails \cup {None},
           at = "Send" => to \in Emails, Goes(w, at, to)
    PROVE  WorkersTyped(worker')
<1>1. [worker[w] EXCEPT !.at = at, !.to = to] \in Worker
  BY DEF QueueTypeOK, Worker
<1> QED
  BY <1>1, WorkerType DEF Goes, QueueTypeOK, Worker

LEMMA QueueTypeStep == QueueTypeOK /\ [QueueNext]_queueVars => QueueTypeOK'
<1> SUFFICES ASSUME QueueTypeOK, [QueueNext]_queueVars PROVE QueueTypeOK'
  OBVIOUS
<1> USE DEF QueueTypeOK, WorkersTyped
<1>1. ASSUME NEW j \in Jobs, NEW k \in Kinds, NEW d \in Requested(k),
             Enqueue(j, d), UNCHANGED email
      PROVE  QueueTypeOK'
  <2>1. d \in JobData
    BY <1>1 DEF Requested, JobData
  <2> QED  BY <1>1, <2>1, JobUpdates, JobType DEF Enqueue
<1>2. ASSUME NEW w \in Workers, NEW j \in Jobs, Take(w, j), UNCHANGED email
      PROVE  QueueTypeOK'
  <2>1. job' \in [Jobs -> Job]
    BY <1>2, JobUpdates, JobType DEF Take
  <2>2. [at |-> "Lookup", job |-> j, to |-> None] \in Worker
    BY DEF Worker
  <2>3. WorkersTyped(worker')
    BY <1>2, <2>2, WorkerType DEF Take
  <2> QED  BY <1>2, <2>1, <2>3
<1>3. ASSUME NEW w \in Workers, Lookup(w), UNCHANGED email PROVE QueueTypeOK'
  <2> DEFINE found == Recipients(job[worker[w].job].data)
  <2>1. \A u \in found : email[u] \in Emails
    BY DEF Recipients
  <2>2. WorkersTyped(worker')
    BY <1>3, <2>1, GoesType DEF Lookup
  <2> QED  BY <1>3, <2>2 DEF Lookup
<1>4. ASSUME NEW w \in Workers, Send(w), UNCHANGED email PROVE QueueTypeOK'
  <2>1. WorkersTyped(worker')
    BY <1>4, GoesType DEF Send
  <2>2. job' \in [Jobs -> Job]
    BY <1>4, JobUpdates, JobType DEF Send, Mailed
  <2> QED  BY <1>4, <2>1, <2>2
<1>5. ASSUME NEW w \in Workers, Complete(w) \/ Fail(w) \/ Crash(w), UNCHANGED email
      PROVE  QueueTypeOK'
  <2>1. WorkersTyped(worker')
    BY <1>5, IdleType, WorkerType DEF Complete, Fail, Crash
  <2>2. worker[w].job \in Jobs
    BY <1>5 DEF Complete, Fail, Crash
  <2>3. job' \in [Jobs -> Job]
    <3>1. CASE Complete(w)
      BY <3>1, <2>2, JobUpdates, JobType DEF Complete
    <3>2. CASE Fail(w)
      <4>1. CASE Retries(worker[w].job)
        BY <3>2, <4>1, <2>2, JobUpdates, JobType DEF Fail
      <4>2. CASE ~Retries(worker[w].job)
        BY <3>2, <4>2, <2>2, JobUpdates, JobType DEF Fail
      <4> QED  BY <4>1, <4>2
    <3>3. CASE Crash(w)
      BY <3>3, <2>2, UnlockedType DEF Crash
    <3> QED  BY <1>5, <3>1, <3>2, <3>3
  <2> QED  BY <1>5, <2>1, <2>3
<1>6. ASSUME NEW w \in Workers, LoseLock(w), UNCHANGED email PROVE QueueTypeOK'
  BY <1>6, UnlockedType DEF LoseLock
<1>7. ASSUME NEW j \in Jobs, Promote(j) \/ StalledCheck(j), UNCHANGED email
      PROVE  QueueTypeOK'
  <2>1. CASE Promote(j)
    BY <2>1, <1>7, JobUpdates, JobType DEF Promote
  <2>2. CASE StalledCheck(j)
    BY <2>2, <1>7, JobUpdates, JobType DEF StalledCheck
  <2> QED  BY <1>7, <2>1, <2>2
<1>8. CASE AccountStep /\ UNCHANGED jobVars
  BY <1>8, AccountType DEF jobVars
<1>9. CASE UNCHANGED queueVars
  BY <1>9 DEF queueVars, jobVars
<1> QED
  BY <1>1, <1>2, <1>3, <1>4, <1>5, <1>6, <1>7, <1>8, <1>9 DEF QueueNext, QueueStep

-----------------------------------------------------------------------------
(* Fewer busy workers are no more of them. *)
LEMMA BusyCount ==
    ASSUME NEW j
    PROVE  IsFiniteSet(Busy(j)) /\ Cardinality(Busy(j)) \in Nat
BY QueueAssumption, FS_Subset, FS_CardinalityType DEF Busy

LEMMA BusyShrinks ==
    ASSUME NEW j, Busy(j)' \subseteq Busy(j)
    PROVE  Cardinality(Busy(j)') \in Nat /\ Cardinality(Busy(j)') <= Cardinality(Busy(j))
<1>1. IsFiniteSet(Busy(j)) /\ Cardinality(Busy(j)) \in Nat
  BY BusyCount
<1>2. IsFiniteSet(Busy(j)') /\ Cardinality(Busy(j)') <= Cardinality(Busy(j))
  BY <1>1, FS_Subset
<1> QED
  BY <1>2, FS_CardinalityType

(* The counters of a job, as numbers. *)
LEMMA JobNumbers ==
    ASSUME QueueTypeOK, NEW j \in Jobs
    PROVE  /\ job[j].sent \in Nat /\ job[j].attempts \in Nat /\ job[j].stalls \in Nat
           /\ TakesLeft(j) \in {0, 1} /\ Chances \in Nat /\ Chances > 0
           /\ job[j].attempts + job[j].stalls \in Nat
           /\ MaxStalled \in Nat /\ Attempts \in Nat
BY QueueAssumption DEF QueueTypeOK, Job, TakesLeft, Chances

(* A step that sends nothing, and takes no job, leaves the account balanced as
   long as a take that ends is counted. *)
LEMMA SentFrame ==
    ASSUME QueueTypeOK, QueueTypeOK', NEW j \in Jobs, SentSound(j),
           Busy(j)' \subseteq Busy(j), job'[j].sent = job[j].sent,
           job[j].attempts + job[j].stalls + TakesLeft(j)
             <= job'[j].attempts + job'[j].stalls + TakesLeft(j)'
    PROVE  SentSound(j)'
<1> DEFINE c == Cardinality(Busy(j))
           d == Cardinality(Busy(j)')
<1>1. c \in Nat /\ d \in Nat /\ d <= c
  BY BusyCount, BusyShrinks
<1>2. job[j].sent + c <= job[j].attempts + job[j].stalls + TakesLeft(j)
  BY DEF SentSound
<1>3. /\ job[j].sent \in Nat /\ job[j].attempts \in Nat /\ job[j].stalls \in Nat
      /\ TakesLeft(j) \in {0, 1}
  BY JobNumbers
<1>4. /\ job'[j].attempts \in Nat /\ job'[j].stalls \in Nat /\ TakesLeft(j)' \in {0, 1}
  BY DEF QueueTypeOK, Job, TakesLeft
<1> HIDE DEF c, d
<1>5. job[j].sent + d <= job'[j].attempts + job'[j].stalls + TakesLeft(j)'
  BY <1>1, <1>2, <1>3, <1>4
<1> QED
  BY <1>5 DEF SentSound, d

(* What Goes says of the workers one by one. *)
LEMMA GoesTo ==
    ASSUME QueueTypeOK, NEW w \in Workers, NEW at, NEW to, Goes(w, at, to)
    PROVE  /\ worker'[w].job = worker[w].job /\ worker'[w].at = at
           /\ \A v \in Workers : v # w => worker'[v] = worker[v]
BY DEF Goes, QueueTypeOK, Worker

(* The job a busy worker takes, and the job it sends for. *)
LEMMA BusyTake ==
    ASSUME QueueTypeOK, NEW w \in Workers, NEW i \in Jobs, Take(w, i), NEW j \in Jobs
    PROVE  /\ j = i => Cardinality(Busy(j)') = Cardinality(Busy(j)) + 1
           /\ j # i => Busy(j)' \subseteq Busy(j)
<1>1. j = i => Busy(j)' = Busy(j) \cup {w} /\ w \notin Busy(j)
  BY DEF Take, Busy, QueueTypeOK
<1>2. j # i => Busy(j)' \subseteq Busy(j)
  BY DEF Take, Busy, QueueTypeOK
<1> QED
  BY <1>1, <1>2, BusyCount, FS_AddElement

LEMMA BusySend ==
    ASSUME QueueTypeOK, NEW w \in Workers, Send(w), NEW j \in Jobs
    PROVE  /\ j = worker[w].job => Cardinality(Busy(j)') = Cardinality(Busy(j)) - 1
           /\ Busy(j)' \subseteq Busy(j)
<1>1. j = worker[w].job => Busy(j)' = Busy(j) \ {w} /\ w \in Busy(j)
  BY GoesTo DEF Send, Busy
<1>2. Busy(j)' \subseteq Busy(j)
  BY GoesTo DEF Send, Busy
<1> QED
  BY <1>1, <1>2, BusyCount, FS_RemoveElement

(* The actions, one by one: what each case of a proof below is about. *)
QueueCase ==
    \/ \E j \in Jobs, k \in Kinds : \E d \in Requested(k) : Enqueue(j, d)
    \/ \E w \in Workers, j \in Jobs : Take(w, j)
    \/ \E w \in Workers : \/ Lookup(w) \/ Send(w) \/ Complete(w) \/ Fail(w)
                          \/ Crash(w) \/ LoseLock(w)
    \/ \E j \in Jobs : Promote(j) \/ StalledCheck(j)

LEMMA NextCases ==
    [QueueNext]_queueVars =>
        \/ QueueCase /\ UNCHANGED email
        \/ (AccountStep \/ UNCHANGED email) /\ UNCHANGED jobVars
BY DEF QueueCase, QueueNext, QueueStep, queueVars, jobVars

(* A worker that goes on, goes idle or loses its lock makes no job busier. *)
LEMMA BusyRest ==
    ASSUME QueueTypeOK, NEW w \in Workers, NEW j \in Jobs,
           Lookup(w) \/ Complete(w) \/ Fail(w) \/ Crash(w) \/ LoseLock(w)
    PROVE  Busy(j)' \subseteq Busy(j)
<1>1. CASE Lookup(w)
  BY <1>1, GoesTo DEF Lookup, Busy
<1>2. CASE Complete(w) \/ Fail(w) \/ Crash(w)
  BY <1>2 DEF Complete, Fail, Crash, Busy, Idle, QueueTypeOK
<1>3. CASE LoseLock(w)
  BY <1>3 DEF LoseLock, Busy
<1> QED
  BY <1>1, <1>2, <1>3

(* What the holder of the lock reports of its job. *)
LEMMA CompleteOutcome ==
    ASSUME QueueTypeOK, NEW w \in Workers, Complete(w), NEW j \in Jobs,
           j = worker[w].job, job[j].lock = w
    PROVE  /\ job'[j].state = "completed" /\ job'[j].lock = None
           /\ job'[j].sent = job[j].sent /\ job'[j].data = job[j].data
           /\ job'[j].attempts = job[j].attempts /\ job'[j].stalls = job[j].stalls
<1>1. job[j] \in Job /\ job' = [job EXCEPT ![j] =
                           [job[j] EXCEPT !.state = "completed", !.lock = None]]
  BY DEF Complete, QueueTypeOK
<1> QED
  BY <1>1 DEF Job, QueueTypeOK

LEMMA FailOutcome ==
    ASSUME QueueTypeOK, NEW w \in Workers, Fail(w), NEW j \in Jobs,
           j = worker[w].job, job[j].lock = w
    PROVE  /\ job'[j].state = IF Retries(j) THEN "delayed" ELSE "failed"
           /\ job'[j].lock = None
           /\ job'[j].sent = job[j].sent /\ job'[j].data = job[j].data
           /\ job'[j].attempts = job[j].attempts + 1
           /\ job'[j].stalls = job[j].stalls
<1> DEFINE s == IF Retries(j) THEN "delayed" ELSE "failed"
<1>1. job[j] \in Job /\ job' = [job EXCEPT ![j] =
          [job[j] EXCEPT !.state = s, !.lock = None, !.attempts = job[j].attempts + 1]]
  BY DEF Fail, QueueTypeOK
<1> HIDE DEF s
<1>2. /\ job'[j].state = s /\ job'[j].lock = None
      /\ job'[j].sent = job[j].sent /\ job'[j].data = job[j].data
      /\ job'[j].attempts = job[j].attempts + 1
      /\ job'[j].stalls = job[j].stalls
  BY <1>1 DEF Job, QueueTypeOK
<1> QED
  BY <1>2 DEF s

(* Every take is accounted for, by a mail, a failure, a stall or the job being
   active or completed. *)
LEMMA SentStep ==
    ASSUME QueueInv, QueueTypeOK', [QueueNext]_queueVars, NEW j \in Jobs
    PROVE  SentSound(j)'
<1>0. QueueTypeOK /\ SentSound(j) /\ LockSound(j)
  BY DEF QueueInv
<1>n. /\ job[j].sent \in Nat /\ job[j].attempts \in Nat /\ job[j].stalls \in Nat
      /\ TakesLeft(j) \in {0, 1} /\ Cardinality(Busy(j)) \in Nat
  BY <1>0, JobNumbers, BusyCount
<1> DEFINE Quiet == /\ Busy(j)' \subseteq Busy(j) /\ job'[j].sent = job[j].sent
                    /\ job[j].attempts + job[j].stalls + TakesLeft(j)
                         <= job'[j].attempts + job'[j].stalls + TakesLeft(j)'
<1>q. Quiet => SentSound(j)'
  BY <1>0, SentFrame
<1>1. ASSUME NEW i \in Jobs, NEW k \in Kinds, NEW d \in Requested(k), Enqueue(i, d)
      PROVE  Quiet
  BY <1>0, <1>n, <1>1 DEF Enqueue, Busy, TakesLeft, QueueTypeOK, Job
<1>2. ASSUME NEW w \in Workers, NEW i \in Jobs, Take(w, i) PROVE SentSound(j)'
  <2>1. CASE j = i
    <3>1. /\ job'[j].sent = job[j].sent /\ job'[j].attempts = job[j].attempts
          /\ job'[j].stalls = job[j].stalls /\ TakesLeft(j) = 0 /\ TakesLeft(j)' = 1
      BY <1>0, <1>2, <2>1 DEF Take, TakesLeft, QueueTypeOK, Job
    <3>2. Cardinality(Busy(j)') = Cardinality(Busy(j)) + 1
      BY <1>0, <1>2, <2>1, BusyTake
    <3> QED  BY <1>0, <1>n, <3>1, <3>2 DEF SentSound
  <2>2. CASE j # i
    <3>1. job'[j] = job[j] /\ Busy(j)' \subseteq Busy(j)
      BY <1>0, <1>2, <2>2, BusyTake DEF Take, QueueTypeOK
    <3> QED  BY <1>n, <1>q, <3>1 DEF TakesLeft
  <2> QED  BY <2>1, <2>2
<1>3. ASSUME NEW w \in Workers, Lookup(w) PROVE Quiet
  BY <1>0, <1>n, <1>3, BusyRest DEF Lookup, TakesLeft
<1>4. ASSUME NEW w \in Workers, Send(w) PROVE SentSound(j)'
  <2>1. CASE j = worker[w].job
    <3>1. /\ job'[j].sent \in {job[j].sent, job[j].sent + 1}
          /\ job'[j].attempts = job[j].attempts
          /\ job'[j].stalls = job[j].stalls /\ TakesLeft(j)' = TakesLeft(j)
      BY <1>0, <1>4, <2>1 DEF Send, Mailed, TakesLeft, QueueTypeOK, Job
    <3>2. Cardinality(Busy(j)') = Cardinality(Busy(j)) - 1
      BY <1>0, <1>4, <2>1, BusySend
    <3> QED  BY <1>0, <1>n, <3>1, <3>2 DEF SentSound
  <2>2. CASE j # worker[w].job
    <3>1. job'[j] = job[j] /\ Busy(j)' \subseteq Busy(j)
      BY <1>0, <1>4, <2>2, BusySend DEF Send, Mailed, QueueTypeOK
    <3> QED  BY <1>n, <1>q, <3>1 DEF TakesLeft
  <2> QED  BY <2>1, <2>2
<1>5. ASSUME NEW w \in Workers, Complete(w) PROVE Quiet
  <2>1. Busy(j)' \subseteq Busy(j)
    BY <1>0, <1>5, BusyRest
  <2>2. CASE j = worker[w].job /\ job[j].lock = w
    <3>1. /\ job'[j].sent = job[j].sent /\ job'[j].attempts = job[j].attempts
          /\ job'[j].stalls = job[j].stalls /\ TakesLeft(j)' = 1
      BY <1>0, <1>5, <2>2, CompleteOutcome DEF TakesLeft
    <3> QED  BY <1>n, <2>1, <3>1
  <2>3. CASE ~(j = worker[w].job /\ job[j].lock = w)
    <3>1. job'[j] = job[j]
      BY <1>0, <1>5, <2>3 DEF Complete, QueueTypeOK
    <3> QED  BY <1>n, <2>1, <3>1 DEF TakesLeft
  <2> QED  BY <2>2, <2>3
<1>6. ASSUME NEW w \in Workers, Fail(w) PROVE Quiet
  <2>1. Busy(j)' \subseteq Busy(j)
    BY <1>0, <1>6, BusyRest
  <2>2. CASE j = worker[w].job /\ job[j].lock = w
    <3>1. /\ job'[j].sent = job[j].sent /\ job'[j].attempts = job[j].attempts + 1
          /\ job'[j].stalls = job[j].stalls /\ TakesLeft(j)' = 0
      BY <1>0, <1>6, <2>2, FailOutcome DEF TakesLeft
    <3> QED  BY <1>0, <1>n, <2>1, <3>1
  <2>3. CASE ~(j = worker[w].job /\ job[j].lock = w)
    <3>1. job'[j] = job[j]
      BY <1>0, <1>6, <2>3 DEF Fail, QueueTypeOK
    <3> QED  BY <1>n, <2>1, <3>1 DEF TakesLeft
  <2> QED  BY <2>2, <2>3
<1>7. ASSUME NEW w \in Workers, Crash(w) \/ LoseLock(w) PROVE Quiet
  <2>1. Busy(j)' \subseteq Busy(j)
    BY <1>0, <1>7, BusyRest
  <2>2. /\ job'[j].sent = job[j].sent /\ job'[j].attempts = job[j].attempts
        /\ job'[j].stalls = job[j].stalls /\ job'[j].state = job[j].state
    BY <1>0, <1>7 DEF Crash, LoseLock, Unlocked, QueueTypeOK, Job
  <2> QED  BY <1>n, <2>1, <2>2 DEF TakesLeft
<1>8. ASSUME NEW i \in Jobs, Promote(i) PROVE Quiet
  BY <1>0, <1>n, <1>8 DEF Promote, Busy, TakesLeft, QueueTypeOK, Job
<1>9. ASSUME NEW i \in Jobs, StalledCheck(i) PROVE Quiet
  <2>1. Busy(j)' \subseteq Busy(j)
    BY <1>9 DEF StalledCheck, Busy
  <2>2. CASE j = i
    <3>1. /\ job'[j].sent = job[j].sent /\ job'[j].attempts = job[j].attempts
          /\ job'[j].stalls = job[j].stalls + 1 /\ TakesLeft(j)' = 0
      BY <1>0, <1>9, <2>2 DEF StalledCheck, TakesLeft, QueueTypeOK, Job
    <3> QED  BY <1>n, <2>1, <3>1
  <2>3. CASE j # i
    <3>1. job'[j] = job[j]
      BY <1>0, <1>9, <2>3 DEF StalledCheck, QueueTypeOK
    <3> QED  BY <1>n, <2>1, <3>1 DEF TakesLeft
  <2> QED  BY <2>2, <2>3
<1>10. CASE UNCHANGED jobVars
  BY <1>n, <1>q, <1>10 DEF jobVars, Busy, TakesLeft
<1> HIDE DEF Quiet
<1> QED
  BY <1>q, <1>1, <1>2, <1>3, <1>4, <1>5, <1>6, <1>7, <1>8, <1>9, <1>10, NextCases
     DEF QueueCase

-----------------------------------------------------------------------------
(* How a step changes a job that is not the one it is about, or is. *)
Kept(j) ==
    /\ job[j].state # "new" => job'[j].state # "new" /\ job'[j].data = job[j].data
    /\ job'[j].sent >= job[j].sent
    /\ Finished(j) => job'[j].state = job[j].state
    /\ job'[j].state = "completed" /\ job[j].state # "completed" =>
         \E w \in Workers : worker[w].at = "Done" /\ worker[w].job = j

Counted(j) ==
    \/ /\ job'[j].attempts = job[j].attempts /\ job'[j].stalls = job[j].stalls
       /\ job'[j].state # "failed" => job[j].state # "failed"
    \/ /\ job[j].state = "active" /\ job'[j].stalls = job[j].stalls
       /\ job'[j].attempts = job[j].attempts + 1
       /\ job'[j].state # "failed" => job[j].attempts + 1 < Attempts
    \/ /\ job[j].state = "active" /\ job'[j].attempts = job[j].attempts
       /\ job'[j].stalls = job[j].stalls + 1
       /\ job'[j].state # "failed" => job[j].stalls < MaxStalled

LEMMA JobStep ==
    ASSUME QueueInv, [QueueNext]_queueVars, NEW j \in Jobs
    PROVE  Kept(j) /\ Counted(j)
<1>0. QueueTypeOK /\ LockSound(j)
  BY DEF QueueInv
<1>n. job[j] \in Job /\ job[j].sent \in Nat
  BY <1>0 DEF QueueTypeOK, Job
<1>s. job'[j] = job[j] => Kept(j) /\ Counted(j)
  BY <1>n DEF Kept, Counted
<1>1. ASSUME NEW i \in Jobs, NEW k \in Kinds, NEW d \in Requested(k), Enqueue(i, d)
      PROVE  Kept(j) /\ Counted(j)
  BY <1>0, <1>n, <1>1 DEF Enqueue, Kept, Counted, Finished, QueueTypeOK, Job
<1>2. ASSUME NEW w \in Workers, NEW i \in Jobs, Take(w, i) PROVE Kept(j) /\ Counted(j)
  BY <1>0, <1>n, <1>2 DEF Take, Kept, Counted, Finished, QueueTypeOK, Job
<1>3. ASSUME NEW w \in Workers, Lookup(w) PROVE Kept(j) /\ Counted(j)
  BY <1>s, <1>3 DEF Lookup
<1>4. ASSUME NEW w \in Workers, Send(w) PROVE Kept(j) /\ Counted(j)
  BY <1>0, <1>n, <1>4 DEF Send, Mailed, Kept, Counted, Finished, QueueTypeOK, Job
<1>5. ASSUME NEW w \in Workers, Complete(w) PROVE Kept(j) /\ Counted(j)
  <2>1. CASE j = worker[w].job /\ job[j].lock = w
    <3>1. job[j].state = "active" /\ worker[w].at = "Done"
      BY <1>0, <1>5, <2>1, QueueAssumption DEF LockSound, Complete
    <3> QED
      BY <1>0, <1>n, <1>5, <2>1, <3>1, CompleteOutcome DEF Kept, Counted, Finished
  <2>2. CASE ~(j = worker[w].job /\ job[j].lock = w)
    BY <1>0, <1>s, <1>5, <2>2 DEF Complete, QueueTypeOK
  <2> QED  BY <2>1, <2>2
<1>6. ASSUME NEW w \in Workers, Fail(w) PROVE Kept(j) /\ Counted(j)
  <2>1. CASE j = worker[w].job /\ job[j].lock = w
    <3>1. job[j].state = "active"
      BY <1>0, <1>6, <2>1, QueueAssumption DEF LockSound
    <3> QED
      BY <1>0, <1>n, <1>6, <2>1, <3>1, FailOutcome DEF Kept, Counted, Finished, Retries
  <2>2. CASE ~(j = worker[w].job /\ job[j].lock = w)
    BY <1>0, <1>s, <1>6, <2>2 DEF Fail, QueueTypeOK
  <2> QED  BY <2>1, <2>2
<1>7. ASSUME NEW w \in Workers, Crash(w) \/ LoseLock(w) PROVE Kept(j) /\ Counted(j)
  <2>1. /\ job'[j].sent = job[j].sent /\ job'[j].attempts = job[j].attempts
        /\ job'[j].stalls = job[j].stalls /\ job'[j].state = job[j].state
        /\ job'[j].data = job[j].data
    BY <1>0, <1>7 DEF Crash, LoseLock, Unlocked, QueueTypeOK, Job
  <2> QED  BY <1>n, <2>1 DEF Kept, Counted, Finished
<1>8. ASSUME NEW i \in Jobs, Promote(i) PROVE Kept(j) /\ Counted(j)
  BY <1>0, <1>n, <1>8 DEF Promote, Kept, Counted, Finished, QueueTypeOK, Job
<1>9. ASSUME NEW i \in Jobs, StalledCheck(i) PROVE Kept(j) /\ Counted(j)
  <2>1. CASE j = i
    <3>1. /\ job'[j].sent = job[j].sent /\ job'[j].attempts = job[j].attempts
          /\ job'[j].stalls = job[j].stalls + 1 /\ job'[j].data = job[j].data
          /\ job'[j].state = IF job[j].stalls < MaxStalled THEN "waiting" ELSE "failed"
          /\ job[j].state = "active"
      BY <1>0, <1>9, <2>1 DEF StalledCheck, QueueTypeOK, Job
    <3> QED  BY <1>n, <3>1 DEF Kept, Counted, Finished
  <2>2. CASE j # i
    BY <1>0, <1>s, <1>9, <2>2 DEF StalledCheck, QueueTypeOK
  <2> QED  BY <2>1, <2>2
<1>10. CASE UNCHANGED jobVars
  BY <1>s, <1>10 DEF jobVars
<1> QED
  BY <1>1, <1>2, <1>3, <1>4, <1>5, <1>6, <1>7, <1>8, <1>9, <1>10, NextCases DEF QueueCase

LEMMA CountersStep ==
    ASSUME QueueInv, [QueueNext]_queueVars, NEW j \in Jobs
    PROVE  CountersSound(j)'
<1>1. CountersSound(j) /\ Counted(j)
  BY JobStep DEF QueueInv
<1>2. /\ job[j].attempts \in Nat /\ job[j].stalls \in Nat /\ Chances \in Nat
      /\ Chances > 0 /\ MaxStalled \in Nat /\ Attempts \in Nat
      /\ (Attempts > 0 => Chances = Attempts)
  BY JobNumbers DEF QueueInv, Chances
<1> QED
  BY <1>1, <1>2 DEF CountersSound, Counted, Chances

LEMMA LockStep ==
    ASSUME QueueInv, [QueueNext]_queueVars, NEW j \in Jobs
    PROVE  LockSound(j)'
<1>0. QueueTypeOK /\ LockSound(j)
  BY DEF QueueInv
<1>1. ASSUME NEW i \in Jobs, NEW k \in Kinds, NEW d \in Requested(k), Enqueue(i, d)
      PROVE  LockSound(j)'
  BY <1>0, <1>1 DEF Enqueue, LockSound, QueueTypeOK, Job
<1>2. ASSUME NEW w \in Workers, NEW i \in Jobs, Take(w, i) PROVE LockSound(j)'
  BY <1>0, <1>2 DEF Take, LockSound, QueueTypeOK, Job
<1>3. ASSUME NEW w \in Workers, Lookup(w) PROVE LockSound(j)'
  BY <1>0, <1>3, GoesTo DEF Lookup, LockSound, QueueTypeOK, Job
<1>4. ASSUME NEW w \in Workers, Send(w) PROVE LockSound(j)'
  <2>1. job'[j].lock = job[j].lock /\ job'[j].state = job[j].state
    BY <1>0, <1>4 DEF Send, Mailed, QueueTypeOK, Job
  <2>2. \A v \in Workers : /\ worker'[v].job = worker[v].job
                           /\ worker[v].at # "idle" => worker'[v].at # "idle"
    BY <1>0, <1>4, GoesTo DEF Send
  <2> QED  BY <1>0, <2>1, <2>2 DEF LockSound, QueueTypeOK, Job
<1>5. ASSUME NEW w \in Workers, Complete(w) \/ Fail(w) \/ Crash(w) PROVE LockSound(j)'
  <2>1. \A v \in Workers : v # w => worker'[v] = worker[v]
    BY <1>0, <1>5 DEF Complete, Fail, Crash, QueueTypeOK
  <2>2. CASE j = worker[w].job /\ job[j].lock = w
    <3>1. job'[j].lock = None
      <4>1. CASE Crash(w)
        BY <1>0, <2>2, <4>1 DEF Crash, Unlocked, QueueTypeOK, Job
      <4> QED  BY <1>0, <1>5, <2>2, <4>1, CompleteOutcome, FailOutcome
    <3> QED  BY <3>1 DEF LockSound
  <2>3. CASE ~(j = worker[w].job /\ job[j].lock = w)
    <3>1. job'[j] = job[j]
      BY <1>0, <1>5, <2>3 DEF Complete, Fail, Crash, Unlocked, QueueTypeOK
    <3>2. job[j].lock # None => job[j].lock \in Workers /\ job[j].lock # w
      BY <1>0, <2>3 DEF LockSound, QueueTypeOK, Job
    <3> QED  BY <1>0, <2>1, <3>1, <3>2 DEF LockSound
  <2> QED  BY <2>2, <2>3
<1>6. ASSUME NEW w \in Workers, LoseLock(w) PROVE LockSound(j)'
  BY <1>0, <1>6 DEF LoseLock, Unlocked, LockSound, QueueTypeOK, Job
<1>7. ASSUME NEW i \in Jobs, Promote(i) \/ StalledCheck(i) PROVE LockSound(j)'
  <2>1. CASE Promote(i)
    BY <1>0, <2>1 DEF Promote, LockSound, QueueTypeOK, Job
  <2>2. CASE StalledCheck(i)
    <3>1. worker' = worker /\ job'[j].lock = job[j].lock
          /\ (job[j].lock # None => job'[j].state = job[j].state)
      BY <1>0, <2>2 DEF StalledCheck, QueueTypeOK, Job
    <3> QED  BY <1>0, <3>1 DEF LockSound
  <2> QED  BY <1>7, <2>1, <2>2
<1>8. CASE UNCHANGED jobVars
  BY <1>0, <1>8 DEF jobVars, LockSound
<1> QED
  BY <1>1, <1>2, <1>3, <1>4, <1>5, <1>6, <1>7, <1>8, NextCases DEF QueueCase

-----------------------------------------------------------------------------
(* A user who is gone does not come back, and what was sent stays sent. *)
LEMMA GoneStaysGone ==
    ASSUME QueueTypeOK, [QueueNext]_queueVars, NEW u \in Users, email[u] = None
    PROVE  email'[u] = None
BY NextCases DEF AccountStep, ChangeEmail, DeleteUser, QueueTypeOK

LEMMA DoneWithStays ==
    ASSUME QueueInv, [QueueNext]_queueVars, NEW j \in Jobs, job[j].state # "new", DoneWith(j)
    PROVE  DoneWith(j)'
<1>1. job'[j].data = job[j].data /\ job'[j].sent >= job[j].sent
  BY JobStep DEF Kept
<1>2. job[j].sent \in Nat /\ job'[j].sent \in Nat /\ QueueTypeOK
  BY QueueTypeStep DEF QueueInv, QueueTypeOK, Job
<1>3. CASE job[j].sent > 0
  BY <1>1, <1>2, <1>3 DEF DoneWith
<1>4. CASE job[j].data.kind = "signin"
  BY <1>1, <1>4 DEF DoneWith
<1>5. CASE job[j].data.kind # "signin" /\ Recipients(job[j].data) = {}
  <2>1. Recipients(job[j].data)' = {}
    <3> SUFFICES ASSUME NEW u \in Users, email'[u] # None, Addressed(job[j].data, u)'
                 PROVE  FALSE
      BY DEF Recipients
    <3>1. Addressed(job[j].data, u)
      BY <1>1, <1>5 DEF Addressed
    <3>2. email[u] # None
      BY <1>2, GoneStaysGone
    <3> QED  BY <1>5, <3>1, <3>2 DEF Recipients
  <2> QED  BY <2>1 DEF DoneWith
<1> QED
  BY <1>3, <1>4, <1>5 DEF DoneWith

(* A worker that goes on keeps its job; only a mail or the want of a user takes
   it to Done. *)
LEMMA WorkerStep ==
    ASSUME QueueInv, [QueueNext]_queueVars, NEW w \in Workers
    PROVE  WorkerSound(w)'
<1>0. QueueTypeOK /\ WorkerSound(w)
  BY DEF QueueInv
<1>s. worker'[w] = worker[w] => WorkerSound(w)'
  <2> SUFFICES ASSUME worker'[w] = worker[w], worker[w].at # "idle"
               PROVE  /\ job'[worker[w].job].state # "new"
                      /\ worker[w].at = "Done" => DoneWith(worker[w].job)'
    BY DEF WorkerSound, DoneWith
  <2>1. worker[w].job \in Jobs /\ job[worker[w].job].state # "new"
    BY <1>0 DEF WorkerSound, QueueTypeOK
  <2>2. job'[worker[w].job].state # "new"
    BY <2>1, JobStep DEF Kept
  <2>3. worker[w].at = "Done" => DoneWith(worker[w].job)'
    BY <1>0, <2>1, DoneWithStays DEF WorkerSound
  <2> QED  BY <2>2, <2>3
<1>1. ASSUME NEW j \in Jobs, Take(w, j) PROVE WorkerSound(w)'
  BY <1>0, <1>1 DEF Take, WorkerSound, QueueTypeOK, Job
<1>2. ASSUME Lookup(w) PROVE WorkerSound(w)'
  <2>1. PICK j \in Jobs : j = worker[w].job /\ job[j].state # "new"
    BY <1>0, <1>2 DEF Lookup, WorkerSound, QueueTypeOK
  <2>2. worker'[w].job = j /\ job'[j].state # "new"
    BY <1>0, <1>2, <2>1, GoesTo DEF Lookup
  <2>3. worker'[w].at = "Done" => DoneWith(j)
    BY <1>0, <1>2, <2>1, GoesTo DEF Lookup, DoneWith
  <2>4. worker'[w].at = "Done" => DoneWith(j)'
    BY <2>1, <2>3, DoneWithStays
  <2> QED  BY <2>2, <2>4 DEF WorkerSound, DoneWith
<1>3. ASSUME Send(w) PROVE WorkerSound(w)'
  <2>1. worker[w].job \in Jobs /\ job[worker[w].job].state # "new"
    BY <1>0, <1>3 DEF Send, WorkerSound, QueueTypeOK
  <2>2. job'[worker[w].job].state # "new" /\ worker'[w].job = worker[w].job
    BY <1>0, <1>3, <2>1, JobStep, GoesTo DEF Send, Kept
  <2>3. worker'[w].at = "Done" => Mailed(worker[w].job)
    BY <1>0, <1>3, GoesTo DEF Send
  <2>4. worker'[w].at = "Done" => job'[worker[w].job].sent > 0
    BY <1>0, <2>1, <2>3 DEF Mailed, QueueTypeOK, Job
  <2> QED  BY <2>2, <2>4 DEF WorkerSound, DoneWith
<1>4. ASSUME Complete(w) \/ Fail(w) \/ Crash(w) PROVE WorkerSound(w)'
  BY <1>0, <1>4, IdleType DEF Complete, Fail, Crash, WorkerSound, QueueTypeOK
<1>5. ASSUME LoseLock(w) PROVE worker'[w] = worker[w]
  BY <1>5 DEF LoseLock
<1>6. ASSUME NEW v \in Workers, v # w,
             \/ \E j \in Jobs : Take(v, j)
             \/ Lookup(v) \/ Send(v) \/ Complete(v) \/ Fail(v) \/ Crash(v) \/ LoseLock(v)
      PROVE  worker'[w] = worker[w]
  BY <1>0, <1>6, GoesTo DEF Take, Lookup, Send, Complete, Fail, Crash, LoseLock, QueueTypeOK
<1>7. ASSUME NEW j \in Jobs,
             \/ \E k \in Kinds : \E d \in Requested(k) : Enqueue(j, d)
             \/ Promote(j) \/ StalledCheck(j)
      PROVE  worker' = worker
  BY <1>7 DEF Enqueue, Promote, StalledCheck
<1>8. CASE UNCHANGED jobVars
  BY <1>s, <1>8 DEF jobVars
<1> QED
  BY <1>s, <1>1, <1>2, <1>3, <1>4, <1>5, <1>6, <1>7, <1>8, NextCases DEF QueueCase

(* A job completes only when the worker that holds it is done with it. *)
LEMMA CompletedStep ==
    ASSUME QueueInv, [QueueNext]_queueVars
    PROVE  CompletedMeansSentOrGone'
<1> SUFFICES ASSUME NEW j \in Jobs, job'[j].state = "completed"
             PROVE  DoneWith(j)'
  BY DEF CompletedMeansSentOrGone, DoneWith
<1>1. CASE job[j].state = "completed"
  <2>1. job[j].sent = 0 \/ job[j].sent > 0
    BY JobNumbers DEF QueueInv
  <2>2. DoneWith(j)
    BY <1>1, <2>1 DEF QueueInv, CompletedMeansSentOrGone, DoneWith
  <2> QED  BY <1>1, <2>2, DoneWithStays
<1>2. CASE job[j].state # "completed"
  <2>1. PICK w \in Workers : worker[w].at = "Done" /\ worker[w].job = j
    BY <1>2, JobStep DEF Kept
  <2>2. job[j].state # "new" /\ DoneWith(j)
    BY <2>1 DEF QueueInv, WorkerSound
  <2> QED  BY <2>2, DoneWithStays
<1> QED
  BY <1>1, <1>2

-----------------------------------------------------------------------------
LEMMA QueueInvInit == QueueInit => QueueInv
<1> SUFFICES ASSUME QueueInit PROVE QueueInv
  OBVIOUS
<1>1. QueueTypeOK
  BY QueueTypeInit
<1>2. \A w \in Workers : worker[w].at = "idle"
  BY IdleType DEF QueueInit
<1>3. \A j \in Jobs : /\ job[j].state = "new" /\ job[j].lock = None
                      /\ job[j].attempts = 0 /\ job[j].stalls = 0 /\ job[j].sent = 0
  BY DEF QueueInit
<1>4. \A j \in Jobs : SentSound(j)
  <2> SUFFICES ASSUME NEW j \in Jobs PROVE SentSound(j)
    OBVIOUS
  <2>1. Busy(j) = {}
    BY <1>2 DEF Busy
  <2>2. Cardinality(Busy(j)) = 0
    BY <2>1, FS_EmptySet
  <2> QED  BY <1>3, <2>2 DEF SentSound, TakesLeft
<1>5. \A j \in Jobs : CountersSound(j)
  BY <1>1, <1>3, JobNumbers DEF CountersSound
<1> QED
  BY <1>1, <1>2, <1>3, <1>4, <1>5
     DEF QueueInv, LockSound, WorkerSound, CompletedMeansSentOrGone

LEMMA QueueInvStep == QueueInv /\ [QueueNext]_queueVars => QueueInv'
<1> SUFFICES ASSUME QueueInv, [QueueNext]_queueVars PROVE QueueInv'
  OBVIOUS
<1>1. QueueTypeOK'
  BY QueueTypeStep DEF QueueInv
<1>2. \A j \in Jobs : LockSound(j)' /\ SentSound(j)' /\ CountersSound(j)'
  BY <1>1, LockStep, SentStep, CountersStep
<1> QED
  BY <1>1, <1>2, WorkerStep, CompletedStep DEF QueueInv

LEMMA InvImplies == QueueInv => MailsPerJobBounded
<1> SUFFICES ASSUME QueueInv, NEW j \in Jobs PROVE job[j].sent <= Chances + MaxStalled
  BY DEF MailsPerJobBounded
<1>1. /\ job[j].sent \in Nat /\ job[j].attempts \in Nat /\ job[j].stalls \in Nat
      /\ Chances \in Nat /\ MaxStalled \in Nat /\ Cardinality(Busy(j)) \in Nat
  BY JobNumbers, BusyCount DEF QueueInv
<1>2. job[j].sent <= job[j].attempts + job[j].stalls + TakesLeft(j)
  BY <1>1, JobNumbers DEF QueueInv, SentSound
<1>3. /\ job[j].attempts + job[j].stalls <= Chances + MaxStalled
      /\ job[j].state # "failed" => job[j].attempts < Chances /\ job[j].stalls <= MaxStalled
  BY DEF QueueInv, CountersSound
<1> QED
  BY <1>1, <1>2, <1>3 DEF TakesLeft

(* Only Enqueue queues a job: the queue itself leaves new jobs alone, and the
   data of the others. *)
LEMMA QueueKeepsData ==
    ASSUME QueueInv, QueueStep, email' = email, NEW j \in Jobs
    PROVE  /\ job'[j].state = "new" <=> job[j].state = "new"
           /\ job[j].state # "new" => job'[j].data = job[j].data
<1>1. Kept(j)
  BY JobStep DEF QueueNext
<1>2. ASSUME job[j].state = "new" PROVE job'[j].state = "new"
  <2>1. QueueTypeOK /\ job[j].lock = None /\ \A w \in Workers : worker[w].at # "idle" => worker[w].job # j
    BY <1>2 DEF QueueInv, LockSound, WorkerSound
  <2>2. \A w \in Workers : Complete(w) \/ Fail(w) => job'[j] = job[j]
    BY <2>1 DEF Complete, Fail, QueueTypeOK
  <2>3. \A w \in Workers : Crash(w) \/ LoseLock(w) \/ Send(w) \/ Lookup(w)
                              => job'[j].state = job[j].state
    BY <2>1 DEF Crash, LoseLock, Unlocked, Send, Mailed, Lookup, QueueTypeOK, Job
  <2>4. \A i \in Jobs : Promote(i) \/ StalledCheck(i) => job'[j] = job[j]
    BY <1>2, <2>1 DEF Promote, StalledCheck, QueueTypeOK
  <2>5. \A w \in Workers, i \in Jobs : Take(w, i) => job'[j] = job[j]
    BY <1>2, <2>1 DEF Take, QueueTypeOK
  <2> QED  BY <1>2, <2>2, <2>3, <2>4, <2>5 DEF QueueStep
<1> QED
  BY <1>1, <1>2 DEF Kept

(* The queue keeps to its types. *)
THEOREM QueueTypeCorrect == QueueSpec => []QueueTypeOK
<1>1. QueueTypeOK /\ [QueueNext]_queueVars => QueueTypeOK'
  BY QueueTypeStep
<1> QED
  BY QueueTypeInit, <1>1, PTL DEF QueueSpec

LEMMA QueueInvHolds == QueueSpec => []QueueInv
BY QueueInvInit, QueueInvStep, PTL DEF QueueSpec

(* However many workers crash, lose their lock and go on, or fail after the
   mail server took the mail, the mails of one job are bounded. *)
THEOREM MailsBounded == QueueSpec => []MailsPerJobBounded
BY QueueInvHolds, InvImplies, PTL

(* No job for a user who exists is completed without a mail. *)
THEOREM CompletedSound == QueueSpec => []CompletedMeansSentOrGone
<1>1. QueueInv => CompletedMeansSentOrGone
  BY DEF QueueInv
<1> QED
  BY <1>1, QueueInvHolds, PTL

=============================================================================
