----------------------------- MODULE EmailQueue -----------------------------
(* The e-mail queue and its workers (worker/queues/email).  A worker takes a
   job, looks its user up, sends the mail and reports the outcome to BullMQ;
   each of these is a call it awaits, and it may stop before any of them.
   BullMQ itself is outside the repository: a job is locked by the worker that
   took it, an active job without a lock is stalled and is taken again. *)
EXTENDS Accounts, Integers, FiniteSets

CONSTANTS
    Kinds,      \* the kinds of mail in play, out of "signin", "verify", "reset"
    Jobs,
    Workers,    \* worker processes, each with concurrency 1
    Attempts,   \* defaultJobOptions.attempts, 0 unless configured
    MaxStalled  \* how often BullMQ takes a stalled job again: once

ASSUME QueueAssumption ==
    /\ Kinds \subseteq {"signin", "verify", "reset"} /\ Kinds # {}
    /\ None \notin Jobs \cup Workers /\ IsFiniteSet(Workers)
    /\ Attempts \in Nat /\ MaxStalled \in Nat

VARIABLES job, worker

jobVars == <<job, worker>>
queueVars == <<email, job, worker>>

(* The job a request queues: magic links name the address, the others the user. *)
JobData == [kind : Kinds, user : Users \cup {None}, address : Emails \cup {None}]
(* What a job not queued yet has instead: no user and no address, some kind. *)
AnyKind == CHOOSE k \in Kinds : TRUE
NoData == [kind |-> AnyKind, user |-> None, address |-> None]

(* attempts and stalls are BullMQ's counters; sent counts the mails handed to
   the mail server for the job, which nobody stores. *)
Job == [state : {"new", "waiting", "active", "delayed", "completed", "failed"},
        data : JobData, lock : Workers \cup {None},
        attempts : Nat, stalls : Nat, sent : Nat]

Worker == [at : {"idle", "Lookup", "Send", "Done", "Threw"},
           job : Jobs \cup {None}, to : Emails \cup {None}]

Idle == [at |-> "idle", job |-> None, to |-> None]
Finished(j) == job[j].state \in {"completed", "failed"}

-----------------------------------------------------------------------------
(* add: the job waits for a worker. *)
Enqueue(j, data) ==
    /\ job[j].state = "new"
    /\ job' = [job EXCEPT ![j] = [@ EXCEPT !.state = "waiting", !.data = data]]
    /\ UNCHANGED worker

Take(w, j) ==
    /\ worker[w].at = "idle"
    /\ job[j].state = "waiting"
    /\ job' = [job EXCEPT ![j] = [@ EXCEPT !.state = "active", !.lock = w]]
    /\ worker' = [worker EXCEPT ![w] = [at |-> "Lookup", job |-> j, to |-> None]]

Addressed(data, u) ==
    IF data.kind = "signin" THEN email[u] = data.address ELSE u = data.user

(* Mutant: a missing user is not looked out for. *)
RecipientsUnchecked(data) == {u \in Users : Addressed(data, u)}

(* The users a job's mail is for: at most one, or none any more. *)
Recipients(data) == {u \in Users : email[u] # None /\ Addressed(data, u)}

Goes(w, at, to) ==
    worker' = [worker EXCEPT ![w] = [@ EXCEPT !.at = at, !.to = to]]

(* Without a user the job ends without a mail; the query itself may fail. *)
Lookup(w) ==
    /\ worker[w].at = "Lookup"
    /\ LET found == Recipients(job[worker[w].job].data)
       IN  \/ \E u \in found : Goes(w, "Send", email[u])
           \/ found = {} /\ Goes(w, "Done", None)
           \/ Goes(w, "Threw", None)
    /\ UNCHANGED job

Mailed(j) == job' = [job EXCEPT ![j].sent = @ + 1]

(* Mutant: a failure to send is logged and not thrown. *)
SendSwallowsErrors(w) ==
    /\ worker[w].at = "Send"
    /\ \/ Mailed(worker[w].job) /\ Goes(w, "Done", None)
       \/ UNCHANGED job /\ Goes(w, "Done", None)

(* sendMail: the mail server accepts the mail, or refuses it, or accepts it and
   the answer is lost. *)
Send(w) ==
    /\ worker[w].at = "Send"
    /\ \/ Mailed(worker[w].job) /\ Goes(w, "Done", None)
       \/ UNCHANGED job /\ Goes(w, "Threw", None)
       \/ Mailed(worker[w].job) /\ Goes(w, "Threw", None)

-----------------------------------------------------------------------------
(* The outcome of a job: BullMQ takes it only from the holder of the lock. *)
Complete(w) ==
    LET j == worker[w].job
    IN  /\ worker[w].at = "Done"
        /\ worker' = [worker EXCEPT ![w] = Idle]
        /\ IF job[j].lock = w
           THEN job' = [job EXCEPT ![j] =
                          [@ EXCEPT !.state = "completed", !.lock = None]]
           ELSE UNCHANGED job

(* Mutant: off by one. *)
RetriesOnceMore(j) == job[j].attempts < Attempts

(* A job that throws is retried while attempts are left, after a backoff. *)
Retries(j) == job[j].attempts + 1 < Attempts

Fail(w) ==
    LET j == worker[w].job
    IN  /\ worker[w].at = "Threw"
        /\ worker' = [worker EXCEPT ![w] = Idle]
        /\ IF job[j].lock = w
           THEN job' = [job EXCEPT ![j] =
                  [@ EXCEPT !.state = IF Retries(j) THEN "delayed" ELSE "failed",
                            !.lock = None, !.attempts = job[j].attempts + 1]]
           ELSE UNCHANGED job

(* The backoff of a failed job has passed. *)
Promote(j) ==
    /\ job[j].state = "delayed"
    /\ job' = [job EXCEPT ![j].state = "waiting"]
    /\ UNCHANGED worker

Unlocked(w) ==
    IF job[worker[w].job].lock = w
    THEN job' = [job EXCEPT ![worker[w].job].lock = None]
    ELSE UNCHANGED job

(* The worker stops, and its lock expires. *)
Crash(w) ==
    /\ worker[w].at # "idle"
    /\ worker' = [worker EXCEPT ![w] = Idle]
    /\ Unlocked(w)

(* The worker fails to renew its lock, and works on. *)
LoseLock(w) ==
    /\ worker[w].at # "idle"
    /\ job[worker[w].job].lock = w
    /\ Unlocked(w)
    /\ UNCHANGED worker

(* Mutant: stalled jobs are never looked for. *)
NoStalledCheck(j) == FALSE

(* The check for stalled jobs, every stalledInterval. *)
StalledCheck(j) ==
    /\ job[j].state = "active" /\ job[j].lock = None
    /\ job' = [job EXCEPT ![j] =
         [@ EXCEPT !.state = IF job[j].stalls < MaxStalled THEN "waiting" ELSE "failed",
                   !.stalls = job[j].stalls + 1]]
    /\ UNCHANGED worker

-----------------------------------------------------------------------------
QueueInit ==
    /\ AccountInit
    /\ job = [j \in Jobs |-> [state |-> "new", data |-> NoData, lock |-> None,
                              attempts |-> 0, stalls |-> 0, sent |-> 0]]
    /\ worker = [w \in Workers |-> Idle]

(* What a request may queue: a link for an address, or one for a user. *)
Requested(k) ==
    IF k = "signin" THEN [kind : {k}, user : {None}, address : Emails]
                    ELSE [kind : {k}, user : Users, address : {None}]

QueueStep ==
    \/ \E w \in Workers, j \in Jobs : Take(w, j)
    \/ \E w \in Workers : \/ Lookup(w) \/ Send(w) \/ Complete(w) \/ Fail(w)
                          \/ Crash(w) \/ LoseLock(w)
    \/ \E j \in Jobs : Promote(j) \/ StalledCheck(j)

AccountStep ==
    \E u \in Users : DeleteUser(u) \/ \E e \in Emails : ChangeEmail(u, e)

(* The queue on its own, under any requests and any changes of the accounts. *)
QueueNext ==
    \/ QueueStep /\ UNCHANGED email
    \/ AccountStep /\ UNCHANGED jobVars
    \/ \E j \in Jobs, k \in Kinds : \E d \in Requested(k) : Enqueue(j, d) /\ UNCHANGED email

(* The workers run and the calls they await settle; no fairness for a crash. *)
QueueFairness ==
    /\ \A j \in Jobs : /\ WF_jobVars(\E w \in Workers : Take(w, j))
                       /\ WF_jobVars(Promote(j) \/ StalledCheck(j))
    /\ \A w \in Workers :
         WF_jobVars(Lookup(w) \/ Send(w) \/ Complete(w) \/ Fail(w))

QueueSpec == QueueInit /\ [][QueueNext]_queueVars /\ QueueFairness

QueueTypeOK ==
    /\ email \in [Users -> Emails \cup {None}]
    /\ job \in [Jobs -> Job]
    /\ worker \in [Workers -> Worker]
    /\ \A w \in Workers :
         /\ worker[w].at # "idle" => worker[w].job \in Jobs
         /\ worker[w].at = "Send" => worker[w].to \in Emails

-----------------------------------------------------------------------------
(* A job is tried once even when no attempts are configured. *)
Chances == IF Attempts = 0 THEN 1 ELSE Attempts

(* Retries and stalls hand out a mail more than once, but not without bound: the
   attempts configured, and one more for every stall BullMQ allows
   (bull.config.ts, defaultJobOptions). *)
MailsPerJobBounded ==
    \A j \in Jobs :
        job[j].sent <= Chances + MaxStalled

(* A job for a user who exists is reported completed only after a mail left:
   no failure on the way to the mail server is taken for success. (A sign-in
   link names an address: a user may have come to it after the job ended.) *)
CompletedMeansSentOrGone ==
    \A j \in Jobs :
        job[j].state = "completed" /\ job[j].sent = 0 =>
            job[j].data.kind = "signin" \/ Recipients(job[j].data) = {}

(* Every mail that is queued is completed or given up, across crashes of the
   workers. *)
EveryJobFinishes ==
    \A j \in Jobs : job[j].state = "waiting" ~> Finished(j)
=============================================================================
