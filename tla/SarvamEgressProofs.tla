-------------------------- MODULE SarvamEgressProofs --------------------------
(***************************************************************************)
(* Proofs about SarvamEgress, for any number of requests, workers, polls   *)
(* and failures.                                                           *)
(*                                                                         *)
(* The inductive invariant ties three pieces of state together: a row of   *)
(* the log that names a job names one the provider accepted for that       *)
(* request (LogSound); the place a worker has reached in its call says     *)
(* what it knows of its job (Knows); and the log and the provider's jobs   *)
(* only grow, so what one worker knows is not undone by another.           *)
(***************************************************************************)
EXTENDS SarvamEgress, WellFoundedInduction, FiniteSetTheorems, TLAPS

RowType == [event : Events, key : Keys, job : Nat, status : Statuses \cup {NoStatus}]
JobType == [key : Keys, status : Statuses]

ReturnType == [kind : {"none", "remote", "local", "raised"}, job : Nat]

ControlTyped ==
    /\ config \in [Workers -> Configs]
    /\ pc \in [Workers -> Lines]
    /\ key \in [Workers -> Keys \cup {NoKey}]
    /\ job \in [Workers -> Nat]
    /\ attempt \in [Workers -> 1..MaxSubmissionAttempts]
    /\ polls \in [Workers -> 0..MaxPollAttempts]
    /\ resp \in [Workers -> Answers]
    /\ returned \in [Workers -> ReturnType]
    /\ lost \in SUBSET Nat
    /\ calls \in Nat /\ restarts \in Nat /\ appendFailures \in Nat

LogSound ==
    \A i \in 1..Len(log) :
      log[i].event = "submission" /\ log[i].job # NoJob =>
        log[i].job \in 1..Len(jobs) /\ jobs[log[i].job].key = log[i].key

HasResult == {"lookup", "looked_up", "download", "downloaded"}

(* What worker w knows at each line of its call. *)
Knows(w) ==
    /\ pc[w] # "idle" => key[w] \in Keys /\ returned[w].kind = "none"
    /\ pc[w] \in {"admitted", "submit", "posted"} => polls[w] = 0
    /\ pc[w] \in {"poll", "polled"} => polls[w] < MaxPollAttempts
    /\ pc[w] = "polled" => resp[w] \in Statuses \cup {"error"}
    /\ pc[w] \in Remote \cup {"admitted"} => Live(config[w])
    /\ pc[w] = "posted" /\ resp[w] = "accepted" =>
         job[w] \in 1..Len(jobs) /\ jobs[job[w]].key = key[w]
    /\ pc[w] \in Remote \ {"submit", "posted"} => Recorded(job[w], key[w])
    /\ pc[w] \in HasResult \/ (pc[w] = "polled" /\ resp[w] = "completed") =>
         jobs[job[w]].status = "completed"
    /\ returned[w].kind = "remote" =>
         /\ returned[w].job \in 1..Len(jobs)
         /\ jobs[returned[w].job] = [key |-> key[w], status |-> "completed"]
         /\ Recorded(returned[w].job, key[w])

IInv == TypeOK /\ LogSound /\ \A w \in Workers : Knows(w)

-----------------------------------------------------------------------------
(* Lemmas about the log *)

(* A non-empty set of positions of a sequence has a newest one. *)
LEMMA NewestExists ==
  ASSUME NEW n \in Nat, NEW S \in SUBSET (1..n), S # {}
  PROVE  Newest(S) \in S /\ \A j \in S : j <= Newest(S)
<1> DEFINE T == {m \in Nat : n - m \in S}
           R == OpToRel(<, Nat)
<1>1. T \subseteq Nat /\ T # {}
  <2>1. PICK i \in S : TRUE
    OBVIOUS
  <2>2. n - i \in T
    BY <2>1
  <2> QED
    BY <2>2
<1>2. IsWellFoundedOn(R, Nat)
  BY NatLessThanWellFounded
<1>3. PICK m \in T : \A y \in T : ~ (<<y, m>> \in R)
  <2> HIDE DEF R, T
  <2> QED
    BY <1>1, <1>2, WFMin
<1>4. \A y \in T : ~ (y < m)
  BY <1>1, <1>3 DEF OpToRel
<1>5. n - m \in S /\ \A j \in S : j <= n - m
  <2> SUFFICES ASSUME NEW j \in S PROVE j <= n - m
    BY <1>3
  <2>1. n - j \in T
    OBVIOUS
  <2> QED
    BY <2>1, <1>4
<1> QED
  BY <1>5 DEF Newest

(* TypeOK, with names for the types of rows, jobs and results. *)
LEMMA TypeParts == (TypeOK <=> /\ log \in Seq(RowType) /\ jobs \in Seq(JobType) /\ ControlTyped)
                   /\ (TypeOK' <=> /\ log' \in Seq(RowType) /\ jobs' \in Seq(JobType) /\ ControlTyped')
BY DEF TypeOK, RowType, JobType, ControlTyped, ReturnType

(* The positions of a typed sequence are 1..Len, its elements are typed. *)
LEMMA LogFacts ==
  ASSUME TypeOK
  PROVE  /\ log \in Seq(RowType) /\ Len(log) \in Nat /\ DOMAIN log = 1..Len(log)
         /\ \A i \in 1..Len(log) : log[i] \in RowType
         /\ jobs \in Seq(JobType) /\ Len(jobs) \in Nat /\ DOMAIN jobs = 1..Len(jobs)
         /\ \A j \in 1..Len(jobs) : jobs[j] \in JobType
<1>1. log \in Seq(RowType) /\ jobs \in Seq(JobType)
  BY DEF TypeOK, RowType, JobType
<1> QED
  BY <1>1

(* submitted_job returns the job of a submission row of this very request. *)
LEMMA SubmittedJobIsRecorded ==
  ASSUME TypeOK, NEW k, SubmittedJob(k) # NoJob
  PROVE  Recorded(SubmittedJob(k), k)
<1>1. SubmissionRows(k) # {} /\ SubmissionRows(k) \in SUBSET (1..Len(log))
  BY LogFacts DEF SubmittedJob, SubmissionRows
<1>2. Newest(SubmissionRows(k)) \in SubmissionRows(k)
  BY <1>1, NewestExists, LogFacts
<1>3. SubmittedJob(k) = log[Newest(SubmissionRows(k))].job
  BY <1>1 DEF SubmittedJob
<1> QED
  BY <1>2, <1>3 DEF Recorded

(* submitted_job returns none only if there is no submission row or a      *)
(* status row of the newest job says that it was unsuccessful.             *)
LEMMA NoSubmittedJobIsSettled ==
  ASSUME TypeOK, NEW k, SubmittedJob(k) = NoJob, SubmissionRows(k) # {}
  PROVE  /\ Newest(SubmissionRows(k)) \in SubmissionRows(k)
         /\ \A i \in SubmissionRows(k) : i <= Newest(SubmissionRows(k))
         /\ Settled(log[Newest(SubmissionRows(k))].job, k)
<1> DEFINE n == Newest(SubmissionRows(k))
           rows == StatusRows(log[n].job, k)
<1>1. SubmissionRows(k) \in SUBSET (1..Len(log))
  BY LogFacts DEF SubmissionRows
<1>2. n \in SubmissionRows(k) /\ \A i \in SubmissionRows(k) : i <= n
  BY <1>1, NewestExists, LogFacts
<1>3. log[n].job # NoJob
  BY <1>2 DEF SubmissionRows
<1>4. rows # {} /\ log[Newest(rows)].status \in Unsuccessful
  BY <1>3 DEF SubmittedJob
<1>5. rows \in SUBSET (1..Len(log))
  BY LogFacts DEF StatusRows
<1>6. Newest(rows) \in rows
  <2> HIDE DEF rows
  <2> QED
    BY <1>4, <1>5, NewestExists, LogFacts
<1> QED
  BY <1>2, <1>4, <1>6 DEF Settled

-----------------------------------------------------------------------------
(* The log and the jobs only grow *)

Longer(s, t) == Len(s) <= Len(t) /\ \A i \in 1..Len(s) : t[i] = s[i]

JobsGrow ==
    /\ Len(jobs) <= Len(jobs')
    /\ \A j \in 1..Len(jobs) :
         /\ jobs'[j].key = jobs[j].key
         /\ jobs[j].status = "completed" => jobs'[j] = jobs[j]

(* One append of the audit log adds one row at its end. *)
LEMMA AuditAppends ==
  ASSUME TypeOK, NEW w \in Workers, key[w] \in Keys, NEW e \in Events, NEW j \in Nat,
         NEW s \in Statuses \cup {NoStatus}, Audit(w, e, j, s)
  PROVE  /\ log' \in Seq(RowType)
         /\ Len(log') = Len(log) + 1
         /\ \A i \in 1..Len(log) : log'[i] = log[i]
         /\ log'[Len(log) + 1] = Row(e, key[w], j, s)
         /\ Longer(log, log')
<1>1. Row(e, key[w], j, s) \in RowType
  BY DEF Row, RowType
<1>2. log' = Append(log, Row(e, key[w], j, s))
  BY DEF Audit
<1> HIDE DEF Row, RowType
<1> QED
  BY <1>1, <1>2, LogFacts DEF Longer

(* What was recorded, and what was settled, stays so. *)
LEMMA RecordsStay ==
  ASSUME TypeOK, log' \in Seq(RowType), Longer(log, log'), NEW j, NEW k
  PROVE  /\ Recorded(j, k) => Recorded(j, k)'
         /\ Settled(j, k) => Settled(j, k)'
<1>1. DOMAIN log = 1..Len(log) /\ DOMAIN log' = 1..Len(log') /\ Len(log) \in Nat /\ Len(log') \in Nat
  BY LogFacts
<1>2. \A i \in 1..Len(log) : i \in 1..Len(log') /\ log'[i] = log[i]
  BY <1>1 DEF Longer
<1>3. SubmissionRows(k) \subseteq SubmissionRows(k)'
  BY <1>1, <1>2 DEF SubmissionRows
<1>4. StatusRows(j, k) \subseteq StatusRows(j, k)'
  BY <1>1, <1>2 DEF StatusRows
<1>5. SubmissionRows(k) \subseteq 1..Len(log) /\ StatusRows(j, k) \subseteq 1..Len(log)
  BY <1>1 DEF SubmissionRows, StatusRows
<1> QED
  BY <1>2, <1>3, <1>4, <1>5 DEF Recorded, Settled

(* A recorded job is one the provider accepted for that request. *)
LEMMA RecordedJobsExist ==
  ASSUME TypeOK, LogSound, NEW j, NEW k, Recorded(j, k)
  PROVE  j \in 1..Len(jobs) /\ jobs[j].key = k
BY LogFacts DEF Recorded, SubmissionRows, LogSound

(* A worker that does not move keeps what it knows, whoever else does. *)
LEMMA OthersKeepKnowing ==
  ASSUME IInv, log' \in Seq(RowType), Longer(log, log'), JobsGrow, jobs' \in Seq(JobType),
         NEW v \in Workers, pc'[v] = pc[v], key'[v] = key[v], job'[v] = job[v],
         polls'[v] = polls[v], resp'[v] = resp[v], config'[v] = config[v],
         returned'[v] = returned[v]
  PROVE  Knows(v)'
<1>1. \A j, k : Recorded(j, k) => Recorded(j, k)'
  BY RecordsStay DEF IInv
<1>2. Recorded(job[v], key[v]) => job[v] \in 1..Len(jobs) /\ jobs[job[v]].key = key[v]
  BY RecordedJobsExist DEF IInv
<1>3. Len(jobs) \in Nat /\ Len(jobs') \in Nat
  BY LogFacts DEF IInv
<1>4. Knows(v)
  BY DEF IInv
<1> DEFINE r == returned[v].job
<1>5. Recorded(job[v], key[v]) => Recorded(job[v], key[v])'
  <2>1. \A j, k : Recorded(j, k) => \E i \in SubmissionRows(k)' : log'[i].job = j
    BY <1>1 DEF Recorded
  <2>2. ASSUME Recorded(job[v], key[v]) PROVE \E i \in SubmissionRows(key[v])' : log'[i].job = job[v]
    BY <2>1, <2>2 DEF SubmissionRows
  <2> QED
    BY <2>2 DEF Recorded
<1>6. Recorded(r, key[v]) => Recorded(r, key[v])'
  <2>1. \A j, k : Recorded(j, k) => \E i \in SubmissionRows(k)' : log'[i].job = j
    BY <1>1 DEF Recorded
  <2>2. ASSUME Recorded(r, key[v]) PROVE \E i \in SubmissionRows(key[v])' : log'[i].job = r
    BY <2>1, <2>2 DEF SubmissionRows
  <2> QED
    BY <2>2 DEF Recorded
<1>7. (returned[v].kind = "remote" => /\ r \in 1..Len(jobs)
                                     /\ jobs[r] = [key |-> key[v], status |-> "completed"]
                                     /\ Recorded(r, key[v]))'
  <2> SUFFICES ASSUME returned[v].kind = "remote"
               PROVE  /\ (r \in 1..Len(jobs))'
                      /\ (jobs[r] = [key |-> key[v], status |-> "completed"])'
                      /\ Recorded(r, key[v])'
    OBVIOUS
  <2>1. r \in 1..Len(jobs) /\ jobs[r] = [key |-> key[v], status |-> "completed"] /\ Recorded(r, key[v])
    BY <1>4 DEF Knows
  <2>2. r' = r /\ key'[v] = key[v]
    OBVIOUS
  <2>3. jobs[r].status = "completed"
    BY <2>1
  <2>4. jobs'[r] = jobs[r] /\ r \in 1..Len(jobs')
    BY <1>3, <2>1, <2>3 DEF JobsGrow
  <2> QED
    BY <1>6, <2>1, <2>2, <2>4
<1>8. (pc[v] \in HasResult \/ (pc[v] = "polled" /\ resp[v] = "completed") =>
         jobs[job[v]].status = "completed")'
  BY <1>2, <1>3, <1>4 DEF Knows, JobsGrow, HasResult, Remote
<1>9. (pc[v] = "posted" /\ resp[v] = "accepted" =>
         job[v] \in 1..Len(jobs) /\ jobs[job[v]].key = key[v])'
  BY <1>3, <1>4 DEF Knows, JobsGrow
<1> QED
  BY <1>4, <1>5, <1>7, <1>8, <1>9 DEF Knows, Live

-----------------------------------------------------------------------------
(* Steps *)

Grow == /\ log' \in Seq(RowType) /\ Longer(log, log')
        /\ jobs' \in Seq(JobType) /\ JobsGrow

(* A log that is not touched has not lost rows. *)
LEMMA LogUnchanged ==
  ASSUME TypeOK, UNCHANGED log
  PROVE  log' \in Seq(RowType) /\ Longer(log, log')
<1>1. log \in Seq(RowType)
  BY DEF TypeOK, RowType
<1> QED
  BY <1>1 DEF Longer

(* Nor has the provider lost jobs. *)
LEMMA JobsUnchanged ==
  ASSUME TypeOK, UNCHANGED jobs
  PROVE  jobs' \in Seq(JobType) /\ JobsGrow
<1>1. jobs \in Seq(JobType)
  BY DEF TypeOK, JobType
<1> QED
  BY <1>1 DEF JobsGrow

(* Rows stay sound while only jobs are added. *)
LEMMA SameLogStaysSound ==
  ASSUME IInv, UNCHANGED log, JobsGrow, jobs' \in Seq(JobType)
  PROVE  LogSound'
<1>1. Len(jobs) \in Nat /\ Len(jobs') \in Nat
  BY LogFacts DEF IInv
<1> QED
  BY <1>1 DEF IInv, LogSound, JobsGrow

(* A row other than a submission, or one of a job of its request, may be   *)
(* appended.                                                               *)
LEMMA AuditStaysSound ==
  ASSUME IInv, NEW w \in Workers, key[w] \in Keys, NEW e \in Events, NEW j \in Nat,
         NEW s \in Statuses \cup {NoStatus}, Audit(w, e, j, s), UNCHANGED jobs,
         e = "submission" /\ j # NoJob => j \in 1..Len(jobs) /\ jobs[j].key = key[w]
  PROVE  LogSound' /\ Grow
<1>1. /\ log' \in Seq(RowType) /\ Len(log') = Len(log) + 1 /\ Longer(log, log')
      /\ \A i \in 1..Len(log) : log'[i] = log[i]
      /\ log'[Len(log) + 1] = Row(e, key[w], j, s)
  BY AuditAppends DEF IInv
<1>2. jobs' \in Seq(JobType) /\ JobsGrow
  BY JobsUnchanged DEF IInv
<1>3. Len(log) \in Nat
  BY LogFacts DEF IInv
<1>4. LogSound'
  <2> SUFFICES ASSUME NEW i \in 1..Len(log'), log'[i].event = "submission", log'[i].job # NoJob
               PROVE  log'[i].job \in 1..Len(jobs) /\ jobs[log'[i].job].key = log'[i].key
    BY DEF LogSound
  <2>1. CASE i \in 1..Len(log)
    BY <1>1, <2>1 DEF IInv, LogSound
  <2>2. CASE i = Len(log) + 1
    BY <1>1, <2>2 DEF Row
  <2> QED
    BY <1>1, <1>3, <2>1, <2>2
<1> QED
  BY <1>1, <1>2, <1>4 DEF Grow

(* The step of a worker leaves the others' knowledge alone. *)
LEMMA WorkerStep ==
  ASSUME IInv, NEW w \in Workers, Grow, ControlTyped', LogSound', Knows(w)',
         \A v \in Workers \ {w} :
            /\ pc'[v] = pc[v] /\ key'[v] = key[v] /\ job'[v] = job[v] /\ polls'[v] = polls[v]
            /\ resp'[v] = resp[v] /\ config'[v] = config[v] /\ returned'[v] = returned[v]
  PROVE  IInv' /\ Grow
<1>1. ASSUME NEW v \in Workers \ {w} PROVE Knows(v)'
  BY <1>1, OthersKeepKnowing DEF Grow
<1>2. TypeOK'
  BY TypeParts DEF Grow
<1> QED
  BY <1>1, <1>2 DEF IInv

(* What the worker knew to be recorded still is. *)
LEMMA OwnRecordStays ==
  ASSUME IInv, NEW w \in Workers, Grow, job'[w] = job[w], key'[w] = key[w],
         Recorded(job[w], key[w])
  PROVE  Recorded(job[w], key[w])'
<1>1. \A j, k : Recorded(j, k) => \E i \in SubmissionRows(k)' : log'[i].job = j
  BY RecordsStay DEF IInv, Grow, Recorded
<1>2. \E i \in SubmissionRows(key[w])' : log'[i].job = job[w]
  BY <1>1 DEF SubmissionRows
<1> QED
  BY <1>2 DEF Recorded

(* A step that moves one worker and leaves the log and the jobs alone. *)
LEMMA QuietStep ==
  ASSUME IInv, NEW w \in Workers, UNCHANGED <<log, jobs>>, ControlTyped', Knows(w)',
         \A v \in Workers \ {w} :
            /\ pc'[v] = pc[v] /\ key'[v] = key[v] /\ job'[v] = job[v] /\ polls'[v] = polls[v]
            /\ resp'[v] = resp[v] /\ config'[v] = config[v] /\ returned'[v] = returned[v]
  PROVE  IInv' /\ Grow
<1>1. Grow
  BY LogUnchanged, JobsUnchanged DEF Grow, IInv
<1>2. LogSound'
  BY <1>1, SameLogStaysSound DEF Grow
<1> QED
  BY <1>1, <1>2, WorkerStep

(* A worker is called with a request. *)
LEMMA CallStep ==
  ASSUME IInv, NEW w \in Workers, NEW k \in Keys, Call(w, k)
  PROVE  IInv' /\ Grow
<1> USE DEF Call, Goto, Hears
<1>0. ControlTyped
  BY TypeParts DEF IInv
<1>1. Admission(w, k) \in {"disabled", "admitted", "failed"}
  BY DEF Admission
<1>2. ControlTyped'
  <2>1. Admission(w, k) \in Lines /\ "none" \in Answers /\ NoJob \in Nat /\ 1 \in 1..MaxSubmissionAttempts
        /\ 0 \in 0..MaxPollAttempts /\ [kind |-> "none", job |-> NoJob] \in ReturnType
    BY <1>1, LimitsAssumption DEF Lines, Answers, NoJob, ReturnType
  <2> HIDE DEF Lines, Answers, ReturnType
  <2> QED
    BY <1>0, <2>1 DEF ControlTyped
<1>3. pc'[w] = Admission(w, k) /\ key'[w] = k /\ polls'[w] = 0 /\ returned'[w].kind = "none"
  BY <1>0 DEF ControlTyped
<1>4. pc'[w] = "admitted" => Live(config'[w])
  BY <1>3 DEF Admission, Live
<1>5. Knows(w)'
  <2> HIDE DEF Call, Goto, Hears
  <2> QED
    BY <1>1, <1>3, <1>4 DEF Knows, Remote, HasResult
<1> QED
  BY <1>0, <1>2, <1>5, QuietStep DEF ControlTyped

(* The route reads its configuration and decides. *)
LEMMA StartSubmissionStep ==
  ASSUME IInv, NEW w \in Workers, StartSubmission(w)
  PROVE  IInv' /\ Grow
<1> USE DEF StartSubmission, Goto, bounds
<1>0. ControlTyped
  BY TypeParts DEF IInv
<1>1. ControlTyped'
  BY <1>0 DEF ControlTyped, Lines, Remote
<1>2. pc'[w] = "submit"
  BY <1>0 DEF ControlTyped
<1>3. Knows(w) /\ config' = config /\ returned' = returned /\ key' = key /\ polls' = polls
  BY DEF IInv
<1>4. Knows(w)'
  BY <1>2, <1>3 DEF Knows, HasResult, Remote, StartSubmission
<1> QED
  BY <1>0, <1>1, <1>4, QuietStep DEF ControlTyped

(* The row that says the egress is disabled. *)
LEMMA RecordDisabledStep ==
  ASSUME IInv, NEW w \in Workers, RecordDisabled(w)
  PROVE  IInv' /\ Grow
<1> USE DEF RecordDisabled, Return, Goto, bounds
<1>0. ControlTyped /\ key[w] \in Keys
  BY TypeParts DEF IInv, Knows
<1>1. LogSound' /\ Grow
  BY <1>0, AuditStaysSound DEF Events, NoJob
<1>2. ControlTyped'
  BY <1>0 DEF ControlTyped, Lines, ReturnType
<1>3. pc'[w] = "idle" /\ returned'[w].kind = "local"
  BY <1>0 DEF ControlTyped
<1>4. Knows(w)'
  BY <1>3 DEF Knows, Remote, HasResult
<1> QED
  BY <1>0, <1>1, <1>2, <1>4, WorkerStep DEF ControlTyped

(* The log holds a status that cannot be looked up. *)
LEMMA TakeUpFailsStep ==
  ASSUME IInv, NEW w \in Workers, TakeUpFails(w)
  PROVE  IInv' /\ Grow
<1> USE DEF TakeUpFails, Return, Goto, Hears, bounds
<1>0. ControlTyped /\ job[w] \in Nat
  BY TypeParts DEF IInv, ControlTyped
<1>1. ControlTyped'
  <2>1. [kind |-> "raised", job |-> job[w]] \in ReturnType
    BY <1>0 DEF ReturnType
  <2> QED
    BY <1>0, <2>1 DEF ControlTyped, Lines, Answers, Statuses
<1>2. pc'[w] = "idle" /\ returned'[w].kind = "raised"
  BY <1>0 DEF ControlTyped
<1>3. Knows(w)'
  BY <1>2 DEF Knows, Remote, HasResult
<1> QED
  BY <1>0, <1>1, <1>3, QuietStep DEF ControlTyped

(* A job of the log is polled again in place of a submission. *)
LEMMA ResumeStep ==
  ASSUME IInv, NEW w \in Workers, Resume(w)
  PROVE  IInv' /\ Grow
<1> USE DEF Resume, Goto, bounds
<1> DEFINE j == SubmittedJob(key[w])
<1>0. ControlTyped /\ key[w] \in Keys /\ TypeOK
  BY TypeParts DEF IInv, Knows
<1>1. Recorded(j, key[w])
  BY <1>0, SubmittedJobIsRecorded
<1>2. j \in 1..Len(jobs) /\ jobs[j].key = key[w] /\ j \in Nat
  BY <1>1, RecordedJobsExist, LogFacts DEF IInv
<1>3. LogSound' /\ Grow
  <2> HIDE DEF j
  <2>1. Audit(w, "resume", j, NoStatus) /\ UNCHANGED jobs
    BY DEF j
  <2> QED
    BY <1>0, <1>2, <2>1, AuditStaysSound DEF Events
<1>4. ControlTyped'
  BY <1>0, <1>2 DEF ControlTyped, Lines, Remote
<1>5. pc'[w] = "poll" /\ job'[w] = j /\ key' = key /\ config' = config /\ returned' = returned
      /\ polls' = polls
  BY <1>0 DEF ControlTyped
<1>6. Recorded(job[w], key[w])'
  <2> HIDE DEF Resume, j
  <2>1. \A i, k : Recorded(i, k) => \E r \in SubmissionRows(k)' : log'[r].job = i
    BY <1>0, <1>3, RecordsStay DEF Grow, Recorded
  <2>2. \E r \in SubmissionRows(key[w])' : log'[r].job = job'[w]
    BY <1>1, <1>5, <2>1 DEF SubmissionRows
  <2> QED
    BY <2>2 DEF Recorded
<1>7. Knows(w) /\ polls'[w] < MaxPollAttempts
  BY <1>5, LimitsAssumption DEF IInv, Knows
<1>8. Knows(w)'
  <2>1. pc[w] = "admitted" /\ key[w] \in Keys /\ returned[w].kind = "none" /\ Live(config'[w])
    BY <1>5, <1>7 DEF Knows
  <2> HIDE DEF Resume, j
  <2> QED
    BY <1>5, <1>6, <1>7, <2>1 DEF Knows, HasResult, Remote
<1> QED
  BY <1>0, <1>3, <1>4, <1>8, WorkerStep DEF ControlTyped

(* The three outcomes of a POST: a job is added or the jobs are the same.  *)
LEMMA PostStep ==
  ASSUME IInv, NEW w \in Workers, Post(w)
  PROVE  IInv' /\ Grow
<1> USE DEF Post, Goto, bounds
<1>0. /\ ControlTyped /\ key[w] \in Keys /\ TypeOK /\ jobs \in Seq(JobType) /\ Len(jobs) \in Nat
      /\ \A i \in 1..Len(jobs) : jobs[i] \in JobType
  BY TypeParts, LogFacts DEF IInv, Knows
<1>1. ASSUME NewJob(w)
      PROVE  /\ jobs' \in Seq(JobType) /\ JobsGrow /\ Len(jobs') = Len(jobs) + 1
             /\ jobs'[Len(jobs) + 1].key = key[w]
  <2>1. [key |-> key[w], status |-> "pending"] \in JobType
    BY <1>0 DEF JobType, Statuses
  <2>2. jobs' = Append(jobs, [key |-> key[w], status |-> "pending"])
    BY <1>1 DEF NewJob
  <2>3. /\ jobs' \in Seq(JobType) /\ Len(jobs') = Len(jobs) + 1
        /\ \A i \in 1..Len(jobs) : jobs'[i] = jobs[i]
        /\ jobs'[Len(jobs) + 1] = [key |-> key[w], status |-> "pending"]
    <3> HIDE DEF JobType
    <3> QED
      BY <1>0, <2>1, <2>2
  <2> QED
    BY <1>0, <2>3 DEF JobsGrow
<1>2. /\ jobs' \in Seq(JobType) /\ JobsGrow
      /\ resp'[w] = "accepted" => job'[w] \in 1..Len(jobs') /\ jobs'[job'[w]].key = key[w]
      /\ job' \in [Workers -> Nat] /\ resp' \in [Workers -> Answers] /\ lost' \in SUBSET Nat
      /\ \A v \in Workers \ {w} : job'[v] = job[v] /\ resp'[v] = resp[v]
  <2>1. CASE Accepted(w)
    <3>1. NewJob(w) /\ job' = [job EXCEPT ![w] = Len(jobs) + 1] /\ resp' = [resp EXCEPT ![w] = "accepted"]
          /\ lost' = lost
      BY <2>1 DEF Accepted, Hears
    <3>2. job'[w] = Len(jobs) + 1 /\ Len(jobs') = Len(jobs) + 1 /\ jobs'[Len(jobs) + 1].key = key[w]
          /\ jobs' \in Seq(JobType) /\ JobsGrow
      BY <1>0, <1>1, <3>1 DEF ControlTyped
    <3>3. Len(jobs) + 1 \in 1..Len(jobs')
      BY <1>0, <3>2
    <3>4. job'[w] \in 1..Len(jobs') /\ jobs'[job'[w]].key = key[w]
      BY <3>2, <3>3
    <3>5. job' \in [Workers -> Nat] /\ resp' \in [Workers -> Answers] /\ lost' \in SUBSET Nat
      BY <1>0, <3>1 DEF ControlTyped, Answers
    <3>6. \A v \in Workers \ {w} : job'[v] = job[v] /\ resp'[v] = resp[v]
      BY <1>0, <3>1 DEF ControlTyped
    <3> QED
      BY <3>2, <3>4, <3>5, <3>6
  <2>2. CASE AcceptedUnheard(w)
    <3>1. /\ NewJob(w) /\ job' = job /\ lost' = lost \cup {Len(jobs) + 1}
          /\ \E a \in {"error", "no_job_id"} : resp' = [resp EXCEPT ![w] = a]
      BY <2>2 DEF AcceptedUnheard, Hears
    <3> HIDE DEF Post
    <3>2. resp'[w] # "accepted" /\ resp' \in [Workers -> Answers]
          /\ \A v \in Workers \ {w} : resp'[v] = resp[v]
      BY <1>0, <3>1 DEF ControlTyped, Answers
    <3>3. job' \in [Workers -> Nat] /\ lost' \in SUBSET Nat
      <4>1. lost \subseteq Nat /\ job \in [Workers -> Nat] /\ Len(jobs) + 1 \in Nat
        BY <1>0 DEF ControlTyped
      <4> QED
        BY <3>1, <4>1
    <3>4. jobs' \in Seq(JobType) /\ JobsGrow
      BY <1>1, <3>1
    <3> QED
      BY <3>1, <3>2, <3>3, <3>4
  <2>3. CASE NotAccepted(w)
    <3>1. jobs' = jobs /\ job' = job /\ lost' = lost
          /\ \E a \in {"error", "too_many"} : resp' = [resp EXCEPT ![w] = a]
      BY <2>3 DEF NotAccepted, Hears
    <3> QED
      BY <1>0, <3>1, JobsUnchanged DEF ControlTyped, Answers
  <2> QED
    BY <2>1, <2>2, <2>3
<1>3. LogSound' /\ Grow
  BY <1>0, <1>2, LogUnchanged, SameLogStaysSound DEF Grow
<1>4. ControlTyped'
  BY <1>0, <1>2 DEF ControlTyped, Lines, Remote
<1>5. pc'[w] = "posted" /\ key' = key /\ config' = config /\ returned' = returned /\ polls' = polls
  BY <1>0 DEF ControlTyped
<1>6. polls[w] = 0 /\ key[w] \in Keys /\ returned[w].kind = "none" /\ Live(config'[w])
  BY <1>5 DEF IInv, Knows, Remote
<1>7. Knows(w)'
  <2> HIDE DEF Post
  <2> QED
    BY <1>2, <1>5, <1>6 DEF Knows, HasResult, Remote
<1> QED
  BY <1>0, <1>2, <1>3, <1>4, <1>7, WorkerStep DEF ControlTyped

(* The row of a submission that was accepted. *)
LEMMA RecordSubmissionStep ==
  ASSUME IInv, NEW w \in Workers, RecordSubmission(w)
  PROVE  IInv' /\ Grow
<1> USE DEF RecordSubmission, Goto, bounds
<1>0. /\ ControlTyped /\ key[w] \in Keys /\ returned[w].kind = "none" /\ Live(config[w])
      /\ polls[w] = 0 /\ job[w] \in 1..Len(jobs) /\ jobs[job[w]].key = key[w] /\ job[w] \in Nat
  BY TypeParts DEF IInv, Knows, Remote, ControlTyped
<1>1. PICK s \in {"pending", "odd", NoStatus} : Audit(w, "submission", job[w], s)
  OBVIOUS
<1>2. LogSound' /\ Grow
  <2>1. s \in Statuses \cup {NoStatus} /\ "submission" \in Events
    BY DEF Statuses, Events
  <2> QED
    BY <1>0, <1>1, <2>1, AuditStaysSound
<1>3. ControlTyped'
  BY <1>0 DEF ControlTyped, Lines, Remote
<1>4. pc'[w] = "poll" /\ key' = key /\ job' = job /\ config' = config /\ returned' = returned
      /\ polls' = polls
  BY <1>0 DEF ControlTyped
<1>5. Recorded(job[w], key[w])'
  <2>1. /\ log' \in Seq(RowType) /\ Len(log') = Len(log) + 1 /\ Len(log) \in Nat
        /\ log'[Len(log) + 1] = Row("submission", key[w], job[w], s)
    BY <1>0, <1>1, AuditAppends, LogFacts DEF IInv, Statuses, Events
  <2>2. Len(log) + 1 \in DOMAIN log'
    BY <2>1
  <2>3. Len(log) + 1 \in SubmissionRows(key[w])' /\ log'[Len(log) + 1].job = job'[w]
    BY <1>0, <1>4, <2>1, <2>2 DEF SubmissionRows, Row, NoJob
  <2> QED
    BY <2>3 DEF Recorded
<1>6. Knows(w)'
  <2>1. 0 < MaxPollAttempts
    BY LimitsAssumption
  <2> HIDE DEF RecordSubmission
  <2> QED
    BY <1>0, <1>4, <1>5, <2>1 DEF Knows, HasResult, Remote
<1> QED
  BY <1>0, <1>2, <1>3, <1>6, WorkerStep DEF ControlTyped

(* The row of a submission that was refused. *)
LEMMA RecordRefusalStep ==
  ASSUME IInv, NEW w \in Workers, RecordRefusal(w)
  PROVE  IInv' /\ Grow
<1> USE DEF RecordRefusal, Goto, bounds
<1>0. ControlTyped /\ key[w] \in Keys /\ returned[w].kind = "none"
  BY TypeParts DEF IInv, Knows
<1>1. PICK e \in Events : Audit(w, e, NoJob, NoStatus)
  BY DEF Events
<1>2. LogSound' /\ Grow
  BY <1>0, <1>1, AuditStaysSound DEF NoJob
<1>3. ControlTyped'
  BY <1>0 DEF ControlTyped, Lines
<1>4. pc'[w] = "failed" /\ key' = key /\ returned' = returned
  BY <1>0 DEF ControlTyped
<1>5. Knows(w)'
  <2> HIDE DEF RecordRefusal
  <2> QED
    BY <1>0, <1>4 DEF Knows, HasResult, Remote
<1> QED
  BY <1>0, <1>2, <1>3, <1>5, WorkerStep DEF ControlTyped

(* The row of a submission the limiter held back. *)
LEMMA RecordRateLimitedStep ==
  ASSUME IInv, NEW w \in Workers, RecordRateLimited(w)
  PROVE  IInv' /\ Grow
<1> USE DEF RecordRateLimited, Goto, bounds
<1>0. /\ ControlTyped /\ key[w] \in Keys /\ returned[w].kind = "none" /\ Live(config[w])
      /\ polls[w] = 0
  BY TypeParts DEF IInv, Knows, Remote
<1>1. LogSound' /\ Grow
  BY <1>0, AuditStaysSound DEF Events, NoJob
<1>2. ControlTyped'
  <2>1. attempt[w] + 1 \in 1..MaxSubmissionAttempts
    BY <1>0, LimitsAssumption DEF ControlTyped
  <2> QED
    BY <1>0, <2>1 DEF ControlTyped, Lines, Remote
<1>3. pc'[w] = "submit" /\ key' = key /\ config' = config /\ returned' = returned /\ polls' = polls
  BY <1>0 DEF ControlTyped
<1>4. Knows(w)'
  <2> HIDE DEF RecordRateLimited
  <2> QED
    BY <1>0, <1>3 DEF Knows, HasResult, Remote
<1> QED
  BY <1>0, <1>1, <1>2, <1>4, WorkerStep DEF ControlTyped

(* One poll of the provider. *)
LEMMA PollStep ==
  ASSUME IInv, NEW w \in Workers, Poll(w)
  PROVE  IInv' /\ Grow
<1> USE DEF Poll, Goto, Hears, bounds
<1>0. /\ ControlTyped /\ key[w] \in Keys /\ returned[w].kind = "none" /\ Live(config[w])
      /\ polls[w] < MaxPollAttempts /\ Recorded(job[w], key[w])
  BY TypeParts DEF IInv, Knows, Remote
<1>1. job[w] \in 1..Len(jobs) /\ jobs[job[w]].status \in Statuses
  <2>1. job[w] \in 1..Len(jobs)
    BY <1>0, RecordedJobsExist DEF IInv
  <2>2. jobs[job[w]] \in JobType
    BY <2>1, LogFacts DEF IInv
  <2> QED
    BY <2>1, <2>2 DEF JobType
<1>2. PICK a \in {jobs[job[w]].status, "odd", "error"} : resp' = [resp EXCEPT ![w] = a]
  OBVIOUS
<1>3. ControlTyped'
  <2>1. a \in Answers
    BY <1>1 DEF Answers, Statuses
  <2> QED
    BY <1>0, <1>2, <2>1 DEF ControlTyped, Lines, Remote
<1>4. pc'[w] = "polled" /\ resp'[w] = a /\ key' = key /\ job' = job /\ config' = config
      /\ returned' = returned /\ polls' = polls /\ jobs' = jobs /\ log' = log
  BY <1>0, <1>2 DEF ControlTyped
<1>5. Recorded(job[w], key[w])'
  BY <1>0, <1>4 DEF Recorded, SubmissionRows
<1>6. Knows(w)'
  <2>1. a \in Statuses \cup {"error"}
    BY <1>1 DEF Statuses
  <2> HIDE DEF Poll
  <2> QED
    BY <1>0, <1>1, <1>4, <1>5, <2>1 DEF Knows, HasResult, Remote
<1> QED
  BY <1>0, <1>2, <1>3, <1>6, QuietStep DEF ControlTyped

(* The row of a poll. *)
LEMMA RecordPollStep ==
  ASSUME IInv, NEW w \in Workers, RecordPoll(w)
  PROVE  IInv' /\ Grow
<1> USE DEF RecordPoll, Goto, bounds
<1>0. /\ ControlTyped /\ key[w] \in Keys /\ returned[w].kind = "none" /\ Live(config[w])
      /\ polls[w] < MaxPollAttempts /\ Recorded(job[w], key[w]) /\ resp[w] \in Statuses \cup {"error"}
      /\ resp[w] = "completed" => jobs[job[w]].status = "completed"
  BY TypeParts DEF IInv, Knows, Remote
<1>a. job[w] \in Nat /\ polls[w] \in Nat
  BY <1>0, LimitsAssumption DEF ControlTyped
<1>1. LogSound' /\ Grow
  <2>1. CASE resp[w] = "error"
    BY <1>0, <1>a, <2>1, AuditStaysSound DEF Events
  <2>2. CASE resp[w] # "error"
    BY <1>0, <1>a, <2>2, AuditStaysSound DEF Events
  <2> QED
    BY <2>1, <2>2
<1>b. CASE resp[w] = "odd"
  <2> HIDE DEF RecordPoll
  <2>1. /\ pc' = [pc EXCEPT ![w] = "idle"] /\ polls' = [polls EXCEPT ![w] = @ + 1]
        /\ returned' = [returned EXCEPT ![w] = [kind |-> "raised", job |-> job[w]]]
        /\ UNCHANGED <<jobs, config, key, job, attempt, resp, lost, calls, restarts, appendFailures>>
    BY <1>b DEF RecordPoll, Return
  <2>2. polls[w] + 1 \in 0..MaxPollAttempts /\ [kind |-> "raised", job |-> job[w]] \in ReturnType
    BY <1>0, <1>a, LimitsAssumption DEF ReturnType
  <2>3. ControlTyped'
    BY <1>0, <2>1, <2>2 DEF ControlTyped, Lines
  <2>4. pc'[w] = "idle" /\ returned'[w].kind = "raised"
    BY <1>0, <2>1 DEF ControlTyped
  <2>5. Knows(w)'
    BY <2>4 DEF Knows, HasResult, Remote
  <2> QED
    BY <1>0, <1>1, <2>1, <2>3, <2>5, WorkerStep DEF ControlTyped
<1>c. CASE resp[w] # "odd"
  <2>1. /\ pc' = [pc EXCEPT ![w] = AfterPoll(w)] /\ polls' = [polls EXCEPT ![w] = @ + 1]
        /\ UNCHANGED <<jobs, config, key, job, attempt, resp, returned, lost, calls, restarts, appendFailures>>
    BY <1>c
  <2> HIDE DEF RecordPoll
  <2>2. AfterPoll(w) \in {"lookup", "failed", "poll"}
        /\ (AfterPoll(w) = "lookup" => resp[w] = "completed")
        /\ (AfterPoll(w) = "poll" => polls[w] + 1 # MaxPollAttempts)
    BY DEF AfterPoll
  <2>3. ControlTyped'
    <3>1. polls[w] + 1 \in 0..MaxPollAttempts
      BY <1>0, <1>a, LimitsAssumption
    <3>2. AfterPoll(w) \in Lines
      BY <2>2 DEF Lines, Remote
    <3> QED
      BY <1>0, <2>1, <3>1, <3>2 DEF ControlTyped
  <2>4. pc'[w] = AfterPoll(w) /\ resp' = resp /\ key' = key /\ job' = job /\ config' = config
        /\ returned' = returned /\ polls'[w] = polls[w] + 1 /\ jobs' = jobs
    BY <1>0, <2>1 DEF ControlTyped
  <2>5. Recorded(job[w], key[w])'
    BY <1>0, <1>1, <2>4, OwnRecordStays
  <2>6. Knows(w)'
    <3>1. AfterPoll(w) = "poll" => polls'[w] < MaxPollAttempts
      BY <1>0, <1>a, <2>2, <2>4, LimitsAssumption
    <3> QED
      BY <1>0, <2>2, <2>4, <2>5, <3>1 DEF Knows, HasResult, Remote
  <2> QED
    BY <1>0, <1>1, <2>1, <2>3, <2>6, WorkerStep DEF ControlTyped
<1> QED
  BY <1>b, <1>c

(* Looking up and downloading only move the worker on. *)
LEMMA FetchStep ==
  ASSUME IInv, NEW w \in Workers, LookUpResult(w) \/ Download(w)
  PROVE  IInv' /\ Grow
<1> USE DEF Goto, Hears, bounds
<1>0. /\ ControlTyped /\ key[w] \in Keys /\ returned[w].kind = "none" /\ Live(config[w])
      /\ Recorded(job[w], key[w]) /\ jobs[job[w]].status = "completed"
  BY TypeParts DEF IInv, Knows, Remote, HasResult, LookUpResult, Download, Fetch
<1>1. PICK a \in {"ok", "unusable", "corrupt", "error"}, line \in {"looked_up", "downloaded"} :
         resp' = [resp EXCEPT ![w] = a] /\ pc' = [pc EXCEPT ![w] = line]
  BY DEF LookUpResult, Download, Fetch
<1>2. UNCHANGED <<log, jobs, config, key, job, attempt, polls, returned, lost, bounds>>
  BY DEF LookUpResult, Download, Fetch
<1>3. ControlTyped'
  BY <1>0, <1>1, <1>2 DEF ControlTyped, Lines, Remote, Answers
<1>4. pc'[w] = line
  BY <1>0, <1>1 DEF ControlTyped
<1>5. Recorded(job[w], key[w])'
  BY <1>0, <1>2 DEF Recorded, SubmissionRows
<1>6. Knows(w)'
  BY <1>0, <1>2, <1>4, <1>5 DEF Knows, HasResult, Remote
<1> QED
  BY <1>0, <1>1, <1>2, <1>3, <1>6, QuietStep DEF ControlTyped

(* The worker returns the completed job's text, goes on or gives up. *)
LEMMA RecordResultStep ==
  ASSUME IInv, NEW w \in Workers, RecordLookUp(w) \/ RecordDownload(w)
  PROVE  IInv' /\ Grow
<1> USE DEF Goto, bounds
<1>0. /\ ControlTyped /\ key[w] \in Keys /\ returned[w].kind = "none" /\ Live(config[w])
      /\ Recorded(job[w], key[w]) /\ jobs[job[w]].status = "completed" /\ job[w] \in Nat
  BY TypeParts DEF IInv, Knows, Remote, HasResult, RecordLookUp, RecordDownload, ControlTyped
<1>1. PICK e \in Events \ {"submission"} : Audit(w, e, job[w], NoStatus)
  BY DEF RecordLookUp, RecordDownload, Events
<1>2. UNCHANGED <<jobs, config, key, job, attempt, polls, resp, lost, bounds>>
  BY DEF RecordLookUp, RecordDownload
<1>3. LogSound' /\ Grow
  BY <1>0, <1>1, <1>2, AuditStaysSound
<1>4. \/ /\ pc' = [pc EXCEPT ![w] = "idle"]
         /\ \E kind \in {"remote", "raised"} :
               returned' = [returned EXCEPT ![w] = [kind |-> kind, job |-> job[w]]]
      \/ /\ pc' = [pc EXCEPT ![w] = "download"] \/ pc' = [pc EXCEPT ![w] = "failed"]
         /\ returned' = returned
  BY DEF RecordLookUp, RecordDownload, Return
<1>5. ControlTyped'
  <2>1. \A kind \in {"remote", "raised"} : [kind |-> kind, job |-> job[w]] \in ReturnType
    BY <1>0 DEF ReturnType
  <2>2. pc' \in [Workers -> Lines]
    BY <1>0, <1>4 DEF ControlTyped, Lines, Remote
  <2>3. returned' \in [Workers -> ReturnType]
    BY <1>0, <1>4, <2>1 DEF ControlTyped
  <2> QED
    BY <1>0, <1>2, <2>2, <2>3 DEF ControlTyped
<1>6. Recorded(job[w], key[w])'
  BY <1>0, <1>2, <1>3, OwnRecordStays
<1>7. \/ pc'[w] = "idle" /\ returned'[w] = [kind |-> "remote", job |-> job[w]]
      \/ pc'[w] = "idle" /\ returned'[w] = [kind |-> "raised", job |-> job[w]]
      \/ pc'[w] \in {"download", "failed"} /\ returned'[w] = returned[w]
  BY <1>0, <1>4 DEF ControlTyped
<1>8. job[w] \in 1..Len(jobs) /\ jobs[job[w]] = [key |-> key[w], status |-> "completed"]
  <2>1. job[w] \in 1..Len(jobs) /\ jobs[job[w]].key = key[w]
    BY <1>0, RecordedJobsExist DEF IInv
  <2>2. jobs[job[w]] \in JobType
    BY <2>1, LogFacts DEF IInv
  <2> QED
    BY <1>0, <2>1, <2>2 DEF JobType
<1>9. Knows(w)'
  <2>1. CASE pc'[w] = "idle" /\ returned'[w] = [kind |-> "remote", job |-> job[w]]
    <3>1. returned'[w].job = job'[w] /\ returned'[w].kind = "remote"
      BY <1>2, <2>1
    <3>2. Recorded(returned[w].job, key[w])'
      BY <1>6, <3>1 DEF Recorded
    <3> QED
      BY <1>2, <1>8, <2>1, <3>1, <3>2 DEF Knows, HasResult, Remote
  <2>2. CASE pc'[w] \in {"download", "failed"} /\ returned'[w] = returned[w]
    BY <1>0, <1>2, <1>6, <2>2 DEF Knows, HasResult, Remote
  <2>3. CASE pc'[w] = "idle" /\ returned'[w] = [kind |-> "raised", job |-> job[w]]
    BY <2>3 DEF Knows, HasResult, Remote
  <2> QED
    BY <1>7, <2>1, <2>2, <2>3
<1>10. \A v \in Workers \ {w} :
            /\ pc'[v] = pc[v] /\ key'[v] = key[v] /\ job'[v] = job[v] /\ polls'[v] = polls[v]
            /\ resp'[v] = resp[v] /\ config'[v] = config[v] /\ returned'[v] = returned[v]
  <2>1. \A v \in Workers \ {w} : pc'[v] = pc[v] /\ returned'[v] = returned[v]
    BY <1>0, <1>4 DEF ControlTyped
  <2>2. key' = key /\ job' = job /\ polls' = polls /\ resp' = resp /\ config' = config
    BY <1>2
  <2> QED
    BY <2>1, <2>2
<1> QED
  BY <1>3, <1>5, <1>9, <1>10, WorkerStep

(* The deadline passes. *)
LEMMA GiveUpStep ==
  ASSUME IInv, NEW w \in Workers, GiveUp(w)
  PROVE  IInv' /\ Grow
<1> USE DEF GiveUp, Return, Goto, bounds
<1>0. ControlTyped /\ key[w] \in Keys
  BY TypeParts DEF IInv, Knows
<1>1. LogSound' /\ Grow
  <2>1. CASE WithFallback(key[w])
    BY <1>0, <2>1, AuditStaysSound DEF Events, NoJob
  <2>2. CASE ~WithFallback(key[w])
    <3>1. UNCHANGED <<log, jobs>>
      BY <2>2
    <3> QED
      BY <3>1, LogUnchanged, JobsUnchanged, SameLogStaysSound DEF Grow, IInv
  <2> QED
    BY <2>1, <2>2
<1>2. PICK r \in ReturnType : /\ pc' = [pc EXCEPT ![w] = "idle"]
                             /\ returned' = [returned EXCEPT ![w] = r] /\ r.kind # "remote"
  <2>1. job[w] \in Nat
    BY <1>0 DEF ControlTyped
  <2>2. \A kind \in {"local", "raised"} :
           [kind |-> kind, job |-> job[w]] \in ReturnType /\ [kind |-> kind, job |-> job[w]].kind # "remote"
    BY <2>1 DEF ReturnType
  <2>3. pc' = [pc EXCEPT ![w] = "idle"]
    OBVIOUS
  <2>4. \E kind \in {"local", "raised"} : returned' = [returned EXCEPT ![w] = [kind |-> kind, job |-> job[w]]]
    OBVIOUS
  <2> HIDE DEF GiveUp
  <2> QED
    BY <2>2, <2>3, <2>4
<1>3. ControlTyped'
  BY <1>0, <1>2 DEF ControlTyped, Lines
<1>4. pc'[w] = "idle" /\ returned'[w] = r
  BY <1>0, <1>2 DEF ControlTyped
<1>5. Knows(w)'
  BY <1>2, <1>4 DEF Knows, HasResult, Remote
<1> QED
  BY <1>0, <1>1, <1>2, <1>3, <1>5, WorkerStep DEF ControlTyped

(* A call cut short, by a refused append or with its process. *)
LEMMA CutShortStep ==
  ASSUME IInv, NEW w \in Workers, AppendFails(w) \/ Restart(w)
  PROVE  IInv' /\ Grow
<1> USE DEF Goto
<1>0. ControlTyped /\ job[w] \in Nat
  BY TypeParts DEF IInv, ControlTyped
<1>1. PICK r \in ReturnType, c \in Configs :
         /\ pc' = [pc EXCEPT ![w] = "idle"]
         /\ returned' = [returned EXCEPT ![w] = r] /\ r.kind # "remote"
         /\ config' = [config EXCEPT ![w] = c]
  <2>1. CASE AppendFails(w)
    <3>1. config[w] \in Configs /\ config' = [config EXCEPT ![w] = config[w]]
      BY <1>0, <2>1 DEF AppendFails, ControlTyped
    <3>2. /\ pc' = [pc EXCEPT ![w] = "idle"]
          /\ returned' = [returned EXCEPT ![w] = [kind |-> "raised", job |-> job[w]]]
          /\ [kind |-> "raised", job |-> job[w]] \in ReturnType
      BY <1>0, <2>1 DEF AppendFails, Return, ReturnType
    <3> QED
      BY <3>1, <3>2
  <2>2. CASE Restart(w)
    <3>1. [kind |-> "none", job |-> NoJob] \in ReturnType
      BY DEF ReturnType, NoJob
    <3> QED
      BY <2>2, <3>1 DEF Restart
  <2> QED
    BY <2>1, <2>2
<1>2. /\ UNCHANGED <<log, jobs, key, job, attempt, polls, calls>>
      /\ \E a \in Answers : resp' = [resp EXCEPT ![w] = a]
  <2>1. resp[w] \in Answers /\ resp = [resp EXCEPT ![w] = resp[w]] /\ "refused" \in Answers
    BY <1>0 DEF ControlTyped, Answers
  <2> QED
    BY <2>1 DEF AppendFails, Restart, Hears
<1>3. lost' = lost \cup Unlogged(w) /\ Unlogged(w) \subseteq Nat
  BY <1>0 DEF AppendFails, Restart, Unlogged
<1>4. restarts' \in Nat /\ appendFailures' \in Nat
  BY <1>0 DEF AppendFails, Restart, ControlTyped
<1>5. lost' \in SUBSET Nat
  BY <1>0, <1>3 DEF ControlTyped
<1>6. ControlTyped'
  BY <1>0, <1>1, <1>2, <1>4, <1>5 DEF ControlTyped, Lines
<1>r. \A v \in Workers \ {w} : resp'[v] = resp[v]
  BY <1>0, <1>2 DEF ControlTyped
<1>7. pc'[w] = "idle" /\ returned'[w] = r
  BY <1>0, <1>1 DEF ControlTyped
<1>8. Knows(w)'
  BY <1>1, <1>7 DEF Knows, HasResult, Remote
<1>9. \A v \in Workers \ {w} :
         pc'[v] = pc[v] /\ returned'[v] = returned[v] /\ config'[v] = config[v]
  BY <1>0, <1>1 DEF ControlTyped
<1> QED
  BY <1>2, <1>6, <1>r, <1>8, <1>9, QuietStep

(* The provider moves: a pending job gets its final status. *)
LEMMA WorkStep ==
  ASSUME IInv, NEW j \in DOMAIN jobs, Work(j)
  PROVE  IInv' /\ Grow
<1> USE DEF Work, worker, bounds
<1>0. /\ ControlTyped /\ TypeOK /\ j \in 1..Len(jobs) /\ Len(jobs) \in Nat
      /\ \A i \in 1..Len(jobs) : jobs[i] \in JobType
      /\ jobs \in Seq(JobType)
  BY TypeParts, LogFacts DEF IInv
<1>1. PICK s \in Endings : jobs' = [jobs EXCEPT ![j].status = s]
  OBVIOUS
<1>2. s \in Statuses /\ [jobs[j] EXCEPT !.status = s] \in JobType
      /\ [jobs[j] EXCEPT !.status = s].key = jobs[j].key
  BY <1>0, EndingsAssumption DEF Statuses, JobType
<1>3. jobs' = [jobs EXCEPT ![j] = [jobs[j] EXCEPT !.status = s]]
  BY <1>1
<1>4. jobs' \in Seq(JobType) /\ Len(jobs') = Len(jobs)
      /\ \A i \in 1..Len(jobs) : i # j => jobs'[i] = jobs[i]
      /\ jobs'[j] = [jobs[j] EXCEPT !.status = s]
  <2> HIDE DEF JobType
  <2> QED
    BY <1>0, <1>2, <1>3
<1>5. JobsGrow
  <2>1. jobs[j].status = "pending"
    OBVIOUS
  <2> QED
    BY <1>0, <1>2, <1>4, <2>1 DEF JobsGrow
<1>6. log' \in Seq(RowType) /\ Longer(log, log') /\ LogSound'
  BY <1>0, <1>4, <1>5, LogUnchanged, SameLogStaysSound
<1>7. ControlTyped'
  BY <1>0 DEF ControlTyped
<1>8. TypeOK'
  BY <1>4, <1>6, <1>7, TypeParts
<1>9. ASSUME NEW v \in Workers PROVE Knows(v)'
  BY <1>4, <1>5, <1>6, OthersKeepKnowing
<1> QED
  BY <1>4, <1>5, <1>6, <1>8, <1>9 DEF IInv, Grow

-----------------------------------------------------------------------------
(* Theorems *)

(* The empty log. *)
LEMMA InitIInv == Init => IInv
<1> SUFFICES ASSUME Init PROVE IInv
  OBVIOUS
<1> USE DEF Init
<1>1. log \in Seq(RowType) /\ jobs \in Seq(JobType)
  OBVIOUS
<1>2. ControlTyped
  <2>1. 1 \in 1..MaxSubmissionAttempts /\ 0 \in 0..MaxPollAttempts
    BY LimitsAssumption
  <2>2. [kind |-> "none", job |-> NoJob] \in ReturnType
    BY DEF ReturnType, NoJob
  <2> QED
    BY <2>1, <2>2 DEF ControlTyped, Lines, Answers, NoJob
<1>3. LogSound
  BY DEF LogSound
<1>4. \A w \in Workers : Knows(w)
  BY DEF Knows, HasResult, Remote
<1> QED
  BY <1>1, <1>2, <1>3, <1>4, TypeParts DEF IInv

(* Every step preserves the inductive invariant; the log and the jobs grow. *)
LEMMA NextStep ==
  ASSUME IInv, [Next]_vars
  PROVE  IInv' /\ Grow
<1>1. CASE UNCHANGED vars
  <2>1. UNCHANGED <<log, jobs>> /\ UNCHANGED <<config, pc, key, job, attempt, polls, resp, returned, lost,
                                             calls, restarts, appendFailures>>
    BY <1>1 DEF vars, worker, bounds
  <2>2. LogSound' /\ Grow
    BY <2>1, LogUnchanged, JobsUnchanged, SameLogStaysSound DEF Grow, IInv
  <2>3. TypeOK'
    BY <2>1, <2>2, TypeParts DEF Grow, ControlTyped, IInv
  <2>4. ASSUME NEW v \in Workers PROVE Knows(v)'
    BY <2>1, <2>2, OthersKeepKnowing DEF Grow
  <2> QED
    BY <2>2, <2>3, <2>4 DEF IInv
<1>2. ASSUME NEW w \in Workers, (\E k \in Keys : Call(w, k)) \/ Run(w) \/ AppendFails(w) \/ Restart(w)
      PROVE  IInv' /\ Grow
  BY <1>2, CallStep, RecordDisabledStep, TakeUpFailsStep, ResumeStep, StartSubmissionStep, PostStep, RecordSubmissionStep,
     RecordRefusalStep, RecordRateLimitedStep, PollStep, RecordPollStep, FetchStep, RecordResultStep,
     GiveUpStep, CutShortStep DEF Run
<1>3. ASSUME NEW j \in DOMAIN jobs, Work(j) PROVE IInv' /\ Grow
  BY <1>3, WorkStep
<1> QED
  BY <1>1, <1>2, <1>3 DEF Next

(* Every step keeps the invariant. *)
LEMMA Inductive == IInv /\ [Next]_vars => IInv'
BY NextStep

(* The strengthened invariant of the route holds in every reachable state, for
   any number of workers. *)
THEOREM EgressInvariant == Spec => []IInv
BY InitIInv, Inductive, PTL DEF Spec

(* Every variable of the route has its type in every reachable state; in   *)
(* particular a poll only ever asks for a job the provider has.            *)
THEOREM EgressTypeOK == Spec => []TypeOK
<1>1. IInv => TypeOK
  BY DEF IInv
<1> QED
  BY <1>1, EgressInvariant, PTL

(* A worker polls only jobs whose submission is in the audit log for the   *)
(* request it serves, however many workers share the log.                  *)
THEOREM EgressPollsOnlyRecorded == Spec => []PollOnlyRecorded
<1>1. IInv => PollOnlyRecorded
  BY DEF IInv, Knows, PollOnlyRecorded
<1> QED
  BY <1>1, EgressInvariant, PTL

(* No process that is disabled, not permitted or without a key reaches the *)
(* provider.                                                               *)
THEOREM EgressKillSwitch == Spec => []KillSwitch
<1>1. IInv => KillSwitch
  BY DEF IInv, Knows, KillSwitch
<1> QED
  BY <1>1, EgressInvariant, PTL

(* Text returned as the provider's is the result of a completed, recorded  *)
(* job of the same request.                                                *)
THEOREM EgressRemoteTextIsOurs == Spec => []RemoteTextIsOurs
<1>1. IInv => RemoteTextIsOurs
  BY DEF IInv, Knows, RemoteTextIsOurs
<1> QED
  BY <1>1, EgressInvariant, PTL

-----------------------------------------------------------------------------
(* Billing.  What has to be kept apart is two submissions of one request:  *)
(* two workers between submitted_job and the row of the answer (Apart).    *)
(* The code ensures it for a hosted run by allowing it one worker only     *)
(* (validate_sarvam_sharding): OneWorkerIsApart.  Then a worker that is    *)
(* about to POST finds every earlier job of its request recorded as        *)
(* unsuccessful (Fresh), and every accepted job is lost, recorded, or the  *)
(* answer a worker holds (Accounted).                                      *)

Submitting(w) == pc[w] \in {"submit", "posted"}

Apart ==
    \A u, v \in Workers : Submitting(u) /\ Submitting(v) /\ key[u] = key[v] => u = v

OneWorker == \A u, v \in Workers : u = v

LEMMA OneWorkerIsApart == OneWorker => Apart
BY DEF OneWorker, Apart

Fresh(w) == pc[w] \in {"submit", "posted"} =>
              \A i \in SubmissionRows(key[w]) : Settled(log[i].job, key[w])

Accounted(j) ==
    \/ j \in lost
    \/ Recorded(j, jobs[j].key)
    \/ \E w \in Workers : pc[w] = "posted" /\ resp[w] = "accepted" /\ job[w] = j

BInv == /\ SettledBeforeNext
        /\ \A w \in Workers : Fresh(w)
        /\ \A j \in 1..Len(jobs) : Accounted(j)

(* Only RecordSubmission adds a row that counts as a submission. *)
LEMMA OtherRowsDoNotCount ==
  ASSUME IInv, [Next]_vars, ~ \E w \in Workers : RecordSubmission(w), NEW k
  PROVE  SubmissionRows(k)' = SubmissionRows(k)
<1>0. TypeOK /\ Len(log) \in Nat /\ DOMAIN log = 1..Len(log)
  BY LogFacts DEF IInv
<1>1. CASE log' = log
  BY <1>1 DEF SubmissionRows
<1>2. CASE \E w \in Workers, e \in Events, j \in Nat, s \in Statuses \cup {NoStatus} :
              /\ key[w] \in Keys /\ Audit(w, e, j, s)
              /\ e # "submission" \/ j = NoJob
  <2>1. PICK w \in Workers, e \in Events, j \in Nat, s \in Statuses \cup {NoStatus} :
              /\ key[w] \in Keys /\ Audit(w, e, j, s)
              /\ e # "submission" \/ j = NoJob
    BY <1>2
  <2>2. /\ log' \in Seq(RowType) /\ Len(log') = Len(log) + 1
        /\ \A i \in 1..Len(log) : log'[i] = log[i]
        /\ log'[Len(log) + 1] = Row(e, key[w], j, s)
    BY <1>0, <2>1, AuditAppends
  <2>3. DOMAIN log' = 1..(Len(log) + 1)
    BY <2>2
  <2>4. Len(log) + 1 \notin SubmissionRows(k)'
    BY <2>1, <2>2 DEF SubmissionRows, Row
  <2>5. \A i \in DOMAIN log' : i \in DOMAIN log \/ i = Len(log) + 1
    BY <1>0, <2>3
  <2>6. \A i \in DOMAIN log : i \in DOMAIN log' /\ log'[i] = log[i]
    BY <1>0, <2>2, <2>3
  <2> QED
    BY <2>4, <2>5, <2>6 DEF SubmissionRows
<1>3. log' = log \/ \E w \in Workers, e \in Events, j \in Nat, s \in Statuses \cup {NoStatus} :
              /\ key[w] \in Keys /\ Audit(w, e, j, s)
              /\ e # "submission" \/ j = NoJob
  <2>1. ASSUME NEW w \in Workers, Run(w)
        PROVE  log' = log \/ \E e \in Events, j \in Nat, s \in Statuses \cup {NoStatus} :
                 Audit(w, e, j, s) /\ (e # "submission" \/ j = NoJob)
    <3>0. ControlTyped /\ job[w] \in Nat /\ NoJob \in Nat /\ NoStatus \in Statuses \cup {NoStatus}
      BY TypeParts DEF IInv, ControlTyped, NoJob
    <3>1. CASE RecordDisabled(w)
      BY <3>0, <3>1 DEF RecordDisabled, Events
    <3>2. CASE Resume(w)
      <4>1. SubmittedJob(key[w]) \in Nat
        BY <1>0, <3>2, SubmittedJobIsRecorded, RecordedJobsExist, LogFacts DEF Resume, IInv
      <4>2. Audit(w, "resume", SubmittedJob(key[w]), NoStatus) /\ "resume" \in Events /\ "resume" # "submission"
        BY <3>2 DEF Resume, Events
      <4> QED
        BY <3>0, <4>1, <4>2
    <3>3. CASE TakeUpFails(w) \/ StartSubmission(w) \/ Post(w) \/ Poll(w) \/ LookUpResult(w) \/ Download(w)
      BY <3>3 DEF TakeUpFails, StartSubmission, Post, Poll, LookUpResult, Download, Fetch
    <3>4. CASE RecordRefusal(w)
      BY <3>0, <3>4 DEF RecordRefusal, Events
    <3>5. CASE RecordRateLimited(w)
      BY <3>0, <3>5 DEF RecordRateLimited, Events
    <3>6. CASE RecordPoll(w)
      <4>1. resp[w] \in Statuses \cup {"error"}
        BY <3>6 DEF RecordPoll, IInv, Knows
      <4>2. \E e \in {"poll", "poll_error"}, s \in Statuses \cup {NoStatus} : Audit(w, e, job[w], s)
        BY <4>1, <3>6 DEF RecordPoll
      <4> QED
        BY <3>0, <4>2 DEF Events
    <3>7. CASE RecordLookUp(w) \/ RecordDownload(w)
      <4>1. \E e \in {"result_lookup_error", "result_lookup", "download_error", "download"} :
               Audit(w, e, job[w], NoStatus)
        BY <3>7 DEF RecordLookUp, RecordDownload
      <4> QED
        BY <3>0, <4>1 DEF Events
    <3>8. CASE GiveUp(w)
      BY <3>0, <3>8 DEF GiveUp, Events
    <3> QED
      BY <2>1, <3>1, <3>2, <3>3, <3>4, <3>5, <3>6, <3>7, <3>8 DEF Run
  <2>2. ASSUME NEW w \in Workers, Run(w) PROVE log' = log \/ key[w] \in Keys
    <3>1. pc[w] # "idle"
      BY <2>2 DEF Run, RecordDisabled, TakeUpFails, Resume, StartSubmission, Post, RecordSubmission, RecordRefusal,
        RecordRateLimited, Poll, RecordPoll, LookUpResult, RecordLookUp, Download, RecordDownload, Fetch, GiveUp
    <3> QED
      BY <3>1 DEF IInv, Knows
  <2>3. ASSUME NEW w \in Workers, (\E key1 \in Keys : Call(w, key1)) \/ AppendFails(w) \/ Restart(w)
        PROVE  log' = log
    BY <2>3 DEF Call, AppendFails, Restart
  <2>4. ASSUME NEW j \in DOMAIN jobs, Work(j) PROVE log' = log
    BY <2>4 DEF Work
  <2>5. UNCHANGED vars => log' = log
    BY DEF vars
  <2> QED
    BY <2>1, <2>2, <2>3, <2>4, <2>5 DEF Next
<1> QED
  BY <1>1, <1>2, <1>3

(* Rows already counted keep their place. *)
LEMMA OldRows ==
  ASSUME IInv, Grow, NEW k, NEW i \in SubmissionRows(k)
  PROVE  i \in 1..Len(log) /\ log'[i] = log[i]
BY LogFacts DEF SubmissionRows, IInv, Grow, Longer

(* The submission of a fresh request keeps SettledBeforeNext. *)
LEMMA SettledStep ==
  ASSUME IInv, BInv, [Next]_vars
  PROVE  SettledBeforeNext'
<1>0. IInv' /\ Grow
  BY NextStep
<1>1. CASE ~ \E w \in Workers : RecordSubmission(w)
  <2> SUFFICES ASSUME NEW k \in Keys, NEW i \in SubmissionRows(k)', NEW j \in SubmissionRows(k)', i < j
               PROVE  \E r \in StatusRows(log[i].job, k)' : log'[r].status \in Unsuccessful
    BY DEF SettledBeforeNext, Settled
  <2>1. i \in SubmissionRows(k) /\ j \in SubmissionRows(k)
    BY <1>1, OtherRowsDoNotCount
  <2>2. Settled(log[i].job, k) /\ log'[i] = log[i]
    BY <1>0, <2>1, OldRows DEF BInv, SettledBeforeNext
  <2>3. \A n : Settled(n, k) => \E r \in StatusRows(n, k)' : log'[r].status \in Unsuccessful
    BY <1>0, RecordsStay DEF IInv, Grow, Settled
  <2> QED
    BY <2>2, <2>3 DEF StatusRows
<1>2. ASSUME NEW w \in Workers, RecordSubmission(w)
      PROVE  SettledBeforeNext'
  <2>0. key[w] \in Keys /\ job[w] \in Nat
    BY <1>2, TypeParts DEF RecordSubmission, IInv, Knows, ControlTyped
  <2>1. PICK s \in {"pending", "odd", NoStatus} : Audit(w, "submission", job[w], s)
    BY <1>2 DEF RecordSubmission
  <2>2. /\ log' \in Seq(RowType) /\ Len(log') = Len(log) + 1 /\ Len(log) \in Nat
        /\ \A i \in 1..Len(log) : log'[i] = log[i]
        /\ log'[Len(log) + 1] = Row("submission", key[w], job[w], s)
        /\ DOMAIN log = 1..Len(log)
    BY <2>0, <2>1, AuditAppends, LogFacts DEF IInv, Statuses, Events
  <2> SUFFICES ASSUME NEW k \in Keys, NEW i \in SubmissionRows(k)', NEW j \in SubmissionRows(k)', i < j
               PROVE  \E r \in StatusRows(log[i].job, k)' : log'[r].status \in Unsuccessful
    BY DEF SettledBeforeNext, Settled
  <2>3. i \in 1..(Len(log) + 1) /\ j \in 1..(Len(log) + 1)
    BY <2>2 DEF SubmissionRows
  <2>4. i \in 1..Len(log) /\ log'[i] = log[i]
    BY <2>2, <2>3
  <2>5. i \in SubmissionRows(k)
    BY <2>2, <2>4 DEF SubmissionRows
  <2>6. Settled(log[i].job, k)
    <3>1. CASE j = Len(log) + 1
      <4>1. k = key[w]
        BY <2>2, <3>1 DEF SubmissionRows, Row
      <4>2. Fresh(w) /\ pc[w] = "posted"
        BY <1>2 DEF BInv, RecordSubmission
      <4> QED
        BY <2>5, <4>1, <4>2 DEF Fresh
    <3>2. CASE j \in 1..Len(log)
      <4>1. j \in SubmissionRows(k)
        BY <2>2, <3>2 DEF SubmissionRows
      <4> QED
        BY <2>5, <4>1 DEF BInv, SettledBeforeNext
    <3> QED
      BY <2>2, <2>3, <3>1, <3>2
  <2>7. \A n : Settled(n, k) => \E r \in StatusRows(n, k)' : log'[r].status \in Unsuccessful
    BY <1>0, RecordsStay DEF IInv, Grow, Settled
  <2> QED
    BY <2>4, <2>6, <2>7 DEF StatusRows
<1> QED
  BY <1>1, <1>2

(* Nor does a submission of another request. *)
LEMMA OtherRequestsDoNotCount ==
  ASSUME IInv, NEW w \in Workers, RecordSubmission(w), NEW k, k # key[w]
  PROVE  SubmissionRows(k)' = SubmissionRows(k)
<1>1. PICK s \in {"pending", "odd", NoStatus} : Audit(w, "submission", job[w], s)
  BY DEF RecordSubmission
<1>2. key[w] \in Keys /\ job[w] \in Nat /\ "submission" \in Events /\ s \in Statuses \cup {NoStatus}
  BY TypeParts DEF RecordSubmission, IInv, Knows, ControlTyped, Events, Statuses
<1>3. /\ log' \in Seq(RowType) /\ Len(log') = Len(log) + 1 /\ Len(log) \in Nat
      /\ \A i \in 1..Len(log) : log'[i] = log[i]
      /\ log'[Len(log) + 1] = Row("submission", key[w], job[w], s)
      /\ DOMAIN log = 1..Len(log)
  BY <1>1, <1>2, AuditAppends, LogFacts DEF IInv
<1>4. DOMAIN log' = 1..(Len(log) + 1)
  BY <1>3
<1>5. \A i \in DOMAIN log' : i \in DOMAIN log \/ i = Len(log) + 1
  BY <1>3, <1>4
<1>6. \A i \in DOMAIN log : i \in DOMAIN log' /\ log'[i] = log[i]
  BY <1>3, <1>4
<1>7. log'[Len(log) + 1].key # k
  BY <1>3 DEF Row
<1> QED
  BY <1>5, <1>6, <1>7 DEF SubmissionRows

(* A step is the worker's own, or leaves it where it is. *)
Still(w) ==
    /\ pc'[w] = pc[w] /\ key'[w] = key[w] /\ job'[w] = job[w] /\ attempt'[w] = attempt[w]
    /\ polls'[w] = polls[w] /\ resp'[w] = resp[w]

LEMMA OwnStepOrStill ==
  ASSUME IInv, [Next]_vars, NEW w \in Workers
  PROVE  (\E k \in Keys : Call(w, k)) \/ Run(w) \/ AppendFails(w) \/ Restart(w) \/ Still(w)
<1>0. ControlTyped
  BY TypeParts DEF IInv
<1>1. ASSUME NEW v \in Workers, v # w, (\E k \in Keys : Call(v, k)) \/ Run(v) \/ AppendFails(v) \/ Restart(v)
      PROVE  Still(w)
  BY <1>0, <1>1 DEF Call, Run, AppendFails, Restart, RecordDisabled, TakeUpFails, Resume, StartSubmission, Post,
    Accepted, AcceptedUnheard, NotAccepted, RecordSubmission, RecordRefusal, RecordRateLimited, Poll,
    RecordPoll, LookUpResult, RecordLookUp, Download, RecordDownload, Fetch, GiveUp, Goto, Hears, Return,
    ControlTyped, Still
<1>2. ASSUME (\E j \in DOMAIN jobs : Work(j)) \/ UNCHANGED vars
      PROVE  Still(w)
  BY <1>2 DEF Work, worker, vars, Still
<1> QED
  BY <1>1, <1>2 DEF Next

(* How a worker comes to be about to POST. *)
LEMMA ComesToSubmit ==
  ASSUME IInv, [Next]_vars, NEW w \in Workers, pc'[w] \in {"submit", "posted"}
  PROVE  \/ StartSubmission(w) \/ Post(w) \/ RecordRateLimited(w)
         \/ Still(w) /\ ~RecordSubmission(w)
<1>0. ControlTyped
  BY TypeParts DEF IInv
<1>1. ASSUME \E k \in Keys : Call(w, k) PROVE FALSE
  BY <1>0, <1>1 DEF Call, Goto, Admission, ControlTyped
<1>2. ASSUME Run(w)
      PROVE  StartSubmission(w) \/ Post(w) \/ RecordRateLimited(w)
  <2>1. AfterPoll(w) \notin {"submit", "posted"}
    BY DEF AfterPoll
  <2> QED
    BY <1>0, <1>2, <2>1 DEF Run, RecordDisabled, TakeUpFails, Resume, RecordSubmission, RecordRefusal, Poll,
      RecordPoll, LookUpResult, RecordLookUp, Download, RecordDownload, Fetch, GiveUp, Goto, Return, ControlTyped
<1>3. ASSUME AppendFails(w) \/ Restart(w) PROVE FALSE
  BY <1>0, <1>3 DEF AppendFails, Restart, Goto, Return, ControlTyped
<1>4. ~RecordSubmission(w)
  BY <1>0 DEF RecordSubmission, Goto, ControlTyped
<1> QED
  BY <1>1, <1>2, <1>3, <1>4, OwnStepOrStill

(* While submissions of a request are kept apart, the request a worker is  *)
(* about to POST stays fresh.                                              *)
LEMMA FreshStep ==
  ASSUME IInv, BInv, [Next]_vars, Apart, NEW w \in Workers
  PROVE  Fresh(w)'
<1>0. IInv' /\ Grow /\ ControlTyped
  BY NextStep, TypeParts DEF IInv
<1> SUFFICES ASSUME pc'[w] \in {"submit", "posted"}, NEW i \in SubmissionRows(key[w])'
             PROVE  \E r \in StatusRows(log[i].job, key[w])' : log'[r].status \in Unsuccessful
  BY DEF Fresh, Settled
<1>1. \/ StartSubmission(w) \/ Post(w) \/ RecordRateLimited(w)
      \/ pc'[w] = pc[w] /\ key'[w] = key[w] /\ ~RecordSubmission(w)
  BY ComesToSubmit DEF Still
<1>2. key'[w] = key[w]
  BY <1>1 DEF StartSubmission, Post, RecordRateLimited
<1>3. ASSUME NEW k, k = key[w] PROVE SubmissionRows(k)' = SubmissionRows(k)
  <2>1. CASE \E v \in Workers : RecordSubmission(v)
    <3>1. PICK v \in Workers : RecordSubmission(v)
      BY <2>1
    <3>2. pc[v] = "posted" /\ pc'[v] = "poll"
      BY <1>0, <3>1 DEF RecordSubmission, Goto, ControlTyped
    <3>3. pc'[w] = pc[w] /\ v # w
      BY <1>0, <1>1, <3>2 DEF StartSubmission, Post, RecordRateLimited, Goto, ControlTyped
    <3>4. k # key[v]
      BY <1>3, <3>2, <3>3 DEF Apart, Submitting
    <3> QED
      BY <3>1, <3>4, OtherRequestsDoNotCount
  <2>2. CASE ~ \E v \in Workers : RecordSubmission(v)
    BY <2>2, OtherRowsDoNotCount
  <2> QED
    BY <2>1, <2>2
<1>4. i \in SubmissionRows(key[w])
  BY <1>2, <1>3 DEF SubmissionRows
<1>5. Settled(log[i].job, key[w])
  <2>1. CASE StartSubmission(w)
    <3> DEFINE n == Newest(SubmissionRows(key[w]))
    <3>1. /\ n \in SubmissionRows(key[w]) /\ \A m \in SubmissionRows(key[w]) : m <= n
          /\ Settled(log[n].job, key[w])
      BY <1>4, <2>1, NoSubmittedJobIsSettled DEF StartSubmission, IInv
    <3>2. key[w] \in Keys
      BY <2>1 DEF StartSubmission, IInv, Knows
    <3> HIDE DEF n
    <3>3. i = n \/ i < n
      <4>1. SubmissionRows(key[w]) \subseteq 1..Len(log)
        BY LogFacts DEF SubmissionRows, IInv
      <4>2. i \in Nat /\ n \in Nat /\ i <= n
        BY <1>4, <3>1, <4>1
      <4> QED
        BY <4>2
    <3> QED
      BY <1>4, <3>1, <3>2, <3>3 DEF BInv, SettledBeforeNext
  <2>2. CASE ~StartSubmission(w)
    <3>1. pc[w] \in {"submit", "posted"}
      BY <1>1, <2>2 DEF Post, RecordRateLimited
    <3> QED
      BY <1>4, <3>1 DEF BInv, Fresh
  <2> QED
    BY <2>1, <2>2
<1>6. log'[i] = log[i]
  BY <1>0, <1>4, OldRows
<1>7. \A n, k : Settled(n, k) => \E r \in StatusRows(n, k)' : log'[r].status \in Unsuccessful
  BY <1>0, RecordsStay DEF IInv, Grow, Settled
<1> QED
  BY <1>2, <1>5, <1>6, <1>7 DEF StatusRows

(* Every accepted job stays accounted for. *)
LEMMA AccountedStep ==
  ASSUME IInv, BInv, [Next]_vars, NEW j \in 1..Len(jobs')
  PROVE  Accounted(j)'
<1>0. IInv' /\ Grow /\ ControlTyped /\ Len(jobs) \in Nat
  BY NextStep, TypeParts, LogFacts DEF IInv
<1>r. \A n, k : Recorded(n, k) => Recorded(n, k)'
  BY <1>0, RecordsStay DEF IInv, Grow
<1>j. j \in 1..Len(jobs) => jobs'[j].key = jobs[j].key /\ Accounted(j)
  BY <1>0 DEF Grow, JobsGrow, BInv
<1>1. ASSUME j \in 1..Len(jobs), Recorded(j, jobs[j].key) PROVE Accounted(j)'
  <2>1. Recorded(j, jobs[j].key) => \E i \in SubmissionRows(jobs[j].key)' : log'[i].job = j
    <3>1. \A n, k : Recorded(n, k) => \E i \in SubmissionRows(k)' : log'[i].job = n
      BY <1>r DEF Recorded
    <3> QED
      BY <3>1, <1>j, <1>1 DEF SubmissionRows
  <2> QED
    BY <1>1, <2>1 DEF Accounted, Recorded
<1>2. lost \subseteq lost'
  BY DEF Next, Call, Run, AppendFails, Restart, Work, RecordDisabled, TakeUpFails, Resume, StartSubmission, Post,
     Accepted, AcceptedUnheard, NotAccepted, RecordSubmission, RecordRefusal, RecordRateLimited, Poll,
     RecordPoll, LookUpResult, RecordLookUp, Download, RecordDownload, Fetch, GiveUp, vars
<1>3. ASSUME NEW w \in Workers, pc[w] = "posted", resp[w] = "accepted", job[w] = j, j \in 1..Len(jobs)
      PROVE  Accounted(j)'
  <2>1. CASE pc'[w] = pc[w] /\ resp'[w] = resp[w] /\ job'[w] = job[w]
    BY <1>3, <2>1 DEF Accounted
  <2>2. CASE RecordSubmission(w)
    <3>1. PICK s \in {"pending", "odd", NoStatus} : Audit(w, "submission", job[w], s)
      BY <2>2 DEF RecordSubmission
    <3>2. key[w] \in Keys /\ jobs[j].key = key[w] /\ j # NoJob /\ j \in Nat
      <4>1. Knows(w)
        BY DEF IInv
      <4>2. key[w] \in Keys /\ jobs[j].key = key[w]
        BY <1>3, <4>1 DEF Knows
      <4> QED
        BY <1>3, <4>2 DEF NoJob
    <3>3. /\ log' \in Seq(RowType) /\ Len(log') = Len(log) + 1 /\ Len(log) \in Nat
          /\ log'[Len(log) + 1] = Row("submission", key[w], job[w], s)
      <4>1. TypeOK /\ job[w] \in Nat /\ s \in Statuses \cup {NoStatus} /\ "submission" \in Events
        BY <1>3, <3>1, <3>2 DEF IInv, Statuses, Events
      <4> QED
        BY <3>1, <3>2, <4>1, AuditAppends, LogFacts
    <3>4. Len(log) + 1 \in DOMAIN log'
      BY <3>3
    <3>5. Len(log) + 1 \in SubmissionRows(key[w])' /\ log'[Len(log) + 1].job = j
      <4>1. key'[w] = key[w]
        BY <2>2 DEF RecordSubmission
      <4> QED
        BY <1>3, <3>2, <3>3, <3>4, <4>1 DEF SubmissionRows, Row
    <3>6. jobs'[j].key = key[w] /\ key'[w] = key[w]
      BY <1>3, <1>j, <2>2, <3>2 DEF RecordSubmission
    <3>7. \E i \in SubmissionRows(jobs[j].key)' : log'[i].job = j
      BY <3>5, <3>6 DEF SubmissionRows
    <3> QED
      BY <3>7 DEF Accounted, Recorded
  <2>3. CASE AppendFails(w) \/ Restart(w)
    BY <1>3, <2>3 DEF AppendFails, Restart, Unlogged, Accounted
  <2>4. \/ pc'[w] = pc[w] /\ resp'[w] = resp[w] /\ job'[w] = job[w]
        \/ RecordSubmission(w) \/ AppendFails(w) \/ Restart(w)
    <3>1. ASSUME NEW v \in Workers, (\E k \in Keys : Call(v, k)) \/ Run(v) \/ AppendFails(v) \/ Restart(v), v # w
          PROVE  pc'[w] = pc[w] /\ resp'[w] = resp[w] /\ job'[w] = job[w]
      BY <1>0, <3>1 DEF Call, Run, AppendFails, Restart, RecordDisabled, TakeUpFails, Resume, StartSubmission, Post,
        Accepted, AcceptedUnheard, NotAccepted, RecordSubmission, RecordRefusal, RecordRateLimited, Poll,
        RecordPoll, LookUpResult, RecordLookUp, Download, RecordDownload, Fetch, GiveUp, Goto, Hears, Return,
        ControlTyped
    <3>2. ~ \E k \in Keys : Call(w, k)
      BY <1>3 DEF Call
    <3>3. Run(w) => RecordSubmission(w)
      BY <1>3 DEF Run, RecordDisabled, TakeUpFails, Resume, StartSubmission, Post, RecordRefusal, RecordRateLimited, Poll,
        RecordPoll, LookUpResult, RecordLookUp, Download, RecordDownload, Fetch, GiveUp
    <3>4. (\E i \in DOMAIN jobs : Work(i)) \/ UNCHANGED vars
            => pc'[w] = pc[w] /\ resp'[w] = resp[w] /\ job'[w] = job[w]
      BY DEF Work, worker, vars
    <3> QED
      BY <3>1, <3>2, <3>3, <3>4 DEF Next
  <2> QED
    BY <2>1, <2>2, <2>3, <2>4
<1>4. CASE j \in 1..Len(jobs)
  <2>1. \/ j \in lost \/ Recorded(j, jobs[j].key)
        \/ \E w \in Workers : pc[w] = "posted" /\ resp[w] = "accepted" /\ job[w] = j
    BY <1>4, <1>j DEF Accounted
  <2> QED
    BY <1>1, <1>2, <1>3, <1>4, <2>1 DEF Accounted
<1>5. CASE j \notin 1..Len(jobs)
  <2>1. PICK w \in Workers : NewJob(w) /\ Post(w)
    <3>1. Len(jobs') # Len(jobs)
      BY <1>0, <1>5
    <3>2. ASSUME NEW i \in DOMAIN jobs, Work(i) PROVE Len(jobs') = Len(jobs)
      BY <3>2, LogFacts DEF Work, IInv
    <3> QED
      BY <3>1, <3>2 DEF Next, Call, Run, AppendFails, Restart, RecordDisabled, TakeUpFails, Resume, StartSubmission, Post,
        Accepted, AcceptedUnheard, NotAccepted, RecordSubmission, RecordRefusal, RecordRateLimited, Poll,
        RecordPoll, LookUpResult, RecordLookUp, Download, RecordDownload, Fetch, GiveUp, vars
  <2>2. Len(jobs') = Len(jobs) + 1
    BY <2>1, LogFacts DEF NewJob, IInv
  <2>3. j = Len(jobs) + 1
    BY <1>0, <1>5, <2>2
  <2>4. CASE Accepted(w)
    BY <1>0, <2>1, <2>3, <2>4 DEF Accepted, Hears, Post, Goto, ControlTyped, Accounted
  <2>5. CASE AcceptedUnheard(w)
    BY <2>3, <2>5 DEF AcceptedUnheard, Accounted
  <2>6. CASE NotAccepted(w)
    BY <1>0, <2>2, <2>6 DEF NotAccepted
  <2> QED
    BY <2>1, <2>4, <2>5, <2>6 DEF Post
<1> QED
  BY <1>4, <1>5

(* The invariant holds at the start. *)
LEMMA InitBInv == Init => BInv
BY DEF Init, BInv, SettledBeforeNext, SubmissionRows, Fresh

(* Every step taken while submissions are apart keeps it. *)
LEMMA BInductive == Apart /\ IInv /\ BInv /\ [Next]_vars => BInv'
BY SettledStep, FreshStep, AccountedStep DEF BInv

(* While no request is being submitted by two workers at once, it is       *)
(* submitted again only after its recorded job was recorded as             *)
(* unsuccessful, however many workers poll, resume, restart and fail       *)
(* around it.                                                              *)
THEOREM EgressSettledBeforeNext == Spec /\ []Apart => []SettledBeforeNext
<1>1. IInv /\ Apart /\ BInv /\ [Next]_vars => BInv'
  BY BInductive
<1>2. BInv => SettledBeforeNext
  BY DEF BInv
<1> QED
  BY <1>1, <1>2, InitBInv, EgressInvariant, PTL DEF Spec

(* The two invariants bound what the provider can bill. *)
LEMMA BillingFollows ==
  ASSUME Apart, IInv, BInv
  PROVE  BilledOnce
<1> SUFFICES ASSUME NEW k \in Keys
             PROVE  Cardinality({j \in DOMAIN jobs : jobs[j].key = k /\ j \notin lost /\ ~Settled(j, k)}) <= 1
  BY DEF BilledOnce
<1> DEFINE S == {j \in DOMAIN jobs : jobs[j].key = k /\ j \notin lost /\ ~Settled(j, k)}
<1>0. DOMAIN jobs = 1..Len(jobs) /\ Len(jobs) \in Nat
  BY LogFacts DEF IInv
<1>1. ASSUME NEW x \in S, NEW y \in S PROVE x = y
  <2>0. SubmissionRows(k) \subseteq 1..Len(log) /\ Len(log) \in Nat
    BY LogFacts DEF SubmissionRows, IInv
  <2>1. ASSUME NEW z \in S
        PROVE  \/ \E i \in SubmissionRows(k) : log[i].job = z
               \/ \E w \in Workers : /\ pc[w] = "posted" /\ key[w] = k /\ job[w] = z
                                    /\ \A i \in SubmissionRows(k) : log[i].job \notin S
    <3>1. CASE Recorded(z, k)
      BY <3>1 DEF Recorded
    <3>2. CASE ~Recorded(z, k)
      <4>1. PICK w \in Workers : pc[w] = "posted" /\ resp[w] = "accepted" /\ job[w] = z
        BY <1>0, <3>2 DEF BInv, Accounted
      <4>2. key[w] = k /\ Fresh(w)
        BY <4>1 DEF IInv, Knows, BInv
      <4> QED
        BY <4>1, <4>2 DEF Fresh
    <3> QED
      BY <3>1, <3>2
  <2>2. ASSUME NEW i \in SubmissionRows(k), NEW j \in SubmissionRows(k), log[i].job = x, log[j].job = y, x # y
        PROVE  FALSE
    <3>1. i # j /\ i \in Nat /\ j \in Nat
      BY <2>0, <2>2
    <3>2. i < j => Settled(x, k)
      BY <2>2 DEF BInv, SettledBeforeNext
    <3>3. j < i => Settled(y, k)
      BY <2>2 DEF BInv, SettledBeforeNext
    <3> QED
      BY <3>1, <3>2, <3>3
  <2> HIDE DEF S
  <2> QED
    BY <2>1, <2>2 DEF Apart, Submitting
<1>2. CASE S = {}
  BY <1>2, FS_EmptySet
<1>3. CASE S # {}
  <2>1. PICK x \in S : TRUE
    BY <1>3
  <2>2. S = {x}
    <3> HIDE DEF S
    <3> QED
      BY <1>1, <2>1
  <2>3. Cardinality(S) = 1
    BY <2>2, FS_Singleton
  <2> QED
    BY <2>3
<1> QED
  BY <1>2, <1>3

(* Under the same condition, and apart from acceptances nobody heard of, a *)
(* request is billed once plus once per job recorded as unsuccessful.      *)
THEOREM EgressBilledOnce == Spec /\ []Apart => []BilledOnce
<1>1. IInv /\ Apart /\ BInv /\ [Next]_vars => BInv'
  BY BInductive
<1>2. Apart /\ IInv /\ BInv => BilledOnce
  BY BillingFollows
<1> QED
  BY <1>1, <1>2, InitBInv, EgressInvariant, PTL DEF Spec

-----------------------------------------------------------------------------
(* The fallback.  A call that raises has just heard what is no SarvamError,*)
(* and what is called next starts with nothing heard and nothing returned. *)
LEMMA RaisesOfItsOwn ==
  ASSUME IInv, NEW w \in Workers, Run(w), returned'[w].kind = "raised", WithFallback(key[w])
  PROVE  resp'[w] \in Unforeseen \/ (returned'[w] = returned[w] /\ resp'[w] = resp[w])
<1>0. ControlTyped /\ Knows(w)
  BY TypeParts DEF IInv
<1> USE DEF Return
<1>1. CASE GiveUp(w) \/ RecordDisabled(w)
  BY <1>0, <1>1 DEF GiveUp, RecordDisabled, ControlTyped
<1>2. CASE TakeUpFails(w)
  BY <1>0, <1>2 DEF TakeUpFails, Hears, Unforeseen, ControlTyped
<1>3. CASE RecordPoll(w)
  BY <1>0, <1>3 DEF RecordPoll, Unforeseen, ControlTyped
<1>4. CASE RecordDownload(w)
  BY <1>0, <1>4 DEF RecordDownload, Unforeseen, ControlTyped
<1>5. CASE RecordLookUp(w)
  BY <1>0, <1>5 DEF RecordLookUp, ControlTyped
<1>6. CASE \/ Resume(w) \/ StartSubmission(w) \/ Post(w) \/ RecordSubmission(w) \/ RecordRefusal(w)
           \/ RecordRateLimited(w) \/ Poll(w) \/ LookUpResult(w) \/ Download(w)
  <2>1. pc[w] # "idle" /\ returned' = returned
    BY <1>6 DEF Resume, StartSubmission, Post, RecordSubmission, RecordRefusal, RecordRateLimited, Poll,
      LookUpResult, Download, Fetch
  <2> QED
    BY <1>0, <2>1 DEF Knows
<1> QED
  BY <1>1, <1>2, <1>3, <1>4, <1>5, <1>6 DEF Run

LEMMA FallbackStep ==
  ASSUME IInv, FallbackUnlessUnforeseen, [Next]_vars
  PROVE  FallbackUnlessUnforeseen'
<1>0. ControlTyped
  BY TypeParts DEF IInv
<1> SUFFICES ASSUME NEW w \in Workers, returned'[w].kind = "raised", WithFallback(key'[w])
             PROVE  resp'[w] \in Unforeseen
  BY DEF FallbackUnlessUnforeseen, WithFallback
<1>1. returned[w].kind = "raised" /\ WithFallback(key[w]) => resp[w] \in Unforeseen
  BY DEF FallbackUnlessUnforeseen
<1>2. CASE \E k \in Keys : Call(w, k)
  BY <1>0, <1>2 DEF Call, ControlTyped
<1>3. CASE Run(w)
  <2>1. key' = key
    BY <1>3 DEF Run, RecordDisabled, TakeUpFails, Resume, StartSubmission, Post, RecordSubmission,
       RecordRefusal, RecordRateLimited, Poll, RecordPoll, LookUpResult, RecordLookUp, Download,
       RecordDownload, Fetch, GiveUp
  <2> QED
    BY <1>1, <1>3, <2>1, RaisesOfItsOwn
<1>4. CASE AppendFails(w)
  BY <1>0, <1>4 DEF AppendFails, Hears, Unforeseen, ControlTyped
<1>5. CASE Restart(w)
  BY <1>0, <1>5 DEF Restart, ControlTyped
<1>6. CASE key'[w] = key[w] /\ resp'[w] = resp[w] /\ returned'[w] = returned[w]
  BY <1>1, <1>6
<1>7. ASSUME NEW v \in Workers, v # w, (\E k \in Keys : Call(v, k)) \/ Run(v) \/ AppendFails(v) \/ Restart(v)
      PROVE  key'[w] = key[w] /\ resp'[w] = resp[w] /\ returned'[w] = returned[w]
  BY <1>0, <1>7 DEF Call, Run, AppendFails, Restart, RecordDisabled, TakeUpFails, Resume, StartSubmission,
    Post, Accepted, AcceptedUnheard, NotAccepted, RecordSubmission, RecordRefusal, RecordRateLimited, Poll,
    RecordPoll, LookUpResult, RecordLookUp, Download, RecordDownload, Fetch, GiveUp, Hears, Return,
    ControlTyped
<1>8. ASSUME (\E j \in DOMAIN jobs : Work(j)) \/ UNCHANGED vars
      PROVE  key'[w] = key[w] /\ resp'[w] = resp[w] /\ returned'[w] = returned[w]
  BY <1>8 DEF Work, worker, vars
<1> QED
  BY <1>2, <1>3, <1>4, <1>5, <1>6, <1>7, <1>8 DEF Next

(* The failures the route knows of end in the local engine, whatever the   *)
(* provider answers and however the processes are restarted: a call with a *)
(* fallback raises only on a row the log refused, an archive that cannot   *)
(* be unpacked or a status of a wrong type, just answered or on record.    *)
THEOREM EgressFallbackUnlessUnforeseen == Spec => []FallbackUnlessUnforeseen
<1>1. Init => FallbackUnlessUnforeseen
  BY DEF Init, FallbackUnlessUnforeseen
<1> QED
  BY <1>1, FallbackStep, EgressInvariant, PTL DEF Spec

-----------------------------------------------------------------------------
(* The ledger the log stands for.  What the log says of a request is a     *)
(* function of the log; the lemmas say what one more row makes of it.      *)

SubRows(l, k) == {i \in DOMAIN l : l[i].event = "submission" /\ l[i].key = k /\ l[i].job # NoJob}
ToldRows(l, j, k) == {i \in DOMAIN l : l[i].job = j /\ l[i].key = k /\ l[i].status # NoStatus}
Told(l, j, k) == {l[i].status : i \in ToldRows(l, j, k)}
Latest(l, k) == l[Newest(SubRows(l, k))].job

EntryOf(l, k) ==
    IF SubRows(l, k) = {} THEN "none"
    ELSE IF "completed" \in Told(l, Latest(l, k), k) THEN "completed"
    ELSE IF Told(l, Latest(l, k), k) \cap Unsuccessful # {} THEN "unsuccessful"
    ELSE "open"

(* The entry of the model, of the log as it is and as a step leaves it. *)
LEMMA EntryOfLog ==
  ASSUME NEW k
  PROVE  /\ LedgerEntry(k) = EntryOf(log, k) /\ LedgerEntry(k)' = EntryOf(log', k)
         /\ SubmissionRows(k) = SubRows(log, k) /\ SubmissionRows(k)' = SubRows(log', k)
<1>1. SubmissionRows(k) = SubRows(log, k) /\ SubmissionRows(k)' = SubRows(log', k)
  BY DEF SubmissionRows, SubRows
<1> QED
  BY <1>1 DEF LedgerEntry, EntryOf, Told, ToldRows, Latest, StatusRows

(* m is the log l with one more row. *)
Adds(l, row, m) == l \in Seq(RowType) /\ row \in RowType /\ m = Append(l, row)

(* The positions and elements of a log with one more row. *)
LEMMA OneMore ==
  ASSUME NEW l, NEW row, NEW m, Adds(l, row, m)
  PROVE  /\ Len(l) \in Nat /\ DOMAIN l = 1..Len(l) /\ DOMAIN m = 1..(Len(l) + 1)
         /\ \A i \in 1..Len(l) : m[i] = l[i]
         /\ m[Len(l) + 1] = row
         /\ \A i \in DOMAIN m : i \in DOMAIN l \/ i = Len(l) + 1
<1> USE DEF Adds
<1> HIDE DEF RowType
<1>1. Len(l) \in Nat /\ DOMAIN l = 1..Len(l) /\ m \in Seq(RowType) /\ Len(m) = Len(l) + 1
  OBVIOUS
<1>2. \A i \in 1..Len(l) : m[i] = l[i]
  OBVIOUS
<1>3. m[Len(l) + 1] = row /\ DOMAIN m = 1..Len(m)
  OBVIOUS
<1> QED
  BY <1>1, <1>2, <1>3

(* The newest submission is one of the log's rows. *)
LEMMA LatestRow ==
  ASSUME NEW l \in Seq(RowType), NEW k, SubRows(l, k) # {}
  PROVE  Newest(SubRows(l, k)) \in SubRows(l, k) /\ Newest(SubRows(l, k)) \in 1..Len(l)
<1>1. Len(l) \in Nat /\ SubRows(l, k) \in SUBSET (1..Len(l))
  BY DEF SubRows
<1> QED
  BY <1>1, NewestExists

(* A row that is no submission with a job leaves the submissions alone. *)
LEMMA SameSubRows ==
  ASSUME NEW l, NEW row, NEW m, Adds(l, row, m), NEW k,
         row.key # k \/ row.event # "submission" \/ row.job = NoJob
  PROVE  /\ SubRows(m, k) = SubRows(l, k)
         /\ SubRows(l, k) # {} => Latest(m, k) = Latest(l, k)
<1>1. SubRows(m, k) = SubRows(l, k)
  BY OneMore DEF SubRows
<1>2. SubRows(l, k) # {} => m[Newest(SubRows(l, k))] = l[Newest(SubRows(l, k))]
  <2>1. l \in Seq(RowType)
    BY DEF Adds
  <2> QED
    BY <2>1, OneMore, LatestRow
<1> QED
  BY <1>1, <1>2 DEF Latest

(* One more row is one status more, if it has one of this job and request. *)
LEMMA OneMoreTold ==
  ASSUME NEW l, NEW row, NEW m, Adds(l, row, m), NEW j, NEW k
  PROVE  Told(m, j, k) = Told(l, j, k) \cup
            (IF row.job = j /\ row.key = k /\ row.status # NoStatus THEN {row.status} ELSE {})
<1> DEFINE adds == row.job = j /\ row.key = k /\ row.status # NoStatus
<1>1. ToldRows(m, j, k) = ToldRows(l, j, k) \cup (IF adds THEN {Len(l) + 1} ELSE {})
  BY OneMore DEF ToldRows
<1>2. ToldRows(l, j, k) \subseteq 1..Len(l)
  BY OneMore DEF ToldRows
<1>3. \A i \in ToldRows(l, j, k) : m[i] = l[i]
  BY <1>2, OneMore
<1>4. m[Len(l) + 1] = row
  BY OneMore
<1> QED
  BY <1>1, <1>3, <1>4 DEF Told

(* A row that says nothing new of the request leaves its entry alone. *)
LEMMA EntryStays ==
  ASSUME NEW l, NEW row, NEW m, Adds(l, row, m), NEW k,
         \/ row.key # k
         \/ row.status = NoStatus /\ (row.event # "submission" \/ row.job = NoJob)
  PROVE  EntryOf(m, k) = EntryOf(l, k)
<1>1. SubRows(m, k) = SubRows(l, k) /\ (SubRows(l, k) # {} => Latest(m, k) = Latest(l, k))
  BY SameSubRows
<1>2. ASSUME NEW j PROVE Told(m, j, k) = Told(l, j, k)
  <2>1. Told(m, j, k) = Told(l, j, k) \cup
            (IF row.job = j /\ row.key = k /\ row.status # NoStatus THEN {row.status} ELSE {})
    BY OneMoreTold
  <2>2. ~(row.key = k /\ row.status # NoStatus)
    OBVIOUS
  <2> QED
    BY <2>1, <2>2
<1> QED
  BY <1>1, <1>2 DEF EntryOf

(* The submission of a job the log did not know opens the entry. *)
LEMMA EntryOpens ==
  ASSUME NEW l, NEW row, NEW m, Adds(l, row, m),
         row.event = "submission", row.job # NoJob, row.status \in {"pending", "odd", NoStatus},
         \A i \in 1..Len(l) : l[i].job # row.job
  PROVE  EntryOf(m, row.key) = "open" /\ SubRows(m, row.key) # {} /\ Latest(m, row.key) = row.job
<1> DEFINE k == row.key
           n == Len(l) + 1
<1>1. n \in SubRows(m, k) /\ SubRows(m, k) \in SUBSET (1..n) /\ n \in Nat
  BY OneMore DEF SubRows
<1>2. Newest(SubRows(m, k)) = n
  <2>1. Newest(SubRows(m, k)) \in SubRows(m, k) /\ n <= Newest(SubRows(m, k))
    BY <1>1, NewestExists
  <2> QED
    BY <1>1, <2>1
<1>3. Latest(m, k) = row.job
  BY <1>2, OneMore DEF Latest
<1>4. Told(l, row.job, k) = {}
  BY OneMore DEF Told, ToldRows
<1>5. Told(m, row.job, k) \subseteq {"pending", "odd"}
  BY <1>4, OneMoreTold
<1> QED
  BY <1>1, <1>3, <1>5 DEF EntryOf, Unsuccessful

(* A status of the newest job is added to what the entry is made of. *)
LEMMA EntryTold ==
  ASSUME NEW l, NEW row, NEW m, Adds(l, row, m),
         row.event # "submission", row.status # NoStatus,
         SubRows(l, row.key) # {}, Latest(l, row.key) = row.job
  PROVE  /\ SubRows(m, row.key) = SubRows(l, row.key) /\ Latest(m, row.key) = row.job
         /\ Told(m, row.job, row.key) = Told(l, row.job, row.key) \cup {row.status}
BY SameSubRows, OneMoreTold

(* What a step adds to the log: a row that neither submits nor reports, a  *)
(* submission, or what a poll was told.  Only a submission names a job     *)
(* that the log did not know (InLog).                                      *)
InLog(j) == \E i \in 1..Len(log) : log[i].job = j

Silent(row) ==
    /\ row.status = NoStatus /\ (row.event # "submission" \/ row.job = NoJob)
    /\ row.job = NoJob \/ InLog(row.job)

Submits(w, row) ==
    /\ RecordSubmission(w)
    /\ row.event = "submission" /\ row.job = job[w] /\ row.status \in {"pending", "odd", NoStatus}

Reports(w, row) ==
    /\ RecordPoll(w)
    /\ row.event = "poll" /\ row.job = job[w] /\ row.status = resp[w] /\ resp[w] \in Statuses
    /\ InLog(job[w])

LEMMA RunAdds ==
  ASSUME IInv, NEW w \in Workers, Run(w)
  PROVE  \/ log' = log
         \/ \E e \in Events, j \in Nat, s \in Statuses \cup {NoStatus} :
              /\ Audit(w, e, j, s) /\ UNCHANGED jobs
              /\ Silent(Row(e, key[w], j, s)) \/ Submits(w, Row(e, key[w], j, s))
                    \/ Reports(w, Row(e, key[w], j, s))
<1>0. ControlTyped /\ job[w] \in Nat /\ NoJob \in Nat /\ NoStatus \in Statuses \cup {NoStatus}
  BY TypeParts DEF IInv, ControlTyped, NoJob
<1>r. \A j, k : Recorded(j, k) => InLog(j)
  BY LogFacts DEF Recorded, SubmissionRows, InLog, IInv
<1>1. ASSUME NEW e \in Events, NEW j \in Nat, j = NoJob \/ InLog(j), e # "submission" \/ j = NoJob,
             Audit(w, e, j, NoStatus), UNCHANGED jobs
      PROVE  \E e1 \in Events, j1 \in Nat, s1 \in Statuses \cup {NoStatus} :
              /\ Audit(w, e1, j1, s1) /\ UNCHANGED jobs
              /\ Silent(Row(e1, key[w], j1, s1)) \/ Submits(w, Row(e1, key[w], j1, s1))
                    \/ Reports(w, Row(e1, key[w], j1, s1))
  <2>1. Silent(Row(e, key[w], j, NoStatus))
    BY <1>1 DEF Silent, Row
  <2> QED
    BY <1>0, <1>1, <2>1
<1>2. ASSUME pc[w] \in Remote \ {"submit", "posted"} PROVE InLog(job[w])
  BY <1>2, <1>r DEF IInv, Knows
<1>3. CASE RecordDisabled(w)
  BY <1>0, <1>1, <1>3 DEF RecordDisabled, Events
<1>4. CASE Resume(w)
  <2>1. SubmittedJob(key[w]) \in Nat /\ InLog(SubmittedJob(key[w]))
    <3>1. Recorded(SubmittedJob(key[w]), key[w])
      BY <1>4, SubmittedJobIsRecorded DEF Resume, IInv
    <3>2. SubmittedJob(key[w]) \in 1..Len(jobs)
      BY <3>1, RecordedJobsExist DEF IInv
    <3> QED
      BY <1>r, <3>1, <3>2, LogFacts DEF IInv
  <2>2. Audit(w, "resume", SubmittedJob(key[w]), NoStatus) /\ "resume" \in Events /\ UNCHANGED jobs
    BY <1>4 DEF Resume, Events
  <2> QED
    BY <1>0, <1>1, <2>1, <2>2
<1>5. CASE TakeUpFails(w) \/ StartSubmission(w) \/ Post(w) \/ Poll(w) \/ LookUpResult(w) \/ Download(w)
  BY <1>5 DEF TakeUpFails, StartSubmission, Post, Poll, LookUpResult, Download, Fetch
<1>6. CASE RecordSubmission(w)
  <2>1. PICK s \in {"pending", "odd", NoStatus} : Audit(w, "submission", job[w], s)
    BY <1>6 DEF RecordSubmission
  <2>2. Submits(w, Row("submission", key[w], job[w], s))
    BY <1>6, <2>1 DEF Submits, Row
  <2>3. "submission" \in Events /\ s \in Statuses \cup {NoStatus} /\ UNCHANGED jobs
    BY <1>6 DEF Events, Statuses, RecordSubmission
  <2> QED
    BY <1>0, <2>1, <2>2, <2>3
<1>7. CASE RecordRefusal(w)
  BY <1>0, <1>1, <1>7 DEF RecordRefusal, Events
<1>8. CASE RecordRateLimited(w)
  BY <1>0, <1>1, <1>8 DEF RecordRateLimited, Events
<1>9. CASE RecordPoll(w)
  <2>1. resp[w] \in Statuses \cup {"error"} /\ pc[w] = "polled" /\ UNCHANGED jobs
    BY <1>9 DEF RecordPoll, IInv, Knows
  <2>2. InLog(job[w])
    BY <1>2, <2>1 DEF Remote
  <2>3. CASE resp[w] = "error"
    BY <1>0, <1>1, <1>9, <2>1, <2>2, <2>3 DEF RecordPoll, Events
  <2>4. CASE resp[w] # "error"
    <3>1. Audit(w, "poll", job[w], resp[w]) /\ resp[w] \in Statuses
      BY <1>9, <2>1, <2>4 DEF RecordPoll
    <3>2. Reports(w, Row("poll", key[w], job[w], resp[w]))
      BY <1>9, <2>2, <3>1 DEF Reports, Row
    <3> QED
      BY <1>0, <2>1, <3>1, <3>2 DEF Events
  <2> QED
    BY <2>3, <2>4
<1>10. CASE RecordLookUp(w) \/ RecordDownload(w)
  <2>1. \E e \in {"result_lookup_error", "result_lookup", "download_error", "download"} :
           Audit(w, e, job[w], NoStatus)
    BY <1>10 DEF RecordLookUp, RecordDownload
  <2>2. InLog(job[w]) /\ UNCHANGED jobs
    BY <1>2, <1>10 DEF RecordLookUp, RecordDownload, Remote
  <2> QED
    BY <1>0, <1>1, <2>1, <2>2 DEF Events
<1>11. CASE GiveUp(w)
  BY <1>0, <1>1, <1>11 DEF GiveUp, Events
<1> QED
  BY <1>3, <1>4, <1>5, <1>6, <1>7, <1>8, <1>9, <1>10, <1>11 DEF Run

(* The same, of any step. *)
LEMMA StepAdds ==
  ASSUME IInv, [Next]_vars, log' # log
  PROVE  \E w \in Workers, row \in RowType :
           /\ Adds(log, row, log') /\ row.key = key[w] /\ UNCHANGED jobs
           /\ Silent(row) \/ Submits(w, row) \/ Reports(w, row)
<1>1. PICK w \in Workers : Run(w)
  BY DEF Next, Call, AppendFails, Restart, Work, vars
<1>2. pc[w] # "idle"
  BY <1>1 DEF Run, RecordDisabled, TakeUpFails, Resume, StartSubmission, Post, RecordSubmission, RecordRefusal,
    RecordRateLimited, Poll, RecordPoll, LookUpResult, RecordLookUp, Download, RecordDownload, Fetch, GiveUp
<1>3. key[w] \in Keys /\ log \in Seq(RowType)
  BY <1>2, LogFacts DEF IInv, Knows
<1>4. PICK e \in Events, j \in Nat, s \in Statuses \cup {NoStatus} :
              /\ Audit(w, e, j, s) /\ UNCHANGED jobs
              /\ Silent(Row(e, key[w], j, s)) \/ Submits(w, Row(e, key[w], j, s))
                    \/ Reports(w, Row(e, key[w], j, s))
  BY <1>1, RunAdds
<1>5. Row(e, key[w], j, s) \in RowType /\ Row(e, key[w], j, s).key = key[w]
  BY <1>3 DEF Row, RowType
<1>6. Adds(log, Row(e, key[w], j, s), log')
  BY <1>3, <1>4, <1>5 DEF Adds, Audit
<1> QED
  BY <1>4, <1>5, <1>6

(* A job that has ended stays as it ended. *)
LEMMA JobsFinal ==
  ASSUME IInv, [Next]_vars
  PROVE  \A j \in 1..Len(jobs) : jobs[j].status \in Terminal => jobs'[j] = jobs[j]
<1>1. jobs \in Seq(JobType) /\ DOMAIN jobs = 1..Len(jobs)
  BY LogFacts DEF IInv
<1>2. jobs' = jobs \/ (\E w \in Workers : NewJob(w)) \/ \E i \in DOMAIN jobs : Work(i)
  BY DEF Next, Call, Run, AppendFails, Restart, RecordDisabled, TakeUpFails, Resume, StartSubmission, Post,
     Accepted, AcceptedUnheard, NotAccepted, RecordSubmission, RecordRefusal, RecordRateLimited, Poll,
     RecordPoll, LookUpResult, RecordLookUp, Download, RecordDownload, Fetch, GiveUp, vars
<1>3. ASSUME NEW w \in Workers, NewJob(w) PROVE \A j \in 1..Len(jobs) : jobs'[j] = jobs[j]
  BY <1>1, <1>3 DEF NewJob
<1>4. ASSUME NEW i \in DOMAIN jobs, Work(i)
      PROVE  \A j \in 1..Len(jobs) : jobs[j].status \in Terminal => jobs'[j] = jobs[j]
  BY <1>1, <1>4 DEF Work, Terminal
<1> QED
  BY <1>2, <1>3, <1>4

(* What the refinement rests on: the log names jobs there are and reports  *)
(* how they ended; an answer a worker holds is true of the job; and an     *)
(* acceptance that is not in the log is held by one worker and is of a job *)
(* the log does not name.                                                  *)
Holds(w) == pc[w] = "posted" /\ resp[w] = "accepted"

Current(w) ==
    /\ pc[w] = "polled" /\ resp[w] \in Terminal => jobs[job[w]].status = resp[w]
    /\ Holds(w) => ~InLog(job[w])

Distinct == \A u, v \in Workers : Holds(u) /\ Holds(v) /\ job[u] = job[v] => u = v

LogKnows == \A i \in 1..Len(log) : log[i].job <= Len(jobs)

LogTrue ==
    \A i \in 1..Len(log) : log[i].status \in Terminal =>
      log[i].job \in 1..Len(jobs) /\ jobs[log[i].job].status = log[i].status

LInv == LogKnows /\ LogTrue /\ Distinct /\ \A w \in Workers : Current(w)

(* A worker that is polling, or holds an acceptance, has a job there is. *)
LEMMA JobAtHand ==
  ASSUME IInv, NEW w \in Workers, RecordSubmission(w) \/ RecordPoll(w) \/ Poll(w)
  PROVE  job[w] \in 1..Len(jobs) /\ job[w] # NoJob
<1>1. Knows(w)
  BY DEF IInv
<1>2. CASE RecordSubmission(w)
  BY <1>1, <1>2, LogFacts DEF RecordSubmission, Knows, NoJob, IInv
<1>3. CASE RecordPoll(w) \/ Poll(w)
  <2>1. Recorded(job[w], key[w])
    BY <1>1, <1>3 DEF RecordPoll, Poll, Knows, Remote
  <2>2. job[w] \in 1..Len(jobs)
    BY <2>1, RecordedJobsExist DEF IInv
  <2> QED
    BY <2>2, LogFacts DEF NoJob, IInv
<1> QED
  BY <1>2, <1>3

(* A row, old or new, keeps naming a job there is and how it ended. *)
LEMMA LogStaysTrue ==
  ASSUME IInv, LInv, [Next]_vars
  PROVE  LogKnows' /\ LogTrue'
<1>0. /\ Len(log) \in Nat /\ Len(jobs) \in Nat /\ Len(jobs') \in Nat /\ Len(jobs) <= Len(jobs')
      /\ \A i \in 1..Len(log) : log[i].job \in Nat
  BY NextStep, LogFacts DEF IInv, Grow, JobsGrow, RowType
<1>1. ASSUME NEW i \in 1..Len(log)
      PROVE  /\ log[i].job <= Len(jobs')
             /\ log[i].status \in Terminal =>
                  log[i].job \in 1..Len(jobs') /\ jobs'[log[i].job].status = log[i].status
  <2>1. log[i].job <= Len(jobs)
    BY DEF LInv, LogKnows
  <2>2. ASSUME log[i].status \in Terminal
        PROVE  log[i].job \in 1..Len(jobs) /\ jobs[log[i].job].status = log[i].status
    BY <2>2 DEF LInv, LogTrue
  <2> QED
    BY <1>0, <2>1, <2>2, JobsFinal
<1>2. CASE log' = log
  BY <1>1, <1>2 DEF LogKnows, LogTrue
<1>3. CASE log' # log
  <2>1. PICK w \in Workers, row \in RowType :
           /\ Adds(log, row, log') /\ row.key = key[w] /\ UNCHANGED jobs
           /\ Silent(row) \/ Submits(w, row) \/ Reports(w, row)
    BY <1>3, StepAdds
  <2>2. /\ row.job \in 0..Len(jobs)
        /\ row.status \in Terminal => row.job \in 1..Len(jobs) /\ jobs[row.job].status = row.status
    <3>1. CASE Silent(row)
      <4>1. row.job \in 0..Len(jobs)
        BY <1>0, <3>1 DEF Silent, InLog, NoJob, LInv, LogKnows
      <4> QED
        BY <3>1, <4>1 DEF Silent, Terminal, NoStatus
    <3>2. CASE Submits(w, row)
      <4>1. job[w] \in 1..Len(jobs)
        BY <3>2, JobAtHand DEF Submits
      <4>2. row.job = job[w] /\ row.status \notin Terminal
        BY <3>2 DEF Submits, Terminal, NoStatus
      <4> QED
        BY <1>0, <4>1, <4>2
    <3>3. CASE Reports(w, row)
      <4>1. job[w] \in 1..Len(jobs) /\ pc[w] = "polled"
        BY <3>3, JobAtHand DEF Reports, RecordPoll
      <4>2. row.job = job[w] /\ row.status = resp[w]
        BY <3>3 DEF Reports
      <4>3. resp[w] \in Terminal => jobs[job[w]].status = resp[w]
        BY <4>1 DEF LInv, Current
      <4> QED
        BY <1>0, <4>1, <4>2, <4>3
    <3> QED
      BY <2>1, <3>1, <3>2, <3>3
  <2>3. /\ DOMAIN log' = 1..(Len(log) + 1) /\ log' \in Seq(RowType)
        /\ \A i \in 1..Len(log) : log'[i] = log[i]
        /\ log'[Len(log) + 1] = row
    <3>1. log' \in Seq(RowType)
      BY NextStep DEF Grow
    <3> QED
      BY <2>1, <3>1, OneMore
  <2>4. Len(log') = Len(log) + 1
    BY <1>0, <2>3
  <2>5. \A i \in 1..Len(log') : i \in 1..Len(log) \/ i = Len(log) + 1
    BY <1>0, <2>4
  <2>6. jobs' = jobs /\ row.job <= Len(jobs)
    BY <1>0, <2>1, <2>2
  <2>7. LogKnows'
    BY <1>1, <2>3, <2>5, <2>6 DEF LogKnows
  <2>8. LogTrue'
    BY <1>1, <2>2, <2>3, <2>5, <2>6 DEF LogTrue
  <2> QED
    BY <2>7, <2>8
<1> QED
  BY <1>2, <1>3

(* How a worker comes to hold an answer. *)
LEMMA Reaches ==
  ASSUME IInv, [Next]_vars, NEW w \in Workers, pc'[w] \in {"posted", "polled"}
  PROVE  \/ Post(w) /\ pc'[w] = "posted"
         \/ Poll(w) /\ pc'[w] = "polled"
         \/ Still(w) /\ ~RecordSubmission(w)
<1>0. ControlTyped
  BY TypeParts DEF IInv
<1>1. ASSUME \E k \in Keys : Call(w, k) PROVE FALSE
  BY <1>0, <1>1 DEF Call, Goto, Admission, ControlTyped
<1>2. ASSUME Run(w)
      PROVE  \/ Post(w) /\ pc'[w] = "posted"
             \/ Poll(w) /\ pc'[w] = "polled"
  <2>1. AfterPoll(w) \in {"lookup", "failed", "poll"}
    BY DEF AfterPoll
  <2> QED
    BY <1>0, <1>2, <2>1 DEF Run, RecordDisabled, TakeUpFails, Resume, StartSubmission, Post, RecordSubmission,
      RecordRefusal, RecordRateLimited, Poll, RecordPoll, LookUpResult, RecordLookUp, Download,
      RecordDownload, Fetch, GiveUp, Goto, Return, ControlTyped
<1>3. ASSUME AppendFails(w) \/ Restart(w) PROVE FALSE
  BY <1>0, <1>3 DEF AppendFails, Restart, Goto, Return, ControlTyped
<1>4. ~RecordSubmission(w)
  BY <1>0 DEF RecordSubmission, Goto, ControlTyped
<1> QED
  BY <1>1, <1>2, <1>3, <1>4, OwnStepOrStill

(* An acceptance is held, or heard just now of the next job there is. *)
LEMMA HowHeld ==
  ASSUME IInv, [Next]_vars, NEW w \in Workers, Holds(w)'
  PROVE  \/ Post(w) /\ job'[w] = Len(jobs) + 1 /\ log' = log
         \/ Holds(w) /\ job'[w] = job[w] /\ job[w] \in 1..Len(jobs) /\ ~RecordSubmission(w)
<1>0. ControlTyped
  BY TypeParts DEF IInv
<1>1. CASE Post(w)
  <2>1. Accepted(w) /\ log' = log
    BY <1>0, <1>1 DEF Holds, Post, AcceptedUnheard, NotAccepted, Hears, ControlTyped
  <2> QED
    BY <1>0, <1>1, <2>1 DEF Accepted, ControlTyped
<1>2. CASE Still(w) /\ ~RecordSubmission(w)
  <2>1. Holds(w) /\ job'[w] = job[w]
    BY <1>2 DEF Holds, Still
  <2> QED
    BY <1>2, <2>1 DEF Holds, IInv, Knows
<1>3. pc'[w] = "posted"
  BY DEF Holds
<1> QED
  BY <1>1, <1>2, <1>3, Reaches

(* No two workers hold the same acceptance. *)
LEMMA DistinctStep ==
  ASSUME IInv, LInv, [Next]_vars
  PROVE  Distinct'
<1> SUFFICES ASSUME NEW u \in Workers, NEW v \in Workers, Holds(u)', Holds(v)', job'[u] = job'[v], u # v
             PROVE  FALSE
  BY DEF Distinct
<1>0. ControlTyped /\ Len(jobs) \in Nat
  BY TypeParts, LogFacts DEF IInv
<1>1. ~(Post(u) /\ Post(v))
  BY <1>0 DEF Post, Goto, ControlTyped
<1>2. ~(Holds(u) /\ Holds(v) /\ job[u] = job[v])
  BY DEF LInv, Distinct
<1> QED
  BY <1>0, <1>1, <1>2, HowHeld

(* What a worker holds stays true of the log and the provider. *)
LEMMA CurrentStep ==
  ASSUME IInv, LInv, [Next]_vars, NEW w \in Workers
  PROVE  Current(w)'
<1>0. ControlTyped /\ IInv' /\ Grow /\ log \in Seq(RowType) /\ Len(jobs) \in Nat
  BY NextStep, TypeParts, LogFacts DEF IInv
<1>1. ASSUME pc'[w] = "polled", resp'[w] \in Terminal PROVE jobs'[job'[w]].status = resp'[w]
  <2>1. CASE Poll(w)
    BY <1>0, <1>1, <2>1 DEF Poll, Hears, ControlTyped, Terminal
  <2>2. CASE Still(w)
    <3>1. pc[w] = "polled" /\ jobs[job[w]].status = resp[w] /\ resp[w] \in Terminal
      BY <1>1, <2>2 DEF Still, LInv, Current
    <3>2. Recorded(job[w], key[w])
      BY <3>1 DEF IInv, Knows, Remote
    <3>3. job[w] \in 1..Len(jobs)
      BY <3>2, RecordedJobsExist DEF IInv
    <3> QED
      BY <2>2, <3>1, <3>3, JobsFinal DEF Still
  <2> QED
    BY <1>1, <2>1, <2>2, Reaches
<1>2. ASSUME Holds(w)', NEW i \in 1..Len(log'), log'[i].job = job'[w] PROVE FALSE
  <2>1. \A n \in 1..Len(log) : log[n].job # job'[w]
    <3>1. \A n \in 1..Len(log) : log[n].job <= Len(jobs) /\ log[n].job \in Nat
      BY LogFacts DEF LInv, LogKnows, IInv, RowType
    <3>2. Holds(w) => \A n \in 1..Len(log) : log[n].job # job[w]
      BY DEF LInv, Current, InLog
    <3> QED
      BY <1>0, <1>2, <3>1, <3>2, HowHeld
  <2>2. CASE log' = log
    BY <1>2, <2>1, <2>2
  <2>3. CASE log' # log
    <3>1. PICK v \in Workers, row \in RowType :
             /\ Adds(log, row, log') /\ row.key = key[v] /\ UNCHANGED jobs
             /\ Silent(row) \/ Submits(v, row) \/ Reports(v, row)
      BY <2>3, StepAdds
    <3>2. Holds(w) /\ job'[w] = job[w] /\ job[w] \in 1..Len(jobs) /\ ~RecordSubmission(w)
      BY <1>2, <2>3, HowHeld
    <3>3. row.job # job[w]
      <4>1. CASE Silent(row) \/ Reports(v, row)
        BY <2>1, <3>2, <4>1 DEF Silent, Reports, InLog, NoJob
      <4>2. CASE Submits(v, row)
        BY <3>2, <4>2 DEF Submits, RecordSubmission, Holds, LInv, Distinct
      <4> QED
        BY <3>1, <4>1, <4>2
    <3>4. DOMAIN log' = 1..Len(log')
      BY <1>0 DEF Grow
    <3>5. (i \in 1..Len(log) /\ log'[i] = log[i]) \/ log'[i] = row
      BY <3>1, <3>4, OneMore
    <3> QED
      BY <1>2, <2>1, <3>2, <3>3, <3>5
  <2> QED
    BY <2>2, <2>3
<1> QED
  BY <1>1, <1>2 DEF Current, InLog

(* A log that is true of some jobs tells one ending of each. *)
LEMMA OneEnding ==
  ASSUME NEW l, NEW js, NEW j, NEW k,
         \A i \in DOMAIN l : l[i].status \in Terminal => js[l[i].job].status = l[i].status
  PROVE  ~("completed" \in Told(l, j, k) /\ Told(l, j, k) \cap Unsuccessful # {})
<1> SUFFICES ASSUME NEW a \in ToldRows(l, j, k), l[a].status = "completed",
                    NEW b \in ToldRows(l, j, k), l[b].status \in Unsuccessful
             PROVE  FALSE
  BY DEF Told
<1>1. js[j].status = "completed"
  BY DEF ToldRows, Terminal
<1>2. js[j].status = l[b].status
  BY DEF ToldRows, Terminal, Unsuccessful
<1> QED
  BY <1>1, <1>2 DEF Unsuccessful

(* A request that is submitted has no job, or one that was unsuccessful. *)
LEMMA SubmittedEntry ==
  ASSUME IInv, BInv, LInv, NEW w \in Workers, RecordSubmission(w)
  PROVE  EntryOf(log, key[w]) \in {"none", "unsuccessful"}
<1> DEFINE k == key[w]
           n == Newest(SubRows(log, k))
<1>1. CASE SubRows(log, k) = {}
  BY <1>1 DEF EntryOf
<1>2. CASE SubRows(log, k) # {}
  <2>1. n \in SubRows(log, k)
    BY <1>2, LatestRow, LogFacts DEF IInv
  <2>2. Settled(Latest(log, k), k)
    <3>1. pc[w] = "posted" /\ Fresh(w)
      BY DEF RecordSubmission, BInv
    <3>2. n \in SubmissionRows(k)
      BY <2>1, EntryOfLog
    <3> HIDE DEF n
    <3>3. Settled(log[n].job, k)
      BY <3>1, <3>2 DEF Fresh
    <3> QED
      BY <3>3 DEF Latest, n
  <2>3. Told(log, Latest(log, k), k) \cap Unsuccessful # {}
    BY <2>2 DEF Settled, StatusRows, Told, ToldRows
  <2>4. \A i \in DOMAIN log : log[i].status \in Terminal => jobs[log[i].job].status = log[i].status
    BY LogFacts DEF LInv, LogTrue, IInv
  <2>5. "completed" \notin Told(log, Latest(log, k), k)
    BY <2>3, <2>4, OneEnding
  <2> QED
    BY <1>2, <2>3, <2>5 DEF EntryOf
<1> QED
  BY <1>1, <1>2

(* What a poll was told of the newest job settles an open entry or changes *)
(* none; of an older job it changes none.                                  *)
LEMMA ReportedEntry ==
  ASSUME IInv, LInv, [Next]_vars, NEW w \in Workers, NEW row, Adds(log, row, log'),
         row.key = key[w], Reports(w, row)
  PROVE  \/ EntryOf(log', row.key) = EntryOf(log, row.key)
         \/ /\ EntryOf(log, row.key) = "open"
            /\ EntryOf(log', row.key) \in {"completed", "unsuccessful"}
<1> DEFINE k == row.key
           T == Told(log, row.job, k)
<1>1. row.event = "poll" /\ row.job = job[w] /\ row.status \in Statuses /\ row.status # NoStatus
      /\ pc[w] = "polled"
  BY DEF Reports, RecordPoll, Statuses, Terminal, NoStatus
<1>2. SubRows(log, k) # {}
  <2>1. Recorded(job[w], key[w])
    BY <1>1 DEF IInv, Knows, Remote
  <2> QED
    BY <2>1, EntryOfLog DEF Recorded
<1>3. CASE Latest(log, k) # row.job
  <2>1. SubRows(log', k) = SubRows(log, k) /\ Latest(log', k) = Latest(log, k)
    BY <1>1, <1>2, SameSubRows
  <2>2. Told(log', Latest(log, k), k) = Told(log, Latest(log, k), k)
    BY <1>3, OneMoreTold
  <2> QED
    BY <2>1, <2>2 DEF EntryOf
<1>4. CASE Latest(log, k) = row.job
  <2>1. SubRows(log, k) # {} /\ Latest(log, k) = row.job
    BY <1>2, <1>4
  <2>2. /\ SubRows(log', k) = SubRows(log, k) /\ Latest(log', k) = row.job
        /\ Told(log', row.job, k) = T \cup {row.status}
    BY <1>1, <2>1, EntryTold
  <2>3. ~("completed" \in T \cup {row.status} /\ (T \cup {row.status}) \cap Unsuccessful # {})
    <3>1. LogTrue' /\ DOMAIN log' = 1..Len(log')
      BY LogStaysTrue, NextStep DEF Grow
    <3>2. \A i \in DOMAIN log' : log'[i].status \in Terminal => jobs'[log'[i].job].status = log'[i].status
      BY <3>1 DEF LogTrue
    <3>3. ~("completed" \in Told(log', row.job, k) /\ Told(log', row.job, k) \cap Unsuccessful # {})
      BY <3>2, OneEnding
    <3> QED
      BY <2>2, <3>3
  <2>4. /\ EntryOf(log, k) = IF "completed" \in T THEN "completed"
                             ELSE IF T \cap Unsuccessful # {} THEN "unsuccessful" ELSE "open"
        /\ EntryOf(log', k) = IF "completed" \in T \cup {row.status} THEN "completed"
                              ELSE IF (T \cup {row.status}) \cap Unsuccessful # {} THEN "unsuccessful" ELSE "open"
    BY <2>1, <2>2 DEF EntryOf
  <2> HIDE DEF T, k
  <2>5. row.status \in {"pending", "odd", "completed"} \cup Unsuccessful
    BY <1>1 DEF Statuses, Terminal, Unsuccessful
  <2>6. "pending" \notin Unsuccessful /\ "odd" \notin Unsuccessful /\ "completed" \notin Unsuccessful
    BY DEF Unsuccessful
  <2> QED
    BY <2>3, <2>4, <2>5, <2>6 DEF k
<1> QED
  BY <1>3, <1>4

(* Each step of the route is a step of the ledger, or none. *)
LEMMA LedgerStep ==
  ASSUME IInv, BInv, LInv, [Next]_vars
  PROVE  \/ \E k \in Keys : Ledger!Submit(k) \/ Ledger!Settle(k)
         \/ \A k \in Keys : LedgerEntry(k)' = LedgerEntry(k)
<1>1. CASE log' = log
  BY <1>1, EntryOfLog
<1>2. CASE log' # log
  <2>1. PICK w \in Workers, row \in RowType :
           /\ Adds(log, row, log') /\ row.key = key[w] /\ UNCHANGED jobs
           /\ Silent(row) \/ Submits(w, row) \/ Reports(w, row)
    BY <1>2, StepAdds
  <2>2. \A k \in Keys : k # row.key => LedgerEntry(k)' = LedgerEntry(k)
    BY <2>1, EntryStays, EntryOfLog
  <2>3. row.key \in Keys
    BY DEF RowType
  <2>4. LedgerEntry(row.key) = EntryOf(log, row.key)
        /\ [k \in Keys |-> LedgerEntry(k)'][row.key] = EntryOf(log', row.key)
    BY <2>3, EntryOfLog
  <2>5. CASE Silent(row)
    <3>1. EntryOf(log', row.key) = EntryOf(log, row.key)
      BY <2>1, <2>5, EntryStays DEF Silent
    <3>2. \A k \in Keys : LedgerEntry(k)' = LedgerEntry(k)
      BY <2>2, <2>3, <2>4, <3>1
    <3> QED
      BY <3>2
  <2>6. CASE Submits(w, row)
    <3>1. EntryOf(log, row.key) \in {"none", "unsuccessful"} /\ EntryOf(log', row.key) = "open"
      <4>1. EntryOf(log, key[w]) \in {"none", "unsuccessful"}
        BY <2>6, SubmittedEntry DEF Submits
      <4>2. job[w] # NoJob /\ \A i \in 1..Len(log) : log[i].job # job[w]
        BY <2>6, JobAtHand DEF Submits, RecordSubmission, LInv, Current, Holds, InLog
      <4>3. EntryOf(log', row.key) = "open"
        BY <2>1, <2>6, <4>2, EntryOpens DEF Submits
      <4> QED
        BY <2>1, <4>1, <4>3
    <3>2. Ledger!Submit(row.key)
      BY <2>2, <2>3, <2>4, <3>1 DEF Ledger!Submit
    <3> QED
      BY <2>3, <3>2
  <2>7. CASE Reports(w, row)
    <3>1. CASE EntryOf(log', row.key) = EntryOf(log, row.key)
      <4>1. \A k \in Keys : LedgerEntry(k)' = LedgerEntry(k)
        BY <2>2, <2>3, <2>4, <3>1
      <4> QED
        BY <4>1
    <3>2. CASE /\ EntryOf(log, row.key) = "open"
               /\ EntryOf(log', row.key) \in {"completed", "unsuccessful"}
      <4>1. Ledger!Settle(row.key)
        BY <2>2, <2>3, <2>4, <3>2 DEF Ledger!Settle
      <4> QED
        BY <2>3, <4>1
    <3> QED
      BY <2>1, <2>7, <3>1, <3>2, ReportedEntry
  <2> QED
    BY <2>1, <2>5, <2>6, <2>7
<1> QED
  BY <1>1, <1>2

(* The route implements the ledger of paid jobs: for any number of         *)
(* workers, requests, crashes, failed appends and answers, while           *)
(* submissions of a request are kept apart, an entry is opened only when   *)
(* there is none or the last job was unsuccessful, and a completed one     *)
(* stays completed.                                                        *)
THEOREM EgressImplementsLedger == Spec /\ []Apart => ImplementsLedger
<1>1. Init => Ledger!Init
  BY DEF Init, Ledger!Init, LedgerEntry, SubmissionRows
<1>2. Init => LInv
  BY DEF Init, LInv, LogKnows, LogTrue, Current, Distinct, Holds
<1>3. IInv /\ Apart /\ BInv /\ [Next]_vars => BInv'
  BY BInductive
<1>4. IInv /\ LInv /\ [Next]_vars => LInv'
  BY LogStaysTrue, DistinctStep, CurrentStep DEF LInv
<1>5. IInv /\ BInv /\ LInv /\ [Next]_vars => [Ledger!Next]_[k \in Keys |-> LedgerEntry(k)]
  BY LedgerStep DEF Ledger!Next
<1> QED
  BY <1>1, <1>2, <1>3, <1>4, <1>5, InitBInv, EgressInvariant, PTL DEF Spec, ImplementsLedger, Ledger!Spec

-----------------------------------------------------------------------------
(* The hypothesis of the code: one worker. *)

(* With the one worker that validate_sarvam_sharding lets a hosted run     *)
(* have, the three results hold of every behaviour.                        *)
THEOREM EgressOneWorker ==
  ASSUME OneWorker
  PROVE  Spec => [](SettledBeforeNext /\ BilledOnce) /\ ImplementsLedger
<1>1. Apart
  BY OneWorkerIsApart
<1> QED
  BY <1>1, EgressSettledBeforeNext, EgressBilledOnce, EgressImplementsLedger, PTL
-----------------------------------------------------------------------------
(* A call is bounded.  StepsLeft counts the steps the worker's call can    *)
(* still take: two for each attempt of _post_json and each round of _poll  *)
(* that is left, and those of the result.                                  *)

PollSteps == 2 * MaxPollAttempts + 6
CallBound == 2 * MaxSubmissionAttempts + PollSteps + 1

StepsLeft(w) ==
    CASE pc[w] = "idle"                   -> 0
      [] pc[w] \in {"disabled", "failed"} -> 1
      [] pc[w] = "downloaded"             -> 2
      [] pc[w] = "download"               -> 3
      [] pc[w] = "looked_up"              -> 4
      [] pc[w] = "lookup"                 -> 5
      [] pc[w] = "polled"                 -> 2 * (MaxPollAttempts - polls[w]) + 5
      [] pc[w] = "poll"                   -> 2 * (MaxPollAttempts - polls[w]) + 6
      [] pc[w] = "posted"                 -> 2 * (MaxSubmissionAttempts - attempt[w]) + PollSteps + 1
      [] pc[w] = "submit"                 -> 2 * (MaxSubmissionAttempts - attempt[w]) + PollSteps + 2
      [] OTHER                            -> CallBound

Bounded(w) ==
    /\ StepsLeft(w) \in 0..CallBound
    /\ StepsLeft(w) = 0 <=> pc[w] = "idle"

UsesOneUp(w) == Run(w) => StepsLeft(w)' < StepsLeft(w)
OnlyCallAdds(w) == (\E k \in Keys : Call(w, k)) \/ StepsLeft(w)' <= StepsLeft(w)

(* The guards of Run: the worker is at a line whose step can be taken.     *)
CanStep(w) ==
    \/ pc[w] \in {"disabled", "admitted", "submit", "lookup", "looked_up", "download", "downloaded", "failed"}
    \/ pc[w] = "posted" /\ resp[w] \in {"accepted", "error", "no_job_id"}
    \/ pc[w] = "posted" /\ resp[w] = "too_many" /\ attempt[w] <= MaxSubmissionAttempts
    \/ pc[w] = "poll" /\ job[w] \in DOMAIN jobs
    \/ pc[w] = "polled" /\ resp[w] \in Statuses \cup {"error"}

(* The bounds of the loop variables, in the arithmetic of StepsLeft. *)
LEMMA StepsTyped ==
  ASSUME IInv, NEW w \in Workers
  PROVE  /\ StepsLeft(w) \in 0..CallBound /\ (StepsLeft(w) = 0 <=> pc[w] = "idle")
         /\ attempt[w] \in 1..MaxSubmissionAttempts /\ polls[w] \in 0..MaxPollAttempts
         /\ MaxSubmissionAttempts \in Nat /\ MaxPollAttempts \in Nat
<1>1. /\ MaxSubmissionAttempts \in Nat /\ MaxPollAttempts \in Nat
      /\ attempt[w] \in 1..MaxSubmissionAttempts /\ polls[w] \in 0..MaxPollAttempts /\ pc[w] \in Lines
  BY TypeParts, LimitsAssumption DEF IInv, ControlTyped
<1>2. CallBound \in Nat /\ 7 <= CallBound
  BY <1>1 DEF CallBound, PollSteps
<1>3. CASE pc[w] = "idle"
  <2>1. StepsLeft(w) = 0
    BY <1>3 DEF StepsLeft
  <2> QED
    BY <1>1, <1>2, <1>3, <2>1
<1>4. CASE pc[w] # "idle"
  <2>1. StepsLeft(w) \in 1..CallBound
    <3>1. CASE pc[w] \in {"disabled", "failed", "downloaded", "download", "looked_up", "lookup"}
      <4>1. StepsLeft(w) \in 1..5
        BY <3>1 DEF StepsLeft
      <4> QED
        BY <1>2, <4>1
    <3>2. CASE pc[w] = "poll" \/ pc[w] = "polled"
      <4>1. \/ StepsLeft(w) = 2 * (MaxPollAttempts - polls[w]) + 5
            \/ StepsLeft(w) = 2 * (MaxPollAttempts - polls[w]) + 6
        BY <3>2 DEF StepsLeft
      <4> QED
        BY <1>1, <4>1 DEF CallBound, PollSteps
    <3>3. CASE pc[w] = "posted" \/ pc[w] = "submit"
      <4>1. \/ StepsLeft(w) = 2 * (MaxSubmissionAttempts - attempt[w]) + PollSteps + 1
            \/ StepsLeft(w) = 2 * (MaxSubmissionAttempts - attempt[w]) + PollSteps + 2
        BY <3>3 DEF StepsLeft
      <4> QED
        BY <1>1, <4>1 DEF CallBound, PollSteps
    <3>4. CASE pc[w] = "admitted"
      <4>1. StepsLeft(w) = CallBound
        BY <3>4 DEF StepsLeft
      <4> QED
        BY <1>2, <4>1
    <3> QED
      BY <1>1, <1>4, <3>1, <3>2, <3>3, <3>4 DEF Lines, Remote
  <2> QED
    BY <1>1, <1>2, <1>4, <2>1
<1> QED
  BY <1>3, <1>4

(* Every step of the call leaves fewer. *)
LEMMA RunDescends ==
  ASSUME IInv, NEW w \in Workers, Run(w)
  PROVE  StepsLeft(w)' < StepsLeft(w)
<1>0. ControlTyped
  BY TypeParts DEF IInv
<1>1. /\ attempt[w] \in 1..MaxSubmissionAttempts /\ polls[w] \in 0..MaxPollAttempts
      /\ MaxSubmissionAttempts \in Nat /\ MaxPollAttempts \in Nat
  BY StepsTyped
<1>2. pc[w] \in {"poll", "polled"} => polls[w] < MaxPollAttempts
  BY DEF IInv, Knows
<1> USE DEF Goto, Return
<1>3. CASE RecordDisabled(w) \/ GiveUp(w)
  BY <1>0, <1>3 DEF RecordDisabled, GiveUp, ControlTyped, StepsLeft
<1>a. CASE TakeUpFails(w)
  BY <1>0, <1>1, <1>a DEF TakeUpFails, ControlTyped, StepsLeft, CallBound, PollSteps
<1>4. CASE Resume(w)
  BY <1>0, <1>1, <1>4 DEF Resume, ControlTyped, StepsLeft, CallBound, PollSteps
<1>5. CASE StartSubmission(w)
  BY <1>0, <1>1, <1>5 DEF StartSubmission, ControlTyped, StepsLeft, CallBound, PollSteps
<1>6. CASE Post(w)
  BY <1>0, <1>1, <1>6 DEF Post, ControlTyped, StepsLeft, PollSteps
<1>7. CASE RecordSubmission(w)
  BY <1>0, <1>1, <1>7 DEF RecordSubmission, ControlTyped, StepsLeft, PollSteps
<1>8. CASE RecordRefusal(w)
  BY <1>0, <1>1, <1>8 DEF RecordRefusal, ControlTyped, StepsLeft, PollSteps
<1>9. CASE RecordRateLimited(w)
  BY <1>0, <1>1, <1>9 DEF RecordRateLimited, ControlTyped, StepsLeft, PollSteps
<1>10. CASE Poll(w)
  BY <1>0, <1>1, <1>10 DEF Poll, ControlTyped, StepsLeft
<1>11. CASE RecordPoll(w)
  <2>1. \/ /\ pc[w] = "polled" /\ pc'[w] = AfterPoll(w) /\ polls'[w] = polls[w] + 1
           /\ AfterPoll(w) \in {"lookup", "failed", "poll"}
        \/ pc[w] = "polled" /\ pc'[w] = "idle"
    BY <1>0, <1>11 DEF RecordPoll, ControlTyped, AfterPoll
  <2> QED
    BY <1>1, <1>2, <2>1 DEF StepsLeft
<1>12. CASE LookUpResult(w) \/ Download(w)
  BY <1>0, <1>12 DEF LookUpResult, Download, Fetch, ControlTyped, StepsLeft
<1>13. CASE RecordLookUp(w) \/ RecordDownload(w)
  BY <1>0, <1>13 DEF RecordLookUp, RecordDownload, ControlTyped, StepsLeft
<1> QED
  BY <1>3, <1>a, <1>4, <1>5, <1>6, <1>7, <1>8, <1>9, <1>10, <1>11, <1>12, <1>13 DEF Run

(* Nothing but the next call makes it more. *)
LEMMA OnlyCallsAscend ==
  ASSUME IInv, [Next]_vars, NEW w \in Workers, Bounded(w), Bounded(w)'
  PROVE  OnlyCallAdds(w)
<1>0. ControlTyped /\ StepsLeft(w) \in Nat /\ StepsLeft(w)' \in Nat
  <2>1. ControlTyped /\ CallBound \in Nat
    BY TypeParts, LimitsAssumption DEF IInv, CallBound, PollSteps
  <2>2. StepsLeft(w) \in 0..CallBound
    BY DEF Bounded
  <2>3. StepsLeft(w)' \in 0..CallBound
    BY DEF Bounded, CallBound, PollSteps
  <2> QED
    BY <2>1, <2>2, <2>3
<1>1. CASE Run(w)
  BY <1>0, <1>1, RunDescends DEF OnlyCallAdds
<1>2. CASE AppendFails(w) \/ Restart(w)
  BY <1>0, <1>2 DEF AppendFails, Restart, Goto, Return, ControlTyped, StepsLeft, OnlyCallAdds
<1>3. CASE Still(w)
  BY <1>0, <1>3 DEF Still, StepsLeft, OnlyCallAdds
<1> QED
  BY <1>1, <1>2, <1>3, OwnStepOrStill DEF OnlyCallAdds

(* What a worker hears of its POST is an answer the code handles. *)
Heard(w) == pc[w] = "posted" => resp[w] \in {"accepted", "error", "no_job_id", "too_many"}

LEMMA HeardStep ==
  ASSUME IInv, [Next]_vars, NEW w \in Workers, Heard(w)
  PROVE  Heard(w)'
<1>0. ControlTyped
  BY TypeParts DEF IInv
<1>1. CASE pc'[w] # "posted"
  BY <1>1 DEF Heard
<1>2. CASE Post(w)
  BY <1>0, <1>2 DEF Heard, Post, Accepted, AcceptedUnheard, NotAccepted, Hears, ControlTyped
<1>3. CASE Still(w)
  BY <1>3 DEF Still, Heard
<1>4. CASE Poll(w) /\ pc'[w] = "polled"
  BY <1>4 DEF Heard
<1> QED
  BY <1>1, <1>2, <1>3, <1>4, Reaches

(* A worker in a call has a step to take. *)
LEMMA NeverStuck ==
  ASSUME IInv, NEW w \in Workers, Heard(w), pc[w] # "idle"
  PROVE  CanStep(w)
<1>1. pc[w] \in Lines /\ attempt[w] <= MaxSubmissionAttempts
  BY StepsTyped, TypeParts DEF IInv, ControlTyped
<1>2. CASE pc[w] = "poll"
  <2>1. Recorded(job[w], key[w])
    BY <1>2 DEF IInv, Knows, Remote
  <2>2. job[w] \in DOMAIN jobs
    BY <2>1, RecordedJobsExist, LogFacts DEF IInv
  <2> QED
    BY <1>2, <2>2 DEF CanStep
<1>3. CASE pc[w] = "posted"
  BY <1>1, <1>3 DEF CanStep, Heard
<1>4. CASE pc[w] = "polled"
  BY <1>4 DEF CanStep, IInv, Knows
<1> QED
  BY <1>1, <1>2, <1>3, <1>4 DEF CanStep, Lines, Remote

(* What CallsEnd rests on, for any limits, workers, answers and crashes: a *)
(* worker in a call always has a step to take, there is a bound on the     *)
(* steps its call can still take, each of them uses one up, and nothing    *)
(* gives it more but the call that comes after it.                         *)
THEOREM EgressCallsAreBounded ==
  Spec => /\ [](\A w \in Workers : Bounded(w) /\ (pc[w] # "idle" => CanStep(w)))
          /\ [][\A w \in Workers : UsesOneUp(w) /\ OnlyCallAdds(w)]_vars
<1> DEFINE HInv == \A w \in Workers : Heard(w)
           Bounds == \A w \in Workers : Bounded(w)
<1>1. Init => HInv
  BY DEF Init, Heard
<1>2. IInv /\ HInv /\ [Next]_vars => HInv'
  BY HeardStep
<1>3. IInv => Bounds
  BY StepsTyped DEF Bounded
<1>4. IInv /\ HInv /\ Bounds => \A w \in Workers : Bounded(w) /\ (pc[w] # "idle" => CanStep(w))
  BY NeverStuck
<1>5. IInv /\ Bounds /\ Bounds' /\ [Next]_vars => [\A w \in Workers : UsesOneUp(w) /\ OnlyCallAdds(w)]_vars
  BY RunDescends, OnlyCallsAscend DEF UsesOneUp
<1> HIDE DEF HInv, Bounds
<1> QED
  BY <1>1, <1>2, <1>3, <1>4, <1>5, EgressInvariant, PTL DEF Spec
=============================================================================
