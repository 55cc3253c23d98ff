---------------------------- MODULE SarvamEgress ----------------------------
(***************************************************************************)
(* The hosted document route: SarvamVisionAdapter and SqliteAuditLog of    *)
(* egress/sarvam.py, called by the OCR stage (digitise_or_fallback) and by *)
(* the benchmark (extract).                                                *)
(*                                                                         *)
(* A worker is one process with one adapter.  It submits a document as an  *)
(* asynchronous job, polls the job and reads its result.  The provider is  *)
(* external and bills every job it accepts.  The audit log is a SQLite     *)
(* table shared by all workers; each append is its own transaction, made   *)
(* after the provider has answered, so a process can die, or the append    *)
(* can fail, between the two.                                              *)
(*                                                                         *)
(* The waiting for a slot before every POST and status GET is the module   *)
(* RateLimiter; it always ends, and is not repeated here.                  *)
(***************************************************************************)
EXTENDS Naturals, Sequences, FiniteSets

CONSTANTS
    Keys,                   \* request keys (_idempotency_key): one per request
    NoKey,
    Extracts,               \* the keys of extract(); the others digitise
    Workers,
    Configs,                \* the configurations a process may start with
    Endings,                \* the final statuses the provider uses
    MaxSubmissionAttempts,  \* MAX_SUBMISSION_ATTEMPTS (3)
    MaxPollAttempts,        \* max_poll_attempts (60)
    MaxCalls,               \* bound: calls of the adapter
    MaxRestarts,            \* bound: process crashes and restarts
    MaxAppendFailures       \* bound: appends refused by SQLite

ASSUME KeysAssumption == Extracts \subseteq Keys /\ NoKey \notin Keys
ASSUME ConfigsAssumption ==
    Configs \subseteq [enabled : BOOLEAN, permitted : BOOLEAN, api_key : BOOLEAN]

Terminal == {"completed", "partially_completed", "failed", "rejected"}

ASSUME EndingsAssumption == Endings \subseteq Terminal
ASSUME LimitsAssumption ==
    /\ MaxSubmissionAttempts \in Nat \ {0} /\ MaxPollAttempts \in Nat \ {0}
    /\ MaxCalls \in Nat /\ MaxRestarts \in Nat /\ MaxAppendFailures \in Nat

VARIABLES
    (* durable *)
    log,        \* authorized_external_audit, in id order
    (* the provider *)
    jobs,       \* jobs[j]: the request key and the status of job j
    (* each worker process *)
    config,     \* how this process was started
    pc,         \* where its current call is
    key,        \* the request of the call
    job,        \* job_id, once known
    attempt,    \* loop variable of _post_json
    polls,      \* loop variable of _poll
    resp,       \* what the provider just answered, not yet in the log
    returned,   \* how its last call ended
    (* observations *)
    lost,       \* accepted jobs whose answer never reached the log
    calls, restarts, appendFailures

worker == <<pc, key, job, attempt, polls, resp, returned>>
bounds == <<calls, restarts, appendFailures>>
vars == <<log, jobs, config, worker, lost, bounds>>

NoJob == 0
NoStatus == "none"
Unsuccessful == {"failed", "rejected", "partially_completed"}
(* "running" is treated as "pending".  "odd" stands for a status that is   *)
(* not a string but a list or an object: Python cannot look it up in a set.*)
Statuses == {"pending", "odd"} \cup Terminal

Events == {"disabled", "resume", "submission", "submission_error",
           "submission_rate_limited", "submission_rate_limit_exhausted",
           "poll", "poll_error", "result_lookup", "result_lookup_error",
           "download", "download_error", "fallback"}

Answers == {"none", "accepted", "no_job_id", "too_many", "error", "ok", "unusable", "corrupt",
            "refused"} \cup Statuses

(* The lines of a call at which the process can be found. *)
Remote == {"submit", "posted", "poll", "polled", "lookup", "looked_up", "download", "downloaded"}
Lines  == {"idle", "disabled", "admitted", "failed"} \cup Remote

WithFallback(k) == k \notin Extracts
Live(c) == c.enabled /\ c.permitted /\ c.api_key

Row(event, k, j, status) == [event |-> event, key |-> k, job |-> j, status |-> status]

-----------------------------------------------------------------------------
(* SqliteAuditLog *)

Newest(S) == CHOOSE i \in S : \A j \in S : j <= i

SubmissionRows(k) ==
    {i \in DOMAIN log : log[i].event = "submission" /\ log[i].key = k /\ log[i].job # NoJob}

StatusRows(j, k) ==
    {i \in DOMAIN log : log[i].job = j /\ log[i].key = k /\ log[i].status # NoStatus}

(* Mutants of submitted_job: a job without a reported status is not taken  *)
(* up again; a completed job is not.                                       *)
SubmittedJobIfReported(k) ==
    IF SubmissionRows(k) = {} THEN NoJob
    ELSE LET j    == log[Newest(SubmissionRows(k))].job
             rows == StatusRows(j, k)
         IN  IF rows = {} \/ log[Newest(rows)].status \in Unsuccessful THEN NoJob ELSE j
SubmittedJobIfOpen(k) ==
    IF SubmissionRows(k) = {} THEN NoJob
    ELSE LET j    == log[Newest(SubmissionRows(k))].job
             rows == StatusRows(j, k)
         IN  IF rows # {} /\ log[Newest(rows)].status \in Terminal THEN NoJob ELSE j

(* submitted_job: the newest recorded job of the key, unless the newest    *)
(* status recorded for it is an unsuccessful one.                          *)
SubmittedJob(k) ==
    IF SubmissionRows(k) = {} THEN NoJob
    ELSE LET j    == log[Newest(SubmissionRows(k))].job
             rows == StatusRows(j, k)
         IN  IF rows # {} /\ log[Newest(rows)].status \in Unsuccessful THEN NoJob ELSE j

(* `status in {...}` raises a TypeError on the newest recorded status.     *)
Unreadable(k) ==
    SubmissionRows(k) # {} /\
      LET rows == StatusRows(log[Newest(SubmissionRows(k))].job, k)
      IN  rows # {} /\ log[Newest(rows)].status = "odd"

Init ==
    /\ log = <<>> /\ jobs = <<>>
    /\ config \in [Workers -> Configs]
    /\ pc = [w \in Workers |-> "idle"]
    /\ key = [w \in Workers |-> NoKey]
    /\ job = [w \in Workers |-> NoJob]
    /\ attempt = [w \in Workers |-> 1]
    /\ polls = [w \in Workers |-> 0]
    /\ resp = [w \in Workers |-> "none"]
    /\ returned = [w \in Workers |-> [kind |-> "none", job |-> NoJob]]
    /\ lost = {} /\ calls = 0 /\ restarts = 0 /\ appendFailures = 0

-----------------------------------------------------------------------------
(* The steps of a worker *)

Goto(w, line) == pc' = [pc EXCEPT ![w] = line]
Hears(w, answer) == resp' = [resp EXCEPT ![w] = answer]
Audit(w, event, j, status) == log' = Append(log, Row(event, key[w], j, status))
Return(w, kind) ==
    /\ Goto(w, "idle")
    /\ returned' = [returned EXCEPT ![w] = [kind |-> kind, job |-> job[w]]]

(* Mutant: the governance check is forgotten. *)
UngovernedAdmission(w, k) ==
    IF ~config[w].enabled /\ WithFallback(k) THEN "disabled"
    ELSE IF config[w].enabled /\ config[w].api_key THEN "admitted" ELSE "failed"

(* digitise_or_fallback, extract and the head of _run_job.  Disabled, the  *)
(* fallback entry point records that and uses the local engine; otherwise  *)
(* a refused call raises a SarvamError.                                    *)
Admission(w, k) ==
    IF ~config[w].enabled /\ WithFallback(k) THEN "disabled"
    ELSE IF Live(config[w]) THEN "admitted" ELSE "failed"

Call(w, k) ==
    /\ pc[w] = "idle" /\ calls < MaxCalls
    /\ Goto(w, Admission(w, k))
    /\ key' = [key EXCEPT ![w] = k]
    /\ job' = [job EXCEPT ![w] = NoJob]
    /\ attempt' = [attempt EXCEPT ![w] = 1]
    /\ polls' = [polls EXCEPT ![w] = 0]
    /\ Hears(w, "none")
    /\ returned' = [returned EXCEPT ![w] = [kind |-> "none", job |-> NoJob]]
    /\ calls' = calls + 1
    /\ UNCHANGED <<log, jobs, config, lost, restarts, appendFailures>>

RecordDisabled(w) ==
    /\ pc[w] = "disabled"
    /\ Audit(w, "disabled", NoJob, NoStatus)
    /\ Return(w, "local")
    /\ UNCHANGED <<jobs, config, key, job, attempt, polls, resp, lost, bounds>>

(* _run_job: take up the recorded job, or submit, or fail while reading the *)
(* log, which is no SarvamError.                                           *)
TakeUpFails(w) ==
    /\ pc[w] = "admitted" /\ Unreadable(key[w])
    /\ Hears(w, "odd") /\ Return(w, "raised")
    /\ UNCHANGED <<log, jobs, config, key, job, attempt, polls, lost, bounds>>

Resume(w) ==
    /\ pc[w] = "admitted" /\ ~Unreadable(key[w])
    /\ SubmittedJob(key[w]) # NoJob
    /\ Audit(w, "resume", SubmittedJob(key[w]), NoStatus)
    /\ job' = [job EXCEPT ![w] = SubmittedJob(key[w])]
    /\ Goto(w, "poll")
    /\ UNCHANGED <<jobs, config, key, attempt, polls, resp, returned, lost, bounds>>

StartSubmission(w) ==
    /\ pc[w] = "admitted" /\ ~Unreadable(key[w])
    /\ SubmittedJob(key[w]) = NoJob
    /\ Goto(w, "submit")
    /\ UNCHANGED <<log, jobs, config, key, job, attempt, polls, resp, returned, lost, bounds>>

(* _post_json: the POST and what comes back.  The provider may accept the  *)
(* document although the answer is lost or carries no job_id.              *)
NewJob(w) == jobs' = Append(jobs, [key |-> key[w], status |-> "pending"])

Accepted(w) ==
    /\ NewJob(w) /\ Hears(w, "accepted")
    /\ job' = [job EXCEPT ![w] = Len(jobs) + 1]
    /\ UNCHANGED lost

AcceptedUnheard(w) ==
    /\ NewJob(w) /\ lost' = lost \cup {Len(jobs) + 1}
    /\ Hears(w, "error") \/ Hears(w, "no_job_id")
    /\ UNCHANGED job

NotAccepted(w) ==
    /\ Hears(w, "too_many") \/ Hears(w, "error")
    /\ UNCHANGED <<jobs, job, lost>>

Post(w) ==
    /\ pc[w] = "submit"
    /\ Accepted(w) \/ AcceptedUnheard(w) \/ NotAccepted(w)
    /\ Goto(w, "posted")
    /\ UNCHANGED <<log, config, key, attempt, polls, returned, bounds>>

(* Mutant: polling starts before the submission is in the log. *)
PollBeforeRecord(w) ==
    /\ pc[w] = "posted" /\ resp[w] = "accepted"
    /\ Goto(w, "poll")
    /\ UNCHANGED <<log, jobs, config, key, job, attempt, polls, resp, returned, lost, bounds>>

RecordSubmission(w) ==
    /\ pc[w] = "posted" /\ resp[w] = "accepted"
    /\ \E s \in {"pending", "odd", NoStatus} : Audit(w, "submission", job[w], s)
    /\ Goto(w, "poll")
    /\ UNCHANGED <<jobs, config, key, job, attempt, polls, resp, returned, lost, bounds>>

RecordRefusal(w) ==
    /\ pc[w] = "posted"
    /\ \/ resp[w] = "error"     /\ Audit(w, "submission_error", NoJob, NoStatus)
       \/ resp[w] = "no_job_id" /\ Audit(w, "submission", NoJob, NoStatus)
       \/ /\ resp[w] = "too_many" /\ attempt[w] = MaxSubmissionAttempts
          /\ Audit(w, "submission_rate_limit_exhausted", NoJob, NoStatus)
    /\ Goto(w, "failed")
    /\ UNCHANGED <<jobs, config, key, job, attempt, polls, resp, returned, lost, bounds>>

(* Mutant: the wait for the rate is a loop of its own, apart from the      *)
(* counted attempts and their rows.                                        *)
RateLimitedUncounted(w) ==
    /\ pc[w] = "posted" /\ resp[w] = "too_many"
    /\ Goto(w, "submit")
    /\ UNCHANGED <<log, jobs, config, key, job, attempt, polls, resp, returned, lost, bounds>>

RecordRateLimited(w) ==
    /\ pc[w] = "posted" /\ resp[w] = "too_many" /\ attempt[w] < MaxSubmissionAttempts
    /\ Audit(w, "submission_rate_limited", NoJob, NoStatus)
    /\ attempt' = [attempt EXCEPT ![w] = @ + 1]
    /\ Goto(w, "submit")
    /\ UNCHANGED <<jobs, config, key, job, polls, resp, returned, lost, bounds>>

(* _poll *)
Poll(w) ==
    /\ pc[w] = "poll"
    /\ \E answer \in {jobs[job[w]].status, "odd", "error"} : Hears(w, answer)
    /\ Goto(w, "polled")
    /\ UNCHANGED <<log, jobs, config, key, job, attempt, polls, returned, lost, bounds>>

(* Mutants: one poll too many; a partial result is accepted. *)
AfterPollOffByOne(w) ==
    IF resp[w] = "completed" THEN "lookup"
    ELSE IF resp[w] \in Terminal \cup {"error"} \/ polls[w] = MaxPollAttempts THEN "failed"
    ELSE "poll"
AfterPollPartial(w) ==
    IF resp[w] \in {"completed", "partially_completed"} THEN "lookup"
    ELSE IF resp[w] \in Terminal \cup {"error"} \/ polls[w] + 1 = MaxPollAttempts THEN "failed"
    ELSE "poll"

AfterPoll(w) ==
    IF resp[w] = "completed" THEN "lookup"
    ELSE IF resp[w] \in Terminal \cup {"error"} \/ polls[w] + 1 = MaxPollAttempts THEN "failed"
    ELSE "poll"

RecordPoll(w) ==
    /\ pc[w] = "polled"
    /\ IF resp[w] = "error" THEN Audit(w, "poll_error", job[w], NoStatus)
                            ELSE Audit(w, "poll", job[w], resp[w])
    /\ polls' = [polls EXCEPT ![w] = @ + 1]
    /\ IF resp[w] = "odd" THEN Return(w, "raised") ELSE Goto(w, AfterPoll(w)) /\ UNCHANGED returned
    /\ UNCHANGED <<jobs, config, key, job, attempt, resp, lost, bounds>>

(* _read_digitise_result looks up a URL and downloads from it;             *)
(* _read_extract_result has its result after the lookup.  "unusable" is an *)
(* answer without a URL, or an archive without exactly one Markdown file,  *)
(* without its text in UTF-8 or that is no archive; "corrupt" one whose    *)
(* file cannot be read: damaged, encrypted or packed in an unknown way.    *)
Fetch(w, from, to, answers) ==
    /\ pc[w] = from
    /\ \E answer \in answers : Hears(w, answer)
    /\ Goto(w, to)
    /\ UNCHANGED <<log, jobs, config, key, job, attempt, polls, returned, lost, bounds>>

LookUpResult(w) ==
    Fetch(w, "lookup", "looked_up",
          IF WithFallback(key[w]) THEN {"ok", "unusable", "error"} ELSE {"ok", "error"})
Download(w) == Fetch(w, "download", "downloaded", {"ok", "unusable", "corrupt", "error"})

RecordLookUp(w) ==
    /\ pc[w] = "looked_up"
    /\ Audit(w, IF resp[w] = "error" THEN "result_lookup_error" ELSE "result_lookup", job[w], NoStatus)
    /\ IF resp[w] = "ok" /\ ~WithFallback(key[w])
       THEN Return(w, "remote")
       ELSE Goto(w, IF resp[w] = "ok" THEN "download" ELSE "failed") /\ UNCHANGED returned
    /\ UNCHANGED <<jobs, config, key, job, attempt, polls, resp, lost, bounds>>

(* _primary_markdown turns what is unusable into a SarvamError; what the   *)
(* zip module raises on a corrupt file passes through it.                  *)
RecordDownload(w) ==
    /\ pc[w] = "downloaded"
    /\ Audit(w, IF resp[w] = "error" THEN "download_error" ELSE "download", job[w], NoStatus)
    /\ \/ resp[w] = "ok"      /\ Return(w, "remote")
       \/ resp[w] = "corrupt" /\ Return(w, "raised")
       \/ resp[w] \in {"unusable", "error"} /\ Goto(w, "failed") /\ UNCHANGED returned
    /\ UNCHANGED <<jobs, config, key, job, attempt, polls, resp, lost, bounds>>

(* Mutant: what the handler does not expect is passed on to the caller. *)
GiveUpRaising(w) ==
    /\ pc[w] = "failed"
    /\ IF WithFallback(key[w]) /\ resp[w] # "unusable"
       THEN Audit(w, "fallback", NoJob, NoStatus) /\ Return(w, "local")
       ELSE UNCHANGED log /\ Return(w, "raised")
    /\ UNCHANGED <<jobs, config, key, job, attempt, polls, resp, lost, bounds>>

(* The `except SarvamError` of digitise_or_fallback; extract has none. *)
GiveUp(w) ==
    /\ pc[w] = "failed"
    /\ IF WithFallback(key[w])
       THEN Audit(w, "fallback", NoJob, NoStatus) /\ Return(w, "local")
       ELSE UNCHANGED log /\ Return(w, "raised")
    /\ UNCHANGED <<jobs, config, key, job, attempt, polls, resp, lost, bounds>>

(* An answer that carries a job id and is not in the log is gone for good  *)
(* when the process stops here or the append fails.                        *)
Unlogged(w) == IF pc[w] = "posted" /\ resp[w] = "accepted" THEN {job[w]} ELSE {}

(* SQLite refuses the append (a locked or full database): no SarvamError,  *)
(* so it passes the fallback handler too.                                  *)
AppendFails(w) ==
    /\ pc[w] \in {"disabled", "admitted", "posted", "polled", "looked_up", "downloaded"}
          \/ (pc[w] = "failed" /\ WithFallback(key[w]))
    /\ appendFailures < MaxAppendFailures
    /\ appendFailures' = appendFailures + 1
    /\ lost' = lost \cup Unlogged(w)
    /\ Hears(w, "refused") /\ Return(w, "raised")
    /\ UNCHANGED <<log, jobs, config, key, job, attempt, polls, calls, restarts>>

(* The process is killed and started again, perhaps configured anew. *)
Restart(w) ==
    /\ restarts < MaxRestarts
    /\ restarts' = restarts + 1
    /\ lost' = lost \cup Unlogged(w)
    /\ \E c \in Configs : config' = [config EXCEPT ![w] = c]
    /\ Goto(w, "idle")
    /\ returned' = [returned EXCEPT ![w] = [kind |-> "none", job |-> NoJob]]
    /\ UNCHANGED <<log, jobs, key, job, attempt, polls, resp, calls, appendFailures>>

Run(w) ==
    \/ RecordDisabled(w) \/ TakeUpFails(w) \/ Resume(w) \/ StartSubmission(w)
    \/ Post(w) \/ RecordSubmission(w) \/ RecordRefusal(w) \/ RecordRateLimited(w)
    \/ Poll(w) \/ RecordPoll(w)
    \/ LookUpResult(w) \/ RecordLookUp(w) \/ Download(w) \/ RecordDownload(w)
    \/ GiveUp(w)

(* The provider works on its jobs in its own time, or never. *)
Work(j) ==
    /\ jobs[j].status = "pending"
    /\ \E s \in Endings : jobs' = [jobs EXCEPT ![j].status = s]
    /\ UNCHANGED <<log, config, worker, lost, bounds>>

Next ==
    \/ \E w \in Workers : (\E k \in Keys : Call(w, k)) \/ Run(w) \/ AppendFails(w) \/ Restart(w)
    \/ \E j \in DOMAIN jobs : Work(j)

Spec == Init /\ [][Next]_vars

(* A process that is in a call runs on; nothing is assumed of the provider. *)
FairSpec == Spec /\ \A w \in Workers : WF_vars(Run(w))

-----------------------------------------------------------------------------
(* Properties *)

TypeOK ==
    /\ log \in Seq([event : Events, key : Keys, job : Nat, status : Statuses \cup {NoStatus}])
    /\ jobs \in Seq([key : Keys, status : Statuses])
    /\ config \in [Workers -> Configs]
    /\ pc \in [Workers -> Lines]
    /\ key \in [Workers -> Keys \cup {NoKey}]
    /\ job \in [Workers -> Nat]
    /\ attempt \in [Workers -> 1..MaxSubmissionAttempts]
    /\ polls \in [Workers -> 0..MaxPollAttempts]
    /\ resp \in [Workers -> Answers]
    /\ returned \in [Workers -> [kind : {"none", "remote", "local", "raised"}, job : Nat]]
    /\ lost \in SUBSET Nat
    /\ calls \in Nat /\ restarts \in Nat /\ appendFailures \in Nat

Recorded(j, k) == \E i \in SubmissionRows(k) : log[i].job = j

\* "records the approval relied upon before a submitted asynchronous job can
\* be polled": a worker that asks about a job finds its submission recorded
\* for the same request, whether it submitted the job or resumed it.
PollOnlyRecorded ==
    \A w \in Workers : pc[w] \in Remote \ {"submit", "posted"} => Recorded(job[w], key[w])

\* No call of a process that is disabled, not permitted or without a key
\* reaches the provider, not even to resume what an earlier one submitted.
KillSwitch == \A w \in Workers : pc[w] \in Remote => Live(config[w])

Settled(j, k) == \E i \in StatusRows(j, k) : log[i].status \in Unsuccessful

\* The duplicate-billing control: whenever a request was submitted again, the
\* job recorded for it before had been recorded as unsuccessful.
SettledBeforeNext ==
    \A k \in Keys : \A i, j \in SubmissionRows(k) : i < j => Settled(log[i].job, k)

\* What the log cannot see: apart from the jobs whose acceptance was lost
\* with a process, an answer or a refused append, a request is billed once
\* plus once for every job of it that was recorded as unsuccessful.
BilledOnce ==
    \A k \in Keys :
      Cardinality({j \in DOMAIN jobs : jobs[j].key = k /\ j \notin lost /\ ~Settled(j, k)}) <= 1

\* Text is attributed to the provider only when it is the result of a job of
\* this very request that the provider completed.
RemoteTextIsOurs ==
    \A w \in Workers :
      returned[w].kind = "remote" =>
        /\ jobs[returned[w].job] = [key |-> key[w], status |-> "completed"]
        /\ Recorded(returned[w].job, key[w])

\* The failures the route knows of end in the local engine, at whichever of
\* its steps they strike: transport errors, answers without what was asked
\* for, unsuccessful jobs, exhausted retries and polls, unusable archives and
\* refused calls.  digitise_or_fallback raises only what is no SarvamError:
\* the audit log refused a row in this call, the archive could not be
\* unpacked, or a status of a wrong type was answered or had been recorded.
Unforeseen == {"refused", "corrupt", "odd"}
FallbackUnlessUnforeseen ==
    \A w \in Workers :
      returned[w].kind = "raised" /\ WithFallback(key[w]) => resp[w] \in Unforeseen

\* Every call ends, whatever the provider answers and even if it never
\* finishes the job.
CallsEnd == \A w \in Workers : pc[w] # "idle" ~> pc[w] = "idle"

\* The ledger the log stands for: open until a final status of the newest job
\* is recorded.  The detailed route implements JobLedger.
LedgerEntry(k) ==
    LET rows     == SubmissionRows(k)
        statuses == {log[i].status : i \in StatusRows(log[Newest(rows)].job, k)}
    IN  IF rows = {} THEN "none"
        ELSE IF "completed" \in statuses THEN "completed"
        ELSE IF statuses \cap Unsuccessful # {} THEN "unsuccessful"
        ELSE "open"

Ledger == INSTANCE JobLedger WITH ledger <- [k \in Keys |-> LedgerEntry(k)]
ImplementsLedger == Ledger!Spec
=============================================================================
