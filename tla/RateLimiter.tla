----------------------------- MODULE RateLimiter -----------------------------
(***************************************************************************)
(* SarvamVisionAdapter._wait_for_submission_slot (egress/sarvam.py): the   *)
(* rolling limiter every submission and every status poll goes through.    *)
(* A deque holds the times of the calls in the last Window seconds; a call *)
(* that finds Budget of them sleeps until the oldest expires.              *)
(*                                                                         *)
(* The adapter is used by one process, one page at a time, so there is one *)
(* caller.  What is not sequential is time: the clock may advance between  *)
(* any two of the caller's steps, a sleep may end late, the request leaves *)
(* after the slot was stamped, and the process may be restarted, which     *)
(* loses the deque.                                                        *)
(***************************************************************************)
EXTENDS Integers, Sequences, FiniteSets

CONSTANTS Budget,        \* VISION_SUBMISSIONS_PER_MINUTE (10)
          Window,        \* SUBMISSION_WINDOW_SECONDS (60), in clock units
          Horizon,       \* bound: no call starts after this time
          MaxSendDelay,  \* bound: time from reading the clock to the send
          MaxRestarts    \* bound: process restarts

ASSUME BudgetAssumption == Budget \in Nat \ {0}
ASSUME WindowAssumption == Window \in Nat \ {0}
ASSUME BoundsAssumption ==
    /\ Horizon \in Nat
    /\ MaxSendDelay \in Nat
    /\ MaxRestarts \in Nat

VARIABLES
    (* the limiter *)
    clock,     \* time.monotonic()
    pc,        \* where the caller is in _wait_for_submission_slot
    now,       \* its local variable `now`
    until,     \* when the sleep it asked for may end
    times,     \* self._submission_times, oldest on the left
    (* observations *)
    grants,    \* every slot this process has been given, in order
    sent,      \* when each request of any process left for the provider
    restarts

vars == <<clock, pc, now, until, times, grants, sent, restarts>>

Lines == {"idle", "expire", "sleep", "expire_again", "send"}

Init ==
    /\ clock = 0 /\ now = 0 /\ until = 0
    /\ pc = "idle"
    /\ times = <<>> /\ grants = <<>> /\ sent = <<>>
    /\ restarts = 0

(* The clock moves on, up to the horizon or the end of a sleep; awake, the *)
(* caller takes at most MaxSendDelay from reading it to sending.           *)
Tick ==
    /\ clock < Horizon \/ (pc = "sleep" /\ clock < until)
    /\ pc \in {"expire", "expire_again", "send"} => clock < now + MaxSendDelay
    /\ clock' = clock + 1
    /\ UNCHANGED <<pc, now, until, times, grants, sent, restarts>>

(* `now = self.monotonic()` on entry. *)
\* Mutant of Ask: the cutoff, not the time, is kept.
AskCutoff ==
    /\ pc = "idle"
    /\ clock <= Horizon
    /\ now' = clock - Window
    /\ pc' = "expire"
    /\ UNCHANGED <<clock, until, times, grants, sent, restarts>>

Ask ==
    /\ pc = "idle"
    /\ clock <= Horizon
    /\ now' = clock
    /\ pc' = "expire"
    /\ UNCHANGED <<clock, until, times, grants, sent, restarts>>

(* The condition of both `while` loops. *)
\* Mutant of HeadExpired: a time leaves the window one tick early.
HeadExpiredEarly == times # <<>> /\ now - Head(times) + 1 >= Window
HeadExpired      == times # <<>> /\ now - Head(times) >= Window

\* Mutant of PopLeft: the head is looked at and stays.
PopLeftPeek ==
    /\ pc \in {"expire", "expire_again"}
    /\ HeadExpired
    /\ UNCHANGED vars

PopLeft ==
    /\ pc \in {"expire", "expire_again"}
    /\ HeadExpired
    /\ times' = Tail(times)
    /\ UNCHANGED <<clock, pc, now, until, grants, sent, restarts>>

(* `if len(self._submission_times) >= VISION_SUBMISSIONS_PER_MINUTE` *)
\* Mutants of Full: a slot too many, a slot too few.
FullByOne == Len(times) > Budget
FullEarly == Len(times) + 1 >= Budget
Full      == Len(times) >= Budget

(* `self.sleep(max(0.0, wait_seconds))`; the sleep starts when it is       *)
(* called, which may be later than `now`, and ends no earlier than asked.  *)
WaitSeconds == Window - (now - Head(times))

Sleep ==
    /\ pc = "expire" /\ ~HeadExpired /\ Full
    /\ until' = clock + (IF WaitSeconds > 0 THEN WaitSeconds ELSE 0)
    /\ pc' = "sleep"
    /\ UNCHANGED <<clock, now, times, grants, sent, restarts>>

Wake ==
    /\ pc = "sleep" /\ clock >= until
    /\ now' = clock
    /\ pc' = "expire_again"
    /\ UNCHANGED <<clock, until, times, grants, sent, restarts>>

(* `self._submission_times.append(now)` and the return to the caller. *)
Grant ==
    /\ \/ pc = "expire" /\ ~HeadExpired /\ ~Full
       \/ pc = "expire_again" /\ ~HeadExpired
    /\ times' = Append(times, now)
    /\ grants' = Append(grants, now)
    /\ pc' = "send"
    /\ UNCHANGED <<clock, now, until, sent, restarts>>

(* The caller's POST or GET leaves.  _post_json, _poll, _post_transliterate *)
Send ==
    /\ pc = "send"
    /\ sent' = Append(sent, clock)
    /\ pc' = "idle"
    /\ UNCHANGED <<clock, now, until, times, grants, restarts>>

(* A new process builds a new adapter: `self._submission_times = deque()`. *)
Restart ==
    /\ restarts < MaxRestarts
    /\ restarts' = restarts + 1
    /\ pc' = "idle"
    /\ times' = <<>>
    /\ grants' = <<>>
    /\ UNCHANGED <<clock, now, until, sent>>

Caller == Ask \/ PopLeft \/ Sleep \/ Wake \/ Grant \/ Send

Next == Tick \/ Caller \/ Restart

Spec == Init /\ [][Next]_vars

(* Time passes and the caller, once in the call, keeps running. *)
FairSpec == Spec /\ WF_vars(Tick) /\ WF_vars(Caller)

-----------------------------------------------------------------------------
(* Properties *)

TypeOK ==
    /\ clock \in Nat /\ now \in Nat /\ until \in Nat /\ restarts \in Nat
    /\ pc \in Lines
    /\ times \in Seq(Nat) /\ grants \in Seq(Nat) /\ sent \in Seq(Nat)

Spaced(s) == \A i \in DOMAIN s : \A j \in DOMAIN s :
                i + Budget <= j => s[j] - s[i] >= Window

\* No Budget + 1 slots of one process lie in one window: the eleventh call
\* comes at least a minute after the first, for every eleven in a row.
WindowBudget == Spaced(grants)

\* The deque never holds more than Budget times, though the second `while`
\* is not followed by a second test of its length.
DequeBounded == Len(times) <= Budget

\* A caller sleeps only when Budget slots really were granted in the window
\* before it asked: the limiter never delays a call it could let through.
SleepsOnlyWhenFull ==
    pc = "sleep" => Cardinality({i \in DOMAIN grants : now - grants[i] < Window}) >= Budget

\* What the provider sees of all processes: after r restarts, no more than
\* r + 1 budgets in one window, up to the delay between stamp and send.  The
\* deque dies with its process, so the budget of egress/sarvam.py is one
\* process's, and only a process that is never restarted keeps to it.
ProviderSlack ==
    \A i \in DOMAIN sent : \A j \in DOMAIN sent :
       i + (restarts + 1) * Budget <= j => sent[j] - sent[i] >= Window - MaxSendDelay

\* A sleeping caller is granted its slot: the wait is bounded by the window,
\* unless the process is restarted.
SleeperServed == pc = "sleep" ~> pc \in {"send", "idle"}

\* The limiter implements the promise of SlidingWindow.
Promise == INSTANCE SlidingWindow WITH slots <- grants
Implements == Promise!Spec
=============================================================================
