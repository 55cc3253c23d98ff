---------------------------- MODULE SlidingWindow ----------------------------
(***************************************************************************)
(* What a caller of a rolling rate limiter is promised: a slot is granted  *)
(* at time t only when every slot granted Budget or more grants before it  *)
(* is a full Window old.  There is no queue and no sleeping here; the      *)
(* limiter of egress/sarvam.py is shown to implement this in RateLimiter.  *)
(***************************************************************************)
EXTENDS Naturals, Sequences

CONSTANTS Budget,   \* VISION_SUBMISSIONS_PER_MINUTE
          Window    \* SUBMISSION_WINDOW_SECONDS

VARIABLE slots      \* the times of the slots granted so far, oldest first

Init == slots = <<>>

(* One more slot, at a time no earlier than the last, with budget left.    *)
GrantSlot ==
    /\ Len(slots') = Len(slots) + 1
    /\ LET t == slots'[Len(slots')] IN
         /\ slots' = Append(slots, t)
         /\ \A i \in DOMAIN slots : slots[i] <= t
         /\ \A i \in DOMAIN slots : i + Budget <= Len(slots') => slots[i] + Window <= t

(* The process that kept the window dies; the next one starts with none.   *)
Forget == slots' = <<>>

Next == GrantSlot \/ Forget

Spec == Init /\ [][Next]_slots
=============================================================================
