-------------------------- MODULE RateLimiterProofs --------------------------
(***************************************************************************)
(* Proofs about RateLimiter, for every Budget, Window and bound.           *)
(*                                                                         *)
(* The inductive invariant: the deque is the tail of the slots granted, and*)
(* every slot that left it is a full Window old.  What makes it inductive  *)
(* is the second `while` of the code: after a sleep its head has expired   *)
(* or the deque is already short, so the append never makes it overflow.   *)
(***************************************************************************)
EXTENDS RateLimiter, FiniteSetTheorems, TLAPS

Dropped == Len(grants) - Len(times)

Monotone ==
    /\ now <= clock
    /\ \A i \in 1..Len(grants) : grants[i] <= now
    /\ \A i, j \in 1..Len(grants) : i <= j => grants[i] <= grants[j]

DequeIsTail ==
    /\ Len(times) <= Len(grants)
    /\ \A i \in 1..Len(times) : times[i] = grants[Dropped + i]

DroppedAreOld == \A i \in 1..Dropped : now - grants[i] >= Window

SleepLongEnough ==
    pc = "sleep" =>
        /\ Len(times) >= Budget
        /\ now - times[1] < Window
        /\ until >= times[1] + Window

RoomAfterSleep ==
    pc = "expire_again" =>
        \/ Len(times) < Budget
        \/ times # <<>> /\ now - times[1] >= Window

IInv ==
    /\ TypeOK
    /\ Monotone
    /\ DequeIsTail
    /\ DroppedAreOld
    /\ DequeBounded
    /\ SleepLongEnough
    /\ RoomAfterSleep
    /\ WindowBudget

(* Every step of the limiter preserves the types of its variables. *)
LEMMA StepPreservesType ==
  ASSUME TypeOK, [Next]_vars
  PROVE  TypeOK'
<1> USE BudgetAssumption, WindowAssumption DEF TypeOK, Lines
<1>1. CASE Tick
  BY <1>1 DEF Tick
<1>2. CASE Ask
  BY <1>2 DEF Ask
<1>3. CASE PopLeft
  BY <1>3 DEF PopLeft, HeadExpired
<1>4. CASE Sleep
  <2>1. times # <<>>
    BY <1>4 DEF Sleep, Full
  <2>2. Head(times) \in Nat
    BY <2>1
  <2>3. (IF WaitSeconds > 0 THEN WaitSeconds ELSE 0) \in Nat
    BY <2>2 DEF WaitSeconds
  <2>4. until' \in Nat
    BY <1>4, <2>3 DEF Sleep
  <2> QED
    BY <1>4, <2>4 DEF Sleep
<1>5. CASE Wake
  BY <1>5 DEF Wake
<1>6. CASE Grant
  BY <1>6 DEF Grant
<1>7. CASE Send
  BY <1>7 DEF Send
<1>8. CASE Restart
  BY <1>8 DEF Restart
<1>9. CASE UNCHANGED vars
  BY <1>9 DEF vars
<1> QED
  BY <1>1, <1>2, <1>3, <1>4, <1>5, <1>6, <1>7, <1>8, <1>9 DEF Next, Caller

(* The typed variables have their types in every reachable state. *)
THEOREM LimiterTypeOK == Spec => []TypeOK
<1>1. Init => TypeOK
  BY DEF Init, TypeOK, Lines
<1>2. TypeOK /\ [Next]_vars => TypeOK'
  BY StepPreservesType
<1> QED
  BY <1>1, <1>2, PTL DEF Spec

(* Both sequences are functions on 1..Len with natural values. *)
LEMMA SequenceFacts ==
  ASSUME TypeOK
  PROVE  /\ Len(times) \in Nat /\ Len(grants) \in Nat
         /\ DOMAIN times = 1..Len(times) /\ DOMAIN grants = 1..Len(grants)
         /\ \A i \in 1..Len(times) : times[i] \in Nat
         /\ \A i \in 1..Len(grants) : grants[i] \in Nat
BY DEF TypeOK

(* Every step of the limiter preserves the inductive invariant. *)
LEMMA StepPreservesIInv ==
  ASSUME IInv, [Next]_vars
  PROVE  IInv'
<1>0. TypeOK'
  BY StepPreservesType DEF IInv
<1> USE <1>0, BudgetAssumption, WindowAssumption
<1>1. CASE Tick
  BY <1>1 DEF Tick, IInv, TypeOK, Monotone, DequeIsTail, Dropped, DroppedAreOld,
     DequeBounded, SleepLongEnough, RoomAfterSleep, WindowBudget, Spaced
<1>2. CASE Ask
  <2> USE <1>2 DEF Ask, IInv, TypeOK
  <2>1. Monotone'
    BY DEF Monotone
  <2>2. DequeIsTail'
    BY DEF DequeIsTail, Dropped
  <2>3. DroppedAreOld'
    <3> SUFFICES ASSUME NEW i \in 1..Dropped PROVE now' - grants[i] >= Window
      BY DEF DroppedAreOld, Dropped
    <3>1. now - grants[i] >= Window /\ now <= now' /\ grants[i] \in Nat
      BY SequenceFacts DEF DroppedAreOld, Monotone, Dropped, DequeIsTail
    <3> QED
      BY <3>1
  <2>4. DequeBounded' /\ SleepLongEnough' /\ RoomAfterSleep' /\ WindowBudget'
    BY DEF DequeBounded, SleepLongEnough, RoomAfterSleep, WindowBudget, Spaced
  <2> QED
    BY <2>1, <2>2, <2>3, <2>4
<1>3. CASE PopLeft
  <2> USE <1>3 DEF PopLeft, HeadExpired, IInv, TypeOK
  <2>1. /\ Len(times) \in Nat \ {0}
        /\ Len(times') = Len(times) - 1
        /\ \A i \in 1..Len(times') : times'[i] = times[i + 1]
        /\ Head(times) = times[1]
    OBVIOUS
  <2>a. /\ Dropped' = Dropped + 1 /\ Dropped \in Nat /\ Dropped + 1 \in 1..Len(grants)
        /\ Len(grants) \in Nat /\ Len(times) <= Len(grants)
    BY <2>1 DEF Dropped, DequeIsTail
  <2>b. \A i \in 1..Len(times) : times[i] = grants[Dropped + i]
    BY DEF DequeIsTail
  <2>2. DequeIsTail'
    <3> SUFFICES ASSUME NEW i \in 1..Len(times')
                 PROVE  times'[i] = grants[Dropped + 1 + i]
      BY <2>1, <2>a DEF DequeIsTail
    <3>1. i + 1 \in 1..Len(times) /\ Dropped + (i + 1) = Dropped + 1 + i
      BY <2>1, <2>a
    <3> QED
      BY <2>1, <2>b, <3>1
  <2>3. DroppedAreOld'
    <3>2. now - grants[Dropped + 1] >= Window
      BY <2>1, <2>b, <2>a
    <3> QED
      BY <2>a, <3>2 DEF DroppedAreOld
  <2>4. Monotone' /\ WindowBudget'
    BY DEF Monotone, WindowBudget, Spaced
  <2>5. DequeBounded' /\ SleepLongEnough' /\ RoomAfterSleep'
    BY <2>1 DEF DequeBounded, SleepLongEnough, RoomAfterSleep, Lines
  <2> QED
    BY <2>2, <2>3, <2>4, <2>5
<1>4. CASE Sleep
  <2> USE <1>4 DEF Sleep, IInv, TypeOK
  <2>1. times # <<>> /\ Head(times) = times[1] /\ times[1] \in Nat
    BY DEF Full
  <2>2. until' >= times[1] + Window
    BY <2>1 DEF WaitSeconds, Monotone
  <2>3. SleepLongEnough' /\ RoomAfterSleep'
    <3>1. ~(now - times[1] >= Window) /\ Len(times) >= Budget
      BY <2>1 DEF HeadExpired, Full
    <3>2. now - times[1] < Window
      BY <2>1, <3>1
    <3> QED
      BY <2>1, <2>2, <3>1, <3>2 DEF SleepLongEnough, RoomAfterSleep
  <2> QED
    BY <2>3 DEF Monotone, DequeIsTail, Dropped, DroppedAreOld, DequeBounded,
       WindowBudget, Spaced
<1>5. CASE Wake
  <2> USE <1>5 DEF Wake, IInv, TypeOK
  <2>1. RoomAfterSleep' /\ SleepLongEnough'
    BY DEF RoomAfterSleep, SleepLongEnough
  <2>2. DroppedAreOld'
    <3> SUFFICES ASSUME NEW i \in 1..Dropped PROVE now' - grants[i] >= Window
      BY DEF DroppedAreOld, Dropped
    <3>1. now - grants[i] >= Window /\ now <= now' /\ grants[i] \in Nat
      BY SequenceFacts DEF DroppedAreOld, Monotone, Dropped, DequeIsTail
    <3> QED
      BY <3>1
  <2> QED
    BY <2>1, <2>2 DEF Monotone, DequeIsTail, Dropped, DequeBounded, WindowBudget, Spaced
<1>6. CASE Grant
  <2> USE <1>6 DEF Grant, IInv, TypeOK
  <2> DEFINE n == Len(grants)
             m == Len(times)
  <2>1. /\ Len(grants') = n + 1 /\ n \in Nat
        /\ grants'[n + 1] = now
        /\ \A i \in 1..n : grants'[i] = grants[i]
        /\ Len(times') = m + 1 /\ m \in Nat
        /\ times'[m + 1] = now
        /\ \A i \in 1..m : times'[i] = times[i]
    OBVIOUS
  <2>2. m < Budget
    BY DEF Full, HeadExpired, RoomAfterSleep
  <2>3. /\ Dropped' = Dropped /\ Dropped \in 0..n /\ m <= n
        /\ Dropped + m = n
        /\ \A i \in 1..m : times[i] = grants[Dropped + i]
        /\ \A i \in 1..Dropped : now - grants[i] >= Window
    BY <2>1 DEF Dropped, DequeIsTail, DroppedAreOld
  <2>4. Monotone'
    BY <2>1, SequenceFacts DEF Monotone
  <2>5. DequeIsTail'
    <3> SUFFICES ASSUME NEW i \in 1..m + 1
                 PROVE  times'[i] = grants'[Dropped + i]
      <4>1. Len(times') <= Len(grants')
        BY <2>1, <2>3
      <4> HIDE <1>6 DEF Grant, IInv, TypeOK, n, m
      <4> QED
        BY <2>1, <2>3, <4>1 DEF DequeIsTail
    <3> HIDE <1>6 DEF Grant, IInv, TypeOK, n, m
    <3>0. i = m + 1 \/ i \in 1..m
      BY <2>1
    <3>1. CASE i = m + 1
      BY <2>1, <2>3, <3>1
    <3>2. CASE i \in 1..m
      <4>1. Dropped + i \in 1..n
        BY <2>1, <2>3, <3>2
      <4> QED
        BY <2>1, <2>3, <3>2, <4>1
    <3> QED
      BY <3>0, <3>1, <3>2
  <2>6. DroppedAreOld'
    BY <2>1, <2>3 DEF DroppedAreOld
  <2>7. DequeBounded' /\ SleepLongEnough' /\ RoomAfterSleep'
    BY <2>1, <2>2 DEF DequeBounded, SleepLongEnough, RoomAfterSleep
  <2>8. WindowBudget'
    <3> SUFFICES ASSUME NEW i \in 1..n + 1, NEW j \in 1..n + 1, i + Budget <= j
                 PROVE grants'[j] - grants'[i] >= Window
      <4>1. DOMAIN grants' = 1..n + 1
        BY <2>1, <1>0, SequenceFacts
      <4> QED
        BY <4>1 DEF WindowBudget, Spaced
    <3>0. j <= n \/ j = n + 1
      <4> HIDE <1>6 DEF Grant, IInv, TypeOK, n, m
      <4> QED BY <2>1
    <3>1. CASE j <= n
      <4>1. i \in 1..n /\ j \in 1..n
        BY <2>1, <3>1
      <4>2. grants[j] - grants[i] >= Window
        BY <4>1, SequenceFacts DEF WindowBudget, Spaced
      <4> QED
        BY <2>1, <4>1, <4>2
    <3>2. CASE j = n + 1
      <4>1. i \in 1..Dropped
        BY <2>1, <2>2, <2>3, <3>2
      <4>2. i \in 1..n
        BY <2>1, <2>3, <4>1
      <4> QED
        BY <2>1, <2>3, <3>2, <4>1, <4>2
    <3> QED
      BY <3>0, <3>1, <3>2
  <2> QED
    BY <2>4, <2>5, <2>6, <2>7, <2>8
<1>7. CASE Send
  BY <1>7 DEF Send, IInv, TypeOK, Monotone, DequeIsTail, Dropped, DroppedAreOld,
     DequeBounded, SleepLongEnough, RoomAfterSleep, WindowBudget, Spaced
<1>8. CASE Restart
  BY <1>8 DEF Restart, IInv, TypeOK, Monotone, DequeIsTail, Dropped, DroppedAreOld,
     DequeBounded, SleepLongEnough, RoomAfterSleep, WindowBudget, Spaced
<1>9. CASE UNCHANGED vars
  BY <1>9 DEF vars, IInv, TypeOK, Monotone, DequeIsTail, Dropped, DroppedAreOld,
     DequeBounded, SleepLongEnough, RoomAfterSleep, WindowBudget, Spaced
<1> QED
  BY <1>1, <1>2, <1>3, <1>4, <1>5, <1>6, <1>7, <1>8, <1>9 DEF Next, Caller
(* The inductive invariant holds in every reachable state. *)
LEMMA Inductive == Spec => []IInv
<1>1. Init => IInv
  BY BudgetAssumption DEF Init, IInv, TypeOK, Lines, Monotone, DequeIsTail, Dropped,
     DroppedAreOld, DequeBounded, SleepLongEnough, RoomAfterSleep, WindowBudget, Spaced
<1>2. IInv /\ [Next]_vars => IInv'
  BY StepPreservesIInv
<1> QED
  BY <1>1, <1>2, PTL DEF Spec

(* No Budget + 1 slots of one process lie in one window: the claim of      *)
(* _wait_for_submission_slot, for every budget, window and schedule.       *)
THEOREM LimiterKeepsBudget == Spec => []WindowBudget
BY Inductive, PTL DEF IInv

(* The deque of submission times never outgrows the budget. *)
THEOREM LimiterDequeBounded == Spec => []DequeBounded
BY Inductive, PTL DEF IInv

(* A sleeping caller found at least Budget slots in the window before it   *)
(* asked: they are exactly those the deque still holds.                    *)
THEOREM LimiterSleepsOnlyWhenFull == Spec => []SleepsOnlyWhenFull
<1>1. IInv => SleepsOnlyWhenFull
  <2> SUFFICES ASSUME IInv, pc = "sleep"
               PROVE  Cardinality({i \in DOMAIN grants : now - grants[i] < Window}) >= Budget
    BY DEF SleepsOnlyWhenFull
  <2> DEFINE n == Len(grants)
             R == {i \in DOMAIN grants : now - grants[i] < Window}
  <2>1. n \in Nat /\ Dropped \in 0..n /\ Budget \in Nat \ {0} /\ n - Dropped >= Budget
    BY SequenceFacts, BudgetAssumption DEF IInv, DequeIsTail, Dropped, SleepLongEnough
  <2>2. grants[Dropped + 1] = times[1] /\ now - times[1] < Window
    BY <2>1, SequenceFacts DEF IInv, DequeIsTail, Dropped, SleepLongEnough
  <2>3. Dropped + 1 .. n \subseteq R
    <3> SUFFICES ASSUME NEW i \in Dropped + 1 .. n PROVE i \in R
      OBVIOUS
    <3>1. i \in 1..n /\ Dropped + 1 \in 1..n
      BY <2>1
    <3>2. grants[Dropped + 1] <= grants[i] /\ grants[i] \in Nat /\ grants[Dropped + 1] \in Nat
      BY <3>1, SequenceFacts DEF IInv, Monotone
    <3>3. now \in Nat /\ Window \in Nat
      BY WindowAssumption DEF IInv, TypeOK
    <3>4. now - grants[i] < Window
      BY <2>2, <3>2, <3>3
    <3> QED
      BY <3>1, <3>4, SequenceFacts DEF IInv
  <2>4. Cardinality(Dropped + 1 .. n) >= Budget
    <3>1. Dropped + 1 \in Int /\ n \in Int
      BY <2>1
    <3>2. Cardinality(Dropped + 1 .. n) = IF Dropped + 1 > n THEN 0 ELSE n - (Dropped + 1) + 1
      BY <3>1, FS_Interval
    <3>3. (IF Dropped + 1 > n THEN 0 ELSE n - (Dropped + 1) + 1) >= Budget
      BY <2>1
    <3> QED
      BY <3>2, <3>3
  <2>5. IsFiniteSet(R) /\ R \subseteq 1..n
    <3>1. IsFiniteSet(1..n)
      BY <2>1, FS_Interval
    <3>2. R \subseteq 1..n
      BY SequenceFacts DEF IInv
    <3> QED
      BY <3>1, <3>2, FS_Subset
  <2>6. Cardinality(R) \in Nat /\ Cardinality(Dropped + 1 .. n) <= Cardinality(R)
    BY <2>3, <2>5, FS_Subset, FS_CardinalityType
  <2>7. Cardinality(Dropped + 1 .. n) \in Nat
    BY <2>3, <2>5, FS_Subset, FS_CardinalityType
  <2> QED
    BY <2>1, <2>4, <2>6, <2>7
<1> QED
  BY <1>1, Inductive, PTL

-----------------------------------------------------------------------------
(* What the provider sees.  The requests are cut at the last restart: those*)
(* of earlier processes come first, the others answer to the grants.       *)

Own    == IF pc = "send" THEN Len(grants) - 1 ELSE Len(grants)
Others == Len(sent) - Own

Cut == /\ 0 <= Own /\ Own <= Len(sent)
       /\ restarts = 0 => Others = 0

SentInOrder ==
    /\ \A i \in 1..Len(sent) : sent[i] <= clock
    /\ \A i, j \in 1..Len(sent) : i <= j => sent[i] <= sent[j]

SentSoon == \A i \in 1..Own : grants[i] <= sent[Others + i] /\ sent[Others + i] <= grants[i] + MaxSendDelay

Awake ==
    /\ pc \in {"expire", "expire_again", "send"} => clock <= now + MaxSendDelay
    /\ pc = "send" => grants[Len(grants)] = now

EarlierSpaced ==
    \A i, j \in 1..Others : i + restarts * Budget <= j => sent[j] - sent[i] >= Window - MaxSendDelay

SlackInv == Cut /\ SentInOrder /\ SentSoon /\ Awake /\ EarlierSpaced

(* Budgets of one restart more.                                            *)
LEMMA OneMore == ASSUME NEW r \in Nat
                 PROVE  r * Budget \in Nat /\ (r + 1) * Budget = r * Budget + Budget
BY BudgetAssumption

(* The types of what was sent and granted.                                 *)
LEMMA SentFacts ==
  ASSUME TypeOK
  PROVE  /\ Len(sent) \in Nat /\ DOMAIN sent = 1..Len(sent) /\ \A i \in 1..Len(sent) : sent[i] \in Nat
         /\ Len(grants) \in Nat /\ Own \in Int /\ Others \in Int /\ Own <= Len(grants)
BY DEF TypeOK, Own, Others

(* Requests of this process: a budget apart, they are a window apart.      *)
LEMMA OwnSpaced ==
  ASSUME TypeOK, WindowBudget, Cut, SentSoon,
         NEW i \in 1..Len(sent), NEW j \in 1..Len(sent), i > Others, i + Budget <= j
  PROVE  sent[j] - sent[i] >= Window - MaxSendDelay
<1> DEFINE a == i - Others
           b == j - Others
<1>1. /\ Others \in Int /\ Own \in Nat /\ Own <= Len(grants) /\ Len(grants) \in Nat
      /\ Len(sent) = Others + Own /\ Len(sent) \in Nat
  BY SentFacts DEF Cut, Others
<1>2. /\ a \in 1..Own /\ b \in 1..Own /\ a + Budget <= b
      /\ Others + a = i /\ Others + b = j
  BY <1>1, BudgetAssumption
<1>3. a \in DOMAIN grants /\ b \in DOMAIN grants /\ grants[a] \in Nat /\ grants[b] \in Nat
  BY <1>1, <1>2, SequenceFacts
<1>4. grants[b] - grants[a] >= Window
  BY <1>2, <1>3 DEF WindowBudget, Spaced
<1>5. sent[i] <= grants[a] + MaxSendDelay /\ grants[b] <= sent[j]
  BY <1>2 DEF SentSoon
<1>6. sent[i] \in Nat /\ sent[j] \in Nat /\ MaxSendDelay \in Nat /\ Window \in Nat
  BY SentFacts, BoundsAssumption, WindowAssumption
<1> HIDE DEF a, b
<1> QED
  BY <1>3, <1>4, <1>5, <1>6

(* The cut makes the bound: two requests r + 1 budgets apart are r apart   *)
(* among the earlier ones or a budget apart among those of this process.   *)
LEMMA SlackFromCut ==
  ASSUME TypeOK, WindowBudget, SlackInv
  PROVE  ProviderSlack
<1> SUFFICES ASSUME NEW i \in 1..Len(sent), NEW j \in 1..Len(sent), i + (restarts + 1) * Budget <= j
             PROVE  sent[j] - sent[i] >= Window - MaxSendDelay
  BY SentFacts DEF ProviderSlack
<1> DEFINE K == restarts * Budget
<1>1. K \in Nat /\ i + K + Budget <= j /\ Budget \in Nat \ {0}
  BY OneMore, BudgetAssumption DEF TypeOK
<1>2. /\ Others \in Nat /\ Others <= Len(sent) /\ Len(sent) \in Nat
      /\ \A k \in 1..Len(sent) : sent[k] \in Nat
  BY SentFacts DEF SlackInv, Cut, Others
<1>3. \A k, l \in 1..Others : k + K <= l => sent[l] - sent[k] >= Window - MaxSendDelay
  BY DEF SlackInv, EarlierSpaced
<1>4. \A k, l \in 1..Len(sent) : k <= l => sent[k] <= sent[l]
  BY DEF SlackInv, SentInOrder
<1>5. MaxSendDelay \in Nat /\ Window \in Nat
  BY BoundsAssumption, WindowAssumption
<1> HIDE DEF K
<1>6. CASE i > Others
  <2>1. i + Budget <= j
    BY <1>1
  <2> QED
    BY <1>6, <2>1, OwnSpaced DEF SlackInv
<1>7. CASE j <= Others
  <2>1. i \in 1..Others /\ j \in 1..Others /\ i + K <= j
    BY <1>1, <1>2, <1>7
  <2> QED
    BY <1>3, <2>1
<1>8. CASE i <= Others /\ i + K <= Others /\ j > Others
  <2>1. i \in 1..Others /\ Others \in 1..Others /\ Others \in 1..Len(sent)
    BY <1>2, <1>8
  <2>2. sent[Others] - sent[i] >= Window - MaxSendDelay /\ sent[Others] <= sent[j]
    BY <1>2, <1>3, <1>4, <1>8, <2>1
  <2> QED
    BY <1>2, <1>5, <2>1, <2>2
<1>9. CASE i <= Others /\ i + K > Others /\ j > Others
  <2>1. Others + 1 \in 1..Len(sent) /\ Others + 1 > Others /\ Others + 1 + Budget <= j
    BY <1>1, <1>2, <1>9
  <2>2. sent[j] - sent[Others + 1] >= Window - MaxSendDelay
    BY <2>1, OwnSpaced DEF SlackInv
  <2>3. sent[i] <= sent[Others + 1]
    BY <1>2, <1>4, <1>9, <2>1
  <2> QED
    BY <1>2, <1>5, <2>1, <2>2, <2>3
<1> QED
  BY <1>1, <1>2, <1>6, <1>7, <1>8, <1>9

(* The cut through a step.                                                 *)
LEMMA StepPreservesSlack ==
  ASSUME IInv, SlackInv, [Next]_vars
  PROVE  SlackInv'
<1> USE BoundsAssumption DEF SlackInv
<1>0. TypeOK /\ TypeOK' /\ WindowBudget
  BY StepPreservesType DEF IInv
<1>1. CASE Tick
  <2>1. /\ sent' = sent /\ grants' = grants /\ restarts' = restarts /\ clock' = clock + 1
        /\ pc' = pc /\ now' = now
    BY <1>1 DEF Tick
  <2>2. Own' = Own /\ Others' = Others
    BY <2>1 DEF Own, Others
  <2>3. clock \in Nat /\ now \in Nat /\ MaxSendDelay \in Nat
    BY <1>0 DEF TypeOK
  <2>4. Awake'
    BY <1>1, <2>1, <2>3 DEF Tick, Awake
  <2>5. SentInOrder'
    BY <1>0, <2>1, <2>3, SentFacts DEF SentInOrder
  <2> QED
    BY <2>1, <2>2, <2>4, <2>5 DEF Cut, SentSoon, EarlierSpaced
<1>2. CASE Ask \/ PopLeft \/ Sleep \/ Wake
  <2>1. /\ sent' = sent /\ grants' = grants /\ restarts' = restarts /\ clock' = clock
        /\ pc # "send" /\ pc' # "send"
    BY <1>2 DEF Ask, PopLeft, Sleep, Wake
  <2>2. Own' = Own /\ Others' = Others
    BY <2>1 DEF Own, Others
  <2>3. Awake'
    <3>1. \/ pc' = "expire" /\ now' = clock
          \/ pc' = pc /\ now' = now
          \/ pc' = "sleep"
          \/ pc' = "expire_again" /\ now' = clock
      <4>1. CASE Ask
        BY <4>1 DEF Ask
      <4>2. CASE PopLeft
        BY <4>2 DEF PopLeft
      <4>3. CASE Sleep
        BY <4>3 DEF Sleep
      <4>4. CASE Wake
        BY <4>4 DEF Wake
      <4> QED
        BY <1>2, <4>1, <4>2, <4>3, <4>4
    <3>2. clock \in Nat /\ now \in Nat /\ MaxSendDelay \in Nat
      BY <1>0 DEF TypeOK
    <3> QED
      BY <2>1, <3>1, <3>2 DEF Awake
  <2> QED
    BY <2>1, <2>2, <2>3 DEF Cut, SentInOrder, SentSoon, EarlierSpaced
<1>3. CASE Grant
  <2>1. /\ sent' = sent /\ restarts' = restarts /\ clock' = clock /\ now' = now
        /\ pc \in {"expire", "expire_again"} /\ pc' = "send" /\ grants' = Append(grants, now)
    BY <1>3 DEF Grant
  <2>2. /\ Len(grants) \in Nat /\ Len(grants') = Len(grants) + 1 /\ grants'[Len(grants')] = now
        /\ \A i \in 1..Len(grants) : grants'[i] = grants[i]
    BY <1>0, <2>1 DEF TypeOK
  <2>3. Own' = Own /\ Others' = Others /\ Own = Len(grants)
    BY <2>1, <2>2 DEF Own, Others
  <2>4. SentSoon'
    BY <2>1, <2>2, <2>3 DEF SentSoon
  <2>5. Awake'
    BY <2>1, <2>2 DEF Awake
  <2> QED
    BY <2>1, <2>3, <2>4, <2>5 DEF Cut, SentInOrder, EarlierSpaced
<1>4. CASE Send
  <2>1. /\ grants' = grants /\ restarts' = restarts /\ clock' = clock /\ now' = now
        /\ pc = "send" /\ pc' = "idle" /\ sent' = Append(sent, clock)
    BY <1>4 DEF Send
  <2> DEFINE n == Len(sent)
  <2>2. /\ n \in Nat /\ Len(sent') = n + 1 /\ sent'[n + 1] = clock
        /\ \A i \in 1..n : sent'[i] = sent[i]
    BY <1>0, <2>1 DEF TypeOK
  <2>3. Own' = Own + 1 /\ Others' = Others /\ Own \in Nat /\ Others \in Nat /\ Others + Own = n
        /\ Own + 1 = Len(grants)
    BY <1>0, <2>1, <2>2, SentFacts DEF Own, Others, Cut
  <2>4. Cut'
    BY <2>1, <2>2, <2>3 DEF Cut
  <2>5. SentInOrder'
    <3>1. \A i \in 1..n + 1 : sent'[i] <= clock
      <4> SUFFICES ASSUME NEW i \in 1..n + 1 PROVE sent'[i] <= clock
        OBVIOUS
      <4>1. clock \in Nat
        BY <1>0 DEF TypeOK
      <4>2. i = n + 1 \/ i \in 1..n
        BY <2>2
      <4> QED
        BY <2>2, <4>1, <4>2 DEF SentInOrder
    <3>2. \A i, j \in 1..n + 1 : i <= j => sent'[i] <= sent'[j]
      <4> SUFFICES ASSUME NEW i \in 1..n + 1, NEW j \in 1..n + 1, i <= j PROVE sent'[i] <= sent'[j]
        OBVIOUS
      <4>1. CASE j = n + 1
        BY <2>2, <3>1, <4>1
      <4>2. CASE j # n + 1
        <5>1. i \in 1..n /\ j \in 1..n
          BY <2>2, <4>2
        <5> QED
          BY <2>2, <5>1 DEF SentInOrder
      <4> QED
        BY <4>1, <4>2
    <3> QED
      BY <2>1, <2>2, <3>1, <3>2 DEF SentInOrder
  <2>6. SentSoon'
    <3> SUFFICES ASSUME NEW i \in 1..Own + 1
                 PROVE  grants[i] <= sent'[Others + i] /\ sent'[Others + i] <= grants[i] + MaxSendDelay
      BY <2>1, <2>3 DEF SentSoon
    <3>1. CASE i = Own + 1
      <4>1. Others + i = n + 1 /\ grants[i] = now
        BY <2>1, <2>3, <3>1 DEF Awake
      <4>2. now <= clock /\ clock <= now + MaxSendDelay
        BY <2>1 DEF IInv, Monotone, Awake
      <4> QED
        BY <2>2, <4>1, <4>2
    <3>2. CASE i # Own + 1
      <4>1. i \in 1..Own /\ Others + i \in 1..n
        BY <2>2, <2>3, <3>2
      <4> QED
        BY <2>2, <4>1 DEF SentSoon
    <3> QED
      BY <3>1, <3>2
  <2>7. EarlierSpaced'
    <3>1. \A i \in 1..Others : i \in 1..n
      BY <2>2, <2>3
    <3> QED
      BY <2>1, <2>2, <2>3, <3>1 DEF EarlierSpaced
  <2>8. Awake'
    BY <2>1 DEF Awake
  <2> QED
    BY <2>4, <2>5, <2>6, <2>7, <2>8
<1>5. CASE Restart
  <2>1. /\ sent' = sent /\ restarts' = restarts + 1 /\ clock' = clock
        /\ grants' = <<>> /\ pc' = "idle"
    BY <1>5 DEF Restart
  <2>2. Own' = 0 /\ Others' = Len(sent) /\ Len(sent) \in Nat /\ restarts \in Nat
    BY <1>0, <2>1, SentFacts DEF Own, Others, TypeOK
  <2>3. ProviderSlack
    BY <1>0, SlackFromCut
  <2>4. EarlierSpaced'
    BY <1>0, <2>1, <2>2, <2>3, SentFacts DEF EarlierSpaced, ProviderSlack
  <2> QED
    BY <2>1, <2>2, <2>4 DEF Cut, SentInOrder, SentSoon, Awake
<1>6. CASE UNCHANGED vars
  BY <1>6 DEF vars, Cut, Own, Others, SentInOrder, SentSoon, Awake, EarlierSpaced
<1> QED
  BY <1>1, <1>2, <1>3, <1>4, <1>5, <1>6 DEF Next, Caller

(* After r restarts the provider sees no more than r + 1 budgets in one    *)
(* window, up to the delay between the stamp of a slot and its request.    *)
THEOREM LimiterProviderSlack == Spec => []ProviderSlack
<1>1. Init => SlackInv
  BY DEF Init, SlackInv, Cut, Own, Others, SentInOrder, SentSoon, Awake, EarlierSpaced
<1>2. IInv /\ SlackInv /\ [Next]_vars => SlackInv'
  BY StepPreservesSlack
<1>3. IInv /\ SlackInv => ProviderSlack
  BY SlackFromCut DEF IInv
<1> QED
  BY <1>1, <1>2, <1>3, Inductive, PTL DEF Spec

(* The limiter implements the abstract promise: every step of it either    *)
(* leaves the granted slots alone, grants one the promise allows, or is    *)
(* the restart that forgets them.                                          *)
THEOREM LimiterImplementsPromise == Spec => Implements
<1>1. Init => Promise!Init
  BY DEF Init, Promise!Init
<1>2. IInv /\ [Next]_vars => [Promise!Next]_grants
  <2> SUFFICES ASSUME IInv, [Next]_vars PROVE [Promise!Next]_grants
    OBVIOUS
  <2>1. CASE Grant
    <3>1. IInv'
      BY StepPreservesIInv
    <3> DEFINE t == grants'[Len(grants')]
    <3>2. /\ Len(grants') = Len(grants) + 1
          /\ t = now
          /\ grants' = Append(grants, t)
          /\ Len(grants) \in Nat
          /\ \A i \in 1..Len(grants) : grants'[i] = grants[i]
      BY <2>1 DEF Grant, IInv, TypeOK
    <3>3. \A i \in DOMAIN grants : grants[i] <= t
      BY <3>2, SequenceFacts DEF IInv, Monotone
    <3>4. \A i \in DOMAIN grants : i + Budget <= Len(grants') => grants[i] + Window <= t
      <4> SUFFICES ASSUME NEW i \in 1..Len(grants), i + Budget <= Len(grants')
                   PROVE  grants[i] + Window <= t
        BY SequenceFacts DEF IInv
      <4>1. i \in 1..Len(grants') /\ Len(grants') \in 1..Len(grants')
        BY <3>2
      <4>2. t - grants'[i] >= Window
        BY <3>1, <4>1, SequenceFacts DEF IInv, WindowBudget, Spaced
      <4>3. grants'[i] = grants[i] /\ grants[i] \in Nat /\ t \in Nat /\ Window \in Nat
        BY <3>2, SequenceFacts, WindowAssumption DEF IInv, TypeOK
      <4> QED
        BY <4>2, <4>3
    <3>5. Promise!GrantSlot
      BY <3>2, <3>3, <3>4 DEF Promise!GrantSlot
    <3> QED
      BY <3>5 DEF Promise!Next
  <2>2. CASE Restart
    BY <2>2 DEF Restart, Promise!Next, Promise!Forget
  <2>3. CASE Tick \/ Ask \/ PopLeft \/ Sleep \/ Wake \/ Send \/ UNCHANGED vars
    BY <2>3 DEF Tick, Ask, PopLeft, Sleep, Wake, Send, vars
  <2> QED
    BY <2>1, <2>2, <2>3 DEF Next, Caller
<1> QED
  BY <1>1, <1>2, Inductive, PTL DEF Spec, Implements, Promise!Spec

-----------------------------------------------------------------------------
(* A call is bounded.  Left counts what it may still take: the steps of    *)
(* the caller and, while it sleeps, the ticks of the clock.                *)
CallBound == Budget + Window + 4

Remaining(u, c) == IF u > c THEN u - c ELSE 0

SleepLeft == Remaining(until, clock)

Left == CASE pc = "idle"         -> 0
          [] pc = "send"         -> 1
          [] pc = "expire_again" -> Len(times) + 2
          [] pc = "sleep"        -> Len(times) + 3 + SleepLeft
          [] OTHER               -> Len(times) + 4 + Window

LEMMA RemainingBounded ==
  ASSUME NEW u \in Nat, NEW c \in Nat, NEW w \in Nat, u <= c + w
  PROVE  Remaining(u, c) \in 0..w
BY DEF Remaining

CallerUsesOneUp == Caller /\ pc # "idle" => Left' < Left
ClockUsesOneUp  == Tick => Left' <= Left /\ (pc = "sleep" /\ clock < until => Left' < Left)

(* A sleep is of no more than a window. *)
SleepBounded == pc = "sleep" => until <= clock + Window

LEMMA SleepBoundedStep ==
  ASSUME IInv, SleepBounded, [Next]_vars PROVE SleepBounded'
<1> USE WindowAssumption, BudgetAssumption DEF SleepBounded, IInv, TypeOK
<1>1. CASE Sleep
  <2>1. times # <<>> /\ Head(times) = times[1] /\ times[1] \in Nat /\ 1 \in 1..Len(times)
    BY <1>1 DEF Sleep, Full
  <2>2. Dropped + 1 \in 1..Len(grants) /\ times[1] = grants[Dropped + 1]
    BY <2>1, SequenceFacts DEF DequeIsTail, Dropped
  <2>3. times[1] <= now
    BY <2>2 DEF Monotone
  <2>4. WaitSeconds <= Window /\ WaitSeconds \in Int
    BY <2>1, <2>3 DEF WaitSeconds
  <2> QED
    BY <1>1, <2>4 DEF Sleep
<1>2. CASE Tick
  BY <1>2 DEF Tick
<1>3. CASE pc' # "sleep" \/ UNCHANGED <<pc, until, clock>>
  BY <1>3
<1> QED
  BY <1>1, <1>2, <1>3 DEF Next, Caller, Ask, PopLeft, Wake, Grant, Send, Restart, vars

(* The count is a number within the bound, and nothing only where no call  *)
(* is under way.                                                           *)
LEMMA LeftBounded ==
  ASSUME IInv, SleepBounded PROVE Left \in 0..CallBound /\ (Left = 0 <=> pc = "idle")
<1> USE BudgetAssumption, WindowAssumption DEF CallBound
<1>1. Len(times) \in 0..Budget /\ clock \in Nat /\ until \in Nat /\ pc \in Lines
  BY SequenceFacts DEF IInv, DequeBounded, TypeOK
<1>2. CASE pc = "sleep"
  <2>1. SleepLeft \in 0..Window
    BY <1>1, <1>2 DEF SleepBounded, SleepLeft, Remaining
  <2>2. Left = Len(times) + 3 + SleepLeft
    BY <1>2 DEF Left
  <2> QED
    BY <1>1, <1>2, <2>1, <2>2
<1>3. CASE pc # "sleep"
  <2>1. \/ pc = "idle" /\ Left = 0
        \/ pc = "send" /\ Left = 1
        \/ pc = "expire_again" /\ Left = Len(times) + 2
        \/ pc = "expire" /\ Left = Len(times) + 4 + Window
    BY <1>1, <1>3 DEF Left, Lines
  <2> QED
    BY <1>1, <2>1
<1> QED
  BY <1>2, <1>3

(* A step of the caller uses one up: after a sleep it is not put to sleep  *)
(* again.                                                                  *)
LEMMA CallerDescends ==
  ASSUME IInv, SleepBounded, SleepBounded' PROVE CallerUsesOneUp
<1> SUFFICES ASSUME Caller, pc # "idle" PROVE Left' < Left
  BY DEF CallerUsesOneUp
<1> USE BudgetAssumption, WindowAssumption
<1>0. /\ Len(times) \in Nat /\ clock \in Nat /\ until \in Nat /\ times \in Seq(Nat)
      /\ SleepLeft \in Nat
  BY SequenceFacts DEF IInv, TypeOK, SleepLeft, Remaining
<1>1. CASE PopLeft
  <2>1. Len(times') = Len(times) - 1 /\ Len(times) > 0 /\ pc' = pc /\ pc \in {"expire", "expire_again"}
    BY <1>0, <1>1 DEF PopLeft, HeadExpired
  <2> QED
    BY <1>0, <2>1 DEF Left
<1>2. CASE Sleep
  <2>1. pc = "expire" /\ pc' = "sleep" /\ times' = times /\ clock' = clock /\ until' \in Nat
    <3>1. times # <<>>
      BY <1>2 DEF Sleep, Full
    <3>2. Head(times) \in Nat /\ now \in Nat
      BY <1>0, <3>1 DEF IInv, TypeOK
    <3> QED
      BY <1>0, <1>2, <3>2 DEF Sleep, WaitSeconds
  <2>2. SleepLeft' \in 0..Window
    <3>1. until' <= clock + Window
      BY <2>1 DEF SleepBounded
    <3>2. SleepLeft' = Remaining(until', clock)
      BY <2>1 DEF SleepLeft, Remaining
    <3> QED
      BY <1>0, <2>1, <3>1, <3>2, RemainingBounded
  <2>3. Left = Len(times) + 4 + Window /\ Left' = Len(times) + 3 + SleepLeft'
    BY <2>1 DEF Left
  <2> QED
    BY <1>0, <2>2, <2>3
<1>3. CASE Wake
  <2>1. Left = Len(times) + 3 + SleepLeft /\ Left' = Len(times) + 2
    BY <1>3 DEF Wake, Left
  <2> QED
    BY <1>0, <2>1
<1>4. CASE Grant
  <2>1. Left' = 1 /\ (Left = Len(times) + 2 \/ Left = Len(times) + 4 + Window)
    BY <1>4 DEF Grant, Left
  <2> QED
    BY <1>0, <2>1
<1>5. CASE Send
  BY <1>5 DEF Send, Left
<1> QED
  BY <1>1, <1>2, <1>3, <1>4, <1>5 DEF Caller, Ask

(* A tick takes nothing back, and brings a sleep nearer to its end. *)
LEMMA ClockDescends ==
  ASSUME IInv PROVE ClockUsesOneUp
<1> SUFFICES ASSUME Tick PROVE Left' <= Left /\ (pc = "sleep" /\ clock < until => Left' < Left)
  BY DEF ClockUsesOneUp
<1>0. Len(times) \in Nat /\ clock \in Nat /\ until \in Nat
  BY SequenceFacts DEF IInv, TypeOK
<1>1. UNCHANGED <<pc, until, times>> /\ clock' = clock + 1
  BY DEF Tick
<1>2. /\ SleepLeft \in Nat /\ SleepLeft' \in Nat /\ SleepLeft' <= SleepLeft
      /\ clock < until => SleepLeft' < SleepLeft
  BY <1>0, <1>1 DEF SleepLeft, Remaining
<1>3. CASE pc = "sleep"
  <2>1. Left = Len(times) + 3 + SleepLeft /\ Left' = Len(times) + 3 + SleepLeft'
    BY <1>1, <1>3 DEF Left
  <2> QED
    BY <1>0, <1>2, <2>1
<1>4. CASE pc # "sleep"
  <2>1. Left' = Left
    BY <1>1, <1>4 DEF Left
  <2>2. Left \in Nat
    BY <1>0, <1>4, WindowAssumption DEF Left
  <2> QED
    BY <1>4, <2>1, <2>2
<1> QED
  BY <1>3, <1>4

(* What the fairness of SleeperServed works on: from entering              *)
(* _wait_for_submission_slot to the request there are at most CallBound    *)
(* steps of the caller and ticks of its sleep, and each uses one up.       *)
THEOREM LimiterWaitsAreBounded ==
  Spec => /\ [](Left \in 0..CallBound /\ (Left = 0 <=> pc = "idle"))
          /\ [][CallerUsesOneUp /\ ClockUsesOneUp]_vars
<1>1. Init => SleepBounded
  BY DEF Init, SleepBounded
<1>2. IInv /\ SleepBounded /\ [Next]_vars => SleepBounded'
  BY SleepBoundedStep
<1>3. IInv /\ SleepBounded => Left \in 0..CallBound /\ (Left = 0 <=> pc = "idle")
  BY LeftBounded
<1>4. IInv /\ SleepBounded /\ SleepBounded' => CallerUsesOneUp /\ ClockUsesOneUp
  BY CallerDescends, ClockDescends
<1> QED
  BY <1>1, <1>2, <1>3, <1>4, Inductive, PTL DEF Spec
=============================================================================
