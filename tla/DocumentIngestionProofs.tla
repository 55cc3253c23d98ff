---------------------- MODULE DocumentIngestionProofs ----------------------
(***************************************************************************)
(* The safety properties of DocumentIngestion, for any complaints, any     *)
(* number of runs at the same time, and any sizes.                         *)
(***************************************************************************)
EXTENDS DocumentIngestion, FiniteSetTheorems, TLAPS

(* What a coroutine knows: a file it has finished is whole, unless it has  *)
(* been opened again, a complaint it skipped has no link or has a file     *)
(* already, and it is only in the chunk of a run that is at work.          *)
Knows(r, c) ==
    /\ step[r][c] = "success" => copy[r][c] \in whole[c] \cup reopened[c]
    /\ step[r][c] = "skipped" /\ c \in Linked => files[c] # {}
    /\ step[r][c] \in {"asking", "getting"} => copy[r][c] \in Seconds
    /\ step[r][c] = "writing" => copy[r][c] \in files[c]
    /\ phase[r] # "working" => step[r][c] = "out"
    /\ step[r][c] = "out" => tries[r][c] = 0
    /\ step[r][c] \in {"waiting", "asking", "getting"} => tries[r][c] < MaxRetries

(* What became of a complaint can be seen. *)
Settled(c) == row[c].downloaded \/ row[c].error \/ files[c] # {}

(* A complaint a run has no more to do with is settled. *)
Accounts(r) ==
    /\ phase[r] = "working" => \A c \in Linked : c \in todo[r] \/ step[r][c] # "out" \/ Settled(c)
    /\ phase[r] = "ended" => \A c \in Linked : Settled(c)

IInv ==
    /\ TypeOK
    /\ \A c \in Complaints : row[c].downloaded => row[c].path \in whole[c] \cup reopened[c]
    /\ \A c \in Complaints : whole[c] \subseteq files[c]
    /\ local => blind = {}
    /\ \A r \in Runs, c \in Complaints : Knows(r, c)
    /\ \A r \in Runs : Accounts(r)

-----------------------------------------------------------------------------
(* Steps of one coroutine *)

(* What a step of download_document of c in run r may change. *)
TaskStep(r, c) ==
    /\ step[r][c] # "out" /\ UNCHANGED <<local, row, phase, todo, started, overlapped>>
    /\ \E s \in Steps \ {"out"} : step' = [step EXCEPT ![r][c] = s]
    /\ \E n \in 0..MaxRetries : tries' = [tries EXCEPT ![r][c] = n]
    /\ \E n \in Seconds \cup {0} : copy' = [copy EXCEPT ![r][c] = n]
    /\ \E ns \in SUBSET Seconds : files' = [files EXCEPT ![c] = @ \cup ns]
    /\ \E ns \in SUBSET Seconds : whole' = [whole EXCEPT ![c] = ns]
    /\ \E ns \in SUBSET Seconds : reopened' = [reopened EXCEPT ![c] = @ \cup ns]
    /\ whole'[c] \subseteq files'[c] /\ whole[c] \subseteq whole'[c] \cup reopened'[c]
    /\ blind \subseteq blind' /\ blind' \subseteq Complaints /\ (local => blind' = {})

(* Such a step keeps the types, the other coroutines and the store as it   *)
(* was, but for more files.                                                *)
LEMMA TaskFrame ==
    ASSUME IInv, NEW r \in Runs, NEW c \in Complaints, TaskStep(r, c)
    PROVE  /\ TypeOK'
           /\ \A d \in Complaints : files[d] \subseteq files'[d] /\ reopened[d] \subseteq reopened'[d]
           /\ \A d \in Complaints : whole'[d] \subseteq files'[d] /\ whole[d] \subseteq whole'[d] \cup reopened'[d]
           /\ \A q \in Runs, d \in Complaints : <<q, d>> # <<r, c>> =>
                step'[q][d] = step[q][d] /\ tries'[q][d] = tries[q][d] /\ copy'[q][d] = copy[q][d]
           /\ step'[r][c] # "out"
<1>1. StoreTypeOK'
  BY DEF IInv, TypeOK, StoreTypeOK, TaskStep
<1>2. TasksTypeOK'
  BY DEF IInv, TypeOK, TasksTypeOK, TaskStep
<1>3. TypeOK'
  BY <1>1, <1>2 DEF IInv, TypeOK, TaskStep
<1>4. \A d \in Complaints : files[d] \subseteq files'[d] /\ reopened[d] \subseteq reopened'[d]
  BY DEF IInv, TypeOK, StoreTypeOK, TaskStep
<1>5. \A d \in Complaints : whole'[d] \subseteq files'[d] /\ whole[d] \subseteq whole'[d] \cup reopened'[d]
  BY DEF IInv, TypeOK, StoreTypeOK, TaskStep
<1>6. \A q \in Runs, d \in Complaints : <<q, d>> # <<r, c>> =>
        step'[q][d] = step[q][d] /\ tries'[q][d] = tries[q][d] /\ copy'[q][d] = copy[q][d]
  BY DEF IInv, TypeOK, TasksTypeOK, TaskStep
<1>7. step'[r][c] # "out"
  BY DEF IInv, TypeOK, TasksTypeOK, TaskStep
<1> QED BY <1>3, <1>4, <1>5, <1>6, <1>7

(* It keeps the invariant if its own coroutine still knows what it must.   *)
LEMMA TaskInv ==
    ASSUME IInv, NEW r \in Runs, NEW c \in Complaints, TaskStep(r, c), Knows(r, c)'
    PROVE  IInv'
<1>1. UNCHANGED <<row, phase, todo, local>> /\ (local => blind' = {})
  BY DEF TaskStep
<1>2. \A d \in Complaints : row'[d].downloaded => row'[d].path \in whole'[d] \cup reopened'[d]
  BY <1>1, TaskFrame DEF IInv
<1>3. ASSUME NEW q \in Runs, NEW d \in Complaints PROVE Knows(q, d)'
  <2>1. CASE <<q, d>> = <<r, c>>
    BY <2>1
  <2>2. CASE <<q, d>> # <<r, c>>
    <3>1. step'[q][d] = step[q][d] /\ tries'[q][d] = tries[q][d] /\ copy'[q][d] = copy[q][d]
      BY <2>2, TaskFrame
    <3>2. files[d] \subseteq files'[d] /\ reopened[d] \subseteq reopened'[d] /\ whole[d] \subseteq whole'[d] \cup reopened'[d]
      BY TaskFrame
    <3>3. Knows(q, d)
      BY DEF IInv
    <3> QED BY <1>1, <3>1, <3>2, <3>3 DEF Knows
  <2> QED BY <2>1, <2>2
<1>4. \A d \in Complaints : Settled(d) => Settled(d)'
  <2>1. \A d \in Complaints : files[d] \subseteq files'[d]
    BY TaskFrame
  <2> QED BY <1>1, <2>1 DEF Settled
<1>5. \A q \in Runs, d \in Complaints : step[q][d] # "out" => step'[q][d] # "out"
  BY TaskFrame
<1>6. ASSUME NEW q \in Runs PROVE Accounts(q)'
  <2>1. Accounts(q) /\ Linked \subseteq Complaints
    BY ComplaintsAssumption DEF IInv
  <2> QED BY <1>1, <1>4, <1>5, <2>1 DEF Accounts
<1> QED BY <1>1, <1>2, <1>3, <1>6, TaskFrame DEF IInv

(* What the steps of a coroutine that stay in memory have in common.       *)
Quiet(r, c, s, n, k) ==
    /\ step[r][c] # "out" /\ s \in Steps \ {"out"} /\ Goes(r, c, s)
    /\ n \in 0..MaxRetries /\ tries' = [tries EXCEPT ![r][c] = n]
    /\ k \in Seconds \cup {0} /\ copy' = [copy EXCEPT ![r][c] = k]
    /\ UNCHANGED <<local, store, row, phase, todo, started, overlapped, reopened>>
    /\ blind \subseteq blind' /\ blind' \subseteq Complaints /\ (local => blind' = {})

LEMMA QuietStep ==
    ASSUME IInv, NEW r \in Runs, NEW c \in Complaints, NEW s, NEW n, NEW k, Quiet(r, c, s, n, k)
    PROVE  /\ TaskStep(r, c) /\ step'[r][c] = s /\ tries'[r][c] = n /\ copy'[r][c] = k
           /\ phase[r] = "working"
<1>1. UNCHANGED <<files, whole>>
  BY DEF Quiet, store
<1>2. files' = [files EXCEPT ![c] = @ \cup {}] /\ reopened' = [reopened EXCEPT ![c] = @ \cup {}]
  BY <1>1 DEF Quiet, IInv, TypeOK, StoreTypeOK
<1>3. whole' = [whole EXCEPT ![c] = whole[c]] /\ whole[c] \in SUBSET Seconds /\ whole[c] \subseteq files[c]
  BY <1>1 DEF Quiet, IInv, TypeOK, StoreTypeOK
<1>4. TaskStep(r, c)
  <2>1. \E ns \in SUBSET Seconds : files' = [files EXCEPT ![c] = @ \cup ns]
    BY <1>2
  <2>2. \E ns \in SUBSET Seconds : reopened' = [reopened EXCEPT ![c] = @ \cup ns]
    BY <1>2
  <2>3. \E t \in Steps \ {"out"} : step' = [step EXCEPT ![r][c] = t]
    BY DEF Quiet, Goes
  <2> QED BY <1>1, <1>3, <2>1, <2>2, <2>3 DEF Quiet, TaskStep
<1>5. step'[r][c] = s /\ tries'[r][c] = n /\ copy'[r][c] = k
  BY DEF Quiet, IInv, TypeOK, TasksTypeOK, Goes
<1>6. phase[r] = "working"
  BY DEF Quiet, IInv, Knows
<1> QED BY <1>4, <1>5, <1>6

(* The state of a coroutine and of its files has its type.                 *)
LEMMA TaskTypes ==
    ASSUME IInv, NEW r \in Runs, NEW c \in Complaints
    PROVE  /\ step[r][c] \in Steps /\ tries[r][c] \in 0..MaxRetries /\ copy[r][c] \in Seconds \cup {0}
           /\ files[c] \subseteq Seconds /\ whole[c] \subseteq files[c]
           /\ blind \subseteq Complaints /\ (local => blind = {}) /\ MaxRetries \in Nat \ {0}
           /\ step[r][c] # "out" => phase[r] = "working"
           /\ tries = [tries EXCEPT ![r][c] = tries[r][c]] /\ copy = [copy EXCEPT ![r][c] = copy[r][c]]
BY SizesAssumption DEF IInv, TypeOK, StoreTypeOK, TasksTypeOK, Knows

(* A coroutine is skipped only for a complaint without link or with a file. *)
LEMMA CheckInv ==
    ASSUME IInv, NEW r \in Runs, NEW c \in Complaints, Check(r, c)
    PROVE  TaskStep(r, c) /\ Knows(r, c)'
<1>1. step[r][c] = "waiting" /\ UNCHANGED <<local, store, row, phase, todo, tries, started, overlapped, reopened>>
  BY DEF Check
<1>2. blind \subseteq blind' /\ blind' \subseteq Complaints /\ (local => blind' = {})
  BY TaskTypes DEF Check
<1>3. PICK s \in {"asking", "skipped"} : Goes(r, c, s) /\ (s = "skipped" /\ c \in Linked => files[c] # {})
                                      /\ (IF s = "asking" THEN Names(r, c) ELSE copy' = copy)
  BY DEF Check
<1>4. s \in Steps \ {"out"} /\ step[r][c] # "out"
  BY <1>1 DEF Steps, Results
<1>5. tries[r][c] \in 0..MaxRetries /\ tries' = [tries EXCEPT ![r][c] = tries[r][c]]
  BY <1>1, TaskTypes
<1>6. PICK k \in Seconds \cup {0} : copy' = [copy EXCEPT ![r][c] = k] /\ (s = "asking" => k \in Seconds)
  BY <1>3, TaskTypes DEF Names
<1>9. Quiet(r, c, s, tries[r][c], k)
  BY <1>1, <1>2, <1>3, <1>4, <1>5, <1>6 DEF Quiet
<1>7. /\ TaskStep(r, c) /\ step'[r][c] = s /\ tries'[r][c] = tries[r][c] /\ copy'[r][c] = k
      /\ phase[r] = "working"
  BY <1>9, QuietStep
<1>8. Knows(r, c)
  BY DEF IInv
<1> QED BY <1>1, <1>3, <1>6, <1>7, <1>8 DEF Knows, store

(* Waiting for a slot changes nothing else.                                *)
LEMMA GetInv ==
    ASSUME IInv, NEW r \in Runs, NEW c \in Complaints, Get(r, c)
    PROVE  TaskStep(r, c) /\ Knows(r, c)'
<1>1. step[r][c] = "asking" /\ UNCHANGED <<local, store, row, phase, todo, tries, copy, seen>>
  BY DEF Get
<1>0. UNCHANGED <<local, store, row, phase, todo, started, overlapped, reopened>>
  BY <1>1 DEF seen
<1>2. blind \subseteq blind' /\ blind' \subseteq Complaints /\ (local => blind' = {})
  BY <1>1, TaskTypes DEF seen
<1>3. Goes(r, c, "getting") /\ "getting" \in Steps \ {"out"} /\ step[r][c] # "out"
  BY <1>1 DEF Steps, Get
<1>4. /\ tries[r][c] \in 0..MaxRetries /\ tries' = [tries EXCEPT ![r][c] = tries[r][c]]
      /\ copy[r][c] \in Seconds \cup {0} /\ copy' = [copy EXCEPT ![r][c] = copy[r][c]]
  BY <1>1, TaskTypes
<1>7. Quiet(r, c, "getting", tries[r][c], copy[r][c])
  BY <1>0, <1>2, <1>3, <1>4 DEF Quiet
<1>5. /\ TaskStep(r, c) /\ step'[r][c] = "getting" /\ tries'[r][c] = tries[r][c] /\ phase[r] = "working"
      /\ copy'[r][c] = copy[r][c]
  BY <1>7, QuietStep
<1>6. Knows(r, c)
  BY DEF IInv
<1> QED BY <1>1, <1>5, <1>6 DEF Knows

(* The last 429 is a failure: there is always one more call for one that waits. *)
LEMMA TooManyInv ==
    ASSUME IInv, NEW r \in Runs, NEW c \in Complaints, TooMany(r, c)
    PROVE  TaskStep(r, c) /\ Knows(r, c)'
<1>1. step[r][c] = "getting" /\ UNCHANGED <<local, store, row, phase, todo, copy, seen>>
  BY DEF TooMany
<1>0. UNCHANGED <<local, store, row, phase, todo, copy, started, overlapped, reopened>>
  BY <1>1 DEF seen
<1>2. blind \subseteq blind' /\ blind' \subseteq Complaints /\ (local => blind' = {})
  BY <1>1, TaskTypes DEF seen
<1>3. PICK s \in {"waiting", "failed"} : Goes(r, c, s) /\ (s = "waiting" => tries[r][c] + 1 < MaxRetries)
  BY DEF TooMany
<1>4. s \in Steps \ {"out"} /\ step[r][c] # "out"
  BY <1>1 DEF Steps, Results
<1>5. tries[r][c] + 1 \in 0..MaxRetries /\ tries' = [tries EXCEPT ![r][c] = tries[r][c] + 1]
  <2>1. tries[r][c] < MaxRetries
    BY <1>1 DEF IInv, Knows
  <2>2. tries' = [tries EXCEPT ![r][c] = tries[r][c] + 1]
    BY DEF TooMany, IInv, TypeOK, TasksTypeOK
  <2> QED BY <2>1, <2>2, TaskTypes
<1>6. PICK n \in 0..MaxRetries : n = tries[r][c] + 1
  BY <1>5
<1>7. tries' = [tries EXCEPT ![r][c] = n]
  BY <1>5, <1>6
<1>9. copy[r][c] \in Seconds \cup {0} /\ copy' = [copy EXCEPT ![r][c] = copy[r][c]]
  BY <1>1, TaskTypes
<1>10. Quiet(r, c, s, n, copy[r][c])
  BY <1>0, <1>2, <1>3, <1>4, <1>7, <1>9 DEF Quiet
<1>8. /\ TaskStep(r, c) /\ step'[r][c] = s /\ tries'[r][c] = n /\ phase[r] = "working"
  BY <1>10, QuietStep
<1> QED BY <1>1, <1>3, <1>6, <1>8 DEF Knows

(* A failure is final.                                                     *)
LEMMA GetFailsInv ==
    ASSUME IInv, NEW r \in Runs, NEW c \in Complaints, GetFails(r, c)
    PROVE  TaskStep(r, c) /\ Knows(r, c)'
<1>1. step[r][c] = "getting" /\ UNCHANGED <<local, store, row, phase, todo, tries, copy, seen>>
  BY DEF GetFails
<1>0. UNCHANGED <<local, store, row, phase, todo, copy, started, overlapped, reopened>>
  BY <1>1 DEF seen
<1>2. blind \subseteq blind' /\ blind' \subseteq Complaints /\ (local => blind' = {})
  BY <1>1, TaskTypes DEF seen
<1>3. Goes(r, c, "failed") /\ "failed" \in Steps \ {"out"} /\ step[r][c] # "out"
  BY <1>1 DEF Steps, Results, GetFails
<1>4. tries[r][c] \in 0..MaxRetries /\ tries' = [tries EXCEPT ![r][c] = tries[r][c]]
  BY <1>1, TaskTypes
<1>6. copy[r][c] \in Seconds \cup {0} /\ copy' = [copy EXCEPT ![r][c] = copy[r][c]]
  BY <1>1, TaskTypes
<1>7. Quiet(r, c, "failed", tries[r][c], copy[r][c])
  BY <1>0, <1>2, <1>3, <1>4, <1>6 DEF Quiet
<1>5. TaskStep(r, c) /\ step'[r][c] = "failed" /\ phase[r] = "working"
  BY <1>7, QuietStep
<1> QED BY <1>1, <1>5 DEF Knows

(* A file is there under the name copy says, and what else was whole still *)
(* is, but for a name that has been opened again.                          *)
Stores(r, c, s, ws, os) ==
    /\ step[r][c] # "out" /\ s \in Steps \ {"out"} /\ Goes(r, c, s) /\ Adds(r, c) /\ copy[r][c] \in Seconds
    /\ whole' = [whole EXCEPT ![c] = ws] /\ ws \subseteq whole[c] \cup {copy[r][c]}
    /\ reopened' = [reopened EXCEPT ![c] = @ \cup os] /\ os \subseteq Seconds /\ whole[c] \subseteq ws \cup os
    /\ UNCHANGED <<local, row, phase, todo, tries, copy, started, overlapped, blind>>

LEMMA AddStep ==
    ASSUME IInv, NEW r \in Runs, NEW c \in Complaints, NEW s, NEW ws, NEW os, Stores(r, c, s, ws, os)
    PROVE  /\ TaskStep(r, c) /\ step'[r][c] = s /\ copy'[r][c] = copy[r][c] /\ copy[r][c] \in files'[c]
           /\ phase[r] = "working" /\ tries'[r][c] = tries[r][c] /\ whole'[c] = ws
<1>1. files' = [files EXCEPT ![c] = @ \cup {copy[r][c]}] /\ {copy[r][c]} \in SUBSET Seconds
  BY DEF Stores, Adds
<1>2. step'[r][c] = s /\ files'[c] = files[c] \cup {copy[r][c]} /\ whole'[c] = ws
  BY <1>1 DEF Stores, IInv, TypeOK, StoreTypeOK, TasksTypeOK, Goes
<1>3. whole'[c] \subseteq files'[c]
  BY <1>2, TaskTypes DEF Stores
<1>4. os \subseteq reopened'[c]
  BY DEF Stores, IInv, TypeOK
<1>5. whole[c] \subseteq whole'[c] \cup reopened'[c]
  BY <1>2, <1>4 DEF Stores
<1>6. TaskStep(r, c)
  <2>1. \E t \in Steps \ {"out"} : step' = [step EXCEPT ![r][c] = t]
    BY DEF Stores, Goes
  <2>2. \E n \in Seconds \cup {0} : copy' = [copy EXCEPT ![r][c] = n]
    BY TaskTypes DEF Stores
  <2>3. \E n \in 0..MaxRetries : tries' = [tries EXCEPT ![r][c] = n]
    BY TaskTypes DEF Stores
  <2>4. blind \subseteq blind' /\ blind' \subseteq Complaints /\ (local => blind' = {})
    BY TaskTypes DEF Stores
  <2>5. \E ns \in SUBSET Seconds : files' = [files EXCEPT ![c] = @ \cup ns]
    BY <1>1
  <2>6. \E ns \in SUBSET Seconds : whole' = [whole EXCEPT ![c] = ns]
    <3>1. ws \in SUBSET Seconds
      BY TaskTypes DEF Stores
    <3> QED BY <3>1 DEF Stores
  <2>7. \E ns \in SUBSET Seconds : reopened' = [reopened EXCEPT ![c] = @ \cup ns]
    BY DEF Stores
  <2> QED BY <1>3, <1>5, <2>1, <2>2, <2>3, <2>4, <2>5, <2>6, <2>7 DEF Stores, TaskStep
<1>7. phase[r] = "working"
  BY TaskTypes DEF Stores
<1> QED BY <1>1, <1>2, <1>6, <1>7 DEF Stores

(* An object in S3 is whole.                                               *)
LEMMA UploadInv ==
    ASSUME IInv, NEW r \in Runs, NEW c \in Complaints, Upload(r, c)
    PROVE  TaskStep(r, c) /\ Knows(r, c)'
<1>1. /\ step[r][c] = "getting" /\ Adds(r, c) /\ Fills(r, c)
      /\ UNCHANGED <<local, row, phase, todo, tries, copy, started, overlapped, blind, reopened>>
  BY DEF Upload, seen
<1>2. PICK s \in {"success", "failed"} : Goes(r, c, s)
  BY DEF Upload
<1>3. s \in Steps \ {"out"} /\ step[r][c] # "out" /\ copy[r][c] \in Seconds
  BY <1>1 DEF Steps, Results, IInv, Knows
<1> DEFINE ws == whole[c] \cup {copy[r][c]}
<1>4. whole' = [whole EXCEPT ![c] = ws]
  BY <1>1 DEF Fills
<1>5. reopened' = [reopened EXCEPT ![c] = @ \cup {}]
  BY <1>1 DEF IInv, TypeOK
<1>6. Stores(r, c, s, ws, {})
  BY <1>1, <1>2, <1>3, <1>4, <1>5 DEF Stores
<1>8. copy[r][c] \in ws
  OBVIOUS
<1> HIDE DEF ws
<1>7. /\ TaskStep(r, c) /\ step'[r][c] = s /\ copy'[r][c] = copy[r][c] /\ phase[r] = "working" /\ whole'[c] = ws
  BY <1>6, AddStep
<1> QED BY <1>1, <1>2, <1>7, <1>8 DEF Knows

(* A file on disk is not whole when it is opened, and is there.            *)
LEMMA OpenInv ==
    ASSUME IInv, NEW r \in Runs, NEW c \in Complaints, Open(r, c)
    PROVE  TaskStep(r, c) /\ Knows(r, c)'
<1>1. /\ step[r][c] = "getting" /\ Adds(r, c) /\ Goes(r, c, "writing")
      /\ whole' = [whole EXCEPT ![c] = @ \ {copy[r][c]}]
      /\ reopened' = [reopened EXCEPT ![c] = @ \cup (files[c] \cap {copy[r][c]})]
      /\ UNCHANGED <<local, row, phase, todo, tries, copy, started, overlapped, blind>>
  BY DEF Open
<1>2. "writing" \in Steps \ {"out"} /\ step[r][c] # "out" /\ copy[r][c] \in Seconds
  BY <1>1 DEF Steps, IInv, Knows
<1> DEFINE ws == whole[c] \ {copy[r][c]}
           os == files[c] \cap {copy[r][c]}
<1>3. /\ ws \subseteq whole[c] \cup {copy[r][c]}
      /\ os \subseteq Seconds /\ whole[c] \subseteq ws \cup os
  BY TaskTypes
<1>4. Stores(r, c, "writing", ws, os)
  BY <1>1, <1>2, <1>3 DEF Stores
<1> HIDE DEF ws, os
<1>7. /\ TaskStep(r, c) /\ step'[r][c] = "writing" /\ copy'[r][c] = copy[r][c] /\ phase[r] = "working"
      /\ copy[r][c] \in files'[c]
  BY <1>4, AddStep
<1> QED BY <1>1, <1>7 DEF Knows

(* A file is whole once it is written.                                     *)
LEMMA WriteInv ==
    ASSUME IInv, NEW r \in Runs, NEW c \in Complaints, Write(r, c)
    PROVE  TaskStep(r, c) /\ Knows(r, c)'
<1>1. /\ step[r][c] = "writing"
      /\ UNCHANGED <<local, files, row, phase, todo, tries, copy, started, overlapped, blind, reopened>>
  BY DEF Write, seen
<1>2. PICK s \in {"success", "failed"} :
        Goes(r, c, s) /\ (s = "success" => Fills(r, c)) /\ (s = "failed" => whole' = whole)
  BY DEF Write
<1>3. copy[r][c] \in files[c] /\ copy[r][c] \in Seconds
  BY <1>1, TaskTypes DEF IInv, Knows
<1>4. s \in Steps \ {"out"} /\ step[r][c] # "out"
  BY <1>1 DEF Steps, Results
<1>5. Adds(r, c)
  <2>1. files[c] = files[c] \cup {copy[r][c]}
    BY <1>3
  <2> QED BY <1>1, <2>1 DEF Adds, IInv, TypeOK, StoreTypeOK
<1> DEFINE ws == IF s = "success" THEN whole[c] \cup {copy[r][c]} ELSE whole[c]
<1>6. /\ ws \subseteq whole[c] \cup {copy[r][c]} /\ whole[c] \subseteq ws \cup {}
      /\ s = "success" => copy[r][c] \in ws
  OBVIOUS
<1>7. whole' = [whole EXCEPT ![c] = ws]
  BY <1>2 DEF Fills, IInv, TypeOK, StoreTypeOK
<1>8. reopened' = [reopened EXCEPT ![c] = @ \cup {}]
  BY <1>1 DEF IInv, TypeOK
<1> HIDE DEF ws
<1>10. Stores(r, c, s, ws, {})
  BY <1>1, <1>2, <1>3, <1>4, <1>5, <1>6, <1>7, <1>8 DEF Stores
<1>9. /\ TaskStep(r, c) /\ step'[r][c] = s /\ copy'[r][c] = copy[r][c] /\ phase[r] = "working" /\ whole'[c] = ws
  BY <1>10, AddStep
<1> QED BY <1>1, <1>2, <1>6, <1>9 DEF Knows

-----------------------------------------------------------------------------
(* Steps of a run *)

(* The other runs stay as they are. *)
OnlyRun(r) ==
    /\ phase' = [phase EXCEPT ![r] = phase'[r]] /\ todo' = [todo EXCEPT ![r] = todo'[r]]
    /\ step' = [step EXCEPT ![r] = step'[r]] /\ tries' = [tries EXCEPT ![r] = tries'[r]]
    /\ copy' = [copy EXCEPT ![r] = copy'[r]]

(* A step of a run keeps the invariant if it keeps what is settled, and    *)
(* what the run itself knows and accounts for.                             *)
LEMMA RunInv ==
    ASSUME IInv, NEW r \in Runs, OnlyRun(r), UNCHANGED <<local, store, blind, reopened>>, TypeOK',
           \A c \in Complaints : row'[c].downloaded => row'[c].path \in whole[c] \cup reopened[c],
           \A c \in Linked : Settled(c) => Settled(c)',
           \A c \in Complaints : Knows(r, c)', Accounts(r)'
    PROVE  IInv'
<1>1. files' = files /\ whole' = whole
  BY DEF store
<1>2. ASSUME NEW q \in Runs \ {r}
      PROVE  /\ phase'[q] = phase[q] /\ todo'[q] = todo[q] /\ step'[q] = step[q]
             /\ tries'[q] = tries[q] /\ copy'[q] = copy[q]
  BY DEF OnlyRun, IInv, TypeOK, TasksTypeOK
<1>3. ASSUME NEW q \in Runs, NEW c \in Complaints PROVE Knows(q, c)'
  <2>1. CASE q = r
    BY <2>1
  <2>2. CASE q # r
    BY <1>1, <1>2, <2>2 DEF Knows, IInv
  <2> QED BY <2>1, <2>2
<1>4. ASSUME NEW q \in Runs PROVE Accounts(q)'
  <2>1. CASE q = r
    BY <2>1
  <2>2. CASE q # r
    BY <1>2, <2>2, ComplaintsAssumption DEF Accounts, IInv
  <2> QED BY <2>1, <2>2
<1> QED BY <1>1, <1>3, <1>4 DEF IInv

(* Nothing settled becomes unsettled while rows and files stay.            *)
LEMMA SettledStays ==
    ASSUME IInv, UNCHANGED <<store, row>>
    PROVE  /\ \A c \in Linked : Settled(c) => Settled(c)'
           /\ \A c \in Complaints : row'[c].downloaded => row'[c].path \in whole[c] \cup reopened[c]
           /\ StoreTypeOK'
BY DEF IInv, TypeOK, StoreTypeOK, Settled, store

(* What a run does not select is recorded as downloaded or failed.         *)
LEMMA SelectInv ==
    ASSUME IInv, NEW r \in Runs, Select(r)
    PROVE  IInv'
<1>1. /\ phase[r] # "working" /\ phase' = [phase EXCEPT ![r] = "working"] /\ todo' = [todo EXCEPT ![r] = Pending]
      /\ UNCHANGED <<local, store, row, task, blind, reopened>> /\ started < MaxRuns /\ started' = started + 1
      /\ overlapped' \in BOOLEAN
  BY DEF Select
<1>2. UNCHANGED <<step, tries, copy>> /\ UNCHANGED store /\ UNCHANGED row
  BY <1>1 DEF task
<1>3. phase'[r] = "working" /\ todo'[r] = Pending
  BY <1>1 DEF IInv, TypeOK
<1>4. OnlyRun(r)
  BY <1>1, <1>2, <1>3 DEF OnlyRun, IInv, TypeOK, TasksTypeOK
<1>5. TypeOK'
  <2>1. TasksTypeOK' /\ StoreTypeOK'
    BY <1>2, SettledStays DEF IInv, TypeOK, TasksTypeOK
  <2>2. started' \in 0..MaxRuns
    BY <1>1, SizesAssumption DEF IInv, TypeOK
  <2> QED BY <1>1, <2>1, <2>2 DEF IInv, TypeOK, Pending
<1>6. \A c \in Complaints : step'[r][c] = "out" /\ tries'[r][c] = 0
  BY <1>1, <1>2 DEF IInv, Knows
<1>7. \A c \in Complaints : Knows(r, c)'
  BY <1>3, <1>6 DEF Knows
<1>8. Accounts(r)'
  BY <1>2, <1>3, ComplaintsAssumption DEF Accounts, Pending, Settled
<1> QED BY <1>1, <1>2, <1>4, <1>5, <1>7, <1>8, RunInv, SettledStays

(* What leaves todo is in the chunk.                                       *)
LEMMA NextChunkInv ==
    ASSUME IInv, NEW r \in Runs, NextChunk(r)
    PROVE  IInv'
<1>1. /\ phase[r] = "working" /\ Chunk(r) = {}
      /\ UNCHANGED <<local, store, row, phase, tries, copy, seen>>
  BY DEF NextChunk
<1>2. PICK cs \in SUBSET todo[r] :
        /\ todo' = [todo EXCEPT ![r] = @ \ cs]
        /\ step' = [step EXCEPT ![r] = [c \in Complaints |-> IF c \in cs THEN "waiting" ELSE "out"]]
  BY DEF NextChunk
<1>3. /\ todo'[r] = todo[r] \ cs /\ step'[r] = [c \in Complaints |-> IF c \in cs THEN "waiting" ELSE "out"]
      /\ todo[r] \subseteq Complaints
  BY <1>2 DEF IInv, TypeOK, TasksTypeOK
<1>4. OnlyRun(r)
  BY <1>1, <1>2, <1>3 DEF OnlyRun, IInv, TypeOK, TasksTypeOK
<1>5. TypeOK'
  <2>1. step' \in [Runs -> [Complaints -> Steps]]
    <3>1. [c \in Complaints |-> IF c \in cs THEN "waiting" ELSE "out"] \in [Complaints -> Steps]
      BY DEF Steps
    <3> QED BY <1>2, <3>1 DEF IInv, TypeOK, TasksTypeOK
  <2>2. todo' \in [Runs -> SUBSET Complaints]
    BY <1>2, <1>3 DEF IInv, TypeOK
  <2>3. TasksTypeOK' /\ StoreTypeOK'
    BY <1>1, <2>1, SettledStays DEF IInv, TypeOK, TasksTypeOK
  <2> QED BY <1>1, <2>2, <2>3 DEF IInv, TypeOK, seen
<1>6. ASSUME NEW c \in Complaints PROVE Knows(r, c)'
  <2>1. step[r][c] = "out" /\ tries[r][c] = 0
    BY <1>1 DEF Chunk, IInv, Knows
  <2>2. step'[r][c] \in {"waiting", "out"}
    BY <1>3
  <2> QED BY <1>1, <2>1, <2>2, SizesAssumption DEF Knows
<1>7. Accounts(r)'
  <2>1. ASSUME NEW c \in Linked PROVE c \in todo'[r] \/ step'[r][c] # "out" \/ Settled(c)'
    <3>1. c \in todo[r] \/ Settled(c)
      BY <1>1, ComplaintsAssumption DEF IInv, Accounts, Chunk
    <3>2. Settled(c) => Settled(c)'
      BY <1>1, SettledStays, ComplaintsAssumption
    <3> QED BY <1>3, <3>1, <3>2, ComplaintsAssumption
  <2> QED BY <1>1, <2>1 DEF Accounts
<1>8. UNCHANGED <<blind, reopened>>
  BY <1>1 DEF seen
<1> QED BY <1>1, <1>4, <1>5, <1>6, <1>7, <1>8, RunInv, SettledStays

(* A run whose coroutines are gone.                                        *)
LEMMA IdleStep ==
    ASSUME IInv, NEW r \in Runs, Idle(r)
    PROVE  /\ TasksTypeOK' /\ \A c \in Complaints : step'[r][c] = "out" /\ tries'[r][c] = 0
           /\ step' = [step EXCEPT ![r] = step'[r]] /\ tries' = [tries EXCEPT ![r] = tries'[r]]
           /\ copy' = [copy EXCEPT ![r] = copy'[r]]
<1>1. \A c \in Complaints : step'[r][c] = "out" /\ tries'[r][c] = 0
  BY DEF Idle, IInv, TypeOK, TasksTypeOK
<1>3. TasksTypeOK'
  <2>1. [c \in Complaints |-> "out"] \in [Complaints -> Steps] /\ [c \in Complaints |-> 0] \in [Complaints -> Seconds \cup {0}]
    BY DEF Steps
  <2>2. [c \in Complaints |-> 0] \in [Complaints -> 0..MaxRetries]
    BY SizesAssumption
  <2> QED BY <2>1, <2>2 DEF Idle, IInv, TypeOK, TasksTypeOK
<1>4. /\ step' = [step EXCEPT ![r] = step'[r]] /\ tries' = [tries EXCEPT ![r] = tries'[r]]
      /\ copy' = [copy EXCEPT ![r] = copy'[r]]
  BY DEF Idle, IInv, TypeOK, TasksTypeOK
<1> QED BY <1>1, <1>3, <1>4

(* A run that stops before its end accounts for nothing.                   *)
LEMMA StopInv ==
    ASSUME IInv, NEW r \in Runs, Idle(r), UNCHANGED <<local, store, row, seen>>,
           phase' = [phase EXCEPT ![r] = "idle"], todo' = [todo EXCEPT ![r] = {}]
    PROVE  IInv'
<1>1. phase'[r] = "idle" /\ todo'[r] = {}
  BY DEF IInv, TypeOK
<1>2. OnlyRun(r)
  BY <1>1, IdleStep DEF OnlyRun, IInv, TypeOK
<1>3. TypeOK'
  BY IdleStep, SettledStays DEF IInv, TypeOK, seen
<1>4. Accounts(r)' /\ \A c \in Complaints : Knows(r, c)'
  BY <1>1, IdleStep DEF Accounts, Knows
<1>5. UNCHANGED <<blind, reopened>>
  BY DEF seen
<1> QED BY <1>2, <1>3, <1>4, <1>5, RunInv, SettledStays

(* What the UPDATE writes settles each complaint of the chunk: a download  *)
(* or a failure is recorded, and what was skipped has a file.              *)
LEMMA CommitInv ==
    ASSUME IInv, NEW r \in Runs, Idle(r), UNCHANGED <<local, store, phase, todo, seen>>, phase[r] = "working",
           \A c \in Chunk(r) : step[r][c] \in Results,
           row' = [c \in Complaints |-> IF c \in Chunk(r) THEN Status(r, c) ELSE row[c]]
    PROVE  IInv'
<1>1. OnlyRun(r)
  BY IdleStep DEF OnlyRun, IInv, TypeOK
<1>2. ASSUME NEW c \in Complaints
      PROVE  row'[c] \in [downloaded : BOOLEAN, path : Seconds \cup {0}, error : BOOLEAN]
  <2>1. CASE c \in Chunk(r)
    BY <2>1, TaskTypes DEF Status
  <2>2. CASE c \notin Chunk(r)
    BY <2>2 DEF IInv, TypeOK, StoreTypeOK
  <2> QED BY <2>1, <2>2
<1>3. TypeOK'
  <2>1. StoreTypeOK'
    BY <1>2 DEF IInv, TypeOK, StoreTypeOK, store
  <2> QED BY <2>1, IdleStep DEF IInv, TypeOK, seen
<1>4. \A c \in Complaints : row'[c].downloaded => row'[c].path \in whole[c] \cup reopened[c]
  BY DEF IInv, Knows, Status, Chunk
<1>5. ASSUME NEW c \in Linked, step[r][c] # "out" PROVE Settled(c)'
  <2>1. c \in Complaints /\ c \in Chunk(r) /\ files'[c] = files[c] /\ whole'[c] = whole[c]
    BY <1>5, ComplaintsAssumption DEF Chunk, store
  <2>2. row'[c] = Status(r, c) /\ step[r][c] \in Results
    BY <2>1
  <2>3. CASE step[r][c] = "skipped"
    BY <2>1, <2>3 DEF Settled, IInv, Knows
  <2>4. CASE step[r][c] # "skipped"
    BY <2>1, <2>2, <2>4 DEF Settled, Status, Results
  <2> QED BY <2>3, <2>4
<1>6. ASSUME NEW c \in Linked, Settled(c) PROVE Settled(c)'
  <2>1. CASE step[r][c] = "out"
    BY <1>6, <2>1, ComplaintsAssumption DEF Settled, Chunk, store
  <2>2. CASE step[r][c] # "out"
    BY <1>5, <2>2
  <2> QED BY <2>1, <2>2
<1>7. Accounts(r)'
  <2>1. \A c \in Linked : c \in todo[r] \/ step[r][c] # "out" \/ Settled(c)
    BY DEF IInv, Accounts
  <2>2. \A c \in Linked : c \in todo'[r] \/ Settled(c)'
    BY <1>5, <1>6, <2>1
  <2> QED BY <2>2 DEF Accounts
<1>8. \A c \in Complaints : Knows(r, c)'
  BY IdleStep DEF Knows
<1>9. UNCHANGED <<blind, reopened>>
  BY DEF seen
<1> QED BY <1>1, <1>3, <1>4, <1>6, <1>7, <1>8, <1>9, RunInv

(* A run ends when it has nothing more to do.                              *)
LEMMA EndInv ==
    ASSUME IInv, NEW r \in Runs, End(r)
    PROVE  IInv'
<1>1. /\ phase[r] = "working" /\ Chunk(r) = {} /\ todo[r] = {} /\ phase' = [phase EXCEPT ![r] = "ended"]
      /\ UNCHANGED <<local, store, row, todo, task, seen>>
  BY DEF End
<1>2. phase'[r] = "ended" /\ UNCHANGED <<step, tries, copy>>
  BY <1>1 DEF IInv, TypeOK, task
<1>3. OnlyRun(r)
  BY <1>1, <1>2 DEF OnlyRun, IInv, TypeOK, TasksTypeOK
<1>4. TypeOK'
  <2>1. StoreTypeOK' /\ TasksTypeOK'
    BY <1>1, <1>2, SettledStays DEF IInv, TypeOK, TasksTypeOK
  <2> QED BY <1>1, <2>1 DEF IInv, TypeOK, seen
<1>5. \A c \in Complaints : step'[r][c] = "out"
  BY <1>1, <1>2 DEF Chunk
<1>6. \A c \in Complaints : Knows(r, c)'
  BY <1>2, <1>5 DEF IInv, Knows
<1>7. Accounts(r)'
  <2>1. \A c \in Linked : Settled(c)
    BY <1>1, <1>2, <1>5, ComplaintsAssumption DEF IInv, Accounts
  <2> QED BY <1>1, <1>2, <2>1, SettledStays DEF Accounts
<1>8. UNCHANGED <<blind, reopened>>
  BY <1>1 DEF seen
<1> QED BY <1>1, <1>3, <1>4, <1>6, <1>7, <1>8, RunInv, SettledStays

-----------------------------------------------------------------------------
(* The invariant holds at the start. *)
LEMMA InitInv == Init => IInv
<1> SUFFICES ASSUME Init PROVE IInv
  OBVIOUS
<1>1. NoRow \in [downloaded : BOOLEAN, path : Seconds \cup {0}, error : BOOLEAN]
  BY DEF NoRow
<1>2. StoreTypeOK
  BY <1>1 DEF Init, StoreTypeOK
<1>3. TasksTypeOK
  BY SizesAssumption DEF Init, TasksTypeOK, Steps
<1>4. TypeOK
  <2>1. started \in 0..MaxRuns /\ overlapped \in BOOLEAN /\ blind \subseteq Complaints /\ local \in BOOLEAN
    <3>1. started = 0 /\ 0 \in 0..MaxRuns
      BY SizesAssumption DEF Init
    <3>2. overlapped = FALSE /\ blind = {} /\ local \in BOOLEAN
      BY DEF Init
    <3> QED BY <3>1, <3>2, Zenon
  <2>2. phase \in [Runs -> {"idle", "working", "ended"}] /\ todo \in [Runs -> SUBSET Complaints]
    BY DEF Init
  <2>3. reopened \in [Complaints -> SUBSET Seconds]
    BY DEF Init
  <2> QED BY <1>2, <1>3, <2>1, <2>2, <2>3 DEF TypeOK
<1>5. \A c \in Complaints : ~row[c].downloaded /\ whole[c] = {}
  BY DEF Init, NoRow
<1>6. \A r \in Runs, c \in Complaints : Knows(r, c)
  BY DEF Init, Knows
<1>7. \A r \in Runs : Accounts(r)
  BY DEF Init, Accounts
<1>8. blind = {}
  BY DEF Init
<1> QED BY <1>4, <1>5, <1>6, <1>7, <1>8 DEF IInv

(* Every step keeps the invariant. *)
LEMMA NextInv ==
    ASSUME IInv, [Next]_vars
    PROVE  IInv'
<1>1. ASSUME NEW r \in Runs, Download(r) PROVE IInv'
  <2>1. PICK c \in Complaints : \/ Check(r, c) \/ Get(r, c) \/ TooMany(r, c) \/ GetFails(r, c)
                               \/ Upload(r, c) \/ Open(r, c) \/ Write(r, c)
    BY <1>1 DEF Download
  <2>2. TaskStep(r, c) /\ Knows(r, c)'
    BY <2>1, CheckInv, GetInv, TooManyInv, GetFailsInv, UploadInv, OpenInv, WriteInv
  <2> QED BY <2>2, TaskInv
<1>2. ASSUME NEW r \in Runs, Flush(r) PROVE IInv'
  <2>1. CASE phase' = [phase EXCEPT ![r] = "idle"] /\ todo' = [todo EXCEPT ![r] = {}] /\ UNCHANGED row
    BY <1>2, <2>1, StopInv DEF Flush
  <2>2. CASE /\ row' = [c \in Complaints |-> IF c \in Chunk(r) THEN Status(r, c) ELSE row[c]]
             /\ UNCHANGED <<phase, todo>>
    BY <1>2, <2>2, CommitInv DEF Flush
  <2> QED BY <1>2, <2>1, <2>2 DEF Flush
<1>3. ASSUME NEW r \in Runs, Crash(r) PROVE IInv'
  BY <1>3, StopInv DEF Crash
<1>4. CASE UNCHANGED vars
  <2>1. UNCHANGED <<local, files, whole, row, phase, todo, step, tries, copy, started, overlapped, blind, reopened>>
    BY <1>4 DEF vars, store, process, task, seen
  <2> QED BY <2>1 DEF IInv, TypeOK, StoreTypeOK, TasksTypeOK, Knows, Accounts, Settled
<1> QED BY <1>1, <1>2, <1>3, <1>4, SelectInv, NextChunkInv, EndInv DEF Next, Proceed

(* Files are whole once a coroutine has finished them, skipped complaints  *)
(* have a file, and a run accounts for each complaint it has left behind.  *)
THEOREM IngestionInvariant == Spec => []IInv
<1> QED BY InitInv, NextInv, PTL DEF Spec

(* Every variable keeps its type. *)
THEOREM IngestionTypeOK == Spec => []TypeOK
<1>1. IInv => TypeOK
  BY DEF IInv
<1> QED BY <1>1, IngestionInvariant, PTL

(* A run that comes to its end leaves no complaint with a link without a   *)
(* record or a file (batch_download_documents).                            *)
THEOREM IngestionNothingSkipped == Spec => []NothingSkippedSilently
<1>1. IInv => NothingSkippedSilently
  BY DEF IInv, Accounts, Settled, NothingSkippedSilently
<1> QED BY <1>1, IngestionInvariant, PTL

-----------------------------------------------------------------------------
(* Runs one after another *)

(* While runs have not overlapped: only one is at work, what it is about   *)
(* to store is not there yet, so that no file is opened again, and what it *)
(* has to do with is not recorded as downloaded.                           *)
Alone ==
    ~overlapped =>
       /\ \A q \in Runs, r \in Runs : phase[q] = "working" /\ phase[r] = "working" => q = r
       /\ \A c \in Complaints \ blind : \A m, n \in files[c] : m = n
       /\ \A c \in Complaints : reopened[c] = {}
       /\ \A r \in Runs, c \in Complaints \ blind : step[r][c] \in {"asking", "getting"} => files[c] = {}
       /\ \A r \in Runs, c \in Complaints :
            phase[r] = "working" /\ (c \in todo[r] \/ step[r][c] # "out") => ~row[c].downloaded
       /\ \A r \in Runs, c \in Complaints : c \in todo[r] => step[r][c] = "out"

(* A coroutine stores a file only after it has found none.                 *)
LEMMA TaskAlone ==
    ASSUME IInv, Alone, NEW r \in Runs, NEW c \in Complaints, TaskStep(r, c),
           c \notin blind' /\ step'[r][c] \in {"asking", "getting"} => files'[c] = {},
           files'[c] = files[c] \/ (step[r][c] = "getting" /\ \E k : files'[c] = files[c] \cup {k}),
           ~overlapped => reopened' = reopened
    PROVE  Alone'
<1> SUFFICES ASSUME ~overlapped PROVE Alone'
  BY DEF TaskStep, Alone
<1>1. UNCHANGED <<row, phase, todo, overlapped>> /\ step[r][c] # "out" /\ phase[r] = "working" /\ blind \subseteq blind'
  BY TaskTypes DEF TaskStep
<1>2. \A q \in Runs, d \in Complaints : <<q, d>> # <<r, c>> => step'[q][d] = step[q][d]
  BY TaskFrame
<1>3. \A d \in Complaints \ {c} : files'[d] = files[d]
  BY DEF TaskStep, IInv, TypeOK, StoreTypeOK
<1>4. \A q \in Runs, d \in Complaints : q # r => step[q][d] = "out"
  BY <1>1 DEF Alone, IInv, Knows
<1>5. \A d \in Complaints \ blind' : \A m, n \in files'[d] : m = n
  <2>1. \A d \in Complaints \ {c} : d \notin blind' => \A m, n \in files'[d] : m = n
    BY <1>1, <1>3 DEF Alone
  <2>2. CASE c \notin blind'
    BY <1>1, <2>1, <2>2 DEF Alone
  <2> QED BY <2>1, <2>2
<1>6. \A q \in Runs, d \in Complaints \ blind' : step'[q][d] \in {"asking", "getting"} => files'[d] = {}
  BY <1>1, <1>2, <1>3, <1>4 DEF Alone
<1>7. \A q \in Runs, d \in Complaints :
        phase'[q] = "working" /\ (d \in todo'[q] \/ step'[q][d] # "out") => ~row'[d].downloaded
  BY <1>1, <1>2 DEF Alone
<1>8. \A q \in Runs, d \in Complaints : d \in todo'[q] => step'[q][d] = "out"
  BY <1>1, <1>2 DEF Alone
<1> QED BY <1>1, <1>5, <1>6, <1>7, <1>8 DEF Alone

(* The steps of a coroutine, one by one.                                   *)
LEMMA DownloadAlone ==
    ASSUME IInv, Alone, NEW r \in Runs, Download(r)
    PROVE  Alone' /\ row' = row
<1>1. PICK c \in Complaints : \/ Check(r, c) \/ Get(r, c) \/ TooMany(r, c) \/ GetFails(r, c)
                             \/ Upload(r, c) \/ Open(r, c) \/ Write(r, c)
  BY DEF Download
<1>2. TaskStep(r, c)
  BY <1>1, CheckInv, GetInv, TooManyInv, GetFailsInv, UploadInv, OpenInv, WriteInv
<1>3. row' = row /\ overlapped' = overlapped
  BY <1>2 DEF TaskStep
<1> SUFFICES ASSUME ~overlapped PROVE Alone'
  BY <1>3 DEF Alone
<1>4. \A s : Goes(r, c, s) => step'[r][c] = s
  BY DEF Goes, IInv, TypeOK, TasksTypeOK
<1>5. CASE Check(r, c)
  <2>1. files' = files /\ reopened' = reopened /\ (step'[r][c] = "skipped" \/ files[c] = {} \/ c \in blind')
    BY <1>4, <1>5 DEF Check, store
  <2> QED BY <1>2, <2>1, TaskAlone
<1>6. CASE Get(r, c)
  <2>1. files' = files /\ reopened' = reopened /\ step[r][c] = "asking" /\ blind' = blind
    BY <1>6 DEF Get, store, seen
  <2>2. c \notin blind' => files'[c] = {}
    BY <2>1 DEF Alone
  <2> QED BY <1>2, <2>1, <2>2, TaskAlone
<1>7. CASE TooMany(r, c)
  <2>1. files' = files /\ reopened' = reopened /\ step'[r][c] \in {"waiting", "failed"}
    BY <1>4, <1>7 DEF TooMany, store, seen
  <2> QED BY <1>2, <2>1, TaskAlone
<1>8. CASE GetFails(r, c)
  <2>1. files' = files /\ reopened' = reopened /\ step'[r][c] = "failed"
    BY <1>4, <1>8 DEF GetFails, store, seen
  <2> QED BY <1>2, <2>1, TaskAlone
<1>9. CASE Upload(r, c) \/ Open(r, c)
  <2>1. step[r][c] = "getting" /\ step'[r][c] \in {"success", "failed", "writing"} /\ Adds(r, c)
    BY <1>4, <1>9 DEF Upload, Open
  <2>2. files'[c] = files[c] \cup {copy[r][c]}
    BY <2>1 DEF Adds, IInv, TypeOK, StoreTypeOK
  <2>3. reopened' = reopened
    <3>1. CASE Upload(r, c)
      BY <3>1 DEF Upload, seen
    <3>2. CASE Open(r, c)
      <4>1. c \notin blind
        BY <3>2, TaskTypes DEF Open
      <4>2. files[c] = {}
        BY <2>1, <4>1 DEF Alone
      <4>3. reopened' = [reopened EXCEPT ![c] = @ \cup {}]
        BY <3>2, <4>2 DEF Open
      <4> QED BY <4>3 DEF IInv, TypeOK
    <3> QED BY <1>9, <3>1, <3>2
  <2> QED BY <1>2, <2>1, <2>2, <2>3, TaskAlone
<1>10. CASE Write(r, c)
  <2>1. files' = files /\ reopened' = reopened /\ step'[r][c] \in {"success", "failed"}
    BY <1>4, <1>10 DEF Write, seen
  <2> QED BY <1>2, <2>1, TaskAlone
<1> QED BY <1>1, <1>5, <1>6, <1>7, <1>8, <1>9, <1>10

(* A step of the only run at work, which touches no file.                  *)
LEMMA RunAlone ==
    ASSUME IInv, Alone, ~overlapped, NEW r \in Runs, phase[r] = "working", OnlyRun(r), UNCHANGED <<store, blind, reopened>>,
           \A c \in Complaints : step'[r][c] \in {"out", "waiting"},
           \A c \in Complaints : c \in todo'[r] => step'[r][c] = "out",
           \A c \in Complaints :
              phase'[r] = "working" /\ (c \in todo'[r] \/ step'[r][c] # "out") => ~row'[c].downloaded
    PROVE  Alone'
<1>1. files' = files /\ whole' = whole /\ blind' = blind /\ reopened' = reopened
  BY DEF store
<1>2. ASSUME NEW q \in Runs \ {r} PROVE phase'[q] = phase[q] /\ todo'[q] = todo[q] /\ step'[q] = step[q]
  BY DEF OnlyRun, IInv, TypeOK, TasksTypeOK
<1>3. \A q \in Runs \ {r} : phase[q] # "working"
  BY DEF Alone
<1>4. \A q \in Runs, d \in Runs : phase'[q] = "working" /\ phase'[d] = "working" => q = d
  BY <1>2, <1>3
<1>5. \A q \in Runs, c \in Complaints \ blind : step'[q][c] \in {"asking", "getting"} => files[c] = {}
  BY <1>2 DEF Alone
<1>6. \A q \in Runs, c \in Complaints : c \in todo'[q] => step'[q][c] = "out"
  BY <1>2 DEF Alone
<1>7. \A q \in Runs, c \in Complaints :
        phase'[q] = "working" /\ (c \in todo'[q] \/ step'[q][c] # "out") => ~row'[c].downloaded
  BY <1>2, <1>3
<1> QED BY <1>1, <1>4, <1>5, <1>6, <1>7 DEF Alone

(* A run that begins alone selects nothing that is recorded as downloaded. *)
LEMMA SelectAlone ==
    ASSUME IInv, Alone, NEW r \in Runs, Select(r)
    PROVE  Alone' /\ row' = row
<1>1. /\ phase[r] # "working" /\ phase' = [phase EXCEPT ![r] = "working"] /\ todo' = [todo EXCEPT ![r] = Pending]
      /\ UNCHANGED <<local, store, row, task, blind, reopened>>
      /\ overlapped' = (overlapped \/ \E q \in Runs : phase[q] = "working")
  BY DEF Select
<1>2. UNCHANGED <<step, files, whole, row, blind, reopened>>
  BY <1>1 DEF task, store
<1> SUFFICES ASSUME ~overlapped' PROVE Alone'
  BY <1>2 DEF Alone
<1>3. ~overlapped /\ \A q \in Runs : phase[q] # "working"
  BY <1>1
<1>4. \A q \in Runs, c \in Complaints : step[q][c] = "out"
  BY <1>3 DEF IInv, Knows
<1>5. \A q \in Runs \ {r} : phase'[q] # "working"
  BY <1>1, <1>3 DEF IInv, TypeOK
<1>6. todo'[r] = Pending
  BY <1>1 DEF IInv, TypeOK
<1>7. \A q \in Runs, d \in Runs : phase'[q] = "working" /\ phase'[d] = "working" => q = d
  BY <1>5
<1>8. \A q \in Runs, c \in Complaints :
        phase'[q] = "working" /\ (c \in todo'[q] \/ step'[q][c] # "out") => ~row'[c].downloaded
  BY <1>2, <1>4, <1>5, <1>6 DEF Pending
<1> QED BY <1>2, <1>3, <1>4, <1>7, <1>8 DEF Alone

(* The steps of a run that has begun.                                      *)
LEMMA ProceedAlone ==
    ASSUME IInv, Alone, NEW r \in Runs, NextChunk(r) \/ Flush(r) \/ End(r) \/ Crash(r)
    PROVE  /\ Alone' /\ (~overlapped => \A c \in Complaints : row[c].downloaded => row'[c] = row[c])
           /\ overlapped' = overlapped
<1>1. phase[r] = "working" /\ UNCHANGED <<store, seen>>
  BY DEF NextChunk, Flush, End, Crash
<1>2. overlapped' = overlapped /\ blind' = blind /\ reopened' = reopened
  BY <1>1 DEF seen
<1> SUFFICES ASSUME ~overlapped
             PROVE  Alone' /\ \A c \in Complaints : row[c].downloaded => row'[c] = row[c]
  BY <1>2 DEF Alone
<1>3. CASE NextChunk(r)
  <2>1. UNCHANGED <<row, phase, tries, copy>> /\ Chunk(r) = {}
    BY <1>3 DEF NextChunk
  <2>2. PICK cs \in SUBSET todo[r] :
        /\ todo' = [todo EXCEPT ![r] = @ \ cs]
        /\ step' = [step EXCEPT ![r] = [c \in Complaints |-> IF c \in cs THEN "waiting" ELSE "out"]]
    BY <1>3 DEF NextChunk
  <2>3. /\ todo'[r] = todo[r] \ cs /\ step'[r] = [c \in Complaints |-> IF c \in cs THEN "waiting" ELSE "out"]
    BY <2>2 DEF IInv, TypeOK, TasksTypeOK
  <2>4. OnlyRun(r)
    BY <2>1, <2>2, <2>3 DEF OnlyRun, IInv, TypeOK, TasksTypeOK
  <2>5. \A c \in Complaints : c \in todo'[r] \/ step'[r][c] # "out" => c \in todo[r]
    BY <2>3
  <2>6. Alone'
    BY <1>1, <1>2, <2>1, <2>3, <2>4, <2>5, RunAlone DEF Alone
  <2> QED BY <2>1, <2>6
<1>4. CASE Flush(r) \/ Crash(r)
  <2>1. Idle(r) /\ \A c \in Complaints : step'[r][c] = "out"
    BY <1>4, IdleStep DEF Flush, Crash
  <2>2. CASE phase' = [phase EXCEPT ![r] = "idle"] /\ todo' = [todo EXCEPT ![r] = {}] /\ UNCHANGED row
    <3>1. phase'[r] = "idle" /\ todo'[r] = {}
      BY <2>2 DEF IInv, TypeOK
    <3>2. OnlyRun(r)
      BY <2>1, <2>2, <3>1, IdleStep DEF OnlyRun, IInv, TypeOK
    <3>3. Alone'
      BY <1>1, <1>2, <2>1, <3>1, <3>2, RunAlone
    <3> QED BY <2>2, <3>3
  <2>3. CASE /\ row' = [c \in Complaints |-> IF c \in Chunk(r) THEN Status(r, c) ELSE row[c]]
             /\ UNCHANGED <<phase, todo>>
    <3>1. OnlyRun(r)
      BY <2>1, <2>3, IdleStep DEF OnlyRun, IInv, TypeOK
    <3>2. \A c \in Complaints : c \in todo[r] => c \notin Chunk(r) /\ ~row[c].downloaded
      BY <1>1 DEF Alone, Chunk
    <3>3. \A c \in Complaints : c \in todo'[r] \/ step'[r][c] # "out" => ~row'[c].downloaded
      BY <2>1, <2>3, <3>2
    <3>4. Alone'
      BY <1>1, <1>2, <2>1, <3>1, <3>3, RunAlone
    <3>5. \A c \in Chunk(r) : ~row[c].downloaded
      BY <1>1 DEF Alone, Chunk
    <3> QED BY <2>3, <3>4, <3>5
  <2> QED BY <1>4, <2>2, <2>3 DEF Flush, Crash
<1>5. CASE End(r)
  <2>1. /\ Chunk(r) = {} /\ todo[r] = {} /\ phase' = [phase EXCEPT ![r] = "ended"]
        /\ UNCHANGED <<row, todo, step, tries, copy>>
    BY <1>5 DEF End, task
  <2>2. OnlyRun(r)
    BY <2>1 DEF OnlyRun, IInv, TypeOK, TasksTypeOK
  <2>3. \A c \in Complaints : step'[r][c] = "out"
    BY <2>1 DEF Chunk
  <2>4. Alone'
    BY <1>1, <1>2, <2>1, <2>2, <2>3, RunAlone
  <2> QED BY <2>1, <2>4
<1> QED BY <1>3, <1>4, <1>5

(* Every step keeps what runs one after another keep, and their records.   *)
LEMMA NextAlone ==
    ASSUME IInv, Alone, [Next]_vars
    PROVE  /\ Alone'
           /\ ~overlapped' => \A c \in Complaints : row[c].downloaded => row'[c] = row[c]
<1>1. CASE UNCHANGED vars
  <2>1. UNCHANGED <<local, files, whole, row, phase, todo, step, tries, copy, started, overlapped, blind, reopened>>
    BY <1>1 DEF vars, store, process, task, seen
  <2> QED BY <2>1 DEF Alone
<1> QED BY <1>1, SelectAlone, DownloadAlone, ProceedAlone DEF Next, Proceed

(* At the start nothing is stored and nobody is at work. *)
LEMMA InitAlone == Init => Alone
BY DEF Init, Alone

(* Runs one after another keep one file of a complaint whose files can be  *)
(* listed (_already_downloaded before download_document stores).           *)
THEOREM IngestionOneCopy == Spec => []OneCopy
<1>1. Alone => OneCopy
  <2> SUFFICES ASSUME Alone, ~overlapped, NEW c \in Complaints \ blind PROVE Cardinality(files[c]) <= 1
    BY DEF OneCopy
  <2>1. CASE files[c] = {}
    BY <2>1, FS_EmptySet
  <2>2. ASSUME NEW n \in files[c] PROVE Cardinality(files[c]) <= 1
    <3>1. files[c] = {n}
      BY DEF Alone
    <3> QED BY <3>1, FS_Singleton
  <2> QED BY <2>1, <2>2
<1> QED BY <1>1, InitInv, InitAlone, NextInv, NextAlone, PTL DEF Spec

(* A complaint recorded as downloaded has a whole file at the path         *)
(* recorded, unless that file has been opened again, which runs one after  *)
(* another never do (download_document, _bulk_update_document_status).     *)
THEOREM IngestionRecordedIsStored == Spec => []RecordedIsStored
<1>1. IInv /\ Alone => RecordedIsStored
  BY DEF IInv, Alone, RecordedIsStored
<1> QED BY <1>1, InitInv, InitAlone, NextInv, NextAlone, PTL DEF Spec

(* What they have recorded as downloaded stays recorded                    *)
(* (get_complaints_without_documents does not select it again).            *)
THEOREM IngestionDownloadedIsFinal == Spec => DownloadedIsFinal
<1>1. IInv /\ Alone /\ [Next]_vars => [~overlapped' => \A c \in Complaints : row[c].downloaded => row'[c] = row[c]]_vars
  BY NextAlone
<1> QED BY <1>1, InitInv, InitAlone, NextInv, NextAlone, PTL DEF Spec, DownloadedIsFinal

-----------------------------------------------------------------------------
(* A run is bounded                                                        *)

(* What a run has ahead of it is counted in units of one step: of each     *)
(* complaint, what is left of its way through download_document.           *)
Most == 3 * MaxRetries + 3

LeftAt(s, t) ==
    CASE s = "waiting" -> 3 * (MaxRetries - t) + 2
      [] s = "asking"  -> 3 * (MaxRetries - t) + 1
      [] s = "getting" -> 3 * (MaxRetries - t)
      [] s = "writing" -> 2
      [] s = "out"     -> 0
      [] OTHER         -> 1

Left(r, c)  == IF c \in todo[r] THEN Most ELSE LeftAt(step[r][c], tries[r][c])
Ahead(r)    == {p \in Complaints \X (0..Most) : p[2] < Left(r, p[1])}
RunLeft(r)  == Cardinality(Ahead(r)) + (IF phase[r] = "working" THEN 1 ELSE 0)
RunBound    == Cardinality(Complaints) * (Most + 1) + 1

(* A complaint is in the chunk at work or in one to come, not in both.     *)
InTurn == \A r \in Runs, c \in Complaints : c \in todo[r] => step[r][c] = "out"

(* A coroutine or the loop of the run has a step to take: those that wait  *)
(* for the semaphore are never alone with it taken.                        *)
HasStep(r) ==
    \/ Chunk(r) = {}
    \/ \A c \in Chunk(r) : step[r][c] \in Results
    \/ \E c \in Chunk(r) : step[r][c] \in {"waiting", "getting", "writing"}
    \/ \E c \in Chunk(r) :
         /\ step[r][c] = "asking"
         /\ Cardinality({d \in Complaints : step[r][d] \in {"getting", "writing"}}) < Slots

(* What a step of any process does to that of run r: its own steps use it  *)
(* up, only a new selection adds to it.                                    *)
RunUsesUp(r) == /\ Proceed(r) => RunLeft(r)' < RunLeft(r)
                /\ ~Select(r) => RunLeft(r)' <= RunLeft(r)

LEMMA LeftAtType ==
    ASSUME NEW s \in Steps, NEW t \in 0..MaxRetries
    PROVE  LeftAt(s, t) \in 0..Most /\ Most \in 0..Most
<1> USE SizesAssumption DEF Most
<1>1. \/ s = "waiting" /\ LeftAt(s, t) = 3 * (MaxRetries - t) + 2
      \/ s = "asking" /\ LeftAt(s, t) = 3 * (MaxRetries - t) + 1
      \/ s = "getting" /\ LeftAt(s, t) = 3 * (MaxRetries - t)
      \/ LeftAt(s, t) \in 0..2
  BY DEF LeftAt
<1> QED BY <1>1

LEMMA LeftType ==
    ASSUME TypeOK, NEW r \in Runs, NEW c \in Complaints
    PROVE  Left(r, c) \in 0..Most
<1>1. step[r][c] \in Steps /\ tries[r][c] \in 0..MaxRetries
  BY DEF TypeOK, TasksTypeOK
<1> QED BY <1>1, LeftAtType DEF Left

(* Ahead is finite: a part of a product of finite sets.                    *)
LEMMA AheadFinite ==
    ASSUME IsFiniteSet(Complaints), NEW r
    PROVE  /\ IsFiniteSet(Ahead(r)) /\ IsFiniteSet(Ahead(r)')
           /\ Cardinality(Ahead(r)) \in 0..(Cardinality(Complaints) * (Most + 1))
<1>1. Most \in Nat
  BY SizesAssumption DEF Most
<1>2. IsFiniteSet(0..Most) /\ Cardinality(0..Most) = Most + 1
  BY <1>1, FS_Interval
<1> DEFINE grid == Complaints \X (0..Most)
<1>3. IsFiniteSet(grid) /\ Cardinality(grid) = Cardinality(Complaints) * (Most + 1)
  BY <1>2, FS_Product
<1>4. Ahead(r) \in SUBSET grid /\ Ahead(r)' \in SUBSET grid
  BY DEF Ahead
<1> HIDE DEF grid
<1>5. IsFiniteSet(Ahead(r)) /\ Cardinality(Ahead(r)) <= Cardinality(grid) /\ IsFiniteSet(Ahead(r)')
  BY <1>3, <1>4, FS_Subset
<1>6. Cardinality(Ahead(r)) \in Nat /\ Cardinality(grid) \in Nat
  BY <1>3, <1>5, FS_CardinalityType
<1> QED BY <1>3, <1>5, <1>6

(* Where no complaint has more left, neither has the run, and where one    *)
(* has less, so has the run.                                               *)
LEMMA AheadShrinks ==
    ASSUME IsFiniteSet(Complaints), TypeOK, TypeOK', NEW r \in Runs,
           \A d \in Complaints : Left(r, d)' <= Left(r, d)
    PROVE  /\ Cardinality(Ahead(r)) \in Nat /\ Cardinality(Ahead(r)') \in Nat
           /\ Cardinality(Ahead(r)') <= Cardinality(Ahead(r))
           /\ (\E c \in Complaints : Left(r, c)' < Left(r, c)) =>
                Cardinality(Ahead(r)') < Cardinality(Ahead(r))
<1>0. Most \in Nat
  BY SizesAssumption DEF Most
<1>1. ASSUME NEW d \in Complaints
      PROVE  Left(r, d) \in 0..Most /\ Left(r, d)' \in 0..Most
  <2>1. Left(r, d) \in 0..Most
    BY LeftType
  <2>2. step'[r][d] \in Steps /\ tries'[r][d] \in 0..MaxRetries
    BY DEF TypeOK, TasksTypeOK
  <2>3. Left(r, d)' \in 0..Most
    BY <2>2, LeftAtType DEF Left
  <2> QED BY <2>1, <2>3
<1>2. Ahead(r)' \subseteq Ahead(r)
  BY <1>0, <1>1 DEF Ahead
<1>3. IsFiniteSet(Ahead(r)) /\ IsFiniteSet(Ahead(r)')
  BY AheadFinite
<1>4. Cardinality(Ahead(r)) \in Nat /\ Cardinality(Ahead(r)') \in Nat
  BY <1>3, FS_CardinalityType
<1>5. /\ Cardinality(Ahead(r)') <= Cardinality(Ahead(r))
      /\ Cardinality(Ahead(r)') = Cardinality(Ahead(r)) => Ahead(r)' = Ahead(r)
  BY <1>2, <1>3, FS_Subset
<1>6. ASSUME NEW c \in Complaints, Left(r, c)' < Left(r, c) PROVE Ahead(r)' # Ahead(r)
  <2>1. <<c, Left(r, c)'>> \in Ahead(r)
    BY <1>0, <1>1, <1>6 DEF Ahead
  <2>2. <<c, Left(r, c)'>> \notin Ahead(r)'
    BY <1>0, <1>1 DEF Ahead
  <2> QED BY <2>1, <2>2
<1> QED BY <1>4, <1>5, <1>6

-----------------------------------------------------------------------------
(* The parts of a step                                                     *)

(* A coroutine comes nearer to a result: a 429 sends it back to the start, *)
(* with one call less.                                                     *)
LEMMA TaskDescends ==
    ASSUME IInv, InTurn, NEW r \in Runs, NEW c \in Complaints,
           \/ Check(r, c) \/ Get(r, c) \/ TooMany(r, c) \/ GetFails(r, c)
           \/ Upload(r, c) \/ Open(r, c) \/ Write(r, c)
    PROVE  Left(r, c)' < Left(r, c)
<1> DEFINE M == MaxRetries
           t == tries[r][c]
<1>1. TaskStep(r, c)
  BY CheckInv, GetInv, TooManyInv, GetFailsInv, UploadInv, OpenInv, WriteInv
<1>2. c \notin todo[r] /\ c \notin todo'[r]
  BY <1>1 DEF TaskStep, InTurn
<1>3. M \in Nat /\ t \in 0..M /\ (step[r][c] \in {"waiting", "asking", "getting"} => t < M)
  BY TaskTypes DEF IInv, Knows
<1>4. \A s : Goes(r, c, s) => step'[r][c] = s
  BY DEF Goes, IInv, TypeOK, TasksTypeOK
<1>5. \/ /\ step[r][c] = "waiting" /\ step'[r][c] \in {"asking", "skipped"} /\ tries'[r][c] = t
      \/ /\ step[r][c] = "asking" /\ step'[r][c] = "getting" /\ tries'[r][c] = t
      \/ /\ step[r][c] = "getting" /\ step'[r][c] = "waiting" /\ tries'[r][c] = t + 1
      \/ /\ step[r][c] = "getting" /\ step'[r][c] \in {"failed", "success", "writing"}
      \/ /\ step[r][c] = "writing" /\ step'[r][c] \in {"failed", "success"}
  <2>1. CASE Check(r, c)
    BY <1>4, <2>1 DEF Check
  <2>2. CASE Get(r, c)
    BY <1>4, <2>2 DEF Get
  <2>3. CASE TooMany(r, c)
    <3>1. tries'[r][c] = t + 1
      BY <2>3 DEF TooMany, IInv, TypeOK, TasksTypeOK
    <3> QED BY <1>4, <2>3, <3>1 DEF TooMany
  <2>4. CASE GetFails(r, c) \/ Upload(r, c) \/ Open(r, c)
    BY <1>4, <2>4 DEF GetFails, Upload, Open
  <2>5. CASE Write(r, c)
    BY <1>4, <2>5 DEF Write
  <2> QED BY <2>1, <2>2, <2>3, <2>4, <2>5
<1>6. /\ Left(r, c) = LeftAt(step[r][c], t)
      /\ Left(r, c)' = LeftAt(step'[r][c], tries'[r][c])
  BY <1>2 DEF Left
<1>7. \A k : /\ LeftAt("waiting", k) = 3 * (M - k) + 2
             /\ LeftAt("asking", k) = 3 * (M - k) + 1
             /\ LeftAt("getting", k) = 3 * (M - k)
             /\ LeftAt("writing", k) = 2
             /\ LeftAt("skipped", k) = 1
             /\ LeftAt("failed", k) = 1
             /\ LeftAt("success", k) = 1
  BY DEF LeftAt
<1> HIDE DEF M, t
<1>8. \A k : k \in 0..M => 3 * (M - k) \in Int /\ (k < M => 3 * (M - k) >= 3 /\ 3 * (M - (k + 1)) = 3 * (M - k) - 3)
  BY <1>3
<1> QED BY <1>3, <1>5, <1>6, <1>7, <1>8

(* The rest of the run is not touched by it.                               *)
LEMMA DownloadDescends ==
    ASSUME IInv, InTurn, NEW r \in Runs, Download(r)
    PROVE  /\ \A d \in Complaints : Left(r, d)' <= Left(r, d)
           /\ \E c \in Complaints : Left(r, c)' < Left(r, c)
           /\ UNCHANGED phase /\ InTurn'
<1>1. PICK c \in Complaints : \/ Check(r, c) \/ Get(r, c) \/ TooMany(r, c) \/ GetFails(r, c)
                             \/ Upload(r, c) \/ Open(r, c) \/ Write(r, c)
  BY DEF Download
<1>2. TaskStep(r, c)
  BY <1>1, CheckInv, GetInv, TooManyInv, GetFailsInv, UploadInv, OpenInv, WriteInv
<1>3. Left(r, c)' < Left(r, c)
  BY <1>1, TaskDescends
<1>4. UNCHANGED <<phase, todo>> /\ step[r][c] # "out"
  BY <1>2 DEF TaskStep
<1>5. \A q \in Runs, d \in Complaints : <<q, d>> # <<r, c>> => step'[q][d] = step[q][d] /\ tries'[q][d] = tries[q][d]
  BY <1>2, TaskFrame
<1>6. InTurn'
  BY <1>4, <1>5 DEF InTurn
<1>7. IInv'
  BY <1>1, <1>2, TaskInv, CheckInv, GetInv, TooManyInv, GetFailsInv, UploadInv, OpenInv, WriteInv
<1>8. ASSUME NEW d \in Complaints PROVE Left(r, d)' <= Left(r, d)
  <2>0. Left(r, d) \in Int /\ Left(r, c) \in Int
    BY LeftType DEF IInv
  <2>1. CASE d = c
    <3>1. Left(r, c)' \in Int
      <4>1. step'[r][c] \in Steps /\ tries'[r][c] \in 0..MaxRetries
        BY <1>7 DEF IInv, TypeOK, TasksTypeOK
      <4> QED BY <4>1, LeftAtType DEF Left
    <3> QED BY <1>3, <2>0, <2>1, <3>1
  <2>2. CASE d # c
    <3>1. Left(r, d)' = Left(r, d)
      BY <1>4, <1>5, <2>2 DEF Left
    <3> QED BY <2>0, <3>1
  <2> QED BY <2>1, <2>2
<1> QED BY <1>3, <1>4, <1>6, <1>8

(* The steps of the run itself: a chunk is taken, written back, or all of  *)
(* it is over.                                                             *)
LEMMA RunDescends ==
    ASSUME IInv, IInv', InTurn, NEW r \in Runs, NextChunk(r) \/ Flush(r) \/ End(r) \/ Crash(r)
    PROVE  /\ \A d \in Complaints : Left(r, d)' <= Left(r, d)
           /\ phase[r] = "working"
           /\ phase'[r] # "working" \/ \E c \in Complaints : Left(r, c)' < Left(r, c)
           /\ \A d \in Complaints : d \in todo'[r] => step'[r][d] = "out"
<1>0. \A k : /\ LeftAt("waiting", k) = 3 * (MaxRetries - k) + 2 /\ LeftAt("out", k) = 0
             /\ LeftAt("skipped", k) = 1 /\ LeftAt("failed", k) = 1 /\ LeftAt("success", k) = 1
  BY DEF LeftAt
<1>1. \A d \in Complaints : Left(r, d) \in 0..Most
  BY LeftType DEF IInv
<1>2. phase[r] = "working"
  BY DEF NextChunk, Flush, End, Crash
<1>3. CASE NextChunk(r)
  <2>1. UNCHANGED tries /\ Chunk(r) = {}
    BY <1>3 DEF NextChunk
  <2>2. PICK cs \in SUBSET todo[r] :
        /\ cs # {} /\ todo' = [todo EXCEPT ![r] = @ \ cs]
        /\ step' = [step EXCEPT ![r] = [c \in Complaints |-> IF c \in cs THEN "waiting" ELSE "out"]]
    BY <1>3 DEF NextChunk
  <2>3. /\ todo'[r] = todo[r] \ cs /\ step'[r] = [c \in Complaints |-> IF c \in cs THEN "waiting" ELSE "out"]
        /\ todo[r] \subseteq Complaints
    BY <2>2 DEF IInv, TypeOK, TasksTypeOK
  <2>4. \A d \in Complaints : step[r][d] = "out" /\ tries[r][d] = 0
    BY <2>1 DEF Chunk, IInv, Knows
  <2>5. ASSUME NEW d \in cs PROVE d \in Complaints /\ Left(r, d)' < Left(r, d)
    <3>1. d \in Complaints /\ d \in todo[r] /\ d \notin todo'[r] /\ step'[r][d] = "waiting" /\ tries'[r][d] = 0
      BY <2>1, <2>2, <2>3, <2>4
    <3>2. Left(r, d) = Most /\ Left(r, d)' = LeftAt("waiting", 0)
      BY <3>1 DEF Left
    <3> QED BY <1>0, <3>1, <3>2, SizesAssumption DEF Most
  <2>6. ASSUME NEW d \in Complaints PROVE Left(r, d)' <= Left(r, d)
    <3>1. CASE d \in cs
      <4>1. MaxRetries \in Nat /\ Left(r, d) = Most /\ Left(r, d)' = LeftAt("waiting", 0)
        BY <2>1, <2>2, <2>3, <2>4, <3>1, SizesAssumption DEF Left
      <4> QED BY <1>0, <4>1 DEF Most
    <3>2. CASE d \notin cs
      <4>1. step'[r][d] = step[r][d] /\ tries'[r][d] = tries[r][d] /\ (d \in todo'[r] <=> d \in todo[r])
        BY <2>1, <2>3, <2>4, <3>2
      <4>2. Left(r, d)' = Left(r, d)
        BY <4>1 DEF Left
      <4> QED BY <1>1, <4>2
    <3> QED BY <3>1, <3>2
  <2>7. \A d \in Complaints : d \in todo'[r] => step'[r][d] = "out"
    BY <2>3
  <2> QED BY <1>2, <2>2, <2>5, <2>6, <2>7
<1>4. CASE Flush(r) \/ Crash(r)
  <2>1. \A c \in Complaints : step'[r][c] = "out"
    BY <1>4, IdleStep DEF Flush, Crash
  <2>2. CASE phase' = [phase EXCEPT ![r] = "idle"] /\ todo' = [todo EXCEPT ![r] = {}]
    <3>1. phase'[r] = "idle" /\ todo'[r] = {}
      BY <2>2 DEF IInv, TypeOK
    <3>2. \A d \in Complaints : Left(r, d)' = 0
      BY <1>0, <2>1, <3>1 DEF Left
    <3> QED BY <1>1, <1>2, <2>1, <3>1, <3>2
  <2>3. CASE Flush(r) /\ UNCHANGED <<phase, todo>>
    <3>1. Chunk(r) # {} /\ \A c \in Chunk(r) : step[r][c] \in Results
      BY <2>3 DEF Flush
    <3>2. ASSUME NEW d \in Complaints, d \in todo[r] PROVE Left(r, d)' = Left(r, d)
      BY <2>3, <3>2 DEF Left
    <3>3. ASSUME NEW d \in Complaints, d \notin todo[r] PROVE Left(r, d)' = 0
      BY <1>0, <2>1, <2>3, <3>3 DEF Left
    <3>4. PICK c \in Chunk(r) : step[r][c] \in Results
      BY <3>1
    <3>5. Left(r, c) = 1 /\ c \notin todo[r] /\ c \in Complaints
      <4>1. c \notin todo[r] /\ c \in Complaints
        BY DEF InTurn, Chunk
      <4> QED BY <1>0, <3>4, <4>1 DEF Left, Results
    <3>6. Left(r, c)' < Left(r, c)
      BY <3>3, <3>5
    <3>7. \A d \in Complaints : Left(r, d)' <= Left(r, d)
      BY <1>1, <3>2, <3>3
    <3> QED BY <1>2, <2>1, <3>5, <3>6, <3>7
  <2> QED BY <1>4, <2>2, <2>3 DEF Flush, Crash
<1>5. CASE End(r)
  <2>1. UNCHANGED <<todo, step, tries>> /\ phase'[r] = "ended"
    BY <1>5 DEF End, task, IInv, TypeOK
  <2>2. \A d \in Complaints : Left(r, d)' = Left(r, d)
    BY <2>1 DEF Left
  <2> QED BY <1>1, <1>2, <2>1, <2>2 DEF InTurn
<1> QED BY <1>3, <1>4, <1>5

(* What one run does leaves the others where they are.                     *)
LEMMA OthersStay ==
    ASSUME IInv, NEW q \in Runs, NEW r \in Runs, q # r, Select(q) \/ Proceed(q) \/ Crash(q)
    PROVE  /\ phase'[r] = phase[r] /\ todo'[r] = todo[r] /\ step'[r] = step[r] /\ tries'[r] = tries[r]
<1> USE DEF IInv, TypeOK, TasksTypeOK
<1>1. CASE Select(q)
  BY <1>1 DEF Select, task
<1>2. CASE NextChunk(q)
  <2>1. UNCHANGED <<phase, tries>> /\ (\E cs : todo' = [todo EXCEPT ![q] = cs]) /\ (\E s : step' = [step EXCEPT ![q] = s])
    BY <1>2 DEF NextChunk
  <2> QED BY <2>1
<1>3. CASE Flush(q) \/ Crash(q) \/ End(q)
  <2>1. /\ UNCHANGED phase \/ phase' = [phase EXCEPT ![q] = "idle"] \/ phase' = [phase EXCEPT ![q] = "ended"]
        /\ UNCHANGED todo \/ todo' = [todo EXCEPT ![q] = {}]
        /\ Idle(q) \/ UNCHANGED <<step, tries>>
    BY <1>3 DEF Flush, Crash, End, task
  <2> QED BY <2>1 DEF Idle
<1>4. CASE Download(q)
  <2>1. PICK c \in Complaints : \/ Check(q, c) \/ Get(q, c) \/ TooMany(q, c) \/ GetFails(q, c)
                               \/ Upload(q, c) \/ Open(q, c) \/ Write(q, c)
    BY <1>4 DEF Download
  <2>2. UNCHANGED <<phase, todo>>
    BY <2>1 DEF Check, Get, TooMany, GetFails, Upload, Open, Write
  <2>3. \E s : step' = [step EXCEPT ![q][c] = s]
    BY <2>1 DEF Check, Get, TooMany, GetFails, Upload, Open, Write, Goes
  <2>4. tries' = tries \/ tries' = [tries EXCEPT ![q][c] = @ + 1]
    BY <2>1 DEF Check, Get, TooMany, GetFails, Upload, Open, Write
  <2> QED BY <2>2, <2>3, <2>4
<1> QED BY <1>1, <1>2, <1>3, <1>4 DEF Proceed

(* No complaint is in the chunk and in todo. *)
LEMMA NextInTurn ==
    ASSUME IInv, InTurn, [Next]_vars
    PROVE  InTurn'
<1>1. CASE UNCHANGED vars
  BY <1>1 DEF vars, process, task, InTurn
<1>2. ASSUME NEW q \in Runs, Select(q) \/ Proceed(q) \/ Crash(q) PROVE InTurn'
  <2>1. \A d \in Complaints : d \in todo'[q] => step'[q][d] = "out"
    <3>1. CASE Select(q)
      <4>1. \A d \in Complaints : step'[q][d] = "out"
        BY <3>1 DEF Select, task, IInv, Knows
      <4> QED BY <4>1
    <3>2. CASE Download(q)
      BY <3>2, DownloadDescends DEF InTurn
    <3>3. CASE NextChunk(q) \/ Flush(q) \/ End(q) \/ Crash(q)
      BY <3>3, NextInv, RunDescends DEF Next, Proceed
    <3> QED BY <1>2, <3>1, <3>2, <3>3 DEF Proceed
  <2>2. ASSUME NEW r \in Runs, r # q PROVE \A d \in Complaints : d \in todo'[r] => step'[r][d] = "out"
    BY <1>2, <2>2, OthersStay DEF InTurn
  <2> QED BY <2>1, <2>2 DEF InTurn
<1> QED BY <1>1, <1>2 DEF Next

(* Every step uses up what is left of the run that takes it.               *)
LEMMA NextUsesUp ==
    ASSUME IsFiniteSet(Complaints), IInv, IInv', InTurn, [Next]_vars, NEW r \in Runs, vars' # vars
    PROVE  RunUsesUp(r)
<1>0. TypeOK /\ TypeOK'
  BY DEF IInv
<1>1. ASSUME \A d \in Complaints : Left(r, d)' <= Left(r, d), phase[r] = "working",
             phase'[r] # "working" \/ \E c \in Complaints : Left(r, c)' < Left(r, c)
      PROVE  RunLeft(r)' < RunLeft(r) /\ RunLeft(r)' <= RunLeft(r)
  <2>1. /\ Cardinality(Ahead(r)) \in Nat /\ Cardinality(Ahead(r)') \in Nat
        /\ Cardinality(Ahead(r)') <= Cardinality(Ahead(r))
        /\ (\E c \in Complaints : Left(r, c)' < Left(r, c)) =>
             Cardinality(Ahead(r)') < Cardinality(Ahead(r))
    BY <1>0, <1>1, AheadShrinks
  <2>2. RunLeft(r) = Cardinality(Ahead(r)) + 1
    BY <1>1 DEF RunLeft
  <2>3. RunLeft(r)' = Cardinality(Ahead(r)') + (IF phase'[r] = "working" THEN 1 ELSE 0)
    BY DEF RunLeft
  <2> QED BY <1>1, <2>1, <2>2, <2>3
<1>2. CASE Download(r) \/ NextChunk(r) \/ Flush(r) \/ End(r) \/ Crash(r)
  <2>1. /\ \A d \in Complaints : Left(r, d)' <= Left(r, d)
        /\ phase[r] = "working"
        /\ phase'[r] # "working" \/ \E c \in Complaints : Left(r, c)' < Left(r, c)
    <3>1. CASE Download(r)
      <4>1. phase[r] = "working"
        BY <3>1, TaskTypes DEF Download, Check, Get, TooMany, GetFails, Upload, Open, Write
      <4> QED BY <3>1, <4>1, DownloadDescends
    <3>2. CASE NextChunk(r) \/ Flush(r) \/ End(r) \/ Crash(r)
      BY <3>2, RunDescends
    <3> QED BY <1>2, <3>1, <3>2
  <2> QED BY <1>1, <2>1 DEF RunUsesUp
<1>3. CASE ~(Proceed(r) \/ Crash(r)) /\ ~Select(r)
  <2>1. PICK q \in Runs : Select(q) \/ Proceed(q) \/ Crash(q)
    BY DEF Next
  <2>2. phase'[r] = phase[r] /\ todo'[r] = todo[r] /\ step'[r] = step[r] /\ tries'[r] = tries[r]
    BY <1>3, <2>1, OthersStay
  <2>3. \A d \in Complaints : Left(r, d)' = Left(r, d)
    BY <2>2 DEF Left
  <2>4. \A d \in Complaints : Left(r, d)' <= Left(r, d)
    <3>1. \A d \in Complaints : Left(r, d) \in 0..Most
      BY <1>0, LeftType
    <3> QED BY <2>3, <3>1
  <2>5. /\ Cardinality(Ahead(r)) \in Nat /\ Cardinality(Ahead(r)') \in Nat
        /\ Cardinality(Ahead(r)') <= Cardinality(Ahead(r))
    BY <1>0, <2>4, AheadShrinks
  <2>6. RunLeft(r)' <= RunLeft(r)
    <3>1. RunLeft(r)' = Cardinality(Ahead(r)') + (IF phase[r] = "working" THEN 1 ELSE 0)
      BY <2>2 DEF RunLeft
    <3> QED BY <2>5, <3>1 DEF RunLeft
  <2> QED BY <1>3, <2>6 DEF RunUsesUp
<1>4. CASE Select(r) /\ ~Proceed(r)
  BY <1>4 DEF RunUsesUp
<1> QED BY <1>2, <1>3, <1>4 DEF Proceed

(* The semaphore is taken only by coroutines that go on.                   *)
LEMMA SomeoneGoesOn ==
    ASSUME TypeOK, NEW r \in Runs
    PROVE  HasStep(r)
<1> DEFINE holders == {d \in Complaints : step[r][d] \in {"getting", "writing"}}
<1>1. CASE \E c \in Chunk(r) : step[r][c] \in {"waiting", "getting", "writing"}
  BY <1>1 DEF HasStep
<1>2. CASE ~ \E c \in Chunk(r) : step[r][c] \in {"waiting", "getting", "writing"}
  <2>1. \A c \in Chunk(r) : step[r][c] \in Results \cup {"asking"}
    BY <1>2 DEF Chunk, TypeOK, TasksTypeOK, Steps
  <2>2. holders = {}
    BY <1>2 DEF Chunk
  <2>3. Cardinality(holders) < Slots
    BY <2>2, FS_EmptySet, SizesAssumption
  <2> QED BY <2>1, <2>3 DEF HasStep
<1> QED BY <1>1, <1>2

(* The bound under RunsEnd: a run has never more than RunBound steps to    *)
(* take, which grows with its complaints and MAX_RETRIES alone, each step  *)
(* it takes uses one up, whatever the other runs do, and until it has      *)
(* ended there is one to take.                                             *)
THEOREM IngestionRunsAreBounded ==
    ASSUME IsFiniteSet(Complaints)
    PROVE  Spec => /\ [](\A r \in Runs : RunLeft(r) \in 0..RunBound /\ HasStep(r))
                   /\ [][\A r \in Runs : RunUsesUp(r)]_vars
<1>1. Init => InTurn
  BY DEF Init, InTurn
<1>2. IInv /\ InTurn /\ [Next]_vars => InTurn'
  BY NextInTurn
<1>3. IInv /\ IInv' /\ InTurn /\ [Next]_vars => [\A r \in Runs : RunUsesUp(r)]_vars
  BY NextUsesUp
<1>4. IInv => \A r \in Runs : RunLeft(r) \in 0..RunBound /\ HasStep(r)
  <2> SUFFICES ASSUME IInv, NEW r \in Runs PROVE RunLeft(r) \in 0..RunBound /\ HasStep(r)
    OBVIOUS
  <2>1. Cardinality(Ahead(r)) \in 0..(Cardinality(Complaints) * (Most + 1))
    BY AheadFinite
  <2>2. Cardinality(Complaints) * (Most + 1) \in Nat
    <3>1. Cardinality(Complaints) \in Nat /\ Most + 1 \in Nat
      BY FS_CardinalityType, SizesAssumption DEF Most
    <3> QED BY <3>1
  <2> DEFINE area == Cardinality(Complaints) * (Most + 1)
  <2>3. area \in Nat /\ Cardinality(Ahead(r)) \in 0..area /\ RunBound = area + 1
    BY <2>1, <2>2 DEF RunBound
  <2> HIDE DEF area
  <2>4. RunLeft(r) \in 0..RunBound
    BY <2>3 DEF RunLeft
  <2>5. HasStep(r)
    BY SomeoneGoesOn DEF IInv
  <2> QED BY <2>4, <2>5
<1> QED BY <1>1, <1>2, <1>3, <1>4, IngestionInvariant, PTL DEF Spec
=============================================================================
