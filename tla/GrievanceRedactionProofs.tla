---------------------- MODULE GrievanceRedactionProofs ----------------------
(***************************************************************************)
(* The types of GrievanceRedaction, and which redactions may be replaced,  *)
(* for any number of runs at work together.  The invariant behind the      *)
(* latter: what a run chose a ticket of its batch by was no redaction, or, *)
(* if the run refreshes, one with another stamp.                           *)
(***************************************************************************)
EXTENDS GrievanceRedaction, FiniteSetTheorems, TLAPS

Stamped == \A r \in Redactors : phase[r] # "idle" => job[r].version \in Analyzers

Eligible(r, t) == found[r][t].by # 0 => job[r].refresh /\ found[r][t].by # job[r].version

BatchEligible == \A r \in Redactors, t \in Tickets : phase[r] = "redacting" /\ t \in InBatch(r) => Eligible(r, t)

RedactionInv == RedactionTypeOK /\ Stamped /\ BatchEligible

-----------------------------------------------------------------------------
(* Types *)

(* What a run has left of its limit is an integer.                         *)
LEMMA LessType == ASSUME NEW left \in Int, NEW r \in Redactors
                  PROVE  Less(left, Cardinality(InBatch(r))) \in Int
<1>1. Cardinality(InBatch(r)) \in Nat
  BY TicketsAssumption, FS_Subset, FS_CardinalityType DEF InBatch
<1>2. QED
  BY <1>1 DEF Less, Unlimited

(* What an analyzer makes of a text is a redaction.                        *)
LEMMA MadeType == ASSUME NEW v \in Analyzers, NEW x \in Texts, NEW y \in Redact(v, x)
                  PROVE  [text |-> y, by |-> v] \in Redactions
<1>1. [text |-> y, by |-> v] \in RedactionsOf(v, x)
  BY DEF RedactionsOf
<1>2. QED
  BY <1>1 DEF Redactions

(* The command starts in the types.                                        *)
LEMMA InitInv == RedactionInit => RedactionInv
<1> SUFFICES ASSUME RedactionInit PROVE RedactionInv
  OBVIOUS
<1>1. TablesTypeOK
  <2>1. \A t \in Tickets : complaint[t] \in [text : Texts, home : Slices \cup {NoSlice}, facts : Facts]
    <3> SUFFICES ASSUME NEW t \in Tickets
                 PROVE  complaint[t] \in [text : Texts, home : Slices \cup {NoSlice}, facts : Facts]
      OBVIOUS
    <3>1. complaint[t] \in [text : Texts, home : Slices, facts : Facts]
      BY FilingsAssumption DEF RedactionInit
    <3>2. QED
      BY <3>1
  <2>2. \A t \in Tickets : redaction[t] \in Redactions \cup {NoRedaction}
    BY EarlierAssumption DEF RedactionInit
  <2>3. QED
    BY <2>1, <2>2 DEF RedactionInit, TablesTypeOK
<1>2. PassTypeOK
  BY DEF RedactionInit, PassTypeOK, NoJob, NoBatch, NoneFound, Unlimited
<1>3. FlagsTypeOK
  BY DEF RedactionInit, FlagsTypeOK
<1>4. Stamped /\ BatchEligible
  BY DEF RedactionInit, Stamped, BatchEligible
<1>5. QED
  BY <1>1, <1>2, <1>3, <1>4 DEF RedactionInv, RedactionTypeOK

-----------------------------------------------------------------------------
(* Each step keeps the invariant *)

(* Starting a run.                                                         *)
LEMMA StartInv == ASSUME RedactionInv, NEW r \in Redactors, Start(r) PROVE RedactionInv'
<1> USE DEF RedactionInv, RedactionTypeOK
<1>0. PICK s \in Slices, refresh \in BOOLEAN, left \in PassLimits \cup {Unlimited}, version \in Analyzers :
        job' = [job EXCEPT ![r] = [home |-> s, version |-> version, refresh |-> refresh, left |-> left]]
  BY DEF Start
<1>1. left \in Int
  BY BatchAssumption DEF Unlimited
<1>2. TablesTypeOK'
  BY DEF TablesTypeOK, Start, tables
<1>3. PassTypeOK'
  BY <1>0, <1>1 DEF PassTypeOK, Start
<1>4. FlagsTypeOK'
  BY DEF FlagsTypeOK, Start
<1>5. Stamped'
  BY <1>0 DEF Stamped, PassTypeOK, Start
<1>6. BatchEligible'
  <2> SUFFICES ASSUME NEW q \in Redactors, NEW t \in Tickets, phase'[q] = "redacting", t \in InBatch(q)'
               PROVE  Eligible(q, t)'
    BY DEF BatchEligible
  <2>1. q # r
    BY DEF PassTypeOK, Start
  <2>2. phase'[q] = phase[q] /\ job'[q] = job[q] /\ batch'[q] = batch[q] /\ found'[q] = found[q]
    BY <1>0, <2>1 DEF PassTypeOK, Start
  <2>3. QED
    BY <2>2 DEF BatchEligible, Eligible, InBatch
<1>7. QED
  BY <1>2, <1>3, <1>4, <1>5, <1>6

(* Loading a batch: what is pending has no redaction, or another stamp.    *)
LEMMA LoadInv == ASSUME RedactionInv, NEW r \in Redactors, Load(r) PROVE RedactionInv'
<1> USE DEF RedactionInv, RedactionTypeOK
<1> DEFINE chosen == First(Pending(r), Size(job[r].left))
<1>1. chosen \subseteq Pending(r)
  BY DEF First
<1>2. /\ batch' = [batch EXCEPT ![r] = [t \in Tickets |-> IF t \in chosen THEN complaint[t].text ELSE 0]]
      /\ found' = [found EXCEPT ![r] = [t \in Tickets |-> IF t \in chosen THEN redaction[t] ELSE NoRedaction]]
  BY DEF Load
<1> HIDE DEF chosen
<1>3. TablesTypeOK'
  BY DEF TablesTypeOK, Load, tables
<1>4. PassTypeOK'
  <2>1. [t \in Tickets |-> IF t \in chosen THEN complaint[t].text ELSE 0] \in [Tickets -> Texts \cup {0}]
    BY DEF TablesTypeOK
  <2>2. [t \in Tickets |-> IF t \in chosen THEN redaction[t] ELSE NoRedaction]
          \in [Tickets -> Redactions \cup {NoRedaction}]
    BY DEF TablesTypeOK
  <2>3. batch' \in [Redactors -> [Tickets -> Texts \cup {0}]]
    BY <1>2, <2>1 DEF PassTypeOK
  <2>4. found' \in [Redactors -> [Tickets -> Redactions \cup {NoRedaction}]]
    BY <1>2, <2>2 DEF PassTypeOK
  <2>5. QED
    BY <2>3, <2>4 DEF PassTypeOK, Load, Goes
<1>5. FlagsTypeOK'
  BY DEF FlagsTypeOK, Load
<1>6. Stamped'
  BY DEF Stamped, PassTypeOK, Load, Goes
<1>7. BatchEligible'
  <2> SUFFICES ASSUME NEW q \in Redactors, NEW t \in Tickets, phase'[q] = "redacting", t \in InBatch(q)'
               PROVE  Eligible(q, t)'
    BY DEF BatchEligible
  <2>1. CASE q # r
    <3>1. phase'[q] = phase[q] /\ job'[q] = job[q] /\ batch'[q] = batch[q] /\ found'[q] = found[q]
      BY <1>2, <2>1 DEF PassTypeOK, Load, Goes
    <3>2. QED
      BY <3>1 DEF BatchEligible, Eligible, InBatch
  <2>2. CASE q = r
    <3>1. t \in chosen /\ found'[r][t] = redaction[t] /\ job' = job
      BY <1>2, <2>2 DEF InBatch, PassTypeOK, Load
    <3>2. QED
      BY <1>1, <2>2, <3>1 DEF Eligible, Pending, Redacted
  <2>3. QED
    BY <2>1, <2>2
<1>8. QED
  BY <1>3, <1>4, <1>5, <1>6, <1>7

(* What the upsert of a batch writes.                                      *)
LEMMA UpsertWrites ==
    ASSUME RedactionInv, NEW r \in Redactors, Upsert(r), NEW t \in Tickets
    PROVE  \/ redaction'[t] = redaction[t]
           \/ t \in InBatch(r) /\ redaction'[t].by = job[r].version /\ redaction'[t] \in Redactions
<1>1. PICK made : /\ \A u \in InBatch(r) : made[u] \in Redact(job[r].version, batch[r][u])
                  /\ redaction' = [u \in Tickets |-> IF u \in InBatch(r) THEN [text |-> made[u], by |-> job[r].version]
                                                     ELSE redaction[u]]
  BY DEF Upsert
<1>2. CASE t \in InBatch(r)
  <2>1. redaction'[t] = [text |-> made[t], by |-> job[r].version]
    BY <1>1, <1>2
  <2>2. job[r].version \in Analyzers /\ batch[r][t] \in Texts
    BY <1>2 DEF RedactionInv, RedactionTypeOK, PassTypeOK, Stamped, Upsert, InBatch
  <2>3. [text |-> made[t], by |-> job[r].version] \in Redactions
    BY <1>1, <1>2, <2>2, MadeType
  <2>4. QED
    BY <1>2, <2>1, <2>3
<1>3. CASE t \notin InBatch(r)
  BY <1>1, <1>3
<1>4. QED
  BY <1>2, <1>3

(* The upsert.                                                             *)
LEMMA UpsertInv == ASSUME RedactionInv, NEW r \in Redactors, Upsert(r) PROVE RedactionInv'
<1> USE DEF RedactionInv, RedactionTypeOK
<1>1. TablesTypeOK'
  <2>1. \A t \in Tickets : redaction'[t] \in Redactions \cup {NoRedaction}
    BY UpsertWrites DEF TablesTypeOK
  <2>2. redaction' = [t \in Tickets |-> redaction'[t]] /\ complaint' = complaint
    BY DEF Upsert
  <2>3. QED
    BY <2>1, <2>2 DEF TablesTypeOK
<1>2. PassTypeOK'
  <2>1. job' \in [Redactors -> [home : Slices \cup {NoSlice}, version : Analyzers \cup {0}, refresh : BOOLEAN, left : Int]]
    BY LessType DEF PassTypeOK, Upsert
  <2>2. /\ batch' \in [Redactors -> [Tickets -> Texts \cup {0}]]
        /\ found' \in [Redactors -> [Tickets -> Redactions \cup {NoRedaction}]]
    BY DEF PassTypeOK, Upsert, Drops, NoBatch, NoneFound
  <2>3. QED
    BY <2>1, <2>2 DEF PassTypeOK, Upsert, Goes
<1>3. FlagsTypeOK'
  BY DEF FlagsTypeOK, Upsert
<1>4. \A q \in Redactors : job'[q].version = job[q].version /\ job'[q].refresh = job[q].refresh
  BY DEF PassTypeOK, Upsert
<1>5. Stamped'
  BY <1>4 DEF Stamped, PassTypeOK, Upsert, Goes
<1>6. BatchEligible'
  <2> SUFFICES ASSUME NEW q \in Redactors, NEW t \in Tickets, phase'[q] = "redacting", t \in InBatch(q)'
               PROVE  Eligible(q, t)'
    BY DEF BatchEligible
  <2>1. q # r
    BY DEF PassTypeOK, Upsert, Goes
  <2>2. phase'[q] = phase[q] /\ batch'[q] = batch[q] /\ found'[q] = found[q]
    BY <2>1 DEF PassTypeOK, Upsert, Goes, Drops
  <2>3. QED
    BY <1>4, <2>2 DEF BatchEligible, Eligible, InBatch
<1>7. QED
  BY <1>1, <1>2, <1>3, <1>5, <1>6

(* The end of a run, or its crash.                                         *)
LEMMA StopsInv == ASSUME RedactionInv, NEW r \in Redactors, End(r) \/ Crash(r) PROVE RedactionInv'
<1> USE DEF RedactionInv, RedactionTypeOK
<1>1. Stops(r) /\ UNCHANGED <<tables, changes, moved>>
  BY DEF End, Crash
<1>2. TablesTypeOK' /\ FlagsTypeOK'
  BY <1>1 DEF TablesTypeOK, FlagsTypeOK, tables
<1>3. PassTypeOK'
  BY <1>1 DEF PassTypeOK, Stops, Drops, Goes, NoJob, NoBatch, NoneFound, Unlimited
<1>4. \A q \in Redactors : phase'[q] # "idle" =>
        phase'[q] = phase[q] /\ job'[q] = job[q] /\ batch'[q] = batch[q] /\ found'[q] = found[q]
  BY <1>1 DEF PassTypeOK, Stops, Drops, Goes
<1>5. Stamped'
  BY <1>4 DEF Stamped
<1>6. BatchEligible'
  BY <1>4 DEF BatchEligible, Eligible, InBatch
<1>7. QED
  BY <1>2, <1>3, <1>5, <1>6

(* An update of a complaint.                                               *)
LEMMA EditInv == ASSUME RedactionInv, NEW t \in Tickets, Edit(t) PROVE RedactionInv'
<1> USE DEF RedactionInv, RedactionTypeOK
<1>1. PICK row \in Filings[t] : complaint' = [complaint EXCEPT ![t] = row] /\ moved' = (moved \/ row.home # complaint[t].home)
  BY DEF Edit
<1>2. row \in [text : Texts, home : Slices \cup {NoSlice}, facts : Facts]
  BY FilingsAssumption
<1>3. TablesTypeOK' /\ FlagsTypeOK'
  BY <1>1, <1>2 DEF Edit, TablesTypeOK, FlagsTypeOK
<1>4. PassTypeOK' /\ Stamped' /\ BatchEligible'
  BY DEF Edit, PassTypeOK, Stamped, BatchEligible, Eligible, InBatch, pass
<1>5. QED
  BY <1>3, <1>4

(* Every step.                                                             *)
LEMMA NextInv == RedactionInv /\ [RedactionNext]_redactionVars => RedactionInv'
<1> SUFFICES ASSUME RedactionInv, [RedactionNext]_redactionVars PROVE RedactionInv'
  OBVIOUS
<1>1. CASE UNCHANGED redactionVars
  <2>1. TablesTypeOK' /\ PassTypeOK' /\ FlagsTypeOK'
    BY <1>1 DEF RedactionInv, RedactionTypeOK, redactionVars, tables, pass, TablesTypeOK, PassTypeOK, FlagsTypeOK
  <2>2. Stamped' /\ BatchEligible'
    BY <1>1 DEF RedactionInv, redactionVars, tables, pass, Stamped, BatchEligible, Eligible, InBatch
  <2>3. QED
    BY <2>1, <2>2 DEF RedactionInv, RedactionTypeOK
<1>2. CASE RedactionNext
  BY <1>2, StartInv, LoadInv, UpsertInv, StopsInv, EditInv DEF RedactionNext
<1>3. QED
  BY <1>1, <1>2

-----------------------------------------------------------------------------
(* Theorems *)

(* The invariant holds in every reachable state.                           *)
THEOREM RedactionInvariant == RedactionSpec => []RedactionInv
BY InitInv, NextInv, PTL DEF RedactionSpec

(* The types.                                                              *)
THEOREM RedactionTypeCorrect == RedactionSpec => []RedactionTypeOK
BY RedactionInvariant, PTL DEF RedactionInv

(* A redaction that an upsert replaces and that is still the one its batch *)
(* was chosen by has another stamp, and the run refreshes.                 *)
LEMMA UpsertRewrites ==
    ASSUME RedactionInv, NEW r \in Redactors, NEW t \in Tickets,
           Upsert(r), Redacted(t), redaction'[t] # redaction[t], redaction[t] = found[r][t]
    PROVE  job[r].refresh /\ redaction[t].by # redaction'[t].by
<1>1. t \in InBatch(r) /\ redaction'[t].by = job[r].version
  BY UpsertWrites
<1>2. Eligible(r, t)
  BY <1>1 DEF RedactionInv, BatchEligible, Upsert
<1>3. QED
  BY <1>1, <1>2 DEF Eligible, Redacted

(* However many runs are at work, a redaction is replaced only by a run    *)
(* with --refresh-stale and another stamp, unless it was written after     *)
(* that run had loaded its batch.                                          *)
THEOREM RedactionRewritten == RedactionSpec => RewrittenByRefresh
<1>1. RedactionInv /\ [RedactionNext]_redactionVars =>
        [\A t \in Tickets, r \in Redactors :
           redaction'[t] # redaction[t] /\ Redacted(t) /\ Upsert(r) =>
             \/ job[r].refresh /\ redaction[t].by # redaction'[t].by
             \/ redaction[t] # found[r][t]]_redactionVars
  BY UpsertRewrites
<1>2. QED
  BY <1>1, RedactionInvariant, PTL DEF RedactionSpec, RewrittenByRefresh

=============================================================================
