------------------------- MODULE GrievanceRedaction -------------------------
(***************************************************************************)
(* janasunani-redact-grievance (janasunani/pipeline/redact_grievance.py):  *)
(* a run takes the complaints of one district-year that have no redaction  *)
(* (with --refresh-stale: none by the analyzer of the run), batch by       *)
(* batch: it loads a batch, redacts it off the transaction, and upserts    *)
(* the results whatever the rows have become meanwhile.                    *)
(*                                                                         *)
(* Abstracted: a text is a number; the other columns that the duplicate    *)
(* index reads (date, contact, name, block) are the facts of a complaint.  *)
(* A stamp names an analyzer and is only ever compared for equality: any   *)
(* run may hold any stamp, an earlier one again after a rollback, and      *)
(* working copies that share a stamp may redact differently.  The tickets  *)
(* are the complaints that have a text.                                    *)
(***************************************************************************)
EXTENDS Integers, FiniteSets

CONSTANTS
    Tickets,      \* ticket numbers, in the order of ORDER BY ticket_no
    Slices,       \* district-years
    NoSlice,      \* a complaint without a district or a year
    Redactors,    \* processes that run the command, again and again
    BatchSize,    \* BATCH_SIZE
    PassLimits,   \* values of --limit
    Analyzers,    \* stamps of analyzers
    Redact(_, _), \* Redact(v, x): what those stamped v may make of the text x
    Texts,        \* texts of complaints
    Facts,        \* values of their other columns
    Origins,      \* Origins[t]: rows it may be loaded as
    Filings,      \* Filings[t]: rows it may become by an update
    Earlier,      \* Earlier[t]: redactions it may have by earlier runs
    MaxChanges    \* bound: runs of the redactor and updates of complaints

ASSUME TicketsAssumption == Tickets \subseteq Nat /\ IsFiniteSet(Tickets)
ASSUME SlicesAssumption == NoSlice \notin Slices
ASSUME StampsAssumption == 0 \notin Analyzers /\ 0 \notin Texts
ASSUME FilingsAssumption ==
    \A t \in Tickets : /\ Origins[t] \subseteq [text : Texts, home : Slices, facts : Facts]
                       /\ Filings[t] \subseteq [text : Texts, home : Slices \cup {NoSlice}, facts : Facts]
ASSUME BatchAssumption == BatchSize \in Nat \ {0} /\ PassLimits \subseteq Nat
ASSUME ChangesAssumption == MaxChanges \in Nat

VARIABLES
    complaint,   \* complaint[t]: its text, its district-year and its facts
    redaction,   \* redaction[t]: the redacted text and the stamp
    (* each run of the command *)
    phase,
    job,         \* what it was asked for, and the stamp of its analyzer
    batch,       \* the texts it is redacting
    (* observation *)
    found,       \* found[r][t]: the redaction its batch was chosen by
    changes,
    moved        \* a complaint has changed its district-year

tables == <<complaint, redaction>>
pass   == <<phase, job, batch, found>>
redactionVars == <<tables, pass, changes, moved>>

Unlimited   == -1
NoRedaction == [text |-> 0, by |-> 0]
NoJob       == [home |-> NoSlice, version |-> 0, refresh |-> FALSE, left |-> Unlimited]
NoBatch     == [t \in Tickets |-> 0]
NoneFound   == [t \in Tickets |-> NoRedaction]

(* The redactions an analyzer stamped v may make of x. *)
RedactionsOf(v, x) == {[text |-> y, by |-> v] : y \in Redact(v, x)}

Redactions == UNION {RedactionsOf(v, x) : v \in Analyzers, x \in Texts}

ASSUME EarlierAssumption == \A t \in Tickets : Earlier[t] \subseteq Redactions \cup {NoRedaction}

Redacted(t) == redaction[t].by # 0

(* ORDER BY ticket_no LIMIT n *)
First(S, n) == {t \in S : Cardinality({u \in S : u < t}) < n}

RedactionInit ==
    /\ complaint \in [Tickets -> UNION {Origins[t] : t \in Tickets}]
    /\ \A t \in Tickets : complaint[t] \in Origins[t]
    /\ redaction \in [Tickets -> UNION {Earlier[t] : t \in Tickets}]
    /\ \A t \in Tickets : redaction[t] \in Earlier[t]
    /\ phase = [r \in Redactors |-> "idle"] /\ job = [r \in Redactors |-> NoJob]
    /\ batch = [r \in Redactors |-> NoBatch] /\ found = [r \in Redactors |-> NoneFound]
    /\ changes = 0 /\ moved = FALSE

-----------------------------------------------------------------------------
(* A run *)

(* The analyzer is the one of the checkout the command is run from. *)
Start(r) ==
    /\ phase[r] = "idle" /\ changes < MaxChanges /\ changes' = changes + 1
    /\ \E s \in Slices, refresh \in BOOLEAN, left \in PassLimits \cup {Unlimited} :
         \E version \in Analyzers :
           job' = [job EXCEPT ![r] = [home |-> s, version |-> version, refresh |-> refresh, left |-> left]]
    /\ phase' = [phase EXCEPT ![r] = "loading"]
    /\ UNCHANGED <<tables, batch, found, moved>>

(* Mutant: a stale row counts as pending whether or not the run refreshes. *)
AlwaysStale(r) ==
    {t \in Tickets : complaint[t].home = job[r].home /\ (~Redacted(t) \/ redaction[t].by # job[r].version)}

(* The predicate of _load_pending_batch. *)
Pending(r) ==
    {t \in Tickets : /\ complaint[t].home = job[r].home
                     /\ ~Redacted(t) \/ (job[r].refresh /\ redaction[t].by # job[r].version)}

(* The size of the next batch, for a run with so much of its --limit left. *)
Size(left) == IF left = Unlimited \/ left > BatchSize THEN BatchSize ELSE left

Goes(r, to) == phase' = [phase EXCEPT ![r] = to]

(* The batch is written, or given up. *)
Drops(r) == batch' = [batch EXCEPT ![r] = NoBatch] /\ found' = [found EXCEPT ![r] = NoneFound]

Stops(r) == Goes(r, "idle") /\ job' = [job EXCEPT ![r] = NoJob] /\ Drops(r)

Load(r) ==
    /\ phase[r] = "loading" /\ job[r].left # 0 /\ Pending(r) # {}
    /\ LET chosen == First(Pending(r), Size(job[r].left))
       IN /\ batch' = [batch EXCEPT ![r] = [t \in Tickets |-> IF t \in chosen THEN complaint[t].text ELSE 0]]
          /\ found' = [found EXCEPT ![r] = [t \in Tickets |-> IF t \in chosen THEN redaction[t] ELSE NoRedaction]]
    /\ Goes(r, "redacting")
    /\ UNCHANGED <<tables, job, changes, moved>>

InBatch(r) == {t \in Tickets : batch[r][t] # 0}

(* What a run has left of its --limit once n rows are processed. *)
Less(left, n) == IF left = Unlimited THEN Unlimited ELSE left - n

(* The upsert of a batch. *)
Upsert(r) ==
    /\ phase[r] = "redacting"
    /\ \E made \in [InBatch(r) -> UNION {Redact(job[r].version, x) : x \in Texts}] :
         /\ \A t \in InBatch(r) : made[t] \in Redact(job[r].version, batch[r][t])
         /\ redaction' = [t \in Tickets |-> IF t \in InBatch(r) THEN [text |-> made[t], by |-> job[r].version]
                                            ELSE redaction[t]]
    /\ job' = [job EXCEPT ![r].left = Less(@, Cardinality(InBatch(r)))]
    /\ Drops(r)
    /\ Goes(r, "loading")
    /\ UNCHANGED <<complaint, changes, moved>>

End(r) ==
    /\ phase[r] = "loading" /\ (job[r].left = 0 \/ Pending(r) = {})
    /\ Stops(r)
    /\ UNCHANGED <<tables, changes, moved>>

Crash(r) ==
    /\ phase[r] # "idle"
    /\ Stops(r)
    /\ UNCHANGED <<tables, changes, moved>>

-----------------------------------------------------------------------------
(* What the runs do not control *)

(* create_or_update_complaint, bulk_load_complaints: an update overwrites  *)
(* every column, perhaps with what it held before.                         *)
Edit(t) ==
    /\ changes < MaxChanges /\ changes' = changes + 1
    /\ \E row \in Filings[t] \ {complaint[t]} :
         /\ complaint' = [complaint EXCEPT ![t] = row]
         /\ moved' = (moved \/ row.home # complaint[t].home)
    /\ UNCHANGED <<redaction, pass>>

RedactionNext ==
    \/ \E r \in Redactors : Start(r) \/ Load(r) \/ Upsert(r) \/ End(r) \/ Crash(r)
    \/ \E t \in Tickets : Edit(t)

RedactionSpec == RedactionInit /\ [][RedactionNext]_redactionVars

-----------------------------------------------------------------------------
(* Properties *)

TablesTypeOK ==
    /\ complaint \in [Tickets -> [text : Texts, home : Slices \cup {NoSlice}, facts : Facts]]
    /\ redaction \in [Tickets -> Redactions \cup {NoRedaction}]

PassTypeOK ==
    /\ phase \in [Redactors -> {"idle", "loading", "redacting"}]
    /\ job \in [Redactors -> [home : Slices \cup {NoSlice}, version : Analyzers \cup {0}, refresh : BOOLEAN,
                             left : Int]]
    /\ batch \in [Redactors -> [Tickets -> Texts \cup {0}]]
    /\ found \in [Redactors -> [Tickets -> Redactions \cup {NoRedaction}]]

FlagsTypeOK == changes \in Nat /\ moved \in BOOLEAN

(* The types; a redaction is what an analyzer makes of some text.          *)
RedactionTypeOK == TablesTypeOK /\ PassTypeOK /\ FlagsTypeOK

(* However many runs are at work: a redaction is replaced only by a run    *)
(* with --refresh-stale whose stamp differs, or else it was written after  *)
(* that run had loaded its batch, which the upsert does not look at.       *)
RewrittenByRefresh ==
    [][\A t \in Tickets, r \in Redactors :
         redaction'[t] # redaction[t] /\ Redacted(t) /\ Upsert(r) =>
           \/ job[r].refresh /\ redaction[t].by # redaction'[t].by
           \/ redaction[t] # found[r][t]]_redactionVars

=============================================================================
