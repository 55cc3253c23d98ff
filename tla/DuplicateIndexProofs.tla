------------------------ MODULE DuplicateIndexProofs ------------------------
(***************************************************************************)
(* The types of DuplicateIndex, that an accepted group is sound, that      *)
(* groups stay whole and that a run without --limit certifies its scope.   *)
(*                                                                         *)
(* Soundness: unless a text has changed and come back, one that is what it *)
(* was when the signatures were loaded has been so throughout.  So the     *)
(* second check of the sources vouches for everything read since the       *)
(* first, however it was cut into blocks, persons and batches of texts.    *)
(***************************************************************************)
EXTENDS DuplicateIndex, GrievanceRedactionProofs

Opened == stage \in {"verifying", "persisting"}

Chosen == stage # "idle" => build.scope \in Scopes /\ build.version \in Versions

(* A run that does not group has found nothing and has nothing at hand.    *)
Unlinked == ~Opened => links = {} /\ unit = {} /\ DOMAIN texts = {}

(* What a run is to sign again or has loaded has a redaction.              *)
Held == \A t \in todo \cup Loaded(rows) : t \in Tickets /\ Redacted(t)

(* What it is verifying are loaded rows.                                   *)
Verifying == UNION unit \subseteq Loaded(rows) /\ DOMAIN texts \subseteq Loaded(rows)

TypeInv == RedactionInv /\ SignaturesTypeOK /\ GroupsTypeOK /\ BuildTypeOK /\ Chosen
             /\ Unlinked /\ Held /\ Verifying

(* While a run groups, nobody writes signatures. *)
RowsAreSignatures ==
    Opened => \A t \in Tickets : /\ rows[t] = IF t \in InScope(build.scope) THEN signature[t] ELSE NoSignature
                                 /\ ~rows[t].legacy

(* Soundness *)

RowTexts(rs) == [t \in Tickets |-> rs[t].text]

(* What is found in a block, or for a person, in the texts of the rows.    *)
OfBlock(v, rs, b)  == FoundIn(v, BandBuckets(rs, b), RowTexts(rs))
OfPerson(v, rs, k) == FoundIn(v, IdentityBuckets(rs, {k}), RowTexts(rs))
OfUnit(v, rs, Bs)  == FoundIn(v, Bs, RowTexts(rs))

TextsKept == \A t \in Loaded(rows) : redaction[t].text = rows[t].text

Remaining ==
    stage = "verifying" =>
      blocks \subseteq Blocks(rows) /\ people \subseteq People(rows) /\ unit \subseteq AllBuckets(rows)

(* What has been verified of the picked blocks and persons is found; what  *)
(* has not is in the buckets at hand.                                      *)
Linking(v, rs, bs, ks, Bs, pairs) ==
    /\ pairs \subseteq Duplicates(v, rs)
    /\ \A b \in Blocks(rs) \ bs : OfBlock(v, rs, b) \subseteq pairs \cup OfUnit(v, rs, Bs)
    /\ \A k \in People(rs) \ ks : OfPerson(v, rs, k) \subseteq pairs \cup OfUnit(v, rs, Bs)

TextsRead == \A t \in DOMAIN texts : texts[t] = rows[t].text

VerifiedSoFar ==
    stage = "verifying" /\ ~returned /\ TextsKept =>
      TextsRead /\ Linking(build.version, rows, blocks, people, unit, links)

AllVerified == stage = "persisting" /\ ~returned => links = Duplicates(build.version, rows)

GroupsStamped ==
    \A t \in Tickets : Grouped(t) =>
      /\ t \in Loaded(group[t].scope)
      /\ group[t].snapshot = Snapshot(group[t].scope, group[t].home)

GroupsAreDuplicates ==
    \A t, u \in Tickets \ doubtful :
        Grouped(t) /\ Grouped(u) /\ group[t].scope = group[u].scope /\ group[t].version = group[u].version =>
          (group[t].id = group[u].id <=> Linked(Duplicates(group[t].version, group[t].scope), t, u))

SoundInv ==
    /\ RowsAreSignatures /\ Remaining /\ VerifiedSoFar /\ AllVerified
    /\ GroupsStamped /\ GroupsAreDuplicates

(* Whole groups *)

Homes ==
    \A t \in Tickets :
      /\ Grouped(t) => Indexed(t)
      /\ ~moved /\ Indexed(t) => signature[t].home = complaint[t].home
      /\ ~moved /\ Grouped(t) => group[t].home = complaint[t].home

Contained == Opened => ~Straddles(build.scope)

Rooted ==
    ~moved => \A t \in Tickets : Grouped(t) =>
      LET i == group[t].id IN i \in Tickets /\ Grouped(i) /\ group[i].id = i

WholeInv == Homes /\ Contained /\ Rooted /\ GroupsWhole

(* Certification *)

Covered ==
    quiet /\ build.left = Unlimited /\ stage \in {"grouping", "verifying", "persisting"} =>
      \A t \in Tickets : complaint[t].home \in build.scope /\ Redacted(t) => Indexed(t)

Current ==
    quiet /\ Opened =>
      \A t \in Loaded(rows) : Redacted(t) /\ Record(rows[t]) = Record(Fresh(t, 0))

CertifyInv == Covered /\ Current

-----------------------------------------------------------------------------
(* Steps *)

(* A step of the redactor, of the index, or of nobody.                     *)
LEMMA Steps ==
    ASSUME [Next]_vars
    PROVE  \/ RedactionNext /\ Sourced /\ UNCHANGED <<index, stage, build, work, doubtful>>
           \/ BuildNext /\ UNCHANGED redactionVars
           \/ UNCHANGED vars
BY DEF Next

(* To the redactor every step is one of its own or none.                   *)
LEMMA RedactionStep == ASSUME [Next]_vars PROVE [RedactionNext]_redactionVars
BY DEF Next, vars

(* Signatures are written by the first two stages, groups by the last.     *)
LEMMA IndexFrame ==
    ASSUME [Next]_vars
    PROVE  /\ signature' = signature \/ Refresh \/ Index
           /\ UNCHANGED <<group, doubtful>> \/ Persist
<1>1. CASE BuildNext
  BY <1>1 DEF BuildNext, BuildStep, index, flags, StartBuild, Refresh, Index, IndexDone, LoadSignatures,
              PickBlock, PickPeople, ReadTexts, CheckAgain, Persist, CrashBuild
<1>2. QED
  BY <1>1, Steps DEF vars, indexVars, index, flags

(* From loading the signatures to persisting the groups, a run keeps what  *)
(* it was asked for and what it loaded.                                    *)
LEMMA OpenedFrame ==
    ASSUME [Next]_vars, Opened'
    PROVE  \/ LoadSignatures
           \/ /\ Opened /\ (stage' = "verifying" => stage = "verifying")
              /\ UNCHANGED <<build, rows, index>>
              /\ (quiet' => quiet /\ UNCHANGED tables)
              /\ (~returned' => ~returned)
<1>1. CASE BuildNext /\ UNCHANGED redactionVars
  <2>1. PickBlock \/ PickPeople \/ ReadTexts \/ CheckAgain \/ LoadSignatures
    BY <1>1 DEF BuildNext, BuildStep, Opened, StartBuild, Refresh, Index, IndexDone, Persist, CrashBuild, Idle
  <2>2. QED
    BY <1>1, <2>1 DEF PickBlock, PickPeople, ReadTexts, CheckAgain, AllRead, Opened, Idle, work, index, flags,
       redactionVars
<1>2. QED
  BY <1>1, Steps DEF Opened, Sourced, vars, indexVars, index, work, flags, redactionVars

-----------------------------------------------------------------------------
(* Types *)

(* A redacted text is what an analyzer makes of one.                       *)
LEMMA RedactedText ==
    ASSUME RedactionInv, NEW t \in Tickets, Redacted(t)
    PROVE  redaction[t].text \in RedactedTexts
<1>1. redaction[t] \in Redactions
  BY DEF RedactionInv, RedactionTypeOK, TablesTypeOK, Redacted, NoRedaction
<1>2. QED
  BY <1>1 DEF RedactedTexts

(* A redaction is replaced, never taken back.                              *)
LEMMA RedactedStays ==
    ASSUME RedactionInv, [Next]_vars, NEW t \in Tickets, Redacted(t)
    PROVE  Redacted(t)'
<1>1. CASE \E r \in Redactors : Upsert(r)
  <2>1. PICK r \in Redactors : Upsert(r)
    BY <1>1
  <2>2. job[r].version \in Analyzers
    BY <2>1 DEF RedactionInv, Stamped, Upsert
  <2>3. redaction'[t] = redaction[t] \/ redaction'[t].by = job[r].version
    BY <2>1, UpsertWrites
  <2>4. QED
    BY <2>2, <2>3, StampsAssumption DEF Redacted
<1>2. CASE ~\E r \in Redactors : Upsert(r)
  <2>1. redaction' = redaction
    BY <1>2, RedactionStep DEF RedactionNext, Start, Load, End, Crash, Edit, redactionVars, tables
  <2>2. QED
    BY <2>1 DEF Redacted
<1>3. QED
  BY <1>1, <1>2

(* What is written for a redacted ticket of a slice is a signature.        *)
LEMMA FreshType ==
    ASSUME TypeInv, NEW t \in Tickets, complaint[t].home \in Slices, Redacted(t), NEW v \in Versions
    PROVE  Fresh(t, v) \in Signatures
<1>1. redaction[t].text \in RedactedTexts
  BY RedactedText DEF TypeInv
<1>2. complaint[t].facts \in Facts
  BY DEF TypeInv, RedactionInv, RedactionTypeOK, TablesTypeOK
<1>3. QED
  BY <1>1, <1>2 DEF Fresh, Signatures

(* A written batch keeps the signatures in their type.                     *)
LEMMA WriteType ==
    ASSUME TypeInv, stage # "idle", NEW chunk,
           \A t \in chunk \cap Tickets : complaint[t].home \in Slices /\ Redacted(t), Write(chunk)
    PROVE  SignaturesTypeOK'
<1>1. build.version \in Versions
  BY DEF TypeInv, Chosen
<1>2. \A t \in Tickets : t \in chunk => Fresh(t, build.version) \in Signatures
  BY <1>1, FreshType
<1>3. \A t \in Tickets : (IF t \in chunk THEN Fresh(t, build.version) ELSE signature[t]) \in Signatures
  BY <1>2 DEF TypeInv, SignaturesTypeOK
<1>4. Signatures' = Signatures
  BY DEF Signatures, NoSignature
<1>5. QED
  BY <1>3, <1>4 DEF Write, SignaturesTypeOK

(* A complaint to index is filed under a slice of the scope.               *)
LEMMA ToIndexHomes == ASSUME TypeInv, NEW t \in ToIndex PROVE complaint[t].home \in Slices /\ Redacted(t)
<1>1. build.scope \subseteq Slices
  BY ScopesAssumption DEF TypeInv, BuildTypeOK
<1>2. QED
  BY <1>1 DEF ToIndex

(* The signatures.                                                         *)
LEMMA SignaturesInv == ASSUME TypeInv, [Next]_vars PROVE SignaturesTypeOK'
<1>1. CASE Refresh
  <2>1. CASE \E t \in First(todo, BatchSize) : complaint[t].home = NoSlice
    BY <1>1, <2>1 DEF Refresh, TypeInv, SignaturesTypeOK, Signatures, NoSignature
  <2>2. CASE ~\E t \in First(todo, BatchSize) : complaint[t].home = NoSlice
    <3>1. \A t \in First(todo, BatchSize) \cap Tickets : complaint[t].home \in Slices /\ Redacted(t)
      <4>1. First(todo, BatchSize) \subseteq todo
        BY DEF First
      <4>2. QED
        BY <2>2, <4>1 DEF TypeInv, Held, RedactionInv, RedactionTypeOK, TablesTypeOK
    <3>2. Write(First(todo, BatchSize)) /\ stage # "idle"
      BY <1>1, <2>2 DEF Refresh
    <3>3. QED
      BY <3>1, <3>2, WriteType
  <2>3. QED
    BY <2>1, <2>2
<1>2. CASE Index
  <2>1. First(ToIndex, Size(build.left)) \subseteq ToIndex
    BY DEF First
  <2>2. \A t \in First(ToIndex, Size(build.left)) \cap Tickets : complaint[t].home \in Slices /\ Redacted(t)
    BY <2>1, ToIndexHomes
  <2>3. Write(First(ToIndex, Size(build.left))) /\ stage # "idle"
    BY <1>2 DEF Index
  <2>4. QED
    BY <2>2, <2>3, WriteType
<1>3. CASE signature' = signature
  BY <1>3 DEF TypeInv, SignaturesTypeOK, Signatures, NoSignature
<1>4. QED
  BY <1>1, <1>2, <1>3, IndexFrame

(* A row that is no signature has no version, and a signature has a slice. *)
LEMMA SignatureHome ==
    ASSUME NEW f \in [Tickets -> Signatures], NEW t \in Loaded(f)
    PROVE  t \in Tickets /\ f[t].home \in Slices /\ f[t].version \in Versions
BY DEF Loaded, Signatures, NoSignature

(* A set of tickets has a size.                                            *)
LEMMA TicketsFinite == ASSUME NEW S \in SUBSET Tickets
                       PROVE  /\ IsFiniteSet(S) /\ Cardinality(S) \in Nat
                              /\ S # {} => Cardinality(S) # 0
BY TicketsAssumption, FS_Subset, FS_CardinalityType, FS_EmptySet

(* The size of a component.                                                *)
LEMMA SizeType == ASSUME NEW root, NEW t \in Loaded(rows)
                  PROVE  SizeOf(root, t) \in Nat \ {0}
<1>1. {u \in Loaded(rows) : root[u] = root[t]} \in SUBSET Tickets /\ t \in {u \in Loaded(rows) : root[u] = root[t]}
  BY DEF Loaded
<1>2. QED
  BY <1>1, TicketsFinite DEF SizeOf

(* The groups.                                                             *)
LEMMA GroupsInv == ASSUME TypeInv, [Next]_vars PROVE GroupsTypeOK'
<1>1. CASE Persist
  <2>1. PICK root \in [Loaded(rows) -> Loaded(rows)] :
          group' = [t \in Tickets |-> IF t \in Loaded(rows) THEN GroupRow(root, t) ELSE group[t]]
    BY <1>1 DEF Persist
  <2>2. ASSUME NEW t \in Tickets
        PROVE  /\ group'[t].home \in Slices \/ group'[t] = NoGroup
               /\ group'[t].id \in Tickets \cup {0} /\ group'[t].size \in Nat
               /\ group'[t].scope \in [Tickets -> Signatures] /\ group'[t].version \in Versions \cup {0}
    <3>1. CASE t \in Loaded(rows)
      <4>1. group'[t] = GroupRow(root, t)
        BY <2>1, <3>1
      <4>2. rows \in [Tickets -> Signatures] /\ build.version \in Versions \cup {0}
        BY DEF TypeInv, BuildTypeOK
      <4>3. root[t] \in Tickets
        BY <3>1 DEF Loaded
      <4>4. QED
        BY <3>1, <4>1, <4>2, <4>3, SignatureHome, SizeType DEF GroupRow
    <3>2. CASE t \notin Loaded(rows)
      <4>1. group'[t] = group[t]
        BY <2>1, <3>2
      <4>2. QED
        BY <4>1 DEF TypeInv, GroupsTypeOK
    <3>3. QED
      BY <3>1, <3>2
  <2>3. Signatures' = Signatures /\ NoGroup' = NoGroup
    BY DEF Signatures, NoSignature, NoGroup, NoRows
  <2>4. QED
    BY <2>2, <2>3 DEF GroupsTypeOK
<1>2. CASE group' = group
  BY <1>2 DEF TypeInv, GroupsTypeOK, Signatures, NoSignature, NoGroup, NoRows
<1>3. QED
  BY <1>1, <1>2, IndexFrame

(* Buckets are of loaded rows.                                             *)
LEMMA BucketsLoaded ==
    ASSUME NEW rs
    PROVE  /\ \A ks : \A B \in IdentityBuckets(rs, ks) : B \subseteq Loaded(rs)
           /\ \A b : \A B \in BandBuckets(rs, b) : B \subseteq Loaded(rs)
<1>1. \A ks : \A B \in IdentityBuckets(rs, ks) : B \subseteq Loaded(rs)
  BY DEF IdentityBuckets, Shared
<1>2. \A b : \A B \in BandBuckets(rs, b) : B \subseteq Loaded(rs)
  BY DEF BandBuckets, Shared
<1>3. QED
  BY <1>1, <1>2

(* What is found are pairs of tickets of the buckets.                      *)
LEMMA FoundTickets ==
    ASSUME NEW v, NEW Bs, NEW text, UNION Bs \subseteq Tickets
    PROVE  FoundIn(v, Bs, text) \subseteq Tickets \X Tickets
<1>1. \A B : Compared(B) \subseteq B \X B
  BY DEF Compared
<1>2. QED
  BY <1>1 DEF FoundIn

(* Nothing is a build, and no rows are rows.                               *)
LEMMA NothingType ==
    /\ NoBuild \in [scope : Scopes \cup {{}}, version : Versions \cup {0}, refresh : BOOLEAN, left : Int]
    /\ NoRows \in [Tickets -> Signatures]
<1>1. NoBuild \in [scope : Scopes \cup {{}}, version : Versions \cup {0}, refresh : BOOLEAN, left : Int]
  BY DEF NoBuild, Unlimited
<1>2. NoRows \in [Tickets -> Signatures]
  BY DEF NoRows, Signatures
<1>3. QED
  BY <1>1, <1>2

(* A run that ends leaves nothing.                                         *)
LEMMA IdleType ==
    ASSUME BuildTypeOK, Idle, doubtful' \subseteq Tickets
    PROVE  BuildTypeOK' /\ Chosen' /\ ~Opened' /\ Held' /\ Verifying'
<1>1. Signatures' = Signatures
  BY DEF Signatures, NoSignature
<1>2. BuildTypeOK' /\ Chosen' /\ ~Opened'
  BY <1>1, NothingType DEF Idle, BuildTypeOK, Chosen, Opened, NoTexts, RedactedTexts
<1>3. Loaded(rows') = {}
  BY DEF Idle, Loaded, NoRows, NoSignature
<1>4. Held' /\ Verifying'
  BY <1>3 DEF Idle, Held, Verifying, NoTexts, Loaded
<1>5. QED
  BY <1>2, <1>4

(* The texts of loaded rows are redacted ones.                             *)
LEMMA ReadType ==
    ASSUME TypeInv, NEW chunk, chunk \subseteq Loaded(rows),
           texts' = [t \in DOMAIN texts \cup chunk |-> IF t \in chunk THEN redaction[t].text ELSE texts[t]]
    PROVE  texts' \in [DOMAIN texts' -> RedactedTexts] /\ DOMAIN texts' \subseteq Loaded(rows)
<1>1. \A t \in chunk : redaction[t].text \in RedactedTexts
  BY RedactedText DEF TypeInv, Held
<1>2. \A t \in DOMAIN texts : texts[t] \in RedactedTexts
  BY DEF TypeInv, BuildTypeOK
<1>3. \A t \in DOMAIN texts \cup chunk : (IF t \in chunk THEN redaction[t].text ELSE texts[t]) \in RedactedTexts
  BY <1>1, <1>2
<1>4. DOMAIN texts \subseteq Loaded(rows)
  BY DEF TypeInv, Verifying
<1>5. QED
  BY <1>3, <1>4

(* A run that has not ended goes on.                                       *)
LEMMA NotIdle == ASSUME Opened' PROVE ~Idle
BY DEF Opened, Idle

(* What a run that goes on to verify has just loaded.                      *)
LEMMA LoadedStep ==
    ASSUME LoadSignatures, Opened'
    PROVE  /\ stage' = "verifying" /\ UNCHANGED <<index, build, todo, unit, texts, links, quiet, returned, doubtful>>
           /\ \A t \in Tickets : rows'[t] = IF t \in InScope(build.scope) THEN signature[t] ELSE NoSignature
           /\ blocks' = Blocks(rows') /\ people' = People(rows')
           /\ SourceIsCurrent(build.scope) /\ ~Straddles(build.scope)
           /\ \A t \in InScope(build.scope) : ~signature[t].legacy
<1>1. ~Idle
  BY NotIdle
<1>2. QED
  BY <1>1 DEF LoadSignatures

(* Where the sources are current, each signature says what its source is.  *)
LEMMA CurrentSources ==
    ASSUME NEW S, SourceIsCurrent(S), NEW t \in InScope(S), ~signature[t].legacy
    PROVE  Redacted(t) /\ Record(signature[t]) = Record(Fresh(t, 0))
<1>1. HasSource(t)
  BY DEF SourceIsCurrent, MissingSource
<1>2. SameSource(signature[t], Fresh(t, 0))
  BY <1>1 DEF SourceIsCurrent, Mismatched
<1>3. QED
  BY <1>1, <1>2 DEF HasSource, SameSource

(* What the loaded rows say when they are loaded.                          *)
LEMMA LoadedCurrent ==
    ASSUME LoadSignatures, Opened', NEW t \in Loaded(rows')
    PROVE  Redacted(t) /\ Record(rows'[t]) = Record(Fresh(t, 0))
<1>1. t \in InScope(build.scope) /\ rows'[t] = signature[t]
  BY LoadedStep DEF Loaded, NoSignature
<1>2. QED
  BY <1>1, LoadedStep, CurrentSources

(* Before it verifies, a run has nothing at hand and nothing found.        *)
LEMMA UnlinkedInv == ASSUME Unlinked, [Next]_vars PROVE Unlinked'
<1> SUFFICES ASSUME ~Opened' PROVE links' = {} /\ unit' = {} /\ DOMAIN texts' = {}
  BY DEF Unlinked
<1>1. \/ links' = {} /\ unit' = {} /\ texts' = NoTexts
      \/ UNCHANGED <<unit, texts, links>> /\ ~Opened
  BY Steps DEF Opened, BuildNext, BuildStep, StartBuild, Refresh, Index, IndexDone, LoadSignatures, PickBlock,
       PickPeople, ReadTexts, CheckAgain, Persist, CrashBuild, Idle, work, vars, indexVars
<1>2. QED
  BY <1>1 DEF Unlinked, NoTexts

(* Reading keeps to the rows at hand.                                      *)
LEMMA ReadStep ==
    ASSUME TypeInv, ReadTexts
    PROVE  /\ links' \subseteq Tickets \X Tickets
           /\ texts' \in [DOMAIN texts' -> RedactedTexts] /\ DOMAIN texts' \subseteq Loaded(rows)
<1> DEFINE chunk == First(Unread, BatchSize)
           read  == [t \in DOMAIN texts \cup chunk |-> IF t \in chunk THEN redaction[t].text ELSE texts[t]]
<1>1. UNION unit \subseteq Loaded(rows) /\ UNION unit \subseteq Tickets
  BY DEF TypeInv, Verifying, Loaded
<1>2. chunk \subseteq Loaded(rows)
  BY <1>1 DEF First, Unread
<1>3. \/ texts' = read /\ UNCHANGED <<unit, links>>
      \/ links' = links \cup FoundIn(build.version, unit, read) /\ texts' = NoTexts
  BY DEF ReadTexts
<1> HIDE DEF chunk
<1>4. CASE texts' = read /\ UNCHANGED <<unit, links>>
  BY <1>2, <1>4, ReadType DEF TypeInv, BuildTypeOK
<1>5. CASE links' = links \cup FoundIn(build.version, unit, read) /\ texts' = NoTexts
  <2>1. FoundIn(build.version, unit, read) \subseteq Tickets \X Tickets
    BY <1>1, FoundTickets
  <2>2. links \subseteq Tickets \X Tickets
    BY DEF TypeInv, BuildTypeOK
  <2>3. QED
    BY <1>5, <2>1, <2>2 DEF NoTexts
<1>6. QED
  BY <1>3, <1>4, <1>5

(* What the run was asked for, and what it holds.                          *)
LEMMA BuildInv == ASSUME TypeInv, [Next]_vars PROVE BuildTypeOK' /\ Chosen'
<1> USE DEF TypeInv
<1>0. Signatures' = Signatures /\ RedactedTexts' = RedactedTexts
  BY DEF Signatures, NoSignature, RedactedTexts
<1>1. CASE StartBuild
  <2>1. PICK S \in Scopes, v \in Rotated, refresh \in BOOLEAN, left \in Limits \cup {Unlimited} :
          /\ build' = [scope |-> S, version |-> v, refresh |-> refresh, left |-> left]
          /\ todo' = Mismatched(S)
    BY <1>1 DEF StartBuild
  <2>2. v \in Versions /\ left \in Int
    BY VersionsAssumption DEF Unlimited
  <2>3. build' \in [scope : Scopes \cup {{}}, version : Versions \cup {0}, refresh : BOOLEAN, left : Int]
    BY <2>1, <2>2
  <2>4. todo' \subseteq Tickets
    BY <2>1 DEF Mismatched, InScope
  <2>5. QED
    BY <1>0, <1>1, <2>1, <2>2, <2>3, <2>4 DEF StartBuild, BuildTypeOK, Chosen
<1>2. CASE Refresh
  <2>1. CASE Idle
    BY <1>2, <2>1, IdleType DEF Refresh, BuildTypeOK
  <2>2. CASE ~Idle
    BY <1>0, <1>2, <2>2 DEF Refresh, BuildTypeOK, Chosen
  <2>3. QED
    BY <2>1, <2>2
<1>3. CASE Index
  <2>1. PICK chunk : chunk \subseteq Tickets /\ build' = [build EXCEPT !.left = Less(@, Cardinality(chunk))]
    <3>1. First(ToIndex, Size(build.left)) \subseteq Tickets
      BY DEF First, ToIndex
    <3>2. QED
      BY <1>3, <3>1 DEF Index
  <2>2. Less(build.left, Cardinality(chunk)) \in Int
    <3>1. Cardinality(chunk) \in Nat /\ build.left \in Int
      BY <2>1, TicketsFinite DEF BuildTypeOK
    <3>2. QED
      BY <3>1 DEF Less, Unlimited
  <2>3. /\ build' \in [scope : Scopes \cup {{}}, version : Versions \cup {0}, refresh : BOOLEAN, left : Int]
        /\ build'.scope = build.scope /\ build'.version = build.version
    BY <2>1, <2>2 DEF BuildTypeOK
  <2>4. QED
    BY <1>0, <1>3, <2>3 DEF Index, BuildTypeOK, Chosen, work, flags
<1>4. CASE IndexDone
  BY <1>0, <1>4 DEF IndexDone, BuildTypeOK, Chosen, work, flags
<1>5. CASE LoadSignatures
  <2>1. CASE Idle
    BY <1>5, <2>1, IdleType DEF LoadSignatures, BuildTypeOK
  <2>2. CASE ~Idle
    <3>1. /\ stage = "grouping" /\ stage' = "verifying"
          /\ UNCHANGED <<build, todo, texts, links, quiet, returned, doubtful>>
          /\ rows' = [t \in Tickets |-> IF t \in InScope(build.scope) THEN signature[t] ELSE NoSignature]
      BY <1>5, <2>2 DEF LoadSignatures
    <3>2. rows' \in [Tickets -> Signatures]
      BY <3>1 DEF SignaturesTypeOK, Signatures
    <3>3. QED
      BY <1>0, <3>1, <3>2 DEF BuildTypeOK, Chosen
  <2>3. QED
    BY <2>1, <2>2
<1>6. CASE PickBlock \/ PickPeople
  BY <1>0, <1>6 DEF PickBlock, PickPeople, BuildTypeOK, Chosen, flags
<1>7. CASE ReadTexts
  <2>1. /\ links' \subseteq Tickets \X Tickets
        /\ texts' \in [DOMAIN texts' -> RedactedTexts]
    BY <1>7, ReadStep
  <2>2. UNCHANGED <<stage, build, todo, rows, flags>>
    BY <1>7 DEF ReadTexts
  <2>3. QED
    BY <1>0, <2>1, <2>2 DEF BuildTypeOK, Chosen, flags
<1>8. CASE CheckAgain
  <2>1. CASE Idle
    BY <1>8, <2>1, IdleType DEF CheckAgain, BuildTypeOK
  <2>2. CASE ~Idle
    <3>1. stage' = "persisting" /\ stage # "idle" /\ UNCHANGED <<build, work, flags>>
      BY <1>8, <2>2 DEF CheckAgain, AllRead, flags
    <3>2. QED
      BY <1>0, <3>1 DEF BuildTypeOK, Chosen, work, flags
  <2>3. QED
    BY <2>1, <2>2
<1>9. CASE Persist \/ CrashBuild
  <2>1. doubtful' \subseteq Tickets /\ Idle
    BY <1>9 DEF Persist, CrashBuild, BuildTypeOK, Loaded
  <2>2. QED
    BY <2>1, IdleType
<1>10. CASE UNCHANGED <<stage, build, work, doubtful>> /\ (UNCHANGED flags \/ Sourced)
  BY <1>0, <1>10 DEF Sourced, BuildTypeOK, Chosen, work, flags
<1>11. QED
  BY <1>1, <1>2, <1>3, <1>4, <1>5, <1>6, <1>7, <1>8, <1>9, <1>10, Steps
     DEF BuildNext, BuildStep, vars, indexVars, index, flags

(* A run holds what the sources had when it took it, and they keep it.     *)
LEMMA HeldInv == ASSUME TypeInv, [Next]_vars PROVE Held'
<1> USE DEF TypeInv
<1>1. CASE Loaded(rows') \subseteq Loaded(rows) /\ todo' \subseteq todo
  BY <1>1, RedactedStays DEF Held, Loaded
<1>2. CASE StartBuild
  <2>1. rows' = rows /\ \E S : todo' = Mismatched(S)
    BY <1>2 DEF StartBuild
  <2>2. \A t \in todo' : t \in Tickets /\ Redacted(t)
    BY <2>1 DEF Mismatched, HasSource, InScope
  <2>3. QED
    BY <2>1, <2>2, RedactedStays DEF Held, Loaded
<1>3. CASE LoadSignatures /\ Opened'
  <2>1. todo' = todo /\ \A t \in Loaded(rows') : t \in Tickets /\ Redacted(t)
    BY <1>3, LoadedCurrent, NotIdle DEF LoadSignatures, Loaded
  <2>2. QED
    BY <2>1, RedactedStays DEF Held, Loaded
<1>4. CASE Idle /\ doubtful' \subseteq Tickets
  BY <1>4, IdleType
<1>5. CASE ~Idle /\ ~StartBuild /\ ~LoadSignatures
  <2>1. rows' = rows /\ todo' \subseteq todo
    BY <1>5, Steps DEF BuildNext, BuildStep, Refresh, Index, IndexDone, PickBlock, PickPeople, ReadTexts, CheckAgain,
         Persist, CrashBuild, work, vars, indexVars
  <2>2. QED
    BY <1>1, <2>1
<1>6. LoadSignatures => Opened' \/ Idle
  BY DEF LoadSignatures, Opened
<1>7. doubtful' \subseteq Tickets
  BY BuildInv DEF BuildTypeOK
<1>8. QED
  BY <1>2, <1>3, <1>4, <1>5, <1>6, <1>7

(* A run verifies what it has loaded.                                      *)
LEMMA VerifyingInv == ASSUME TypeInv, [Next]_vars PROVE Verifying'
<1> USE DEF TypeInv
<1>1. CASE PickBlock \/ PickPeople
  <2>1. rows' = rows /\ texts' = texts /\ UNION unit' \subseteq Loaded(rows)
    BY <1>1, BucketsLoaded DEF PickBlock, PickPeople
  <2>2. QED
    BY <2>1 DEF Verifying, Loaded
<1>2. CASE ReadTexts
  <2>1. rows' = rows /\ unit' \subseteq unit /\ DOMAIN texts' \subseteq Loaded(rows)
    BY <1>2, ReadStep DEF ReadTexts
  <2>2. QED
    BY <2>1 DEF Verifying, Loaded
<1>3. CASE LoadSignatures /\ ~Idle
  <2>1. unit = {} /\ DOMAIN texts = {} /\ UNCHANGED <<unit, texts>>
    BY <1>3 DEF LoadSignatures, Unlinked, Opened
  <2>2. QED
    BY <2>1 DEF Verifying
<1>4. CASE Idle
  BY <1>4, BuildInv, IdleType DEF BuildTypeOK
<1>5. CASE UNCHANGED <<rows, unit, texts>>
  BY <1>5 DEF Verifying, Loaded
<1>6. QED
  BY <1>1, <1>2, <1>3, <1>4, <1>5, Steps DEF BuildNext, BuildStep, StartBuild, Refresh, Index, IndexDone, CheckAgain,
     LoadSignatures, Persist, CrashBuild, work, vars, indexVars

(* Every step keeps the types.                                             *)
LEMMA TypeNext == TypeInv /\ [Next]_vars => TypeInv'
<1> SUFFICES ASSUME TypeInv, [Next]_vars PROVE TypeInv'
  OBVIOUS
<1>1. RedactionInv'
  BY RedactionStep, NextInv DEF TypeInv
<1>2. QED
  BY <1>1, SignaturesInv, GroupsInv, BuildInv, UnlinkedInv, HeldInv, VerifyingInv DEF TypeInv

(* The index starts in the types.                                          *)
LEMMA TypeInit == Init => TypeInv
<1> SUFFICES ASSUME Init PROVE TypeInv
  OBVIOUS
<1>1. RedactionInv
  BY InitInv DEF Init
<1>2. SignaturesTypeOK
  <2>1. \A t \in Tickets : complaint[t].home \in Slices /\ complaint[t].facts \in Facts
    BY FilingsAssumption DEF Init, RedactionInit
  <2>2. ASSUME NEW t \in Tickets, Before[t] # 0 PROVE redaction[t].text \in RedactedTexts
    <3>1. redaction[t] \in Earlier[t] /\ NoRedaction \notin Earlier[t]
      BY <2>2, BeforeAssumption DEF Init, RedactionInit
    <3>2. redaction[t] \in Redactions
      BY <3>1, EarlierAssumption
    <3>3. QED
      BY <3>2 DEF RedactedTexts
  <2>3. ASSUME NEW t \in Tickets PROVE signature[t] \in Signatures
    <3>1. CASE Before[t] = 0
      BY <3>1 DEF Init, Signatures
    <3>2. CASE Before[t] # 0
      <4>1. signature[t] = [home |-> complaint[t].home, facts |-> complaint[t].facts, text |-> redaction[t].text,
                            version |-> Before[t], legacy |-> t \in Legacy]
        BY <3>2 DEF Init
      <4>2. Before[t] \in Versions /\ (t \in Legacy) \in BOOLEAN
        BY <3>2, BeforeAssumption
      <4>3. QED
        BY <2>1, <2>2, <3>2, <4>1, <4>2 DEF Signatures
    <3>3. QED
      BY <3>1, <3>2
  <2>4. QED
    BY <2>3 DEF SignaturesTypeOK, Init
<1>3. GroupsTypeOK
  BY DEF Init, GroupsTypeOK, NoGroup, NoRows, Signatures
<1>4. BuildTypeOK /\ Chosen
  BY NothingType DEF Init, BuildTypeOK, Chosen, NoTexts
<1>5. Unlinked /\ Held /\ Verifying
  BY DEF Init, Unlinked, Held, Verifying, Loaded, NoRows, NoSignature, NoTexts
<1>6. QED
  BY <1>1, <1>2, <1>3, <1>4, <1>5 DEF TypeInv

-----------------------------------------------------------------------------
(* Soundness *)

(* The rows of a run are the signatures of its scope.                      *)
LEMMA RowsInv == ASSUME RowsAreSignatures, [Next]_vars PROVE RowsAreSignatures'
<1> SUFFICES ASSUME Opened'
             PROVE  \A t \in Tickets :
                      /\ rows'[t] = IF t \in InScope(build.scope)' THEN signature'[t] ELSE NoSignature'
                      /\ ~rows'[t].legacy
  BY DEF RowsAreSignatures
<1>1. NoSignature' = NoSignature
  BY DEF NoSignature
<1>2. CASE LoadSignatures
  <2>1. InScope(build.scope)' = InScope(build.scope) /\ signature' = signature
    BY <1>2, LoadedStep DEF InScope, Indexed, index
  <2>2. \A t \in Tickets : rows'[t] = IF t \in InScope(build.scope) THEN signature[t] ELSE NoSignature
    BY <1>2, LoadedStep
  <2>3. \A t \in Tickets : ~rows'[t].legacy
    BY <1>2, <2>2, LoadedStep DEF NoSignature
  <2>4. QED
    BY <1>1, <2>1, <2>2, <2>3
<1>3. CASE Opened /\ UNCHANGED <<build, rows, index>>
  <2>1. InScope(build.scope)' = InScope(build.scope) /\ signature' = signature /\ rows' = rows
    BY <1>3, Zenon DEF InScope, Indexed, index
  <2>2. QED
    BY <1>1, <1>3, <2>1 DEF RowsAreSignatures
<1>4. QED
  BY <1>2, <1>3, OpenedFrame

(* The tickets of the loaded rows are those of the scope.                  *)
LEMMA LoadedScope ==
    ASSUME Opened, RowsAreSignatures
    PROVE  /\ Loaded(rows) = InScope(build.scope)
           /\ \A t \in Loaded(rows) : rows[t] = signature[t]
BY DEF Loaded, RowsAreSignatures, InScope, Indexed, NoSignature

(* What the loaded rows say when the sources are checked again.            *)
LEMMA CheckedCurrent ==
    ASSUME RowsAreSignatures, CheckAgain, Opened', NEW t \in Loaded(rows)
    PROVE  redaction[t].text = rows[t].text
<1>1. SourceIsCurrent(build.scope) /\ Opened
  BY NotIdle DEF CheckAgain, AllRead, Opened
<1>2. t \in InScope(build.scope) /\ rows[t] = signature[t] /\ ~rows[t].legacy
  BY <1>1, LoadedScope DEF RowsAreSignatures, Loaded
<1>3. QED
  BY <1>1, <1>2, CurrentSources DEF Record, Fresh

(* The buckets of some persons are those of each of them.                  *)
LEMMA PersonBuckets ==
    ASSUME NEW rs
    PROVE  /\ \A ks, ls : ks \subseteq ls => IdentityBuckets(rs, ks) \subseteq IdentityBuckets(rs, ls)
           /\ \A ks : \A B \in IdentityBuckets(rs, ks) : \E k \in ks : B \in IdentityBuckets(rs, {k})
           /\ \A ks : \A k \in ks : IdentityBuckets(rs, {k}) \subseteq IdentityBuckets(rs, ks)
<1>1. \A B, ks : B \in IdentityBuckets(rs, ks) <=>
        Cardinality(B) > 1 /\ \E k \in ks : B = {t \in Loaded(rs) : k \in Keys(rs, t)}
  BY DEF IdentityBuckets, Shared
<1>2. QED
  BY <1>1

(* A run that verifies picks, reads, or leaves what it has to verify.      *)
LEMMA VerifyStep ==
    ASSUME [Next]_vars, stage = "verifying", stage' = "verifying"
    PROVE  PickBlock \/ PickPeople \/ ReadTexts \/ UNCHANGED <<blocks, people, unit, texts, links>>
BY Steps DEF BuildNext, BuildStep, StartBuild, Refresh, Index, IndexDone, LoadSignatures, CheckAgain,
     Persist, CrashBuild, Idle, work, vars, indexVars

(* What remains to be verified are blocks and persons of the rows.         *)
LEMMA RemainingInv == ASSUME TypeInv, Remaining, [Next]_vars PROVE Remaining'
<1> SUFFICES ASSUME stage' = "verifying"
             PROVE  /\ blocks' \subseteq Blocks(rows') /\ people' \subseteq People(rows')
                    /\ unit' \subseteq AllBuckets(rows')
  BY DEF Remaining
<1>0. Opened'
  BY DEF Opened
<1>1. CASE LoadSignatures
  <2>1. unit' = {}
    BY <1>0, <1>1, LoadedStep DEF TypeInv, Unlinked, Opened, LoadSignatures
  <2>2. QED
    BY <1>0, <1>1, <2>1, LoadedStep
<1>2. CASE stage = "verifying" /\ rows' = rows
  <2>1. blocks \subseteq Blocks(rows) /\ people \subseteq People(rows) /\ unit \subseteq AllBuckets(rows)
    BY <1>2 DEF Remaining
  <2>2. CASE PickBlock
    <3>1. PICK b \in blocks : blocks' = blocks \ {b} /\ unit' = BandBuckets(rows, b) /\ people' = people
      BY <2>2 DEF PickBlock
    <3>2. BandBuckets(rows, b) \subseteq AllBuckets(rows)
      BY <2>1, <3>1 DEF AllBuckets
    <3>3. QED
      BY <1>2, <2>1, <3>1, <3>2
  <2>3. CASE PickPeople
    <3>1. PICK ks \in SUBSET people : /\ people' = people \ ks /\ unit' = IdentityBuckets(rows, ks) /\ blocks' = blocks
      BY <2>3 DEF PickPeople
    <3>2. IdentityBuckets(rows, ks) \subseteq AllBuckets(rows)
      BY <2>1, <3>1, PersonBuckets DEF AllBuckets
    <3>3. QED
      BY <1>2, <2>1, <3>1, <3>2
  <2>4. CASE ReadTexts
    BY <1>2, <2>1, <2>4 DEF ReadTexts
  <2>5. CASE UNCHANGED <<blocks, people, unit>>
    BY <1>2, <2>1, <2>5
  <2>6. PickBlock \/ PickPeople \/ ReadTexts \/ UNCHANGED <<blocks, people, unit>>
    BY <1>2, VerifyStep
  <2>7. QED
    BY <2>2, <2>3, <2>4, <2>5, <2>6
<1>3. QED
  BY <1>0, <1>1, <1>2, OpenedFrame

(* In texts that are those of the rows, the same is found.                 *)
LEMMA SameFound ==
    ASSUME NEW v, NEW Bs, NEW text, UNION Bs \subseteq Tickets, \A t \in UNION Bs : text[t] = rows[t].text
    PROVE  FoundIn(v, Bs, text) = OfUnit(v, rows, Bs)
<1>1. \A t \in UNION Bs : text[t] = RowTexts(rows)[t]
  BY DEF RowTexts
<1>2. \A B \in Bs : \A p \in Compared(B) : text[p[1]] = RowTexts(rows)[p[1]] /\ text[p[2]] = RowTexts(rows)[p[2]]
  <2>1. \A B : Compared(B) \subseteq B \X B
    BY DEF Compared
  <2>2. QED
    BY <1>1, <2>1
<1>3. \A B \in Bs : {p \in Compared(B) : Alike(v, text[p[1]], text[p[2]])}
                      = {p \in Compared(B) : Alike(v, RowTexts(rows)[p[1]], RowTexts(rows)[p[2]])}
  BY <1>2
<1>4. QED
  BY <1>3 DEF FoundIn, OfUnit

(* What is found in some buckets is found in more.                         *)
LEMMA FoundMore ==
    ASSUME NEW v, NEW rs
    PROVE  \A As, Bs : As \subseteq Bs => OfUnit(v, rs, As) \subseteq OfUnit(v, rs, Bs)
BY DEF OfUnit, FoundIn

(* Where there are no buckets nothing is found.                            *)
LEMMA FoundNothing == ASSUME NEW v, NEW rs PROVE \A Bs : Bs = {} => OfUnit(v, rs, Bs) = {}
BY DEF OfUnit, FoundIn

(* What grouping finds is what its buckets give.                           *)
LEMMA DuplicatesUnit == ASSUME NEW v, NEW rs PROVE Duplicates(v, rs) = OfUnit(v, rs, AllBuckets(rs))
BY DEF Duplicates, OfUnit, RowTexts

(* What grouping finds is found in a block or for a person.                *)
LEMMA DuplicatesParts ==
    ASSUME NEW v, NEW rs, NEW p \in Duplicates(v, rs)
    PROVE  \/ \E b \in Blocks(rs) : p \in OfBlock(v, rs, b)
           \/ \E k \in People(rs) : p \in OfPerson(v, rs, k)
<1>1. \A Bs : p \in OfUnit(v, rs, Bs) <=> \E B \in Bs : p \in {q \in Compared(B) : Alike(v, RowTexts(rs)[q[1]], RowTexts(rs)[q[2]])}
  BY DEF OfUnit, FoundIn
<1>2. PICK B \in AllBuckets(rs) : p \in {q \in Compared(B) : Alike(v, RowTexts(rs)[q[1]], RowTexts(rs)[q[2]])}
  BY <1>1, DuplicatesUnit
<1>3. CASE \E b \in Blocks(rs) : B \in BandBuckets(rs, b)
  <2>1. PICK b \in Blocks(rs) : B \in BandBuckets(rs, b)
    BY <1>3
  <2>2. p \in OfUnit(v, rs, BandBuckets(rs, b))
    BY <1>1, <1>2, <2>1
  <2>3. QED
    BY <2>2 DEF OfBlock, OfUnit
<1>4. CASE B \in IdentityBuckets(rs, People(rs))
  <2>1. PICK k \in People(rs) : B \in IdentityBuckets(rs, {k})
    BY <1>4, PersonBuckets
  <2>2. p \in OfUnit(v, rs, IdentityBuckets(rs, {k}))
    BY <1>1, <1>2, <2>1
  <2>3. QED
    BY <2>2 DEF OfPerson, OfUnit
<1>5. QED
  BY <1>2, <1>3, <1>4 DEF AllBuckets

(* Unless one has come back, texts that are kept now have been kept.       *)
LEMMA KeptBefore ==
    ASSUME [Next]_vars, stage = "verifying", stage' = "verifying", rows' = rows, ~returned', TextsKept'
    PROVE  TextsKept /\ ~returned
<1>1. \A t \in Loaded(rows) : redaction'[t].text = rows[t].text
  BY DEF TextsKept, Loaded
<1>2. CASE RedactionNext /\ Sourced
  BY <1>1, <1>2 DEF Sourced, TextReturns, TextsKept
<1>3. CASE BuildNext /\ UNCHANGED redactionVars
  <2>1. PickBlock \/ PickPeople \/ ReadTexts
    BY <1>3 DEF BuildNext, BuildStep, StartBuild, Refresh, Index, IndexDone, LoadSignatures, CheckAgain,
       Persist, CrashBuild, Idle
  <2>2. returned' = returned /\ redaction' = redaction
    BY <1>3, <2>1 DEF PickBlock, PickPeople, ReadTexts, flags, redactionVars, tables
  <2>3. QED
    BY <1>1, <2>2 DEF TextsKept
<1>4. CASE UNCHANGED vars
  BY <1>1, <1>4 DEF TextsKept, vars, indexVars, flags, redactionVars, tables
<1>5. QED
  BY <1>2, <1>3, <1>4, Steps

(* What a block gives is found or at hand once it is picked.               *)
LEMMA PickBlockLinks ==
    ASSUME NEW v, Linking(v, rows, blocks, people, unit, links), PickBlock
    PROVE  Linking(v, rows, blocks', people', unit', links')
<1>1. PICK b \in blocks : /\ blocks' = blocks \ {b} /\ unit' = BandBuckets(rows, b)
                          /\ people' = people /\ links' = links /\ unit = {}
  BY DEF PickBlock
<1>2. OfBlock(v, rows, b) = OfUnit(v, rows, unit') /\ OfUnit(v, rows, unit) = {}
  BY <1>1, FoundNothing DEF OfBlock, OfUnit
<1>3. QED
  BY <1>1, <1>2 DEF Linking

(* So is what some persons give once they are picked.                      *)
LEMMA PickPeopleLinks ==
    ASSUME NEW v, Linking(v, rows, blocks, people, unit, links), PickPeople
    PROVE  Linking(v, rows, blocks', people', unit', links')
<1>1. PICK ks \in SUBSET people : /\ people' = people \ ks /\ unit' = IdentityBuckets(rows, ks)
                                  /\ blocks' = blocks /\ links' = links /\ unit = {}
  BY DEF PickPeople
<1>2. OfUnit(v, rows, unit) = {}
  BY <1>1, FoundNothing
<1>3. \A k \in ks : OfPerson(v, rows, k) \subseteq OfUnit(v, rows, unit')
  <2>1. \A k \in ks : IdentityBuckets(rows, {k}) \subseteq unit'
    BY <1>1, PersonBuckets
  <2>2. \A k \in ks : OfPerson(v, rows, k) = OfUnit(v, rows, IdentityBuckets(rows, {k}))
    BY DEF OfPerson, OfUnit
  <2>3. \A k \in ks : OfUnit(v, rows, IdentityBuckets(rows, {k})) \subseteq OfUnit(v, rows, unit')
    BY <2>1, FoundMore
  <2>4. QED
    BY <2>2, <2>3
<1>4. QED
  BY <1>1, <1>2, <1>3 DEF Linking

(* Reading keeps this, as long as the texts are those of the rows.         *)
LEMMA ReadLinks ==
    ASSUME TypeInv, Remaining, TextsKept, TextsRead, ReadTexts,
           Linking(build.version, rows, blocks, people, unit, links)
    PROVE  /\ \A t \in DOMAIN texts' : texts'[t] = rows[t].text
           /\ Linking(build.version, rows, blocks', people', unit', links')
<1> DEFINE v     == build.version
           chunk == First(Unread, BatchSize)
           read  == [t \in DOMAIN texts \cup chunk |-> IF t \in chunk THEN redaction[t].text ELSE texts[t]]
<1>1. UNION unit \subseteq Loaded(rows) /\ UNION unit \subseteq Tickets
  BY DEF TypeInv, Verifying, Loaded
<1>2. chunk \subseteq Loaded(rows)
  BY <1>1 DEF First, Unread
<1>3. UNCHANGED <<rows, blocks, people>>
  BY DEF ReadTexts
<1>4. \/ texts' = read /\ UNCHANGED <<unit, links>>
      \/ /\ chunk = Unread /\ links' = links \cup FoundIn(v, unit, read)
         /\ unit' = {} /\ texts' = NoTexts
  BY DEF ReadTexts
<1>5. \A t \in DOMAIN texts \cup chunk : read[t] = rows[t].text
  BY <1>2 DEF TextsKept, TextsRead
<1> HIDE DEF chunk
<1>6. CASE texts' = read /\ UNCHANGED <<unit, links>>
  BY <1>3, <1>5, <1>6
<1>7. CASE chunk = Unread /\ links' = links \cup FoundIn(v, unit, read) /\ unit' = {} /\ texts' = NoTexts
  <2>1. UNION unit \subseteq DOMAIN texts \cup chunk
    BY <1>7 DEF Unread
  <2>2. \A t \in UNION unit : read[t] = rows[t].text
    BY <1>5, <2>1
  <2> HIDE DEF read
  <2>3. FoundIn(v, unit, read) = OfUnit(v, rows, unit)
    BY <1>1, <2>2, SameFound
  <2>4. OfUnit(v, rows, unit) \subseteq Duplicates(v, rows)
    BY DuplicatesUnit, FoundMore DEF Remaining, ReadTexts
  <2>5. Linking(v, rows, blocks, people, unit', links')
    BY <1>7, <2>3, <2>4 DEF Linking
  <2>6. QED
    BY <1>3, <1>7, <2>5 DEF NoTexts
<1>8. QED
  BY <1>4, <1>6, <1>7

(* What has been verified so far.                                          *)
LEMMA VerifiedInv == ASSUME TypeInv, Remaining, VerifiedSoFar, [Next]_vars PROVE VerifiedSoFar'
<1> SUFFICES ASSUME stage' = "verifying", ~returned', TextsKept'
             PROVE  /\ \A t \in DOMAIN texts' : texts'[t] = rows'[t].text
                    /\ Linking(build'.version, rows', blocks', people', unit', links')
  BY DEF VerifiedSoFar, TextsRead
<1>0. Opened'
  BY DEF Opened
<1>1. CASE LoadSignatures
  <2>1. blocks' = Blocks(rows') /\ people' = People(rows') /\ links' = {} /\ DOMAIN texts' = {}
    BY <1>0, <1>1, LoadedStep DEF TypeInv, Unlinked, Opened, LoadSignatures
  <2>2. QED
    BY <2>1 DEF Linking
<1>2. CASE stage = "verifying" /\ rows' = rows /\ build' = build
  <2>1. TextsKept /\ ~returned
    BY <1>2, KeptBefore
  <2>2. TextsRead /\ Linking(build.version, rows, blocks, people, unit, links)
    BY <1>2, <2>1 DEF VerifiedSoFar
  <2>3. CASE PickBlock
    BY <1>2, <2>2, <2>3, PickBlockLinks DEF TextsRead, PickBlock
  <2>4. CASE PickPeople
    BY <1>2, <2>2, <2>4, PickPeopleLinks DEF TextsRead, PickPeople
  <2>5. CASE ReadTexts
    BY <1>2, <2>1, <2>2, <2>5, ReadLinks
  <2>6. CASE UNCHANGED <<blocks, people, unit, texts, links>>
    BY <1>2, <2>2, <2>6 DEF TextsRead
  <2>7. QED
    BY <1>2, <2>3, <2>4, <2>5, <2>6, VerifyStep
<1>3. QED
  BY <1>0, <1>1, <1>2, OpenedFrame

(* A run that persists has verified all there is, in the texts it loaded.  *)
LEMMA AllVerifiedInv ==
    ASSUME RowsAreSignatures, VerifiedSoFar, AllVerified, [Next]_vars
    PROVE  AllVerified'
<1> SUFFICES ASSUME stage' = "persisting", ~returned' PROVE links' = Duplicates(build'.version, rows')
  BY DEF AllVerified
<1>0. Opened'
  BY DEF Opened
<1>1. CASE CheckAgain
  <2>1. AllRead /\ UNCHANGED <<build, rows, links, returned>>
    BY <1>0, <1>1, NotIdle DEF CheckAgain, work
  <2>2. TextsKept
    BY <1>0, <1>1, CheckedCurrent DEF TextsKept
  <2>3. Linking(build.version, rows, blocks, people, unit, links)
    BY <2>1, <2>2 DEF VerifiedSoFar, AllRead
  <2>4. /\ \A b \in Blocks(rows) : OfBlock(build.version, rows, b) \subseteq links
        /\ \A k \in People(rows) : OfPerson(build.version, rows, k) \subseteq links
        /\ links \subseteq Duplicates(build.version, rows)
    BY <2>1, <2>3, FoundNothing DEF Linking, AllRead
  <2>5. Duplicates(build.version, rows) \subseteq links
    BY <2>4, DuplicatesParts
  <2>6. QED
    BY <2>1, <2>4, <2>5
<1>2. CASE ~CheckAgain
  <2>1. stage = "persisting" /\ UNCHANGED <<build, rows, links>>
    BY <1>2, Steps DEF BuildNext, BuildStep, StartBuild, Refresh, Index, IndexDone, LoadSignatures, PickBlock,
         PickPeople, ReadTexts, Persist, CrashBuild, Idle, work, vars, indexVars
  <2>2. ~returned
    BY <1>0, <2>1, OpenedFrame DEF LoadSignatures
  <2>3. QED
    BY <2>1, <2>2 DEF AllVerified
<1>3. QED
  BY <1>1, <1>2

(* What a group row says.                                                  *)
LEMMA RowSays ==
    ASSUME NEW root, NEW t
    PROVE  /\ GroupRow(root, t).home = rows[t].home
           /\ GroupRow(root, t).id = root[t]
           /\ GroupRow(root, t).size = SizeOf(root, t)
           /\ GroupRow(root, t).snapshot = Snapshot(rows, rows[t].home)
           /\ GroupRow(root, t).scope = rows
           /\ GroupRow(root, t).version = build.version
BY DEF GroupRow

(* What persisting writes.                                                 *)
LEMMA PersistStep ==
    ASSUME TypeInv, Persist
    PROVE  \E root \in [Loaded(rows) -> Loaded(rows)] :
             /\ \A t, u \in Loaded(rows) : root[t] = root[u] <=> Linked(links, t, u)
             /\ \A t \in Loaded(rows) : root[root[t]] = root[t]
             /\ \A t \in Loaded(rows) : group'[t] = GroupRow(root, t)
             /\ \A t \in Tickets \ Loaded(rows) : group'[t] = group[t]
             /\ \A t \in Loaded(rows) : Grouped(t)'
<1>1. PICK root \in [Loaded(rows) -> Loaded(rows)] :
        /\ \A t, u \in Loaded(rows) : root[t] = root[u] <=> Linked(links, t, u)
        /\ \A t \in Loaded(rows) : root[root[t]] = root[t]
        /\ group' = [t \in Tickets |-> IF t \in Loaded(rows) THEN GroupRow(root, t) ELSE group[t]]
  BY DEF Persist
<1>2. Loaded(rows) \subseteq Tickets
  BY DEF Loaded
<1>3. \A t \in Loaded(rows) : group'[t] = GroupRow(root, t)
  BY <1>1, <1>2
<1>4. \A t \in Tickets \ Loaded(rows) : group'[t] = group[t]
  BY <1>1
<1>5. ASSUME NEW t \in Loaded(rows) PROVE Grouped(t)'
  <2>1. group'[t].size = SizeOf(root, t)
    BY <1>3, RowSays
  <2>2. SizeOf(root, t) # 0
    BY SizeType
  <2>3. QED
    BY <2>1, <2>2 DEF Grouped
<1>6. QED
  BY <1>1, <1>3, <1>4, <1>5

(* Each group row names rows it was made from, and carries their snapshot. *)
LEMMA StampedInv == ASSUME TypeInv, GroupsStamped, [Next]_vars PROVE GroupsStamped'
<1> SUFFICES ASSUME NEW t \in Tickets, Grouped(t)'
             PROVE  /\ t \in Loaded(group'[t].scope)
                    /\ group'[t].snapshot = Snapshot(group'[t].scope, group'[t].home)
  BY DEF GroupsStamped
<1>1. CASE Persist
  <2>1. PICK root : /\ \A u \in Loaded(rows) : group'[u] = GroupRow(root, u)
                    /\ \A u \in Tickets \ Loaded(rows) : group'[u] = group[u]
    BY <1>1, PersistStep
  <2>2. CASE t \in Loaded(rows)
    BY <2>1, <2>2, RowSays
  <2>3. CASE t \notin Loaded(rows)
    BY <2>1, <2>3 DEF GroupsStamped, Grouped
  <2>4. QED
    BY <2>2, <2>3
<1>2. CASE group' = group
  BY <1>2 DEF GroupsStamped, Grouped
<1>3. QED
  BY <1>1, <1>2, IndexFrame

(* Two rows made from the same rows are one group exactly if they are      *)
(* duplicates in them.                                                     *)
LEMMA DuplicatesInv ==
    ASSUME TypeInv, AllVerified, GroupsStamped, GroupsAreDuplicates, [Next]_vars
    PROVE  GroupsAreDuplicates'
<1> SUFFICES ASSUME NEW t \in Tickets \ doubtful', NEW u \in Tickets \ doubtful', Grouped(t)', Grouped(u)',
                    group'[t].scope = group'[u].scope, group'[t].version = group'[u].version
             PROVE  group'[t].id = group'[u].id <=> Linked(Duplicates(group'[t].version, group'[t].scope), t, u)
  BY DEF GroupsAreDuplicates
<1>1. CASE Persist
  <2>0. doubtful' = (doubtful \ Loaded(rows)) \cup (IF returned THEN Loaded(rows) ELSE {})
    BY <1>1 DEF Persist
  <2>1. PICK root \in [Loaded(rows) -> Loaded(rows)] :
          /\ \A w, x \in Loaded(rows) : root[w] = root[x] <=> Linked(links, w, x)
          /\ \A w \in Loaded(rows) : group'[w] = GroupRow(root, w)
          /\ \A w \in Tickets \ Loaded(rows) : group'[w] = group[w]
    BY <1>1, PersistStep
  <2>2. t \in Loaded(rows) => links = Duplicates(build.version, rows)
    BY <1>1, <2>0 DEF AllVerified, Persist
  <2>3. \A w \in Loaded(rows) : group'[w].id = root[w] /\ group'[w].scope = rows /\ group'[w].version = build.version
    BY <2>1, RowSays
  <2>4. \A w \in Tickets \ Loaded(rows) : Grouped(w)' => Grouped(w) /\ group'[w].scope # rows
    BY <2>1 DEF GroupsStamped, Grouped
  <2>5. CASE t \in Loaded(rows) /\ u \in Loaded(rows)
    BY <2>1, <2>2, <2>3, <2>5
  <2>6. CASE t \notin Loaded(rows) /\ u \notin Loaded(rows)
    <3>1. t \notin doubtful /\ u \notin doubtful /\ group'[t] = group[t] /\ group'[u] = group[u]
      BY <2>0, <2>1, <2>6
    <3>2. QED
      BY <2>4, <2>6, <3>1 DEF GroupsAreDuplicates
  <2>7. QED
    BY <2>3, <2>4, <2>5, <2>6
<1>2. CASE UNCHANGED <<group, doubtful>>
  BY <1>2 DEF GroupsAreDuplicates, Grouped
<1>3. QED
  BY <1>1, <1>2, IndexFrame

(* Every step keeps the groups sound.                                      *)
LEMMA SoundNext == TypeInv /\ SoundInv /\ [Next]_vars => SoundInv'
<1> SUFFICES ASSUME TypeInv, SoundInv, [Next]_vars PROVE SoundInv'
  OBVIOUS
<1> USE DEF SoundInv
<1>1. RowsAreSignatures' /\ Remaining'
  BY RowsInv, RemainingInv
<1>2. VerifiedSoFar' /\ AllVerified'
  BY VerifiedInv, AllVerifiedInv
<1>3. GroupsStamped' /\ GroupsAreDuplicates'
  BY StampedInv, DuplicatesInv
<1>4. QED
  BY <1>1, <1>2, <1>3

(* Nothing is open and nothing grouped at the start.                       *)
LEMMA SoundInit == Init => SoundInv
<1> SUFFICES ASSUME Init PROVE SoundInv
  OBVIOUS
<1>1. ~Opened /\ \A t \in Tickets : ~Grouped(t)
  BY DEF Init, Opened, Grouped, NoGroup
<1>2. QED
  BY <1>1 DEF SoundInv, Opened, RowsAreSignatures, Remaining, VerifiedSoFar, AllVerified,
              GroupsStamped, GroupsAreDuplicates

(* An accepted group is what its records give.                             *)
LEMMA SoundConsumer == SoundInv => ConsumerSound
<1> SUFFICES ASSUME SoundInv, NEW s \in Slices, NEW t \in GroupRows(s),
                    Accepted(s, group[t].snapshot), GroupRows(s) \cap doubtful = {}
             PROVE  /\ Snapshot(group[t].scope, s) = group[t].snapshot
                    /\ \A u, w \in GroupRows(s) :
                         group[u].id = group[w].id <=> Linked(Duplicates(group[t].version, group[t].scope), u, w)
  BY DEF ConsumerSound
<1>1. \A u \in GroupRows(s) : u \in Tickets \ doubtful /\ Grouped(u) /\ group[u].home = s
  BY DEF GroupRows
<1>2. Snapshot(group[t].scope, s) = group[t].snapshot
  BY <1>1 DEF SoundInv, GroupsStamped
<1>3. \A u \in GroupRows(s) : group[u].scope = group[t].scope /\ group[u].version = group[t].version
  BY DEF Accepted
<1>4. \A u, w \in GroupRows(s) :
        group[u].id = group[w].id <=> Linked(Duplicates(group[t].version, group[t].scope), u, w)
  BY <1>1, <1>3 DEF SoundInv, GroupsAreDuplicates
<1>5. QED
  BY <1>2, <1>4

-----------------------------------------------------------------------------
(* Whole groups *)

(* Until a complaint moves, each keeps its district-year.                  *)
LEMMA HomesStay ==
    ASSUME TypeInv, [Next]_vars, ~moved'
    PROVE  ~moved /\ \A t \in Tickets : complaint'[t].home = complaint[t].home
<1>1. CASE \E t \in Tickets : Edit(t)
  <2>1. PICK t \in Tickets : Edit(t)
    BY <1>1
  <2>2. PICK row \in Filings[t] : /\ complaint' = [complaint EXCEPT ![t] = row]
                                  /\ moved' = (moved \/ row.home # complaint[t].home)
    BY <2>1 DEF Edit
  <2>3. complaint = [u \in Tickets |-> complaint[u]]
    BY DEF TypeInv, RedactionInv, RedactionTypeOK, TablesTypeOK
  <2>4. ~moved /\ row.home = complaint[t].home
    BY <2>2
  <2>5. ASSUME NEW u \in Tickets PROVE complaint'[u].home = complaint[u].home
    BY <2>2, <2>3, <2>4
  <2>6. QED
    BY <2>4, <2>5
<1>2. CASE ~\E t \in Tickets : Edit(t)
  BY <1>2, Steps DEF RedactionNext, Start, Load, Upsert, End, Crash, redactionVars, tables, vars
<1>3. QED
  BY <1>1, <1>2

(* A written signature has a version and the district-year of its source.  *)
LEMMA WriteHomes ==
    ASSUME TypeInv, stage # "idle", NEW chunk, Write(chunk), NEW t \in Tickets
    PROVE  \/ signature'[t] = signature[t]
           \/ signature'[t].version # 0 /\ signature'[t].home = complaint[t].home
<1>1. build.version # 0
  BY VersionsAssumption DEF TypeInv, Chosen
<1>2. Fresh(t, build.version).version # 0 /\ Fresh(t, build.version).home = complaint[t].home
  BY <1>1 DEF Fresh
<1>3. signature'[t] = signature[t] \/ signature'[t] = Fresh(t, build.version)
  BY DEF Write
<1>4. QED
  BY <1>2, <1>3

(* What any step writes has a version and the district-year of its source. *)
LEMMA SignatureStep ==
    ASSUME TypeInv, [Next]_vars, NEW t \in Tickets
    PROVE  \/ signature'[t] = signature[t]
           \/ signature'[t].version # 0 /\ signature'[t].home = complaint[t].home
BY WriteHomes, IndexFrame DEF Refresh, Index

(* While complaints stay, signatures and groups are filed where they are.  *)
LEMMA HomesInv == ASSUME TypeInv, RowsAreSignatures, Homes, [Next]_vars PROVE Homes'
<1> SUFFICES ASSUME NEW t \in Tickets
             PROVE  /\ Grouped(t)' => Indexed(t)'
                    /\ ~moved' /\ Indexed(t)' => signature'[t].home = complaint'[t].home
                    /\ ~moved' /\ Grouped(t)' => group'[t].home = complaint'[t].home
  BY DEF Homes
<1>1. Indexed(t) => Indexed(t)'
  BY SignatureStep DEF Indexed
<1>2. ~moved' /\ Indexed(t)' => signature'[t].home = complaint'[t].home
  BY HomesStay, SignatureStep DEF Homes, Indexed
<1>3. CASE Persist
  <2>1. PICK root : /\ \A u \in Loaded(rows) : group'[u] = GroupRow(root, u)
                    /\ \A u \in Tickets \ Loaded(rows) : group'[u] = group[u]
    BY <1>3, PersistStep
  <2>2. CASE t \in Loaded(rows)
    <3>1. t \in InScope(build.scope) /\ rows[t] = signature[t]
      BY <1>3, <2>2, LoadedScope DEF Persist, Opened
    <3>2. Indexed(t) /\ group'[t].home = signature[t].home
      BY <2>1, <2>2, <3>1, RowSays DEF InScope
    <3>3. QED
      BY <1>1, <1>2, <3>2, HomesStay DEF Homes
  <2>3. CASE t \notin Loaded(rows)
    BY <1>1, <1>2, <2>1, <2>3, HomesStay DEF Homes, Grouped
  <2>4. QED
    BY <2>2, <2>3
<1>4. CASE group' = group
  BY <1>1, <1>2, <1>4, HomesStay DEF Homes, Grouped
<1>5. QED
  BY <1>3, <1>4, IndexFrame

(* An open run's scope holds whole groups.                                 *)
LEMMA ContainedInv == ASSUME Contained, [Next]_vars PROVE Contained'
<1> SUFFICES ASSUME Opened' PROVE ~Straddles(build.scope)'
  BY DEF Contained
<1>1. ~Straddles(build.scope) /\ UNCHANGED <<group, build>>
  BY OpenedFrame, LoadedStep DEF Contained, index
<1>2. QED
  BY <1>1 DEF Straddles, Grouped

(* What a run regroups and what it leaves alone are different groups.      *)
LEMMA Apart ==
    ASSUME TypeInv, RowsAreSignatures, Homes, Contained, Opened, ~moved,
           NEW t \in Loaded(rows), NEW u \in Tickets \ Loaded(rows), Grouped(t), Grouped(u)
    PROVE  group[t].id # group[u].id
<1>1. t \in Tickets /\ t \in InScope(build.scope) /\ u \notin InScope(build.scope)
  BY LoadedScope DEF Loaded
<1>2. Indexed(t) /\ Indexed(u) /\ signature[t].home \in build.scope /\ signature[u].home \notin build.scope
  BY <1>1 DEF InScope, Homes
<1>3. group[t].home \in build.scope /\ group[u].home \notin build.scope
  BY <1>1, <1>2 DEF Homes
<1>4. signature[u].home \in Slices
  BY <1>2, SignatureHome DEF Indexed, Loaded, TypeInv, SignaturesTypeOK
<1>5. QED
  BY <1>1, <1>2, <1>3, <1>4 DEF Contained, Straddles

(* The root of a group that a run leaves alone is left alone with it.      *)
LEMMA RootApart ==
    ASSUME TypeInv, RowsAreSignatures, Homes, Contained, Rooted, Opened, ~moved,
           NEW u \in Tickets \ Loaded(rows), Grouped(u)
    PROVE  group[u].id \in Tickets \ Loaded(rows)
BY Apart DEF Rooted

(* Persisting keeps every group whole, with its root.                      *)
LEMMA PersistWhole ==
    ASSUME TypeInv, RowsAreSignatures, WholeInv, Persist, [Next]_vars, ~moved',
           NEW t \in Tickets, Grouped(t)', NEW i, i = group'[t].id
    PROVE  /\ i \in Tickets /\ Grouped(i)' /\ group'[i].id = i
           /\ group'[t].size = Cardinality({u \in Tickets : Grouped(u)' /\ group'[u].id = i})
<1> USE DEF WholeInv, Grouped
<1>0. Opened /\ ~moved
  BY HomesStay DEF Persist, Opened
<1>1. PICK root \in [Loaded(rows) -> Loaded(rows)] :
        /\ \A u \in Loaded(rows) : root[root[u]] = root[u]
        /\ \A u \in Loaded(rows) : group'[u] = GroupRow(root, u)
        /\ \A u \in Tickets \ Loaded(rows) : group'[u] = group[u]
        /\ \A u \in Loaded(rows) : Grouped(u)'
  BY PersistStep
<1>2. Loaded(rows) \subseteq Tickets
  BY DEF Loaded
<1>3. \A u \in Loaded(rows) : group'[u].id = root[u] /\ root[u] \in Loaded(rows)
  BY <1>1, RowSays
<1>4. \A u \in Tickets \ Loaded(rows) : Grouped(u)' => Grouped(u) /\ group'[u].id = group[u].id
  BY <1>1
<1>5. \A u \in Tickets \ Loaded(rows) : Grouped(u)' => group'[u].id \in Tickets \ Loaded(rows)
  BY <1>0, <1>4, RootApart
<1>6. CASE t \in Loaded(rows)
  <2>1. i = root[t] /\ i \in Loaded(rows) /\ root[i] = i
    BY <1>1, <1>3, <1>6
  <2>2. {u \in Tickets : Grouped(u)' /\ group'[u].id = i} = {u \in Loaded(rows) : root[u] = root[t]}
    BY <1>1, <1>2, <1>3, <1>5, <2>1
  <2>3. group'[t].size = SizeOf(root, t)
    BY <1>1, <1>6, RowSays
  <2>4. group'[t].size = Cardinality({u \in Tickets : Grouped(u)' /\ group'[u].id = i})
    BY <2>2, <2>3, Zenon DEF SizeOf
  <2>5. i \in Tickets /\ Grouped(i)' /\ group'[i].id = i
    BY <1>1, <1>2, <1>3, <2>1
  <2>6. QED
    BY <2>4, <2>5, Zenon
<1>7. CASE t \notin Loaded(rows)
  <2>1. Grouped(t) /\ group'[t] = group[t] /\ i = group[t].id
    BY <1>1, <1>4, <1>7
  <2>2. i \in Tickets \ Loaded(rows) /\ Grouped(i) /\ group[i].id = i
    BY <1>0, <1>7, <2>1, RootApart DEF Rooted
  <2>3. \A u \in Loaded(rows) : group'[u].id # i /\ ~(Grouped(u) /\ group[u].id = i)
    BY <1>0, <1>3, <1>7, <2>1, <2>2, Apart
  <2>4. \A u \in Tickets \ Loaded(rows) : group'[u] = group[u]
    BY <1>1
  <2>5. \A u \in Tickets : Grouped(u)' /\ group'[u].id = i <=> Grouped(u) /\ group[u].id = i
    BY <2>3, <2>4
  <2>6. group[t].size = Cardinality({u \in Tickets : Grouped(u) /\ group[u].id = group[t].id})
    BY <1>0, <2>1 DEF GroupsWhole
  <2>7. {u \in Tickets : Grouped(u)' /\ group'[u].id = i} = {u \in Tickets : Grouped(u) /\ group[u].id = group[t].id}
    BY <2>1, <2>5
  <2>8. group'[t].size = Cardinality({u \in Tickets : Grouped(u)' /\ group'[u].id = i})
    BY <2>1, <2>6, <2>7, Zenon
  <2>9. i \in Tickets /\ Grouped(i)' /\ group'[i].id = i
    BY <2>2, <2>4
  <2>10. QED
    BY <2>8, <2>9, Zenon
<1>8. QED
  BY <1>6, <1>7

(* Every step keeps the groups whole.                                      *)
LEMMA WholeNext == TypeInv /\ RowsAreSignatures /\ WholeInv /\ [Next]_vars => WholeInv'
<1> SUFFICES ASSUME TypeInv, RowsAreSignatures, WholeInv, [Next]_vars PROVE WholeInv'
  OBVIOUS
<1>1. Homes' /\ Contained'
  BY HomesInv, ContainedInv DEF WholeInv
<1>2. Rooted' /\ GroupsWhole'
  <2>1. CASE Persist
    <3>1. ASSUME ~moved', NEW t \in Tickets, Grouped(t)'
          PROVE  /\ (group[t].id \in Tickets /\ Grouped(group[t].id) /\ group[group[t].id].id = group[t].id)'
                 /\ (group[t].size = Cardinality({u \in Tickets : Grouped(u) /\ group[u].id = group[t].id}))'
      <4>1. PICK i : i = group'[t].id
        OBVIOUS
      <4>2. /\ i \in Tickets /\ Grouped(i)' /\ group'[i].id = i
            /\ group'[t].size = Cardinality({u \in Tickets : Grouped(u)' /\ group'[u].id = i})
        BY <2>1, <3>1, <4>1, PersistWhole
      <4>3. QED
        BY <4>1, <4>2, Zenon DEF Grouped
    <3>2. Rooted'
      BY <3>1, Zenon DEF Rooted
    <3>3. GroupsWhole'
      BY <3>1, Zenon DEF GroupsWhole
    <3>4. QED
      BY <3>2, <3>3
  <2>2. CASE group' = group
    BY <2>2, HomesStay DEF WholeInv, Rooted, GroupsWhole, Grouped
  <2>3. QED
    BY <2>1, <2>2, IndexFrame
<1>3. QED
  BY <1>1, <1>2 DEF WholeInv

(* There is no group at the start.                                         *)
LEMMA WholeInit == Init => WholeInv
<1> SUFFICES ASSUME Init PROVE WholeInv
  OBVIOUS
<1>1. ~Opened /\ \A t \in Tickets : ~Grouped(t)
  BY DEF Init, Opened, Grouped, NoGroup
<1>2. \A t \in Tickets : Indexed(t) => signature[t].home = complaint[t].home
  BY DEF Init, Indexed, NoSignature
<1>3. QED
  BY <1>1, <1>2 DEF WholeInv, Homes, Contained, Rooted, GroupsWhole

-----------------------------------------------------------------------------
(* Certification *)

(* From grouping on, a quiet run keeps its scope, sources and signatures.  *)
LEMMA QuietFrame ==
    ASSUME [Next]_vars, quiet', stage' \in {"grouping", "verifying", "persisting"}
    PROVE  \/ IndexDone /\ UNCHANGED <<tables, signature, build, quiet>>
           \/ /\ stage \in {"grouping", "verifying", "persisting"} /\ quiet
              /\ UNCHANGED <<tables, signature, build>>
<1>1. CASE BuildNext /\ UNCHANGED redactionVars
  <2>1. IndexDone \/ LoadSignatures \/ PickBlock \/ PickPeople \/ ReadTexts \/ CheckAgain
    BY <1>1 DEF BuildNext, BuildStep, StartBuild, Refresh, Index, Persist, CrashBuild, Idle
  <2>2. QED
    BY <1>1, <2>1 DEF IndexDone, LoadSignatures, PickBlock, PickPeople, ReadTexts, CheckAgain, AllRead, Idle, work,
       index, flags, redactionVars
<1>2. QED
  BY <1>1, Steps DEF Sourced, vars, indexVars, index, flags, redactionVars

(* A run without --limit leaves indexing with nothing left to index.       *)
LEMMA CoveredInv == ASSUME TypeInv, Covered, [Next]_vars PROVE Covered'
<1> SUFFICES ASSUME quiet', build'.left = Unlimited, stage' \in {"grouping", "verifying", "persisting"},
                    NEW t \in Tickets, complaint'[t].home \in build'.scope, Redacted(t)'
             PROVE  Indexed(t)'
  BY DEF Covered, Unlimited
<1>1. UNCHANGED <<tables, signature, build>>
  BY QuietFrame
<1>2. complaint[t].home \in build.scope /\ Redacted(t) /\ build.left = Unlimited
  BY <1>1 DEF tables, Redacted
<1>3. CASE IndexDone
  <2>1. ToIndex = {}
    BY <1>2, <1>3 DEF IndexDone, Unlimited
  <2>2. Indexed(t)
    BY <1>2, <2>1 DEF ToIndex
  <2>3. QED
    BY <1>1, <2>2 DEF Indexed
<1>4. CASE stage \in {"grouping", "verifying", "persisting"} /\ quiet
  <2>1. Indexed(t)
    BY <1>2, <1>4 DEF Covered
  <2>2. QED
    BY <1>1, <2>1 DEF Indexed
<1>5. QED
  BY <1>3, <1>4, QuietFrame

(* What a quiet run has loaded is what the sources say.                    *)
LEMMA CurrentInv == ASSUME Current, [Next]_vars PROVE Current'
<1> SUFFICES ASSUME quiet', Opened', NEW t \in Loaded(rows')
             PROVE  Redacted(t)' /\ Record(rows'[t]) = <<complaint'[t].home, complaint'[t].facts, redaction'[t].text>>
  BY DEF Current, Record, Fresh, Loaded
<1>1. complaint' = complaint /\ redaction' = redaction
  BY QuietFrame DEF Opened, tables
<1>2. Redacted(t) /\ Record(rows'[t]) = Record(Fresh(t, 0))
  <2>1. CASE LoadSignatures
    BY <2>1, LoadedCurrent
  <2>2. CASE Opened /\ rows' = rows /\ quiet
    BY <2>2 DEF Current
  <2>3. QED
    BY <2>1, <2>2, OpenedFrame
<1>3. QED
  BY <1>1, <1>2 DEF Redacted, Record, Fresh

(* A quiet run without --limit has loaded just the sources of its scope.   *)
LEMMA LoadedSources ==
    ASSUME TypeInv, RowsAreSignatures, Homes, CertifyInv, stage = "persisting", quiet, build.left = Unlimited,
           build.scope = Slices \/ ~moved, NEW s \in build.scope
    PROVE  /\ s \in Slices
           /\ \A t \in Tickets : complaint[t].home = s /\ Redacted(t) <=> t \in Loaded(rows) /\ rows[t].home = s
           /\ \A t \in Tickets \ Loaded(rows) : Grouped(t) => group[t].home # s
<1>1. s \in Slices
  BY ScopesAssumption DEF TypeInv, BuildTypeOK
<1>2. Opened
  BY DEF Opened
<1>3. \A t \in Tickets : Indexed(t) => signature[t].home \in Slices
  BY SignatureHome DEF Indexed, Loaded, TypeInv, SignaturesTypeOK
<1>4. ASSUME NEW t \in Tickets, complaint[t].home = s, Redacted(t) PROVE t \in Loaded(rows)
  <2>1. Indexed(t)
    BY <1>4 DEF CertifyInv, Covered
  <2>2. signature[t].home \in build.scope
    BY <1>3, <1>4, <2>1 DEF Homes
  <2>3. QED
    BY <1>2, <2>1, <2>2, LoadedScope DEF InScope
<1>5. \A t \in Loaded(rows) : t \in Tickets /\ Redacted(t) /\ rows[t].home = complaint[t].home
  BY <1>2 DEF CertifyInv, Current, Loaded, Record, Fresh
<1>6. ASSUME NEW t \in Tickets \ Loaded(rows), Grouped(t) PROVE group[t].home # s
  <2>1. Indexed(t) /\ signature[t].home \notin build.scope
    BY <1>2, <1>6, LoadedScope DEF Homes, InScope
  <2>2. ~moved /\ group[t].home = signature[t].home
    BY <1>3, <1>6, <2>1 DEF Homes
  <2>3. QED
    BY <2>1, <2>2
<1>7. QED
  BY <1>1, <1>4, <1>5, <1>6

(* The rows of such a run carry the snapshot a reader recomputes.          *)
LEMMA SnapshotIsSources ==
    ASSUME TypeInv, RowsAreSignatures, Homes, CertifyInv, stage = "persisting", quiet, build.left = Unlimited,
           build.scope = Slices \/ ~moved, NEW s \in build.scope
    PROVE  Snapshot(rows, s) = Sources(s)
<1>1. {t \in Loaded(rows) : rows[t].home = s} = {t \in Tickets : complaint[t].home = s /\ Redacted(t)}
  BY LoadedSources DEF Loaded
<1>2. \A t \in Loaded(rows) : Record(rows[t]) = Record(Fresh(t, 0))
  BY DEF CertifyInv, Current, Opened
<1>3. QED
  BY <1>1, <1>2 DEF Snapshot, Sources

(* Persisting such a run certifies every slice of its scope.               *)
LEMMA PersistCertifies ==
    ASSUME TypeInv, RowsAreSignatures, Homes, CertifyInv, [Next]_vars, Persist, quiet, build.left = Unlimited,
           build.scope = Slices \/ ~moved, NEW s \in build.scope, Sources(s) # {}
    PROVE  Accepted(s, Sources(s))'
<1>1. Sources(s)' = Sources(s)
  <2>1. UNCHANGED redactionVars
    BY Steps DEF Persist, Idle, vars, indexVars
  <2>2. QED
    BY <2>1 DEF Sources, Record, Fresh, Redacted, redactionVars, tables
<1>2. stage = "persisting"
  BY DEF Persist
<1>3. PICK root : /\ \A t \in Loaded(rows) : group'[t] = GroupRow(root, t) /\ Grouped(t)'
                  /\ \A t \in Tickets \ Loaded(rows) : group'[t] = group[t]
  BY PersistStep
<1> DEFINE R == {t \in Loaded(rows) : rows[t].home = s}
<1>4. GroupRows(s)' = R
  <2>1. \A t \in Loaded(rows) : t \in Tickets /\ group'[t].home = rows[t].home /\ Grouped(t)'
    BY <1>3, RowSays DEF Loaded
  <2>2. \A t \in Tickets \ Loaded(rows) : Grouped(t)' => group'[t].home # s
    BY <1>2, <1>3, LoadedSources DEF Grouped
  <2>3. QED
    BY <2>1, <2>2 DEF GroupRows
<1>5. R = {t \in Tickets : complaint[t].home = s /\ Redacted(t)}
  BY <1>2, LoadedSources DEF Loaded
<1>6. R = {x[1] : x \in Sources(s)} /\ R # {}
  <2>1. \A t \in R : <<t, Record(Fresh(t, 0))>> \in Sources(s)
    BY <1>5 DEF Sources
  <2>2. \A x \in Sources(s) : \E t \in R : x = <<t, Record(Fresh(t, 0))>>
    BY <1>5 DEF Sources
  <2> HIDE DEF R
  <2>3. \A x \in Sources(s) : x[1] \in R
    BY <2>2
  <2>4. \A t \in R : \E x \in Sources(s) : t = x[1]
    BY <2>1
  <2>5. QED
    BY <2>2, <2>3, <2>4
<1>7. \A t \in R : group'[t].snapshot = Sources(s) /\ group'[t].scope = rows /\ group'[t].version = build.version
  <2>1. Snapshot(rows, s) = Sources(s)
    BY <1>2, SnapshotIsSources
  <2>2. QED
    BY <1>3, <2>1, RowSays
<1> HIDE DEF R
<1>8. QED
  BY <1>1, <1>4, <1>6, <1>7 DEF Accepted

(* Every step keeps what certification rests on.                           *)
LEMMA CertifyNext == TypeInv /\ CertifyInv /\ [Next]_vars => CertifyInv'
BY CoveredInv, CurrentInv DEF CertifyInv

(* No run is quiet at the start.                                           *)
LEMMA CertifyInit == Init => CertifyInv
BY DEF Init, CertifyInv, Covered, Current

-----------------------------------------------------------------------------
(* Theorems *)

(* To the redactor, the index does nothing: the composed system implements *)
(* the redactor's own specification.                                       *)
THEOREM ImplementsRedaction == Spec => RedactionSpec
<1>1. Init => RedactionInit
  BY DEF Init
<1>2. [Next]_vars => [RedactionNext]_redactionVars
  BY RedactionStep
<1>3. QED
  BY <1>1, <1>2, PTL DEF Spec, RedactionSpec

(* The types, and with them that no signature and no group lacks a         *)
(* district-year.                                                          *)
THEOREM IndexInvariant == Spec => []TypeInv
BY TypeInit, TypeNext, PTL DEF Spec

(* TypeOK in every reachable state.                                        *)
THEOREM IndexTypeCorrect == Spec => []TypeOK
<1>1. TypeInv => TypeOK
  BY DEF TypeInv, RedactionInv, TypeOK
<1>2. QED
  BY <1>1, IndexInvariant, PTL

(* What soundness rests on holds in every reachable state.                 *)
THEOREM SoundInvariant == Spec => []SoundInv
BY SoundInit, SoundNext, IndexInvariant, PTL DEF Spec

(* A reader that accepts the groups of a slice gets the duplicates of the  *)
(* very texts they are stamped with, unless one changed and came back      *)
(* while the groups were found.                                            *)
THEOREM ConsumerIsSound == Spec => []ConsumerSound
BY SoundInvariant, SoundConsumer, PTL

(* What wholeness rests on holds in every reachable state.                 *)
THEOREM WholeInvariant == Spec => []WholeInv
<1>1. SoundInv => RowsAreSignatures
  BY DEF SoundInv
<1>2. QED
  BY <1>1, WholeInit, WholeNext, IndexInvariant, SoundInvariant, PTL DEF Spec

(* No run tears a group apart as long as complaints stay where they are.   *)
THEOREM GroupsStayWhole == Spec => []GroupsWhole
<1>1. WholeInv => GroupsWhole
  BY DEF WholeInv
<1>2. QED
  BY <1>1, WholeInvariant, PTL

(* A quiet run without --limit that persists has certified its scope.      *)
THEOREM RunCertifies == Spec => CompletedRunCertifies
<1>1. TypeInv /\ SoundInv /\ WholeInv /\ CertifyInv /\ [Next]_vars =>
        [Persist /\ quiet /\ build.left = Unlimited /\ (build.scope = Slices \/ ~moved) =>
           \A s \in build.scope : Sources(s) # {} => Accepted(s, Sources(s))']_vars
  BY PersistCertifies DEF SoundInv, WholeInv
<1>2. Spec => []CertifyInv
  BY CertifyInit, CertifyNext, IndexInvariant, PTL DEF Spec
<1>3. QED
  BY <1>1, <1>2, IndexInvariant, SoundInvariant, WholeInvariant, PTL DEF Spec, CompletedRunCertifies

(* The redactor's own property, of the composed system.                    *)
THEOREM IndexRedactionRewritten == Spec => RewrittenByRefresh
BY ImplementsRedaction, RedactionRewritten, PTL

=============================================================================
