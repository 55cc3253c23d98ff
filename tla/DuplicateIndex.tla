--------------------------- MODULE DuplicateIndex ---------------------------
(***************************************************************************)
(* janasunani-dedup-index (janasunani/pipeline/dedup_index.py) over the    *)
(* rows of GrievanceRedaction: a run brings the signatures of its scope up *)
(* to date, batch by batch, then groups the duplicates of the scope: it    *)
(* loads the signatures, reads the redacted texts again block by block to  *)
(* verify the candidates, checks the sources once more and upserts the     *)
(* groups.  And the reader of the groups, dedup.assert_group_source_-      *)
(* snapshot.                                                               *)
(*                                                                         *)
(* Abstracted: a digest is what it is taken of; MinHash is the set of      *)
(* bands of a text (texts of two scripts share none), Jaccard the relation *)
(* Alike, a salted identity key the identity and the salt; the window and  *)
(* the identities of a complaint follow from its facts.  One run of the    *)
(* index at a time.                                                        *)
(***************************************************************************)
EXTENDS GrievanceRedaction

CONSTANTS
    Scopes,         \* sets of slices a run may name; Slices itself is --all
    Limits,         \* values of --limit
    Versions,       \* parameters: salt, window, threshold
    Rotated,        \* those of the runs to come
    District,       \* District[s]: the district of a slice
    Window,         \* Window[v][f]: the time window of a complaint with facts f, under v
    Salt,           \* Salt[v]
    Identities,     \* Identities[f]: what identifies its petitioner (mobile, e-mail)
    Bands(_),       \* LSH bands of a redacted text
    Alike(_, _, _), \* Jaccard similarity of two reaches the threshold of the version
    Cap,            \* REPRESENTATIVE_COMPARISON_CAP
    AnchorCount,    \* LARGE_BUCKET_ANCHOR_COUNT
    Before,         \* Before[t]: the version an earlier run indexed it under, or 0
    Legacy          \* tickets indexed before digests were recorded

ASSUME ScopesAssumption == Scopes \subseteq SUBSET Slices /\ IsFiniteSet(Slices)
ASSUME VersionsAssumption == Rotated \subseteq Versions /\ Versions \subseteq Nat \ {0} /\ Limits \subseteq Nat
ASSUME CapsAssumption == Cap \in Nat /\ AnchorCount \in Nat
ASSUME BeforeAssumption == /\ Before \in [Tickets -> Versions \cup {0}]
                           /\ \A t \in Tickets : NoRedaction \in Earlier[t] => Before[t] = 0

VARIABLES
    signature,   \* dedup_signatures
    group,       \* dedup_groups
    (* the run of the index *)
    stage,
    build,       \* what it was asked for
    todo,        \* signatures found to differ from their source
    rows,        \* the signatures loaded for grouping
    blocks,      \* blocks still to verify
    people,      \* salted identities still to verify
    unit,        \* buckets being verified
    texts,       \* texts read for them
    links,       \* pairs verified
    (* observation *)
    quiet,       \* no source has changed since the run began
    returned,    \* a text has changed and come back while it verified
    doubtful     \* tickets whose groups were found while one did

work  == <<todo, rows, blocks, people, unit, texts, links>>
index == <<signature, group>>
flags == <<quiet, returned, doubtful>>
indexVars == <<index, stage, build, work, flags>>
vars  == <<redactionVars, indexVars>>

NoSignature == [home |-> NoSlice, facts |-> 0, text |-> 0, version |-> 0, legacy |-> FALSE]
NoRows  == [t \in Tickets |-> NoSignature]
NoTexts == [t \in {} |-> 0]
NoGroup == [home |-> NoSlice, id |-> 0, size |-> 0, snapshot |-> {}, scope |-> NoRows, version |-> 0]
NoBuild == [scope |-> {}, version |-> 0, refresh |-> FALSE, left |-> Unlimited]

Indexed(t) == signature[t].version # 0
Grouped(t) == group[t].size # 0

Init ==
    /\ RedactionInit
    /\ signature = [t \in Tickets |->
         IF Before[t] = 0 THEN NoSignature
         ELSE [home |-> complaint[t].home, facts |-> complaint[t].facts, text |-> redaction[t].text,
               version |-> Before[t], legacy |-> t \in Legacy]]
    /\ group = [t \in Tickets |-> NoGroup]
    /\ stage = "idle" /\ build = NoBuild
    /\ todo = {} /\ rows = NoRows /\ blocks = {} /\ people = {}
    /\ unit = {} /\ texts = NoTexts /\ links = {}
    /\ quiet = FALSE /\ returned = FALSE /\ doubtful = {}

-----------------------------------------------------------------------------
(* Sources and their digests *)

(* The signature of a ticket's current source under version v. *)
Fresh(t, v) ==
    [home |-> complaint[t].home, facts |-> complaint[t].facts, text |-> redaction[t].text,
     version |-> v, legacy |-> FALSE]

HasSource(t) == complaint[t].home # NoSlice /\ Redacted(t)

(* The record of a source, all that its digest covers; the stamp of the    *)
(* analyzer is not in it.                                                  *)
Record(x) == <<x.home, x.facts, x.text>>

SameSource(x, y) == Record(x) = Record(y)

InScope(S) == {t \in Tickets : Indexed(t) /\ signature[t].home \in S}

(* _source_digest_mismatches *)
MissingSource(S) == {t \in InScope(S) : ~HasSource(t)}

Mismatched(S) == {t \in InScope(S) : /\ HasSource(t) /\ ~signature[t].legacy
                                     /\ ~SameSource(signature[t], Fresh(t, 0))}

(* _moved_sources *)
MovedSources(S) == {t \in Mismatched(S) : complaint[t].home \notin S}

(* _raise_if_source_is_not_current *)
SourceIsCurrent(S) == MissingSource(S) = {} /\ Mismatched(S) = {}

-----------------------------------------------------------------------------
(* Signatures *)

Idle ==
    /\ stage' = "idle" /\ build' = NoBuild
    /\ todo' = {} /\ rows' = NoRows /\ blocks' = {} /\ people' = {}
    /\ unit' = {} /\ texts' = NoTexts /\ links' = {}
    /\ quiet' = FALSE /\ returned' = FALSE

(* build_dedup_index and the first transaction of _index_signatures; a run *)
(* it refuses changes nothing.                                             *)
StartBuild ==
    /\ stage = "idle"
    /\ \E S \in Scopes, v \in Rotated, refresh \in BOOLEAN, left \in Limits \cup {Unlimited} :
         /\ MissingSource(S) = {} /\ MovedSources(S) = {}
         /\ Mismatched(S) # {} => refresh /\ left = Unlimited
         /\ build' = [scope |-> S, version |-> v, refresh |-> refresh, left |-> left]
         /\ todo' = Mismatched(S)
    /\ stage' = (IF todo' = {} THEN "indexing" ELSE "refreshing") /\ quiet' = TRUE
    /\ UNCHANGED <<index, rows, blocks, people, unit, texts, links, returned, doubtful>>

Write(chunk) ==
    signature' = [t \in Tickets |-> IF t \in chunk THEN Fresh(t, build.version) ELSE signature[t]]

(* A batch of the signatures whose source differs.  A source that has lost *)
(* its district by now breaks the NOT NULL of its signature.               *)
Refresh ==
    /\ stage = "refreshing"
    /\ LET chunk == First(todo, BatchSize)
       IN IF \E t \in chunk : complaint[t].home = NoSlice
          THEN Idle /\ UNCHANGED signature
          ELSE /\ Write(chunk) /\ todo' = todo \ chunk
               /\ stage' = (IF todo' = {} THEN "indexing" ELSE stage)
               /\ UNCHANGED <<build, rows, blocks, people, unit, texts, links, quiet, returned>>
    /\ UNCHANGED <<group, doubtful>>

(* Mutant: a run of the whole corpus indexes complaints without a district *)
(* as well.                                                                *)
ToIndexAnywhere ==
    {t \in Tickets : /\ complaint[t].home \in build.scope \/ build.scope = Slices
                     /\ Redacted(t)
                     /\ ~(/\ Indexed(t) /\ ~signature[t].legacy
                          /\ build.refresh => signature[t].version = build.version)}

(* The predicate of _load_pending_signature_batch. *)
ToIndex ==
    {t \in Tickets : /\ complaint[t].home \in build.scope /\ Redacted(t)
                     /\ ~(/\ Indexed(t) /\ ~signature[t].legacy
                          /\ build.refresh => signature[t].version = build.version)}

(* A batch is loaded and upserted in one transaction. *)
Index ==
    /\ stage = "indexing" /\ build.left # 0 /\ ToIndex # {}
    /\ LET chunk == First(ToIndex, Size(build.left))
       IN Write(chunk) /\ build' = [build EXCEPT !.left = Less(@, Cardinality(chunk))]
    /\ UNCHANGED <<group, stage, work, flags>>

IndexDone ==
    /\ stage = "indexing" /\ (build.left = 0 \/ ToIndex = {})
    /\ stage' = "grouping"
    /\ UNCHANGED <<index, build, work, flags>>

-----------------------------------------------------------------------------
(* Candidates, of loaded signatures rs *)

Loaded(rs) == {t \in Tickets : rs[t].version # 0}

BlockKey(rs, t) == <<District[rs[t].home], Window[rs[t].version][rs[t].facts]>>

(* Buckets of one ticket are not verified. *)
Shared(Bs) == {B \in Bs : Cardinality(B) > 1}

(* _band_buckets of a block *)
BandBuckets(rs, b) ==
    LET block == {t \in Loaded(rs) : BlockKey(rs, t) = b}
    IN Shared({{t \in block : x \in Bands(rs[t].text)} : x \in UNION {Bands(rs[t].text) : t \in block}})

Blocks(rs) == {b \in {BlockKey(rs, t) : t \in Loaded(rs)} : BandBuckets(rs, b) # {}}

Keys(rs, t) == {<<Salt[rs[t].version], i>> : i \in Identities[rs[t].facts]}

(* _identity_buckets, of some identities *)
IdentityBuckets(rs, ks) == Shared({{t \in Loaded(rs) : k \in Keys(rs, t)} : k \in ks})

People(rs) == {k \in UNION {Keys(rs, t) : t \in Loaded(rs)} : IdentityBuckets(rs, {k}) # {}}

(* The pairs of a bucket that are compared: all of them, or in a large one *)
(* those with an anchor.                                                   *)
Compared(B) ==
    LET anchors == First(B, IF AnchorCount < Cardinality(B) - 1 THEN AnchorCount ELSE Cardinality(B) - 1)
    IN {p \in B \X B : p[1] < p[2] /\ (Cardinality(B) < Cap \/ p[1] \in anchors)}

(* _verify_bucket, of buckets Bs and the texts read for them *)
FoundIn(v, Bs, text) == UNION {{p \in Compared(B) : Alike(v, text[p[1]], text[p[2]])} : B \in Bs}

(* What grouping the signatures rs finds if their texts are what it reads. *)
AllBuckets(rs) == (UNION {BandBuckets(rs, b) : b \in Blocks(rs)}) \cup IdentityBuckets(rs, People(rs))

Duplicates(v, rs) == FoundIn(v, AllBuckets(rs), [t \in Tickets |-> rs[t].text])

(* Union-find: what follows from the pairs. *)
Closed(S, pairs) == \A p \in pairs : p[1] \in S <=> p[2] \in S

Linked(pairs, t, u) == \A S \in SUBSET Tickets : Closed(S, pairs) /\ t \in S => u \in S

-----------------------------------------------------------------------------
(* Grouping *)

(* _raise_if_scope_would_split_existing_groups; the slices are those of    *)
(* the group rows.                                                         *)
Straddles(S) ==
    /\ S # Slices
    /\ \E t, u \in Tickets : /\ Grouped(t) /\ group[t].home \in S
                             /\ Grouped(u) /\ group[u].home \notin S
                             /\ group[t].id = group[u].id

(* The first transaction of _group_duplicates: what it loads, or an error. *)
LoadSignatures ==
    /\ stage = "grouping"
    /\ LET S == build.scope
           loaded == [t \in Tickets |-> IF t \in InScope(S) THEN signature[t] ELSE NoSignature]
       IN IF /\ SourceIsCurrent(S) /\ ~Straddles(S)
             /\ \A t \in InScope(S) : ~signature[t].legacy
             /\ InScope(S) # {}
          THEN /\ stage' = "verifying" /\ rows' = loaded
               /\ blocks' = Blocks(loaded) /\ people' = People(loaded)
               /\ UNCHANGED <<build, todo, unit, texts, links, quiet, returned>>
          ELSE Idle
    /\ UNCHANGED <<index, doubtful>>

(* The next block... *)
PickBlock ==
    /\ stage = "verifying" /\ unit = {}
    /\ \E b \in blocks : blocks' = blocks \ {b} /\ unit' = BandBuckets(rows, b)
    /\ UNCHANGED <<index, stage, build, todo, rows, people, texts, links, flags>>

(* ... and after the blocks the persons, a batch of them at a time. *)
PickPeople ==
    /\ stage = "verifying" /\ unit = {} /\ blocks = {}
    /\ \E ks \in (SUBSET people) \ {{}} : people' = people \ ks /\ unit' = IdentityBuckets(rows, ks)
    /\ UNCHANGED <<index, stage, build, todo, rows, blocks, texts, links, flags>>

Unread == (UNION unit) \ DOMAIN texts

(* The texts are read as they are by now, BATCH_SIZE of them at a time;    *)
(* with the last of them the buckets are verified.                         *)
ReadTexts ==
    /\ stage = "verifying" /\ unit # {}
    /\ LET chunk == First(Unread, BatchSize)
           read  == [t \in DOMAIN texts \cup chunk |-> IF t \in chunk THEN redaction[t].text ELSE texts[t]]
       IN \/ /\ chunk # Unread /\ texts' = read
             /\ UNCHANGED <<unit, links>>
          \/ /\ chunk = Unread /\ links' = links \cup FoundIn(build.version, unit, read)
             /\ unit' = {} /\ texts' = NoTexts
    /\ UNCHANGED <<index, stage, build, todo, rows, blocks, people, flags>>

AllRead == stage = "verifying" /\ unit = {} /\ blocks = {} /\ people = {}

(* Mutant: the sources are not checked again. *)
CheckOnce == AllRead /\ stage' = "persisting" /\ UNCHANGED <<index, build, work, flags>>

(* The sources are checked again in the last transaction... *)
CheckAgain ==
    /\ AllRead
    /\ IF SourceIsCurrent(build.scope)
       THEN stage' = "persisting" /\ UNCHANGED <<build, work, quiet, returned>>
       ELSE Idle
    /\ UNCHANGED <<index, doubtful>>

(* Mutant: the rows are stamped with the records of the whole run.         *)
SnapshotOfRun(rs, s) == {<<t, Record(rs[t])>> : t \in Loaded(rs)}

(* source_snapshot_id_from_record_digests of the loaded rows of a slice. *)
Snapshot(rs, s) == {<<t, Record(rs[t])>> : t \in {u \in Loaded(rs) : rs[u].home = s}}

(* Mutant: the size counts the district-year of the row only.              *)
SizeInSlice(root, t) == Cardinality({u \in Loaded(rows) : root[u] = root[t] /\ rows[u].home = rows[t].home})

(* What the row of t says; the root of a component is any of its members.  *)
SizeOf(root, t) == Cardinality({u \in Loaded(rows) : root[u] = root[t]})

GroupRow(root, t) ==
    [home |-> rows[t].home, id |-> root[t], size |-> SizeOf(root, t),
     snapshot |-> Snapshot(rows, rows[t].home), scope |-> rows, version |-> build.version]

(* ... which is READ COMMITTED: others may write before the groups are     *)
(* upserted.                                                               *)
Persist ==
    /\ stage = "persisting"
    /\ \E root \in [Loaded(rows) -> Loaded(rows)] :
         /\ \A t, u \in Loaded(rows) : root[t] = root[u] <=> Linked(links, t, u)
         /\ \A t \in Loaded(rows) : root[root[t]] = root[t]
         /\ group' = [t \in Tickets |-> IF t \in Loaded(rows) THEN GroupRow(root, t) ELSE group[t]]
    /\ doubtful' = (doubtful \ Loaded(rows)) \cup (IF returned THEN Loaded(rows) ELSE {})
    /\ Idle
    /\ UNCHANGED signature

CrashBuild ==
    /\ stage # "idle"
    /\ Idle
    /\ UNCHANGED <<index, doubtful>>

-----------------------------------------------------------------------------
(* The reader *)

(* The records a reader of slice s recomputes the snapshot from. *)
Sources(s) == {<<t, Record(Fresh(t, 0))>> : t \in {u \in Tickets : complaint[u].home = s /\ Redacted(u)}}

GroupRows(s) == {t \in Tickets : Grouped(t) /\ group[t].home = s}

(* assert_group_source_snapshot *)
Accepted(s, records) ==
    /\ GroupRows(s) # {}
    /\ \A t \in GroupRows(s) : group[t].snapshot = records
    /\ GroupRows(s) = {x[1] : x \in records}
    /\ \A t, u \in GroupRows(s) : group[t].scope = group[u].scope /\ group[t].version = group[u].version

-----------------------------------------------------------------------------
(* Specification *)

BuildStep ==
    \/ Refresh \/ Index \/ IndexDone
    \/ LoadSignatures \/ PickBlock \/ PickPeople \/ ReadTexts \/ CheckAgain \/ Persist

BuildNext == StartBuild \/ BuildStep \/ CrashBuild

(* A loaded text that had changed is again what it was when it was loaded. *)
TextReturns ==
    \E t \in Loaded(rows) : redaction[t].text # rows[t].text /\ redaction'[t].text = rows[t].text

(* A run is loud while it lasts if a source has changed. *)
Sourced ==
    /\ quiet' = (quiet /\ UNCHANGED tables)
    /\ returned' = (returned \/ (stage = "verifying" /\ TextReturns))

Next ==
    \/ RedactionNext /\ Sourced /\ UNCHANGED <<index, stage, build, work, doubtful>>
    \/ BuildNext /\ UNCHANGED redactionVars

Spec == Init /\ [][Next]_vars

-----------------------------------------------------------------------------
(* Properties *)

RedactedTexts == {x.text : x \in Redactions}

Signatures ==
    [home : Slices, facts : Facts, text : RedactedTexts, version : Versions, legacy : BOOLEAN] \cup {NoSignature}

SignaturesTypeOK == signature \in [Tickets -> Signatures]

GroupsTypeOK ==
    \A t \in Tickets :
      /\ group[t].home \in Slices \/ group[t] = NoGroup
      /\ group[t].id \in Tickets \cup {0} /\ group[t].size \in Nat
      /\ group[t].scope \in [Tickets -> Signatures] /\ group[t].version \in Versions \cup {0}

BuildTypeOK ==
    /\ stage \in {"idle", "refreshing", "indexing", "grouping", "verifying", "persisting"}
    /\ build \in [scope : Scopes \cup {{}}, version : Versions \cup {0}, refresh : BOOLEAN, left : Int]
    /\ todo \subseteq Tickets /\ rows \in [Tickets -> Signatures]
    /\ texts \in [DOMAIN texts -> RedactedTexts] /\ links \subseteq Tickets \X Tickets
    /\ quiet \in BOOLEAN /\ returned \in BOOLEAN /\ doubtful \subseteq Tickets

(* The types; a signature, and so a group, has a district and a year,      *)
(* which the columns of both tables must not lack.                         *)
TypeOK == RedactionTypeOK /\ SignaturesTypeOK /\ GroupsTypeOK /\ BuildTypeOK

(* If a reader accepts the groups of a slice, for whatever records it      *)
(* holds, they are what these records and the other inputs of the run      *)
(* give: two complaints are in one group exactly if a chain of duplicates  *)
(* links them in the texts the run was stamped with, although those texts  *)
(* were read again, some at a time, while redactions went on.  Excepted    *)
(* are groups found while a text changed and came back: the second check   *)
(* compares texts and cannot see that.                                     *)
ConsumerSound ==
    \A s \in Slices : \A t \in GroupRows(s) :
      Accepted(s, group[t].snapshot) /\ GroupRows(s) \cap doubtful = {} =>
        /\ Snapshot(group[t].scope, s) = group[t].snapshot
        /\ LET pairs == Duplicates(group[t].version, group[t].scope)
           IN \A u, w \in GroupRows(s) : group[u].id = group[w].id <=> Linked(pairs, u, w)

(* As long as no complaint changes its district-year, every group has as   *)
(* many rows as its group_size says, whatever scopes the runs named and    *)
(* wherever they stopped: no run tears a wider group apart.                *)
GroupsWhole ==
    ~moved =>
      \A t \in Tickets :
        Grouped(t) => group[t].size = Cardinality({u \in Tickets : Grouped(u) /\ group[u].id = group[t].id})

(* The refusal to split a group "fails closed" (_raise_if_scope_would_-    *)
(* split_existing_groups): of groups that a reader accepts for the sources *)
(* as they are, none has been left with a size that counts rows it has     *)
(* lost, moves or not.                                                     *)
AcceptedGroupsWhole ==
    \A s \in Slices : Accepted(s, Sources(s)) =>
      \A t \in GroupRows(s) : group[t].size <= Cardinality({u \in Tickets : Grouped(u) /\ group[u].id = group[t].id})

(* A run without --limit that persists its groups has certified its scope: *)
(* if no source has changed since it began, every slice in it is accepted  *)
(* for its current sources.  After a move this takes --all.                *)
CompletedRunCertifies ==
    [][Persist /\ quiet /\ build.left = Unlimited /\ (build.scope = Slices \/ ~moved) =>
         \A s \in build.scope : Sources(s) # {} => Accepted(s, Sources(s))']_vars

(* "Text candidates are blocked, so per-slice runs find the same ones a    *)
(* corpus run would": once every slice is accepted for its sources, two    *)
(* complaints of one block that share a band and are alike are one group.  *)
SliceRunsFindText ==
    (\A s \in Slices : Accepted(s, Sources(s))) =>
      \A b \in Blocks(signature) : \A B \in BandBuckets(signature, b) : \A t, u \in B :
        /\ Cardinality(B) < Cap /\ group[t].version = group[u].version
        /\ Alike(group[t].version, redaction[t].text, redaction[u].text)
        => group[t].id = group[u].id

=============================================================================
