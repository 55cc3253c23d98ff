------------------------------ MODULE Release ------------------------------
(***************************************************************************)
(* Immutable model releases (janasunani/tracking): an operator's command   *)
(* builds a release in a private staging directory and moves it into its   *)
(* own directory, a pointer file says which release is active, and a       *)
(* process that starts up resolves each model through the pointer.  They   *)
(* share the file system and no lock.                                      *)
(*                                                                         *)
(* Abstracted: bytes and digests (a file is as it was approved, or it has  *)
(* drifted), the registry, and the models a release has hosted elsewhere.  *)
(***************************************************************************)
EXTENDS Naturals, FiniteSets

CONSTANTS
    Ids,        \* release ids
    Names,      \* the models a start-up resolves
    Operators,  \* runs of janasunani-model-release, one after another for each
    Wanted,     \* the release ids in operator p's specs
    Pinned,     \* the models it pins by artifact
    Core,       \* those it cannot do without, resolved first
    Starters,   \* processes that build the processor, or run the preflight
    Overrides,  \* models with a usable operator override
    Mirrored,   \* models there are in the DVC mirror
    AnyTime,    \* whether a release is activated while it is materialized
    None        \* no operator, no release

ASSUME SpecsAssumption ==
    /\ Wanted \in [Operators -> SUBSET Ids] /\ Pinned \in [Operators -> SUBSET Names]
    /\ None \notin Ids /\ None \notin Operators
ASSUME AnyTimeAssumption == AnyTime \in BOOLEAN
ASSUME NamesAssumption == Core \subseteq Names /\ Overrides \subseteq Names /\ Mirrored \subseteq Names

VARIABLES
    (* the file system *)
    dirs,      \* dirs[r]: whose release it is, and what has been moved there
    drifted,   \* <<r, n>>: the bytes of model n in r are not the approved ones
    active,    \* active.json
    (* each operator *)
    pc, target,
    manifest,  \* whose manifest the activation has loaded
    (* each starter *)
    phase,
    resolved,  \* where each model has been found
    verified,  \* verified_artifacts, the cache of one start-up
    report,    \* what the preflight says of the release
    (* observation *)
    orphaned,  \* releases a kill or a failed clean-up has left behind
    before,    \* what had drifted when the start-up began
    switched   \* the pointer moved during the start-up

files    == <<dirs, drifted>>
operator == <<pc, target, manifest>>
starter  == <<phase, resolved, verified, report, before>>
vars     == <<files, active, operator, starter, orphaned, switched>>

Absent == [by |-> None, items |-> {}]

(* What a release consists of; iterdir lists it in any order. *)
Items(p) == {"release-manifest.json"} \cup (IF Pinned[p] = {} THEN {} ELSE {"artifacts"})
Complete(r) == dirs[r].by # None /\ dirs[r].items = Items(dirs[r].by)
HasManifest(r) == "release-manifest.json" \in dirs[r].items

(* A command moves or removes items of r.  A release that is complete is   *)
(* published when its command is through with it.                          *)
AtWork(p, r) == pc[p] \in {"moving", "cleaning"} /\ target[p] = r
Underway(r) == \E p \in Operators : AtWork(p, r)
Published(r) == Complete(r) /\ ~AtWork(dirs[r].by, r)

(* Where a model is found. *)
Place(kind) == [from |-> kind, id |-> None, by |-> None]
InRelease(r, p) == [from |-> "release", id |-> r, by |-> p]

(* artifact_sha256(artifact) = the digest in p's manifest *)
Intact(r, n, p) == dirs[r].by = p /\ "artifacts" \in dirs[r].items /\ <<r, n>> \notin drifted

Init ==
    /\ dirs = [r \in Ids |-> Absent] /\ drifted = {} /\ active = None
    /\ pc = [p \in Operators |-> "idle"] /\ target = [p \in Operators |-> None] /\ manifest = [p \in Operators |-> None]
    /\ phase = [s \in Starters |-> "idle"]
    /\ resolved = [s \in Starters |-> [n \in Names |-> Place("unresolved")]]
    /\ verified = [s \in Starters |-> {}] /\ report = [s \in Starters |-> None]
    /\ orphaned = {} /\ before = [s \in Starters |-> {}] /\ switched = [s \in Starters |-> FALSE]

Goto(p, label) == pc' = [pc EXCEPT ![p] = label] /\ UNCHANGED <<target, manifest>>
End(p) ==
    /\ pc' = [pc EXCEPT ![p] = "idle"]
    /\ target' = [target EXCEPT ![p] = None] /\ manifest' = [manifest EXCEPT ![p] = None]

-----------------------------------------------------------------------------
(* materialize_release *)

(* Mutant: the release id is not taken from the spec. *)
StartNameless(p) ==
    /\ pc[p] = "idle"
    /\ \E r \in Wanted[p] : dirs[r] = Absent
    /\ Goto(p, "staging")
    /\ UNCHANGED <<files, active, starter, orphaned, switched>>

StartMaterialize(p) ==
    /\ pc[p] = "idle"
    /\ \E r \in Wanted[p] : dirs[r] = Absent /\ target' = [target EXCEPT ![p] = r]
    /\ pc' = [pc EXCEPT ![p] = "staging"]
    /\ UNCHANGED <<files, active, manifest, starter, orphaned, switched>>

(* Aliases, downloads and checksums, in the staging directory; what fails  *)
(* there leaves nothing.                                                   *)
Stage(p) ==
    /\ pc[p] = "staging"
    /\ Goto(p, "staged") \/ End(p)
    /\ UNCHANGED <<files, active, starter, orphaned, switched>>

(* Mutant: the directory is taken to be ours before it is made. *)
ReserveEarly(p) ==
    /\ pc[p] = "staged"
    /\ IF dirs[target[p]] = Absent
       THEN dirs' = [dirs EXCEPT ![target[p]] = [by |-> p, items |-> {}]] /\ Goto(p, "moving")
       ELSE UNCHANGED dirs /\ Goto(p, "cleaning")
    /\ UNCHANGED <<drifted, active, starter, orphaned, switched>>

(* final_dir.mkdir(), which fails if another run has made it. *)
Reserve(p) ==
    /\ pc[p] = "staged"
    /\ IF dirs[target[p]] = Absent
       THEN dirs' = [dirs EXCEPT ![target[p]] = [by |-> p, items |-> {}]] /\ Goto(p, "moving")
       ELSE UNCHANGED dirs /\ End(p)
    /\ UNCHANGED <<drifted, active, starter, orphaned, switched>>

(* os.replace of one item. *)
MoveItem(p) ==
    /\ pc[p] = "moving"
    /\ \E i \in Items(p) \ dirs[target[p]].items :
          dirs' = [dirs EXCEPT ![target[p]].items = @ \cup {i}]
    /\ UNCHANGED <<drifted, active, operator, starter, orphaned, switched>>

(* staging.rmdir(), when all are moved: the release is published, and      *)
(* activated with --activate.                                              *)
RemoveStaging(p) ==
    /\ pc[p] = "moving" /\ dirs[target[p]].items = Items(p)
    /\ \/ End(p)
       \/ /\ pc' = [pc EXCEPT ![p] = "activating"] /\ manifest' = [manifest EXCEPT ![p] = p]
          /\ UNCHANGED target
    /\ UNCHANGED <<files, active, starter, orphaned, switched>>

(* Mutant: an exception leaves the directory as it is. *)
FailMoveLeaving(p) ==
    /\ pc[p] = "moving" /\ End(p)
    /\ UNCHANGED <<files, active, starter, orphaned, switched>>

(* An os.replace fails, or the rmdir after the last one: a release that is *)
(* complete is removed then.                                               *)
FailMove(p) ==
    /\ pc[p] = "moving" /\ Goto(p, "cleaning")
    /\ UNCHANGED <<files, active, starter, orphaned, switched>>

(* rmtree(final_dir): item by item, then the directory.  The artifacts are *)
(* taken to be gone with the first of their files: what is left of them    *)
(* fails its checksum.                                                     *)
Clean(p) ==
    /\ pc[p] = "cleaning"
    /\ LET r == target[p]
       IN  \/ \E i \in dirs[r].items :
                /\ dirs' = [dirs EXCEPT ![r].items = @ \ {i}]
                /\ UNCHANGED operator
           \/ /\ dirs[r].items = {} /\ dirs' = [dirs EXCEPT ![r] = Absent]
              /\ End(p)
    /\ UNCHANGED <<drifted, active, starter, orphaned, switched>>

(* What cannot be removed stays: ignore_errors. *)
CleanFails(p) ==
    /\ pc[p] = "cleaning" /\ End(p)
    /\ orphaned' = orphaned \cup {target[p]}
    /\ UNCHANGED <<files, active, starter, switched>>

-----------------------------------------------------------------------------
(* activate_manifest *)

(* load_manifest.  "Rollback: activate a previously materialized manifest":  *)
(* unless AnyTime, not one that is being materialized.                       *)
StartActivate(p) ==
    /\ pc[p] = "idle"
    /\ \E r \in Ids :
         /\ HasManifest(r) /\ (AnyTime \/ ~Underway(r))
         /\ target' = [target EXCEPT ![p] = r]
         /\ manifest' = [manifest EXCEPT ![p] = dirs[r].by]
    /\ pc' = [pc EXCEPT ![p] = "activating"]
    /\ UNCHANGED <<files, active, starter, orphaned, switched>>

(* Mutant: the artifacts are not validated. *)
ValidateNothing(p) ==
    /\ pc[p] = "activating" /\ Goto(p, "validated")
    /\ UNCHANGED <<files, active, starter, orphaned, switched>>

(* _validate_local_models *)
Validate(p) ==
    /\ pc[p] = "activating"
    /\ IF \A n \in Pinned[manifest[p]] : Intact(target[p], n, manifest[p])
       THEN Goto(p, "validated") ELSE End(p)
    /\ UNCHANGED <<files, active, starter, orphaned, switched>>

(* os.replace of active.json, or an exception before it. *)
Activate(p) ==
    /\ pc[p] = "validated"
    /\ \/ active' = target[p] /\ switched' = [s \in Starters |-> TRUE]
       \/ UNCHANGED <<active, switched>>
    /\ End(p)
    /\ UNCHANGED <<files, starter, orphaned>>

(* The command is killed: what it was moving stays half moved. *)
Kill(p) ==
    /\ pc[p] # "idle" /\ End(p)
    /\ orphaned' = IF pc[p] \in {"moving", "cleaning"} THEN orphaned \cup {target[p]} ELSE orphaned
    /\ UNCHANGED <<files, active, starter, switched>>

(* The bytes of a published artifact change on disk. *)
Drift ==
    /\ \E r \in Ids, n \in Names :
         /\ Published(r) /\ n \in Pinned[dirs[r].by]
         /\ drifted' = drifted \cup {<<r, n>>}
    /\ UNCHANGED <<dirs, active, operator, starter, orphaned, switched>>

-----------------------------------------------------------------------------
(* resolve_artifact, _resolved_model_dirs, preflight *)

(* Mutant: one cache for the life of the process. *)
BeginWithCache(s) ==
    /\ phase[s] = "idle" /\ phase' = [phase EXCEPT ![s] = "resolving"]
    /\ before' = [before EXCEPT ![s] = drifted] /\ switched' = [switched EXCEPT ![s] = FALSE]
    /\ UNCHANGED <<files, active, operator, resolved, verified, report, orphaned>>

Begin(s) ==
    /\ phase[s] = "idle" /\ phase' = [phase EXCEPT ![s] = "resolving"]
    /\ verified' = [verified EXCEPT ![s] = {}]
    /\ before' = [before EXCEPT ![s] = drifted] /\ switched' = [switched EXCEPT ![s] = FALSE]
    /\ UNCHANGED <<files, active, operator, resolved, report, orphaned>>

IsResolved(s, names) == \A n \in names : resolved[s][n].from # "unresolved"

Mirror(n) == Place(IF n \in Mirrored THEN "mirror" ELSE "none")

(* active_manifest_path() is a file *)
IsActive(r) == active = r /\ r \in Ids /\ HasManifest(r)

Checks(s, r, n, p) == <<r, n>> \in verified[s] \/ Intact(r, n, p)

(* resolve_artifact(n): a model that fails its checksum is taken from      *)
(* nowhere, not from the mirror.                                           *)
Resolve(s) ==
    /\ phase[s] \in {"resolving", "checked"}
    /\ \E n \in {m \in Names : resolved[s][m].from = "unresolved" /\ (m \in Core \/ IsResolved(s, Core))} :
         LET Finds(x) == resolved' = [resolved EXCEPT ![s][n] = x]
         IN  \/ n \in Overrides /\ Finds(Place("override")) /\ UNCHANGED verified
             \/ n \notin Overrides /\ UNCHANGED verified
                /\ (\A r \in Ids : IsActive(r) => n \notin Pinned[dirs[r].by])
                /\ Finds(Mirror(n))
             \/ n \notin Overrides /\ \E r \in Ids :
                  /\ IsActive(r) /\ n \in Pinned[dirs[r].by]
                  /\ IF Checks(s, r, n, dirs[r].by)
                     THEN Finds(InRelease(r, dirs[r].by)) /\ verified' = [verified EXCEPT ![s] = @ \cup {<<r, n>>}]
                     ELSE Finds(Place("none")) /\ UNCHANGED verified
    /\ UNCHANGED <<files, active, operator, phase, report, before, orphaned, switched>>

(* build_processor goes on to load what it has, unless a model it must have *)
(* is missing: then it raises (Exit).                                       *)
Serve(s) ==
    /\ phase[s] = "resolving" /\ IsResolved(s, Names) /\ (\A n \in Core : resolved[s][n].from # "none")
    /\ phase' = [phase EXCEPT ![s] = "serving"]
    /\ UNCHANGED <<files, active, operator, resolved, verified, report, before, orphaned, switched>>

(* Mutant: an override is not looked for. *)
SoundThoughShadowed(s, r) == \A n \in Pinned[dirs[r].by] : Checks(s, r, n, dirs[r].by)

(* _model_release_check *)
Sound(s, r) ==
    /\ \A n \in Pinned[dirs[r].by] : Checks(s, r, n, dirs[r].by)
    /\ Pinned[dirs[r].by] \cap Overrides = {}

(* It says which release is active and sound, if any; what it has checksummed *)
(* up to the first mismatch is not checksummed again.                         *)
Preflight(s) ==
    /\ phase[s] = "resolving" /\ IsResolved(s, Core)
    /\ \A n \in Names \ Core : resolved[s][n].from = "unresolved"
    /\ \/ \E r \in Ids : /\ IsActive(r)
                       /\ report' = [report EXCEPT ![s] = IF Sound(s, r) THEN r ELSE None]
                       /\ \E ns \in SUBSET {n \in Pinned[dirs[r].by] : Checks(s, r, n, dirs[r].by)} :
                            /\ Sound(s, r) => ns = Pinned[dirs[r].by]
                            /\ verified' = [verified EXCEPT ![s] = @ \cup ({r} \X ns)]
       \/ (\A r \in Ids : ~IsActive(r)) /\ report' = [report EXCEPT ![s] = None] /\ UNCHANGED verified
    /\ phase' = [phase EXCEPT ![s] = "checked"]
    /\ UNCHANGED <<files, active, operator, resolved, before, orphaned, switched>>

Exit(s) ==
    /\ phase[s] # "idle" /\ phase' = [phase EXCEPT ![s] = "idle"]
    /\ resolved' = [resolved EXCEPT ![s] = [n \in Names |-> Place("unresolved")]]
    /\ report' = [report EXCEPT ![s] = None]
    /\ UNCHANGED <<files, active, operator, verified, before, orphaned, switched>>

-----------------------------------------------------------------------------
Command(p) ==
    \/ StartMaterialize(p) \/ Stage(p) \/ Reserve(p) \/ MoveItem(p) \/ RemoveStaging(p)
    \/ FailMove(p) \/ Clean(p) \/ CleanFails(p)
    \/ StartActivate(p) \/ Validate(p) \/ Activate(p) \/ Kill(p)

Next ==
    \/ \E p \in Operators : Command(p)
    \/ \E s \in Starters : Begin(s) \/ Resolve(s) \/ Serve(s) \/ Preflight(s) \/ Exit(s)
    \/ Drift

Spec == Init /\ [][Next]_vars

-----------------------------------------------------------------------------
(* Properties *)

Labels == {"idle", "staging", "staged", "moving", "cleaning", "activating", "validated"}
Found  == {Place(kind) : kind \in {"unresolved", "override", "mirror", "none"}} \cup
          {InRelease(r, p) : r \in Ids, p \in Operators}

FilesOK ==
    /\ dirs \in [Ids -> [by : Operators \cup {None}, items : SUBSET {"release-manifest.json", "artifacts"}]]
    /\ drifted \subseteq Ids \X Names /\ active \in Ids \cup {None}

OperatorsOK ==
    /\ pc \in [Operators -> Labels] /\ target \in [Operators -> Ids \cup {None}]
    /\ \A p \in Operators : pc[p] # "idle" => target[p] # None
    /\ manifest \in [Operators -> Operators \cup {None}]

StartersOK ==
    /\ phase \in [Starters -> {"idle", "resolving", "serving", "checked"}]
    /\ resolved \in [Starters -> [Names -> Found]] /\ verified \in [Starters -> SUBSET (Ids \X Names)]
    /\ report \in [Starters -> Ids \cup {None}]

TypeOK ==
    /\ FilesOK /\ OperatorsOK /\ StartersOK
    /\ orphaned \subseteq Ids /\ before \in [Starters -> SUBSET (Ids \X Names)] /\ switched \in [Starters -> BOOLEAN]

\* A release that is published stays as it is: no run of the command, the one
\* that loses the race for its directory included, takes anything away.
PublishedStays == [][\A r \in Ids : Published(r) => dirs'[r] = dirs[r]]_vars

\* "Atomically point serving at an already validated immutable manifest": the
\* pointer is never at a release that is half there.
ActiveIsComplete == active # None => Complete(active)

\* A command that ends, however it fails, leaves a whole release or nothing:
\* half a directory is being worked on, unless a kill left it, or a clean-up
\* that could not remove it.
NoDebris ==
    \A r \in Ids : dirs[r] # Absent /\ ~Complete(r) =>
       r \in orphaned \/ Underway(r)

\* Bytes that had drifted when a start-up began are not what it loads.
DriftIsCaught ==
    \A s \in Starters : phase[s] # "idle" => \A n \in Names :
       resolved[s][n].from = "release" => <<resolved[s][n].id, n>> \notin before[s]

\* When the preflight reports a release as sound, each model the release pins
\* is found there and nowhere else, unless the pointer moved meanwhile.
PreflightIsTruthful ==
    \A s \in Starters : phase[s] = "checked" /\ report[s] # None /\ ~switched[s] =>
       \A n \in Pinned[dirs[report[s]].by] :
          resolved[s][n] \in {Place("unresolved"), InRelease(report[s], dirs[report[s]].by)}
=============================================================================
