--------------------------- MODULE ReleaseProofs ---------------------------
(***************************************************************************)
(* Releases are immutable, and the pointer is at whole ones, for any       *)
(* number of commands, ids, models and start-ups.                          *)
(***************************************************************************)
EXTENDS Release, TLAPS

(* A directory holds what belongs to the release of its owner. *)
Fits(r) ==
    /\ dirs[r].by = None => dirs[r].items = {}
    /\ dirs[r].by # None => dirs[r].items \subseteq Items(dirs[r].by)

(* Who moves or cleans does it in a directory of his own.                  *)
Works(p) == pc[p] \in {"moving", "cleaning"} => dirs[target[p]].by = p

IInv ==
    /\ TypeOK /\ NoDebris
    /\ \A r \in Ids : Fits(r)
    /\ \A p \in Operators : Works(p)

(* One operator moves, the others stay. *)
OnlyOperator(p) ==
    /\ \A q \in Operators : q # p => /\ pc'[q] = pc[q] /\ target'[q] = target[q]
                                     /\ manifest'[q] = manifest[q]
    /\ OperatorsOK'

(* None is neither a release nor an operator. *)
LEMMA NoneIsNobody == None \notin Ids /\ None \notin Operators
BY SpecsAssumption

(* Goto changes nothing of the other operators. *)
LEMMA GotoFrame ==
    ASSUME IInv, NEW p \in Operators, NEW label \in Labels, pc[p] # "idle", Goto(p, label)
    PROVE  OnlyOperator(p) /\ pc'[p] = label /\ target'[p] = target[p] /\ manifest'[p] = manifest[p]
BY DEF IInv, TypeOK, OperatorsOK, Goto, OnlyOperator

(* End changes nothing of the other operators. *)
LEMMA EndFrame ==
    ASSUME IInv, NEW p \in Operators, End(p)
    PROVE  OnlyOperator(p) /\ pc'[p] = "idle"
<1>1. "idle" \in Labels
  BY DEF Labels
<1> QED BY <1>1 DEF IInv, TypeOK, OperatorsOK, End, OnlyOperator

(* A step of p that leaves every directory as it is, and does not take up   *)
(* or abandon one.                                                          *)
LEMMA FilesStay ==
    ASSUME IInv, NEW p \in Operators, OnlyOperator(p), UNCHANGED dirs, TypeOK',
           orphaned \subseteq orphaned',
           pc[p] \in {"moving", "cleaning"} =>
              \/ pc'[p] \in {"moving", "cleaning"} /\ target'[p] = target[p]
              \/ target[p] \in orphaned' \/ Complete(target[p]),
           pc'[p] \in {"moving", "cleaning"} => pc[p] \in {"moving", "cleaning"} /\ target'[p] = target[p]
    PROVE  IInv'
<1>1. \A r \in Ids : Fits(r)'
  BY DEF IInv, Fits, Items
<1>2. \A q \in Operators : Works(q)'
  BY DEF IInv, Works, Items, OnlyOperator
<1>3. NoDebris'
  <2> SUFFICES ASSUME NEW r \in Ids, dirs[r] # Absent, ~Complete(r)
               PROVE  r \in orphaned' \/ Underway(r)'
    BY DEF NoDebris, Complete, Items
  <2>1. r \in orphaned \/ Underway(r)
    BY DEF IInv, NoDebris
  <2>2. CASE Underway(r)
    <3>1. PICK q \in Operators : pc[q] \in {"moving", "cleaning"} /\ target[q] = r
      BY <2>2 DEF Underway, AtWork
    <3> QED BY <3>1 DEF Underway, AtWork, OnlyOperator
  <2> QED BY <2>1, <2>2
<1> QED BY <1>1, <1>2, <1>3 DEF IInv

(* A step of p that changes the directory r, which is nobody's or his own. *)
LEMMA OneDirectoryChanges ==
    ASSUME IInv, NEW p \in Operators, NEW r \in Ids, OnlyOperator(p), TypeOK', UNCHANGED orphaned,
           \A o \in Ids : o # r => dirs'[o] = dirs[o],
           dirs[r].by \in {None, p},
           pc[p] \in {"moving", "cleaning"} => target[p] = r,
           Fits(r)', Works(p)',
           dirs'[r] # Absent /\ ~Complete(r)' => r \in orphaned \/ Underway(r)'
    PROVE  IInv'
<1>1. ASSUME NEW o \in Ids PROVE Fits(o)'
  <2>1. CASE o = r
    BY <2>1
  <2>2. CASE o # r
    BY <2>2 DEF IInv, Fits, Items
  <2> QED BY <2>1, <2>2
<1>2. ASSUME NEW q \in Operators PROVE Works(q)'
  <2>1. CASE q = p
    BY <2>1
  <2>2. CASE q # p
    <3> SUFFICES ASSUME pc'[q] \in {"moving", "cleaning"}
                 PROVE  dirs'[target'[q]].by = q
      BY DEF Works
    <3>1. pc[q] \in {"moving", "cleaning"} /\ target'[q] = target[q]
      BY <2>2 DEF OnlyOperator
    <3>2. dirs[target[q]].by = q
      BY <3>1 DEF IInv, Works
    <3>3. target[q] \in Ids
      BY <3>1 DEF IInv, TypeOK, OperatorsOK
    <3>4. target[q] # r
      BY <2>2, <3>2, NoneIsNobody
    <3> QED BY <3>1, <3>2, <3>3, <3>4
  <2> QED BY <2>1, <2>2
<1>3. ASSUME NEW o \in Ids, dirs'[o] # Absent, ~Complete(o)'
      PROVE  o \in orphaned' \/ Underway(o)'
  <2>1. CASE o = r
    BY <2>1, <1>3
  <2>2. CASE o # r
    <3>1. o \in orphaned \/ Underway(o)
      BY <1>3, <2>2 DEF IInv, NoDebris, Complete, Items
    <3>2. ASSUME NEW q \in Operators, pc[q] \in {"moving", "cleaning"}, target[q] = o
          PROVE  Underway(o)'
      BY <2>2, <3>2 DEF Underway, AtWork, OnlyOperator
    <3> QED BY <3>1, <3>2 DEF Underway, AtWork
  <2> QED BY <2>1, <2>2
<1>4. NoDebris'
  BY <1>3 DEF NoDebris, Absent
<1> QED BY <1>1, <1>2, <1>4 DEF IInv

(* The part of the type that an operator's step leaves alone. *)
LEMMA OperatorTypes ==
    ASSUME IInv, NEW p \in Operators, OnlyOperator(p), UNCHANGED starter, FilesOK',
           orphaned' \subseteq Ids, switched' \in [Starters -> BOOLEAN]
    PROVE  TypeOK'
BY DEF IInv, TypeOK, StartersOK, starter, OnlyOperator

(* Directories and pointer that stay as they are keep their type. *)
LEMMA FilesTypeStays ==
    ASSUME IInv, UNCHANGED <<files, active>>
    PROVE  FilesOK'
BY DEF IInv, TypeOK, FilesOK, files

-----------------------------------------------------------------------------
(* The steps of a command *)

(* Beginning a materialization changes no directory: the id is known to be free only now. *)
LEMMA StartMaterializeInv ==
    ASSUME IInv, NEW p \in Operators, StartMaterialize(p)
    PROVE  IInv'
<1>1. PICK r \in Wanted[p] : target' = [target EXCEPT ![p] = r]
  BY DEF StartMaterialize
<1>2. r \in Ids /\ "staging" \in Labels
  BY <1>1, SpecsAssumption DEF Labels
<1>3. OnlyOperator(p) /\ pc[p] = "idle" /\ pc'[p] = "staging"
  <2>1. pc' = [pc EXCEPT ![p] = "staging"] /\ UNCHANGED manifest /\ pc[p] = "idle"
    BY DEF StartMaterialize
  <2> QED BY <1>1, <1>2, <2>1, NoneIsNobody DEF IInv, TypeOK, OperatorsOK, OnlyOperator
<1>4. UNCHANGED <<files, active>> /\ UNCHANGED starter /\ UNCHANGED <<orphaned, switched>>
  BY DEF StartMaterialize
<1>5. TypeOK'
  BY <1>3, <1>4, FilesTypeStays, OperatorTypes DEF IInv, TypeOK
<1> QED BY <1>3, <1>4, <1>5, FilesStay DEF files

(* Staging happens in a private directory and leaves the shared ones alone. *)
LEMMA StageInv ==
    ASSUME IInv, NEW p \in Operators, Stage(p)
    PROVE  IInv'
<1>1. UNCHANGED <<files, active>> /\ UNCHANGED starter /\ UNCHANGED <<orphaned, switched>> /\ pc[p] = "staging"
  BY DEF Stage
<1>2. "staged" \in Labels
  BY DEF Labels
<1>3. OnlyOperator(p) /\ pc'[p] \in {"staged", "idle"}
  BY <1>1, <1>2, GotoFrame, EndFrame DEF Stage
<1>4. TypeOK'
  BY <1>1, <1>3, FilesTypeStays, OperatorTypes DEF IInv, TypeOK
<1> QED BY <1>1, <1>3, <1>4, FilesStay DEF files

(* The directory is made by this operator, empty, as its own: nobody else may hold it. *)
LEMMA ReserveInv ==
    ASSUME IInv, NEW p \in Operators, Reserve(p)
    PROVE  IInv'
<1>1. UNCHANGED drifted /\ UNCHANGED active /\ UNCHANGED starter /\ UNCHANGED <<orphaned, switched>> /\ pc[p] = "staged"
  BY DEF Reserve
<1>2. "moving" \in Labels
  BY DEF Labels
<1>3. PICK r \in Ids : r = target[p]
  BY <1>1 DEF IInv, TypeOK, OperatorsOK
<1>4. CASE dirs[r] = Absent
  <2>1. dirs' = [dirs EXCEPT ![r] = [by |-> p, items |-> {}]] /\ Goto(p, "moving")
    BY <1>3, <1>4 DEF Reserve
  <2>2. OnlyOperator(p) /\ pc'[p] = "moving" /\ target'[p] = target[p]
    BY <1>1, <1>2, <2>1, GotoFrame
  <2>3. dirs'[r] = [by |-> p, items |-> {}] /\ \A o \in Ids : o # r => dirs'[o] = dirs[o]
    BY <1>3, <2>1 DEF IInv, TypeOK, FilesOK
  <2>4. FilesOK'
    BY <1>1, <1>3, <2>1 DEF IInv, TypeOK, FilesOK
  <2>5. TypeOK'
    BY <1>1, <2>2, <2>4, OperatorTypes DEF IInv, TypeOK
  <2>6. dirs[r].by \in {None, p}
    BY <1>4 DEF Absent
  <2>7. Fits(r)'
    BY <2>3, NoneIsNobody DEF Fits
  <2>8. Works(p)'
    BY <1>3, <2>2, <2>3 DEF Works
  <2>9. Underway(r)'
    BY <1>3, <2>2 DEF Underway, AtWork
  <2> QED BY <1>1, <1>3, <2>2, <2>3, <2>5, <2>6, <2>7, <2>8, <2>9, OneDirectoryChanges
<1>5. CASE dirs[r] # Absent
  <2>1. UNCHANGED dirs /\ End(p)
    BY <1>3, <1>5 DEF Reserve
  <2>2. OnlyOperator(p) /\ pc'[p] = "idle"
    BY <2>1, EndFrame
  <2>3. TypeOK'
    BY <1>1, <2>1, <2>2, FilesTypeStays, OperatorTypes DEF IInv, TypeOK, files
  <2> QED BY <1>1, <2>1, <2>2, <2>3, FilesStay
<1> QED BY <1>4, <1>5

(* One more item is in the directory, and its owner has one item less to move. *)
LEMMA MoveItemInv ==
    ASSUME IInv, NEW p \in Operators, MoveItem(p)
    PROVE  IInv'
<1>1. /\ UNCHANGED drifted /\ UNCHANGED active /\ UNCHANGED operator /\ UNCHANGED starter
      /\ UNCHANGED <<orphaned, switched>> /\ pc[p] = "moving"
  BY DEF MoveItem
<1>2. PICK r \in Ids : r = target[p]
  BY <1>1 DEF IInv, TypeOK, OperatorsOK
<1>3. dirs[r].by = p /\ dirs[r].items \subseteq Items(p) /\ p # None
  BY <1>1, <1>2, NoneIsNobody DEF IInv, Fits, Works
<1>4. PICK i \in Items(p) \ dirs[r].items : dirs' = [dirs EXCEPT ![r].items = @ \cup {i}]
  BY <1>2 DEF MoveItem
<1>5. dirs'[r].by = p /\ dirs'[r].items = dirs[r].items \cup {i} /\ \A o \in Ids : o # r => dirs'[o] = dirs[o]
  BY <1>2, <1>3, <1>4 DEF IInv, TypeOK, FilesOK
<1>6. FilesOK'
  <2>1. Items(p) \subseteq {"release-manifest.json", "artifacts"}
    BY DEF Items
  <2>2. dirs'[r] \in [by : Operators \cup {None}, items : SUBSET {"release-manifest.json", "artifacts"}]
    BY <1>2, <1>3, <1>4, <2>1 DEF IInv, TypeOK, FilesOK
  <2> QED BY <1>1, <1>4, <2>2 DEF IInv, TypeOK, FilesOK
<1>7. OnlyOperator(p) /\ pc'[p] = "moving" /\ target'[p] = target[p]
  BY <1>1 DEF IInv, TypeOK, OperatorsOK, OnlyOperator, operator
<1>8. TypeOK'
  BY <1>1, <1>6, <1>7, OperatorTypes DEF IInv, TypeOK
<1>9. Fits(r)' /\ Works(p)'
  <2>1. dirs'[r].items \subseteq Items(p) /\ dirs'[r].by # None
    BY <1>3, <1>4, <1>5
  <2> QED BY <1>2, <1>5, <1>7, <2>1 DEF Fits, Items, Works
<1>10. Underway(r)'
  BY <1>2, <1>7 DEF Underway, AtWork
<1> QED BY <1>1, <1>2, <1>3, <1>5, <1>7, <1>8, <1>9, <1>10, OneDirectoryChanges

(* The command is through with a release that is complete. *)
LEMMA RemoveStagingInv ==
    ASSUME IInv, NEW p \in Operators, RemoveStaging(p)
    PROVE  IInv'
<1>1. /\ UNCHANGED <<files, active>> /\ UNCHANGED starter /\ UNCHANGED <<orphaned, switched>>
      /\ pc[p] = "moving" /\ dirs[target[p]].items = Items(p)
  BY DEF RemoveStaging
<1>2. OnlyOperator(p) /\ pc'[p] \in {"idle", "activating"}
  <2>1. CASE End(p)
    BY <2>1, EndFrame
  <2>2. CASE /\ pc' = [pc EXCEPT ![p] = "activating"] /\ manifest' = [manifest EXCEPT ![p] = p]
             /\ UNCHANGED target
    <3>1. "activating" \in Labels
      BY DEF Labels
    <3> QED BY <1>1, <2>2, <3>1 DEF IInv, TypeOK, OperatorsOK, OnlyOperator
  <2> QED BY <2>1, <2>2 DEF RemoveStaging
<1>3. TypeOK'
  BY <1>1, <1>2, FilesTypeStays, OperatorTypes DEF IInv, TypeOK
<1>4. Complete(target[p])
  BY <1>1, NoneIsNobody DEF Complete, IInv, Works
<1> QED BY <1>1, <1>2, <1>3, <1>4, FilesStay DEF files

(* A failing move changes no directory; its owner goes on to clean up. *)
LEMMA FailMoveInv ==
    ASSUME IInv, NEW p \in Operators, FailMove(p)
    PROVE  IInv'
<1>1. UNCHANGED <<files, active>> /\ UNCHANGED starter /\ UNCHANGED <<orphaned, switched>>
      /\ pc[p] = "moving" /\ Goto(p, "cleaning")
  BY DEF FailMove
<1>2. "cleaning" \in Labels
  BY DEF Labels
<1>3. OnlyOperator(p) /\ pc'[p] = "cleaning" /\ target'[p] = target[p]
  BY <1>1, <1>2, GotoFrame
<1>4. TypeOK'
  BY <1>1, <1>3, FilesTypeStays, OperatorTypes DEF IInv, TypeOK
<1> QED BY <1>1, <1>3, <1>4, FilesStay DEF files

(* The except branch takes the directory of its owner away, item by item. *)
LEMMA CleanInv ==
    ASSUME IInv, NEW p \in Operators, Clean(p)
    PROVE  IInv'
<1>1. UNCHANGED drifted /\ UNCHANGED active /\ UNCHANGED starter /\ UNCHANGED <<orphaned, switched>> /\ pc[p] = "cleaning"
  BY DEF Clean
<1>2. PICK r \in Ids : r = target[p]
  BY <1>1 DEF IInv, TypeOK, OperatorsOK
<1>3. dirs[r].by = p /\ dirs[r].items \subseteq Items(p) /\ p # None
  BY <1>1, <1>2, NoneIsNobody DEF IInv, Fits, Works
<1>4. CASE \E i \in dirs[r].items : dirs' = [dirs EXCEPT ![r].items = @ \ {i}] /\ UNCHANGED operator
  <2>1. PICK i \in dirs[r].items : dirs' = [dirs EXCEPT ![r].items = @ \ {i}] /\ UNCHANGED operator
    BY <1>4
  <2>2. dirs'[r].by = p /\ dirs'[r].items = dirs[r].items \ {i} /\ \A o \in Ids : o # r => dirs'[o] = dirs[o]
    BY <1>2, <1>3, <2>1 DEF IInv, TypeOK, FilesOK
  <2>3. FilesOK'
    BY <1>1, <2>1 DEF IInv, TypeOK, FilesOK
  <2>4. OnlyOperator(p) /\ pc'[p] = "cleaning" /\ target'[p] = target[p]
    BY <1>1, <2>1 DEF IInv, TypeOK, OperatorsOK, OnlyOperator, operator
  <2>5. TypeOK'
    BY <1>1, <2>3, <2>4, OperatorTypes DEF IInv, TypeOK
  <2>6. i \in Items(p) /\ dirs'[r].items \subseteq Items(p)
    BY <1>3, <2>1, <2>2
  <2>7. Fits(r)' /\ Works(p)'
    BY <1>2, <1>3, <2>2, <2>4, <2>6 DEF Fits, Works, Items
  <2>8. Underway(r)'
    BY <1>2, <2>4 DEF Underway, AtWork
  <2> QED BY <1>1, <1>2, <1>3, <2>2, <2>4, <2>5, <2>7, <2>8, OneDirectoryChanges
<1>5. CASE dirs' = [dirs EXCEPT ![r] = Absent] /\ End(p)
  <2>1. dirs'[r] = Absent /\ \A o \in Ids : o # r => dirs'[o] = dirs[o]
    BY <1>2, <1>5 DEF IInv, TypeOK, FilesOK
  <2>2. FilesOK'
    BY <1>1, <1>5 DEF IInv, TypeOK, FilesOK, Absent
  <2>3. OnlyOperator(p) /\ pc'[p] = "idle"
    BY <1>5, EndFrame
  <2>4. TypeOK'
    BY <1>1, <2>2, <2>3, OperatorTypes DEF IInv, TypeOK
  <2>5. Fits(r)' /\ Works(p)'
    BY <2>1, <2>3 DEF Fits, Works, Absent
  <2> QED BY <1>1, <1>2, <1>3, <2>1, <2>3, <2>4, <2>5, OneDirectoryChanges
<1> QED BY <1>2, <1>4, <1>5 DEF Clean

(* What cannot be removed stays, and is counted as left behind. *)
LEMMA CleanFailsInv ==
    ASSUME IInv, NEW p \in Operators, CleanFails(p)
    PROVE  IInv'
<1>1. UNCHANGED <<files, active>> /\ UNCHANGED starter /\ UNCHANGED switched /\ pc[p] = "cleaning" /\ End(p)
      /\ orphaned' = orphaned \cup {target[p]}
  BY DEF CleanFails
<1>2. OnlyOperator(p) /\ pc'[p] = "idle"
  BY <1>1, EndFrame
<1>3. orphaned' \subseteq Ids
  BY <1>1 DEF IInv, TypeOK, OperatorsOK
<1>4. TypeOK'
  BY <1>1, <1>2, <1>3, FilesTypeStays, OperatorTypes DEF IInv, TypeOK
<1> QED BY <1>1, <1>2, <1>4, FilesStay DEF files

(* Beginning an activation reads the manifest and changes nothing on disk. *)
LEMMA StartActivateInv ==
    ASSUME IInv, NEW p \in Operators, StartActivate(p)
    PROVE  IInv'
<1>1. UNCHANGED <<files, active>> /\ UNCHANGED starter /\ UNCHANGED <<orphaned, switched>>
      /\ pc[p] = "idle" /\ pc' = [pc EXCEPT ![p] = "activating"]
  BY DEF StartActivate
<1>2. PICK r \in Ids : target' = [target EXCEPT ![p] = r] /\ manifest' = [manifest EXCEPT ![p] = dirs[r].by]
  BY DEF StartActivate
<1>3. "activating" \in Labels /\ dirs[r].by \in Operators \cup {None}
  BY <1>2 DEF Labels, IInv, TypeOK, FilesOK
<1>4. OnlyOperator(p) /\ pc'[p] = "activating"
  BY <1>1, <1>2, <1>3, NoneIsNobody DEF IInv, TypeOK, OperatorsOK, OnlyOperator
<1>5. TypeOK'
  BY <1>1, <1>4, FilesTypeStays, OperatorTypes DEF IInv, TypeOK
<1> QED BY <1>1, <1>4, <1>5, FilesStay DEF files

(* The check of the manifest reads only. *)
LEMMA ValidateInv ==
    ASSUME IInv, NEW p \in Operators, Validate(p)
    PROVE  IInv'
<1>1. UNCHANGED <<files, active>> /\ UNCHANGED starter /\ UNCHANGED <<orphaned, switched>>
      /\ pc[p] = "activating" /\ (Goto(p, "validated") \/ End(p))
  BY DEF Validate
<1>2. "validated" \in Labels
  BY DEF Labels
<1>3. OnlyOperator(p) /\ pc'[p] \in {"validated", "idle"}
  BY <1>1, <1>2, GotoFrame, EndFrame
<1>4. TypeOK'
  BY <1>1, <1>3, FilesTypeStays, OperatorTypes DEF IInv, TypeOK
<1> QED BY <1>1, <1>3, <1>4, FilesStay DEF files

(* The pointer moves to a release that the activation has checked. *)
LEMMA ActivateInv ==
    ASSUME IInv, NEW p \in Operators, Activate(p)
    PROVE  IInv'
<1>1. UNCHANGED files /\ UNCHANGED starter /\ UNCHANGED orphaned /\ pc[p] = "validated" /\ End(p)
      /\ (\/ active' = target[p] /\ switched' = [s \in Starters |-> TRUE]
          \/ UNCHANGED <<active, switched>>)
  BY DEF Activate
<1>2. OnlyOperator(p) /\ pc'[p] = "idle"
  BY <1>1, EndFrame
<1>3. switched' \in [Starters -> BOOLEAN]
  BY <1>1 DEF IInv, TypeOK
<1>4. FilesOK'
  BY <1>1 DEF IInv, TypeOK, FilesOK, OperatorsOK, files
<1>5. TypeOK'
  BY <1>1, <1>2, <1>3, <1>4, OperatorTypes DEF IInv, TypeOK
<1> QED BY <1>1, <1>2, <1>5, FilesStay DEF files

(* A killed command leaves its directory as it is, and is counted as orphaned. *)
LEMMA KillInv ==
    ASSUME IInv, NEW p \in Operators, Kill(p)
    PROVE  IInv'
<1>1. UNCHANGED <<files, active>> /\ UNCHANGED starter /\ UNCHANGED switched /\ pc[p] # "idle" /\ End(p)
      /\ orphaned' = IF pc[p] \in {"moving", "cleaning"} THEN orphaned \cup {target[p]} ELSE orphaned
  BY DEF Kill
<1>2. OnlyOperator(p) /\ pc'[p] = "idle"
  BY <1>1, EndFrame
<1>3. orphaned' \subseteq Ids
  BY <1>1 DEF IInv, TypeOK, OperatorsOK
<1>4. TypeOK'
  BY <1>1, <1>2, <1>3, FilesTypeStays, OperatorTypes DEF IInv, TypeOK
<1> QED BY <1>1, <1>2, <1>4, FilesStay DEF files

-----------------------------------------------------------------------------
(* The steps of a start-up, and of the disk *)

(* They leave the releases and the commands alone. *)
LEMMA OthersStay ==
    ASSUME IInv, UNCHANGED <<dirs, active, operator, orphaned>>, TypeOK'
    PROVE  IInv'
<1>1. \A r \in Ids : Fits(r)'
  BY DEF IInv, Fits, Items
<1>2. \A q \in Operators : Works(q)'
  BY DEF IInv, Works, Items, operator
<1>3. NoDebris'
  BY DEF IInv, NoDebris, Underway, AtWork, Complete, Items, Absent, operator
<1> QED BY <1>1, <1>2, <1>3 DEF IInv

(* A file that changes on disk changes no owner and no command. *)
LEMMA DriftInv ==
    ASSUME IInv, Drift
    PROVE  IInv'
<1>1. TypeOK'
  BY SpecsAssumption DEF IInv, TypeOK, Drift, Published, Complete, FilesOK, OperatorsOK, StartersOK, operator, starter
<1> QED BY <1>1, OthersStay DEF Drift

(* A start-up begins with an empty cache. *)
LEMMA BeginInv ==
    ASSUME IInv, NEW s \in Starters, Begin(s)
    PROVE  IInv'
<1>1. UNCHANGED <<files, active>> /\ UNCHANGED operator /\ UNCHANGED orphaned
  BY DEF Begin
<1>2. StartersOK' /\ before' \in [Starters -> SUBSET (Ids \X Names)] /\ switched' \in [Starters -> BOOLEAN]
  BY DEF IInv, TypeOK, Begin, StartersOK, FilesOK
<1>3. TypeOK'
  BY <1>1, <1>2, FilesTypeStays DEF IInv, TypeOK, OperatorsOK, operator
<1> QED BY <1>1, <1>3, OthersStay DEF files

(* Where there is a manifest there is an owner, with a spec.                *)
LEMMA ManifestHasOwner ==
    ASSUME IInv, NEW r \in Ids, HasManifest(r)
    PROVE  dirs[r].by \in Operators /\ Pinned[dirs[r].by] \subseteq Names
<1>1. dirs[r].by \in Operators
  BY DEF IInv, TypeOK, FilesOK, Fits, HasManifest
<1> QED BY <1>1, SpecsAssumption

(* Resolving one model changes only what the start-up knows. *)
LEMMA ResolveInv ==
    ASSUME IInv, NEW s \in Starters, Resolve(s)
    PROVE  IInv'
<1>1. UNCHANGED <<files, active>> /\ UNCHANGED operator /\ UNCHANGED <<orphaned, before, switched, phase, report>>
  BY DEF Resolve
<1>2. PICK n \in Names :
        \/ resolved' = [resolved EXCEPT ![s][n] = Place("override")] /\ UNCHANGED verified
        \/ resolved' = [resolved EXCEPT ![s][n] = Mirror(n)] /\ UNCHANGED verified
        \/ resolved' = [resolved EXCEPT ![s][n] = Place("none")] /\ UNCHANGED verified
        \/ \E r \in Ids : /\ HasManifest(r) /\ Checks(s, r, n, dirs[r].by)
                          /\ resolved' = [resolved EXCEPT ![s][n] = InRelease(r, dirs[r].by)]
                          /\ verified' = [verified EXCEPT ![s] = @ \cup {<<r, n>>}]
  BY DEF Resolve, IsActive
<1>3. Mirror(n) \in Found /\ Place("none") \in Found /\ Place("override") \in Found
  BY DEF Found, Mirror
<1>4. StartersOK'
  <2>1. ASSUME NEW x \in Found, resolved' = [resolved EXCEPT ![s][n] = x], verified' \in [Starters -> SUBSET (Ids \X Names)]
        PROVE  StartersOK'
    BY <1>1, <2>1 DEF IInv, TypeOK, StartersOK, Found
  <2>2. verified \in [Starters -> SUBSET (Ids \X Names)]
    BY DEF IInv, TypeOK, StartersOK
  <2>3. ASSUME NEW r \in Ids, resolved' = [resolved EXCEPT ![s][n] = InRelease(r, dirs[r].by)], HasManifest(r),
               verified' = [verified EXCEPT ![s] = @ \cup {<<r, n>>}]
        PROVE  StartersOK'
    <3>1. InRelease(r, dirs[r].by) \in Found
      BY <2>3, ManifestHasOwner DEF Found
    <3>2. verified' \in [Starters -> SUBSET (Ids \X Names)]
      BY <2>2, <2>3
    <3> QED BY <2>1, <2>3, <3>1, <3>2
  <2> QED BY <1>2, <1>3, <2>1, <2>2, <2>3
<1>5. TypeOK'
  BY <1>1, <1>4, FilesTypeStays DEF IInv, TypeOK, OperatorsOK, operator
<1> QED BY <1>1, <1>5, OthersStay DEF files

(* Serving begins once every model is placed. *)
LEMMA ServeInv ==
    ASSUME IInv, NEW s \in Starters, Serve(s)
    PROVE  IInv'
<1>1. UNCHANGED <<files, active>> /\ UNCHANGED operator /\ UNCHANGED <<orphaned, before, switched>>
  BY DEF Serve
<1>2. StartersOK'
  BY DEF IInv, TypeOK, Serve, StartersOK, Found
<1>3. TypeOK'
  BY <1>1, <1>2, FilesTypeStays DEF IInv, TypeOK, OperatorsOK, operator
<1> QED BY <1>1, <1>3, OthersStay DEF files

(* The preflight reports and changes nothing on disk. *)
LEMMA PreflightInv ==
    ASSUME IInv, NEW s \in Starters, Preflight(s)
    PROVE  IInv'
<1>1. UNCHANGED <<files, active>> /\ UNCHANGED operator /\ UNCHANGED <<orphaned, before, switched>>
  BY DEF Preflight
<1>2. report' \in [Starters -> Ids \cup {None}]
  BY DEF IInv, TypeOK, StartersOK, Preflight
<1>3. verified' \in [Starters -> SUBSET (Ids \X Names)]
  <2>1. verified \in [Starters -> SUBSET (Ids \X Names)]
    BY DEF IInv, TypeOK, StartersOK
  <2>2. ASSUME NEW r \in Ids, HasManifest(r), NEW ns \in SUBSET Pinned[dirs[r].by],
               verified' = [verified EXCEPT ![s] = @ \cup ({r} \X ns)]
        PROVE  verified' \in [Starters -> SUBSET (Ids \X Names)]
    BY <2>1, <2>2, ManifestHasOwner
  <2>3. \/ UNCHANGED verified
        \/ \E r \in Ids : HasManifest(r) /\ \E ns \in SUBSET Pinned[dirs[r].by] :
              verified' = [verified EXCEPT ![s] = @ \cup ({r} \X ns)]
    BY DEF Preflight, IsActive
  <2> QED BY <2>1, <2>2, <2>3
<1>4. StartersOK'
  BY <1>2, <1>3 DEF IInv, TypeOK, Preflight, StartersOK, Found
<1>5. TypeOK'
  BY <1>1, <1>4, FilesTypeStays DEF IInv, TypeOK, OperatorsOK, operator
<1> QED BY <1>1, <1>5, OthersStay DEF files

(* A start-up that fails, or a service that stops, forgets what it resolved. *)
LEMMA ExitInv ==
    ASSUME IInv, NEW s \in Starters, Exit(s)
    PROVE  IInv'
<1>1. UNCHANGED <<files, active>> /\ UNCHANGED operator /\ UNCHANGED <<orphaned, before, switched, verified>>
      /\ phase' = [phase EXCEPT ![s] = "idle"] /\ report' = [report EXCEPT ![s] = None]
      /\ resolved' = [resolved EXCEPT ![s] = [n \in Names |-> Place("unresolved")]]
  BY DEF Exit
<1>2. Place("unresolved") \in Found
  BY DEF Found
<1>3. [n \in Names |-> Place("unresolved")] \in [Names -> Found]
  BY <1>2
<1>4. StartersOK'
  BY <1>1, <1>3 DEF IInv, TypeOK, StartersOK, Found
<1>5. TypeOK'
  BY <1>1, <1>4, FilesTypeStays DEF IInv, TypeOK, OperatorsOK, operator
<1> QED BY <1>1, <1>5, OthersStay DEF files

-----------------------------------------------------------------------------
(* The invariant *)

(* The invariant holds at the start: no directory, no command, no start-up. *)
LEMMA InitInv == Init => IInv
<1> SUFFICES ASSUME Init PROVE IInv
  OBVIOUS
<1>1. FilesOK /\ OperatorsOK
  BY DEF Init, FilesOK, OperatorsOK, Absent, Labels
<1>2. Place("unresolved") \in Found
  BY DEF Found
<1>3. StartersOK
  BY <1>2 DEF Init, StartersOK, Found
<1>4. TypeOK
  BY <1>1, <1>3 DEF TypeOK, Init
<1>5. NoDebris /\ (\A r \in Ids : Fits(r)) /\ (\A p \in Operators : Works(p))
  BY DEF Init, NoDebris, Fits, Works, Absent
<1> QED BY <1>4, <1>5 DEF IInv

(* Every step keeps the invariant, from one lemma per action. *)
LEMMA NextInv ==
    ASSUME IInv, [Next]_vars
    PROVE  IInv'
<1>1. ASSUME NEW p \in Operators, Command(p)
      PROVE  IInv'
  BY <1>1, StartMaterializeInv, StageInv, ReserveInv, MoveItemInv, RemoveStagingInv, FailMoveInv,
     CleanInv, CleanFailsInv, StartActivateInv, ValidateInv, ActivateInv, KillInv DEF Command
<1>2. ASSUME NEW s \in Starters, Begin(s) \/ Resolve(s) \/ Serve(s) \/ Preflight(s) \/ Exit(s)
      PROVE  IInv'
  BY <1>2, BeginInv, ResolveInv, ServeInv, PreflightInv, ExitInv
<1>3. CASE Drift
  BY <1>3, DriftInv
<1>4. CASE UNCHANGED vars
  <2>1. TypeOK'
    BY <1>4 DEF IInv, TypeOK, FilesOK, OperatorsOK, StartersOK, Found, vars, files, operator, starter
  <2> QED BY <1>4, <2>1, OthersStay DEF vars, files
<1> QED BY <1>1, <1>2, <1>3, <1>4 DEF Next

(* The inductive invariant: directories hold what their owner moved there,  *)
(* and who is at work is the owner.                                         *)
THEOREM ReleaseInvariant == Spec => []IInv
<1>1. Init => IInv
  BY InitInv
<1>2. IInv /\ [Next]_vars => IInv'
  BY NextInv
<1> QED BY <1>1, <1>2, PTL DEF Spec

(* Every variable keeps its type.                                          *)
THEOREM ReleaseTypeOK == Spec => []TypeOK
<1>1. IInv => TypeOK
  BY DEF IInv
<1> QED BY <1>1, ReleaseInvariant, PTL

(* A command that ends leaves a whole release or nothing, unless a kill, or *)
(* a clean-up that could not remove it, left the half of one (the except    *)
(* branch of materialize_release).                                          *)
THEOREM ReleaseNoDebris == Spec => []NoDebris
<1>1. IInv => NoDebris
  BY DEF IInv
<1> QED BY <1>1, ReleaseInvariant, PTL

-----------------------------------------------------------------------------
(* What has been published is not touched *)

(* What a step of p may do: begin or go on in its own directory.            *)
LEMMA OperatorStep ==
    ASSUME IInv, NEW p \in Operators, Command(p)
    PROVE  /\ \A q \in Operators : q # p => pc'[q] = pc[q] /\ target'[q] = target[q] /\ manifest'[q] = manifest[q]
           /\ pc'[p] \in {"moving", "cleaning"} =>
                 target'[p] = target[p] /\ (pc[p] \in {"moving", "cleaning"} \/ dirs[target[p]] = Absent)
           /\ \A o \in Ids : dirs'[o] # dirs[o] =>
                 o = target[p] /\ (pc[p] \in {"moving", "cleaning"} \/ dirs[o] = Absent)
           /\ drifted' = drifted /\ UNCHANGED starter
<1> USE DEF files, operator, Goto, End
<1>1. OperatorsOK /\ FilesOK
  BY DEF IInv, TypeOK
<1>2. CASE StartMaterialize(p) \/ StartActivate(p)
  BY <1>1, <1>2 DEF StartMaterialize, StartActivate, OperatorsOK
<1>3. CASE Stage(p) \/ RemoveStaging(p) \/ FailMove(p) \/ CleanFails(p) \/ Validate(p) \/ Activate(p) \/ Kill(p)
  BY <1>1, <1>3 DEF Stage, RemoveStaging, FailMove, CleanFails, Validate, Activate, Kill, OperatorsOK
<1>4. CASE Reserve(p)
  BY <1>1, <1>4 DEF Reserve, OperatorsOK, FilesOK
<1>5. CASE MoveItem(p)
  <2>1. pc[p] = "moving" /\ drifted' = drifted /\ UNCHANGED starter /\ UNCHANGED operator
        /\ \E d : dirs' = [dirs EXCEPT ![target[p]].items = d]
    BY <1>5 DEF MoveItem
  <2>2. \A o \in Ids : dirs'[o] # dirs[o] => o = target[p]
    BY <1>1, <2>1 DEF FilesOK
  <2> QED BY <1>1, <2>1, <2>2 DEF OperatorsOK
<1>6. CASE Clean(p)
  <2>1. pc[p] = "cleaning" /\ drifted' = drifted /\ UNCHANGED starter
        /\ (UNCHANGED operator \/ End(p))
    BY <1>6 DEF Clean
  <2>2. \/ \E d : dirs' = [dirs EXCEPT ![target[p]].items = d]
        \/ dirs' = [dirs EXCEPT ![target[p]] = Absent]
    BY <1>6 DEF Clean
  <2>3. \A o \in Ids : dirs'[o] # dirs[o] => o = target[p]
    BY <1>1, <2>2 DEF FilesOK
  <2> QED BY <1>1, <2>1, <2>3 DEF OperatorsOK
<1> QED BY <1>2, <1>3, <1>4, <1>5, <1>6 DEF Command

(* Three actions begin an activation or go on with one. *)
LEMMA NotActivating ==
    ASSUME IInv, NEW p \in Operators, Command(p), ~RemoveStaging(p), ~StartActivate(p), ~Validate(p)
    PROVE  pc'[p] \notin {"activating", "validated"}
BY DEF Command, StartMaterialize, Stage, Reserve, MoveItem, FailMove, Clean, CleanFails, Activate, Kill,
   Goto, End, operator, IInv, TypeOK, OperatorsOK

(* There is a manifest, and nobody at work.                                 *)
Settled(r) == HasManifest(r) /\ ~Underway(r)

(* A settled release, whole and with no owner at work, stays settled. *)
LEMMA SettledStays ==
    ASSUME IInv, [Next]_vars, NEW r \in Ids, Settled(r)
    PROVE  dirs'[r] = dirs[r] /\ Settled(r)'
<1>1. dirs[r] # Absent
  BY DEF Settled, HasManifest, Absent
<1>2. ASSUME NEW p \in Operators, Command(p)
      PROVE  dirs'[r] = dirs[r] /\ Settled(r)'
  <2>1. dirs'[r] = dirs[r]
    BY <1>1, <1>2, OperatorStep DEF Settled, Underway, AtWork
  <2>2. ASSUME NEW q \in Operators, pc'[q] \in {"moving", "cleaning"}, target'[q] = r
        PROVE  FALSE
    BY <1>1, <1>2, <2>2, OperatorStep DEF Settled, Underway, AtWork
  <2> QED BY <2>1, <2>2 DEF Settled, HasManifest, Underway, AtWork
<1>3. ASSUME UNCHANGED <<dirs, operator>>
      PROVE  dirs'[r] = dirs[r] /\ Settled(r)'
  BY <1>3 DEF Settled, HasManifest, Underway, AtWork, operator
<1>4. ASSUME NEW s \in Starters, Begin(s) \/ Resolve(s) \/ Serve(s) \/ Preflight(s) \/ Exit(s)
      PROVE  UNCHANGED <<dirs, operator>>
  BY <1>4 DEF Begin, Resolve, Serve, Preflight, Exit, files
<1>5. Drift \/ UNCHANGED vars => UNCHANGED <<dirs, operator>>
  BY DEF Drift, vars, files
<1> QED BY <1>2, <1>3, <1>4, <1>5 DEF Next

(* Who works on a release is its owner, and the owner of what is published *)
(* does not.                                                               *)
LEMMA PublishedIsSettled ==
    ASSUME IInv, NEW r \in Ids, Published(r)
    PROVE  Settled(r)
<1>1. HasManifest(r)
  BY DEF Published, Complete, HasManifest, Items
<1>2. ~Underway(r)
  BY DEF IInv, Works, Published, Underway, AtWork
<1> QED BY <1>1, <1>2 DEF Settled

(* A published release stays as it is, whatever commands fail, lose the     *)
(* race for its directory or are killed.                                    *)
THEOREM ReleaseImmutable == Spec => PublishedStays
<1>1. IInv /\ [Next]_vars => [\A r \in Ids : Published(r) => dirs'[r] = dirs[r]]_vars
  BY PublishedIsSettled, SettledStays
<1> QED BY <1>1, ReleaseInvariant, PTL DEF Spec, PublishedStays

-----------------------------------------------------------------------------
(* The pointer *)

(* What an activation has loaded; what it has validated; what is active.    *)
Activates(p) == pc[p] \in {"activating", "validated"}
Holds(p) == Activates(p) => HasManifest(target[p]) /\ manifest[p] = dirs[target[p]].by
Validated(p) == pc[p] = "validated" => Complete(target[p])

AInv ==
    /\ \A p \in Operators : Holds(p) /\ Validated(p)
    /\ ActiveIsComplete

(* No failed run cleans up a release that is active, or whose manifest an   *)
(* activation has loaded.                                                   *)
Spared(r) == \A p \in Operators : pc[p] = "cleaning" => target[p] # r
Calm == /\ active # None => Spared(active)
        /\ \A p \in Operators : Activates(p) => Spared(target[p])

(* A release with a manifest and its pinned artifacts is all there.         *)
LEMMA IntactIsComplete ==
    ASSUME IInv, NEW r \in Ids, HasManifest(r), \A n \in Pinned[dirs[r].by] : Intact(r, n, dirs[r].by)
    PROVE  Complete(r)
<1>1. dirs[r].by \in Operators /\ dirs[r].by # None
  BY ManifestHasOwner, NoneIsNobody
<1>2. dirs[r].items \subseteq Items(dirs[r].by)
  BY <1>1 DEF IInv, Fits
<1>3. Items(dirs[r].by) \subseteq dirs[r].items
  BY DEF Items, HasManifest, Intact
<1> QED BY <1>1, <1>2, <1>3 DEF Complete

(* Only who cleans removes anything. *)
LEMMA SparedStays ==
    ASSUME IInv, [Next]_vars, NEW r \in Ids, HasManifest(r), Spared(r)
    PROVE  /\ dirs'[r].by = dirs[r].by /\ HasManifest(r)'
           /\ Complete(r) => dirs'[r] = dirs[r] /\ Complete(r)'
<1>1. IInv' /\ dirs[r] # Absent
  BY NextInv DEF HasManifest, Absent
<1>2. CASE dirs'[r] = dirs[r]
  BY <1>2 DEF HasManifest, Complete, Items
<1>3. ASSUME NEW p \in Operators, Command(p), dirs'[r] # dirs[r]
      PROVE  dirs'[r].by = dirs[r].by /\ dirs[r].items \subseteq dirs'[r].items
  <2>1. target[p] = r /\ pc[p] = "moving"
    BY <1>1, <1>3, OperatorStep DEF Spared
  <2>2. UNCHANGED dirs \/ MoveItem(p)
    BY <1>3, <2>1 DEF Command, StartMaterialize, Stage, Reserve, RemoveStaging, FailMove, Clean, CleanFails,
       StartActivate, Validate, Activate, Kill, files
  <2>3. PICK i : dirs' = [dirs EXCEPT ![r].items = @ \cup {i}]
    BY <1>3, <2>1, <2>2 DEF MoveItem
  <2> QED BY <2>3 DEF IInv, TypeOK, FilesOK
<1>4. (\E s \in Starters : Begin(s) \/ Resolve(s) \/ Serve(s) \/ Preflight(s) \/ Exit(s)) \/ Drift \/ UNCHANGED vars
      => dirs' = dirs
  BY DEF Begin, Resolve, Serve, Preflight, Exit, Drift, vars, files
<1>5. CASE dirs'[r].by = dirs[r].by /\ dirs[r].items \subseteq dirs'[r].items
  <2>1. HasManifest(r)'
    BY <1>5 DEF HasManifest
  <2>2. ASSUME Complete(r) PROVE dirs'[r] = dirs[r]
    <3>1. dirs[r].by # None /\ dirs[r].items = Items(dirs[r].by)
      BY <2>2 DEF Complete
    <3>2. dirs'[r].items \subseteq Items(dirs[r].by)
      BY <1>1, <1>5, <3>1 DEF IInv, Fits, Items
    <3>3. dirs[r] \in [by : Operators \cup {None}, items : SUBSET {"release-manifest.json", "artifacts"}]
          /\ dirs'[r] \in [by : Operators \cup {None}, items : SUBSET {"release-manifest.json", "artifacts"}]
      BY <1>1 DEF IInv, TypeOK, FilesOK
    <3> QED BY <1>5, <3>1, <3>2, <3>3
  <2> QED BY <1>5, <2>1, <2>2 DEF Complete, Items
<1> QED BY <1>2, <1>3, <1>4, <1>5 DEF Next

(* An activation that goes on keeps what it holds.                          *)
LEMMA HoldsStays ==
    ASSUME IInv, AInv, Calm, [Next]_vars, NEW p \in Operators, target'[p] = target[p],
           manifest'[p] = manifest[p], pc'[p] = pc[p]
    PROVE  Holds(p)' /\ Validated(p)'
<1> SUFFICES ASSUME Activates(p)
             PROVE  Holds(p)' /\ Validated(p)'
  BY DEF Holds, Validated, Activates
<1>1. PICK r \in Ids : r = target[p]
  BY DEF IInv, TypeOK, OperatorsOK, Activates
<1>2. HasManifest(r) /\ manifest[p] = dirs[r].by /\ (pc[p] = "validated" => Complete(r)) /\ Spared(r)
  BY <1>1 DEF AInv, Holds, Validated, Calm
<1>3. HasManifest(r)' /\ dirs'[r].by = dirs[r].by /\ (pc[p] = "validated" => Complete(r)')
  BY <1>2, SparedStays
<1>4. Holds(p)'
  BY <1>1, <1>2, <1>3 DEF Holds, HasManifest
<1>5. Validated(p)'
  BY <1>1, <1>3 DEF Validated, Complete, Items
<1> QED BY <1>4, <1>5

(* A release that has just been published is activated.                     *)
LEMMA RemoveStagingHolds ==
    ASSUME IInv, NEW p \in Operators, RemoveStaging(p)
    PROVE  pc'[p] # "validated" /\ Holds(p)'
<1>1. PICK r \in Ids : r = target[p]
  BY DEF IInv, TypeOK, OperatorsOK, RemoveStaging
<1>2. pc[p] = "moving" /\ dirs[r].by = p /\ dirs[r].items = Items(p) /\ dirs' = dirs
  BY <1>1 DEF RemoveStaging, IInv, Works, files
<1>3. CASE End(p)
  BY <1>3, EndFrame DEF Holds, Activates
<1>4. CASE /\ pc' = [pc EXCEPT ![p] = "activating"] /\ manifest' = [manifest EXCEPT ![p] = p]
           /\ UNCHANGED target
  <2>1. pc'[p] = "activating" /\ target'[p] = r /\ manifest'[p] = p
    BY <1>1, <1>4 DEF IInv, TypeOK, OperatorsOK
  <2>2. HasManifest(r)'
    BY <1>2 DEF HasManifest, Items
  <2> QED BY <1>2, <2>1, <2>2 DEF Holds, HasManifest
<1> QED BY <1>3, <1>4 DEF RemoveStaging

(* An activation begins with a release that has its manifest.               *)
LEMMA StartActivateHolds ==
    ASSUME IInv, NEW p \in Operators, StartActivate(p)
    PROVE  pc'[p] # "validated" /\ Holds(p)'
<1>1. PICK r \in Ids : /\ HasManifest(r)
                       /\ target' = [target EXCEPT ![p] = r] /\ manifest' = [manifest EXCEPT ![p] = dirs[r].by]
  BY DEF StartActivate
<1>2. UNCHANGED dirs /\ pc' = [pc EXCEPT ![p] = "activating"]
  BY DEF StartActivate, files
<1>3. pc'[p] = "activating" /\ target'[p] = r /\ manifest'[p] = dirs[r].by
  BY <1>1, <1>2 DEF IInv, TypeOK, OperatorsOK
<1> QED BY <1>1, <1>2, <1>3 DEF Holds, HasManifest

(* What passed the check is complete. *)
LEMMA ValidateHolds ==
    ASSUME IInv, AInv, NEW p \in Operators, Validate(p)
    PROVE  Holds(p)' /\ Validated(p)'
<1>1. PICK r \in Ids : r = target[p]
  BY DEF IInv, TypeOK, OperatorsOK, Validate
<1>2. HasManifest(r) /\ manifest[p] = dirs[r].by
  BY <1>1 DEF AInv, Holds, Validate, Activates
<1>3. dirs' = dirs
  BY DEF Validate, files
<1>4. CASE \A n \in Pinned[manifest[p]] : Intact(target[p], n, manifest[p])
  <2>1. pc'[p] = "validated" /\ target'[p] = r /\ manifest'[p] = manifest[p]
    BY <1>1, <1>4 DEF Validate, Goto, IInv, TypeOK, OperatorsOK
  <2>2. Complete(r)
    BY <1>1, <1>2, <1>4, IntactIsComplete
  <2>3. Holds(p)'
    BY <1>2, <1>3, <2>1 DEF Holds, HasManifest
  <2>4. Validated(p)'
    BY <1>3, <2>1, <2>2 DEF Validated, Complete, Items
  <2> QED BY <2>3, <2>4
<1>5. CASE ~\A n \in Pinned[manifest[p]] : Intact(target[p], n, manifest[p])
  BY <1>5, EndFrame DEF Validate, Holds, Validated, Activates
<1> QED BY <1>4, <1>5

(* The pointer stays at complete releases, step by step of an operator. *)
LEMMA ActiveStays ==
    ASSUME IInv, AInv, Calm, [Next]_vars
    PROVE  ActiveIsComplete'
<1>1. ASSUME NEW r \in Ids, active' = r, Complete(r), Spared(r)
      PROVE  ActiveIsComplete'
  <2>1. HasManifest(r)
    BY <1>1 DEF Complete, HasManifest, Items
  <2> QED BY <1>1, <2>1, SparedStays DEF ActiveIsComplete, Complete, Items
<1>2. CASE active' = active
  BY <1>1, <1>2 DEF AInv, ActiveIsComplete, Calm, IInv, TypeOK, FilesOK
<1>3. CASE active' # active
  <2>1. PICK p \in Operators : pc[p] = "validated" /\ active' = target[p]
    BY <1>3 DEF Next, Command, StartMaterialize, Stage, Reserve, MoveItem, RemoveStaging, FailMove, Clean,
       CleanFails, StartActivate, Validate, Activate, Kill, Begin, Resolve, Serve, Preflight, Exit, Drift, vars
  <2>2. target[p] \in Ids /\ Complete(target[p]) /\ Spared(target[p])
    BY <2>1 DEF AInv, Validated, Calm, Activates, IInv, TypeOK, OperatorsOK
  <2> QED BY <1>1, <2>1, <2>2
<1> QED BY <1>2, <1>3

(* Every step keeps what activations hold and what the pointer is at. *)
LEMMA NextActive ==
    ASSUME IInv, AInv, Calm, [Next]_vars
    PROVE  AInv'
<1>1. ActiveIsComplete'
  BY ActiveStays
<1>2. ASSUME UNCHANGED operator, NEW q \in Operators
      PROVE  Holds(q)' /\ Validated(q)'
  BY <1>2, HoldsStays DEF operator
<1>3. ASSUME NEW p \in Operators, Command(p), NEW q \in Operators
      PROVE  Holds(q)' /\ Validated(q)'
  <2>1. CASE q # p
    BY <1>3, <2>1, OperatorStep, HoldsStays
  <2>2. CASE q = p /\ RemoveStaging(p)
    BY <2>2, RemoveStagingHolds DEF Validated
  <2>3. CASE q = p /\ StartActivate(p)
    BY <2>3, StartActivateHolds DEF Validated
  <2>4. CASE q = p /\ Validate(p)
    BY <2>4, ValidateHolds
  <2>5. CASE q = p /\ ~RemoveStaging(p) /\ ~StartActivate(p) /\ ~Validate(p)
    <3>1. pc'[p] \notin {"activating", "validated"}
      BY <1>3, <2>5, NotActivating
    <3> QED BY <2>5, <3>1 DEF Holds, Validated, Activates
  <2> QED BY <2>1, <2>2, <2>3, <2>4, <2>5
<1>4. (\E s \in Starters : Begin(s) \/ Resolve(s) \/ Serve(s) \/ Preflight(s) \/ Exit(s)) \/ Drift \/ UNCHANGED vars
      => UNCHANGED operator
  BY DEF Begin, Resolve, Serve, Preflight, Exit, Drift, vars
<1>5. \A q \in Operators : Holds(q)' /\ Validated(q)'
  BY <1>2, <1>3, <1>4 DEF Next
<1> QED BY <1>1, <1>5 DEF AInv

(* The pointer is at a complete release, whenever releases are activated,   *)
(* as long as no failed run cleans up one that is active or is being        *)
(* activated (activate_manifest, materialize_release).                      *)
THEOREM ReleaseActiveIsComplete == Spec /\ []Calm => []ActiveIsComplete
<1>1. Init => AInv
  BY DEF Init, AInv, Holds, Validated, Activates, ActiveIsComplete
<1>2. IInv /\ AInv /\ Calm /\ [Next]_vars => AInv'
  BY NextActive
<1>3. AInv => ActiveIsComplete
  BY DEF AInv
<1> QED BY <1>1, <1>2, <1>3, ReleaseInvariant, PTL DEF Spec

-----------------------------------------------------------------------------
(* Previously materialized releases *)

(* What is active or is being activated has its manifest, and nobody is at  *)
(* work on it.                                                              *)
QInv == /\ active # None => Settled(active)
        /\ \A p \in Operators : Activates(p) => Settled(target[p])

(* The staging directory has gone, so nobody is at work on the release.     *)
LEMMA RemoveStagingQuiet ==
    ASSUME IInv, IInv', NEW p \in Operators, RemoveStaging(p), Activates(p)'
    PROVE  Settled(target[p])'
<1>1. PICK r \in Ids : r = target[p]
  BY DEF IInv, TypeOK, OperatorsOK, RemoveStaging
<1>2. pc[p] = "moving" /\ dirs[r].by = p /\ dirs[r].items = Items(p) /\ dirs' = dirs
  BY <1>1 DEF RemoveStaging, IInv, Works, files
<1>3. target' = target
  BY EndFrame DEF RemoveStaging, Activates
<1>4. HasManifest(r)'
  BY <1>2 DEF HasManifest, Items
<1>5. ASSUME NEW q \in Operators, pc'[q] \in {"moving", "cleaning"}, target'[q] = r
      PROVE  FALSE
  <2>1. q = p
    BY <1>2, <1>5 DEF IInv, Works
  <2> QED BY <1>5, <2>1 DEF Activates
<1> QED BY <1>1, <1>3, <1>4, <1>5 DEF Settled, HasManifest, Underway, AtWork

(* A release that is activated as the documentation has it is settled.      *)
LEMMA StartActivateQuiet ==
    ASSUME IInv, NEW p \in Operators, StartActivate(p), AnyTime = FALSE
    PROVE  Settled(target[p])'
<1>1. PICK r \in Ids : HasManifest(r) /\ ~Underway(r) /\ target' = [target EXCEPT ![p] = r]
  BY DEF StartActivate
<1>2. UNCHANGED dirs /\ pc' = [pc EXCEPT ![p] = "activating"]
  BY DEF StartActivate, files
<1>3. pc'[p] = "activating" /\ target'[p] = r
  BY <1>1, <1>2 DEF IInv, TypeOK, OperatorsOK
<1>4. ASSUME NEW q \in Operators, pc'[q] \in {"moving", "cleaning"}, target'[q] = r
      PROVE  pc[q] \in {"moving", "cleaning"} /\ target[q] = r
  BY <1>1, <1>2, <1>3, <1>4 DEF IInv, TypeOK, OperatorsOK
<1> QED BY <1>1, <1>2, <1>3, <1>4 DEF Settled, HasManifest, Underway, AtWork

(* Every step keeps the releases that are active or being activated settled. *)
LEMMA NextQuiet ==
    ASSUME IInv, QInv, [Next]_vars, AnyTime = FALSE
    PROVE  QInv'
<1>1. IInv'
  BY NextInv
<1>2. ASSUME NEW q \in Operators, pc'[q] = pc[q], target'[q] = target[q], Activates(q)'
      PROVE  Settled(target[q])'
  <2>1. PICK r \in Ids : r = target[q]
    BY <1>2 DEF IInv, TypeOK, OperatorsOK, Activates
  <2>2. Settled(r)'
    BY <1>2, <2>1, SettledStays DEF QInv, Activates
  <2> QED BY <1>2, <2>1, <2>2 DEF Settled, HasManifest, Underway, AtWork
<1>3. ASSUME NEW p \in Operators, Command(p), NEW q \in Operators, Activates(q)'
      PROVE  Settled(target[q])'
  <2>1. CASE q # p
    BY <1>2, <1>3, <2>1, OperatorStep
  <2>2. CASE q = p /\ RemoveStaging(p)
    BY <1>1, <1>3, <2>2, RemoveStagingQuiet
  <2>3. CASE q = p /\ StartActivate(p)
    BY <2>3, StartActivateQuiet
  <2>4. CASE q = p /\ Validate(p)
    <3>1. Activates(p) /\ target' = target /\ dirs' = dirs
      BY <1>3, <2>4, EndFrame DEF Validate, Goto, Activates, files
    <3>2. PICK r \in Ids : r = target[p]
      BY <3>1 DEF IInv, TypeOK, OperatorsOK, Activates
    <3>3. Settled(r)'
      BY <3>1, <3>2, SettledStays DEF QInv
    <3> QED BY <2>4, <3>1, <3>2, <3>3 DEF Settled, HasManifest, Underway, AtWork
  <2>5. CASE q = p /\ ~RemoveStaging(p) /\ ~StartActivate(p) /\ ~Validate(p)
    BY <1>3, <2>5, NotActivating DEF Activates
  <2> QED BY <2>1, <2>2, <2>3, <2>4, <2>5
<1>4. (\E s \in Starters : Begin(s) \/ Resolve(s) \/ Serve(s) \/ Preflight(s) \/ Exit(s)) \/ Drift \/ UNCHANGED vars
      => UNCHANGED operator
  BY DEF Begin, Resolve, Serve, Preflight, Exit, Drift, vars
<1>5. \A q \in Operators : Activates(q)' => Settled(target[q])'
  BY <1>2, <1>3, <1>4 DEF Next, operator
<1>6. ASSUME NEW r \in Ids, active' = r, Settled(r)
      PROVE  active' # None => Settled(active)'
  BY <1>6, SettledStays DEF Settled, HasManifest, Underway, AtWork
<1>7. active' # None => Settled(active)'
  <2>1. CASE active' = active
    BY <1>6, <2>1 DEF QInv, IInv, TypeOK, FilesOK
  <2>2. CASE active' # active
    <3>1. PICK p \in Operators : pc[p] = "validated" /\ active' = target[p]
      BY <2>2 DEF Next, Command, StartMaterialize, Stage, Reserve, MoveItem, RemoveStaging, FailMove, Clean,
         CleanFails, StartActivate, Validate, Activate, Kill, Begin, Resolve, Serve, Preflight, Exit, Drift, vars
    <3>2. target[p] \in Ids /\ Settled(target[p])
      BY <3>1 DEF QInv, Activates, IInv, TypeOK, OperatorsOK
    <3> QED BY <1>6, <3>1, <3>2
  <2> QED BY <2>1, <2>2
<1> QED BY <1>5, <1>7 DEF QInv

(* If releases are activated when nobody is materializing them, as the      *)
(* documentation has it, none is ever cleaned up under an activation, or    *)
(* when it is active (activate_manifest, materialize_release).              *)
THEOREM ReleaseQuietIsCalm ==
    ASSUME AnyTime = FALSE
    PROVE  Spec => []Calm
<1>1. Init => QInv
  BY DEF Init, QInv, Activates
<1>2. IInv /\ QInv /\ [Next]_vars => QInv'
  BY NextQuiet
<1>3. QInv => Calm
  BY DEF QInv, Calm, Spared, Settled, Underway, AtWork
<1> QED BY <1>1, <1>2, <1>3, ReleaseInvariant, PTL DEF Spec

(* So then the pointer is at a complete release. *)
COROLLARY ReleaseQuietActiveIsComplete ==
    ASSUME AnyTime = FALSE
    PROVE  Spec => []ActiveIsComplete
BY ReleaseQuietIsCalm, ReleaseActiveIsComplete

-----------------------------------------------------------------------------
(* Start-ups *)

(* While s is running, what it has checksummed had not drifted when it      *)
(* began; before it begins, nothing is resolved.                            *)
Fresh(s) ==
    /\ phase[s] # "idle" =>
         /\ before[s] \subseteq drifted /\ verified[s] \cap before[s] = {}
         /\ \A n \in Names : resolved[s][n].from = "release" => <<resolved[s][n].id, n>> \notin before[s]
    /\ phase[s] = "idle" => \A n \in Names : resolved[s][n].from = "unresolved"

FInv == \A s \in Starters : Fresh(s)

(* What passes Checks had not drifted when the start-up began. *)
LEMMA ChecksFresh ==
    ASSUME NEW s \in Starters, Fresh(s), phase[s] # "idle", NEW r, NEW n, NEW q, Checks(s, r, n, q)
    PROVE  <<r, n>> \notin before[s]
BY DEF Fresh, Checks, Intact

(* The cache is empty when a start-up begins, so nothing verified had drifted. *)
LEMMA BeginFresh ==
    ASSUME IInv, NEW s \in Starters, Fresh(s), Begin(s)
    PROVE  Fresh(s)'
<1>1. /\ phase[s] = "idle" /\ phase'[s] = "resolving" /\ verified'[s] = {} /\ before'[s] = drifted
      /\ UNCHANGED <<drifted, resolved>>
  BY DEF Begin, files, IInv, TypeOK, StartersOK
<1> QED BY <1>1 DEF Fresh

(* Only a model whose checksum agreed is taken as verified. *)
LEMMA ResolveFresh ==
    ASSUME IInv, NEW s \in Starters, Fresh(s), Resolve(s)
    PROVE  Fresh(s)'
<1>1. phase[s] # "idle" /\ UNCHANGED <<phase, before, drifted>>
  BY DEF Resolve, files
<1>2. PICK n \in Names, x \in Found :
        /\ resolved'[s] = [resolved[s] EXCEPT ![n] = x]
        /\ \/ x.from # "release" /\ verified'[s] = verified[s]
           \/ /\ x.from = "release" /\ <<x.id, n>> \notin before[s]
              /\ verified'[s] = verified[s] \cup {<<x.id, n>>}
  <2>1. PICK n \in Names :
        \/ resolved' = [resolved EXCEPT ![s][n] = Place("override")] /\ UNCHANGED verified
        \/ resolved' = [resolved EXCEPT ![s][n] = Mirror(n)] /\ UNCHANGED verified
        \/ resolved' = [resolved EXCEPT ![s][n] = Place("none")] /\ UNCHANGED verified
        \/ \E r \in Ids : /\ HasManifest(r) /\ Checks(s, r, n, dirs[r].by)
                          /\ resolved' = [resolved EXCEPT ![s][n] = InRelease(r, dirs[r].by)]
                          /\ verified' = [verified EXCEPT ![s] = @ \cup {<<r, n>>}]
    BY DEF Resolve, IsActive
  <2>2. /\ Mirror(n) \in Found /\ Mirror(n).from # "release"
        /\ Place("none") \in Found /\ Place("none").from # "release"
        /\ Place("override") \in Found /\ Place("override").from # "release"
    BY DEF Found, Mirror, Place
  <2>3. resolved \in [Starters -> [Names -> Found]] /\ verified \in [Starters -> SUBSET (Ids \X Names)]
    BY DEF IInv, TypeOK, StartersOK
  <2>4. ASSUME NEW r \in Ids, HasManifest(r), Checks(s, r, n, dirs[r].by)
        PROVE  /\ InRelease(r, dirs[r].by) \in Found /\ InRelease(r, dirs[r].by).from = "release"
               /\ InRelease(r, dirs[r].by).id = r /\ <<r, n>> \notin before[s]
    BY <1>1, <2>4, ManifestHasOwner, ChecksFresh DEF Found, InRelease
  <2>5. CASE \E x \in Found : x.from # "release" /\ resolved' = [resolved EXCEPT ![s][n] = x] /\ UNCHANGED verified
    <3>1. PICK x \in Found : x.from # "release" /\ resolved' = [resolved EXCEPT ![s][n] = x] /\ UNCHANGED verified
      BY <2>5
    <3>2. resolved'[s] = [resolved[s] EXCEPT ![n] = x] /\ verified'[s] = verified[s]
      BY <2>3, <3>1
    <3> QED BY <3>1, <3>2
  <2>6. CASE \E r \in Ids : /\ HasManifest(r) /\ Checks(s, r, n, dirs[r].by)
                           /\ resolved' = [resolved EXCEPT ![s][n] = InRelease(r, dirs[r].by)]
                           /\ verified' = [verified EXCEPT ![s] = @ \cup {<<r, n>>}]
    <3>1. PICK r \in Ids : /\ HasManifest(r) /\ Checks(s, r, n, dirs[r].by)
                          /\ resolved' = [resolved EXCEPT ![s][n] = InRelease(r, dirs[r].by)]
                          /\ verified' = [verified EXCEPT ![s] = @ \cup {<<r, n>>}]
      BY <2>6
    <3>2. PICK x \in Found : x = InRelease(r, dirs[r].by) /\ x.from = "release" /\ x.id = r /\ <<r, n>> \notin before[s]
      BY <2>4, <3>1
    <3>3. resolved'[s] = [resolved[s] EXCEPT ![n] = x] /\ verified'[s] = verified[s] \cup {<<x.id, n>>}
      BY <2>3, <3>1, <3>2
    <3> QED BY <3>2, <3>3
  <2> QED BY <2>1, <2>2, <2>5, <2>6
<1>3. resolved[s] \in [Names -> Found]
  BY DEF IInv, TypeOK, StartersOK
<1>4. verified'[s] \cap before[s] = {} /\ before[s] \subseteq drifted
  BY <1>1, <1>2 DEF Fresh
<1>5. \A m \in Names : resolved'[s][m].from = "release" => <<resolved'[s][m].id, m>> \notin before[s]
  BY <1>1, <1>2, <1>3 DEF Fresh
<1> QED BY <1>1, <1>4, <1>5 DEF Fresh

(* The preflight verifies as resolution does. *)
LEMMA PreflightFresh ==
    ASSUME IInv, NEW s \in Starters, Fresh(s), Preflight(s)
    PROVE  Fresh(s)'
<1>1. phase[s] = "resolving" /\ phase'[s] = "checked" /\ UNCHANGED <<resolved, before, drifted>>
  BY DEF Preflight, files, IInv, TypeOK, StartersOK
<1>2. verified'[s] \cap before[s] = {}
  <2>1. verified \in [Starters -> SUBSET (Ids \X Names)]
    BY DEF IInv, TypeOK, StartersOK
  <2>2. ASSUME NEW r \in Ids, NEW ns \in SUBSET {n \in Pinned[dirs[r].by] : Checks(s, r, n, dirs[r].by)},
               verified' = [verified EXCEPT ![s] = @ \cup ({r} \X ns)]
        PROVE  verified'[s] \cap before[s] = {}
    <3>1. ({r} \X ns) \cap before[s] = {}
      BY <1>1, <2>2, ChecksFresh
    <3> QED BY <1>1, <2>1, <2>2, <3>1 DEF Fresh
  <2>3. UNCHANGED verified => verified'[s] \cap before[s] = {}
    BY <1>1 DEF Fresh
  <2> QED BY <2>2, <2>3 DEF Preflight
<1> QED BY <1>1, <1>2 DEF Fresh

(* Every step keeps verified models apart from those that had drifted before. *)
LEMMA NextFresh ==
    ASSUME IInv, FInv, [Next]_vars
    PROVE  FInv'
<1> SUFFICES ASSUME NEW t \in Starters PROVE Fresh(t)'
  BY DEF FInv
<1>1. Fresh(t)
  BY DEF FInv
<1>2. ASSUME drifted \subseteq drifted', phase'[t] = phase[t], resolved'[t] = resolved[t],
             verified'[t] = verified[t], before'[t] = before[t]
      PROVE  Fresh(t)'
  BY <1>1, <1>2 DEF Fresh
<1>3. ASSUME NEW p \in Operators, Command(p)
      PROVE  Fresh(t)'
  BY <1>2, <1>3, OperatorStep DEF starter
<1>4. CASE Drift
  BY <1>2, <1>4 DEF Drift, starter
<1>5. CASE UNCHANGED vars
  BY <1>2, <1>5 DEF vars, files, starter
<1>6. ASSUME NEW s \in Starters, Begin(s) \/ Resolve(s) \/ Serve(s) \/ Preflight(s) \/ Exit(s)
      PROVE  Fresh(t)'
  <2>1. CASE t # s
    <3>1. /\ drifted' = drifted /\ phase'[t] = phase[t] /\ resolved'[t] = resolved[t]
          /\ verified'[t] = verified[t] /\ before'[t] = before[t]
      BY <1>6, <2>1 DEF Begin, Resolve, Serve, Preflight, Exit, files, IInv, TypeOK, StartersOK
    <3> QED BY <1>2, <3>1
  <2>2. CASE t = s /\ Begin(s)
    BY <1>1, <2>2, BeginFresh
  <2>3. CASE t = s /\ Resolve(s)
    BY <1>1, <2>3, ResolveFresh
  <2>4. CASE t = s /\ Preflight(s)
    BY <1>1, <2>4, PreflightFresh
  <2>5. CASE t = s /\ Serve(s)
    BY <1>1, <2>5 DEF Serve, Fresh, files, IInv, TypeOK, StartersOK
  <2>6. CASE t = s /\ Exit(s)
    BY <2>6 DEF Exit, Fresh, Place, IInv, TypeOK, StartersOK
  <2> QED BY <1>6, <2>1, <2>2, <2>3, <2>4, <2>5, <2>6
<1> QED BY <1>3, <1>4, <1>5, <1>6 DEF Next

(* A start-up does not load bytes that had drifted when it began            *)
(* (resolve_artifact checksums each model once per start-up).               *)
THEOREM ReleaseDriftIsCaught == Spec => []DriftIsCaught
<1>1. Init => FInv
  BY DEF Init, FInv, Fresh, Place
<1>2. IInv /\ FInv /\ [Next]_vars => FInv'
  BY NextFresh
<1>3. FInv => DriftIsCaught
  BY DEF FInv, Fresh, DriftIsCaught
<1> QED BY <1>1, <1>2, <1>3, ReleaseInvariant, PTL DEF Spec

-----------------------------------------------------------------------------
(* The preflight *)

(* Where s has found model n, which the active release r pins.              *)
Pins(r, n) == n \in Pinned[dirs[r].by]
FromRelease(s, r, n) == resolved[s][n] \in {Place("unresolved"), InRelease(r, dirs[r].by)}
Mismatch(s, r, n) == <<r, n>> \in drifted /\ <<r, n>> \notin verified[s]

(* As long as the pointer has not moved: an override is what s takes, and   *)
(* what it does not find in the release has failed its checksum; what it    *)
(* has reported as sound, it has checksummed.                               *)
Resolved(s) ==
    active # None => \A n \in Names : Pins(active, n) /\ n \notin Overrides =>
       FromRelease(s, active, n) \/ Mismatch(s, active, n)
Reported(s) ==
    phase[s] = "checked" /\ report[s] # None =>
       /\ active = report[s]
       /\ \A n \in Names : Pins(active, n) =>
            n \notin Overrides /\ FromRelease(s, active, n) /\ <<active, n>> \in verified[s]
Told(s) == phase[s] # "idle" /\ ~switched[s] => Resolved(s) /\ Reported(s)

TInv == \A s \in Starters : Told(s)

(* The active release is one with a manifest. *)
LEMMA ActiveIsThere ==
    ASSUME IInv, AInv, active # None
    PROVE  active \in Ids /\ IsActive(active) /\ Complete(active) /\ Pinned[dirs[active].by] \subseteq Names
<1>1. active \in Ids /\ Complete(active)
  BY DEF AInv, ActiveIsComplete, IInv, TypeOK, FilesOK
<1>2. HasManifest(active)
  BY <1>1 DEF Complete, HasManifest, Items
<1> QED BY <1>1, <1>2, ManifestHasOwner DEF IsActive

(* Steps of others: the active release stays, and bytes only drift.         *)
LEMMA ToldStays ==
    ASSUME IInv, AInv, Calm, [Next]_vars, NEW s \in Starters, Told(s),
           drifted \subseteq drifted', active' = active, switched'[s] = switched[s],
           phase'[s] = phase[s], resolved'[s] = resolved[s], verified'[s] = verified[s], report'[s] = report[s]
    PROVE  Told(s)'
<1>1. active # None => dirs'[active] = dirs[active]
  BY ActiveIsThere, SparedStays DEF Calm, IsActive
<1> QED BY <1>1 DEF Told, Resolved, Reported, Pins, FromRelease, Mismatch, InRelease, Place

(* A start-up that begins has resolved and reported nothing. *)
LEMMA BeginTold ==
    ASSUME IInv, NEW s \in Starters, Fresh(s), Begin(s)
    PROVE  Told(s)'
<1>1. phase[s] = "idle" /\ phase'[s] = "resolving" /\ resolved' = resolved
  BY DEF Begin, IInv, TypeOK, StartersOK
<1>2. \A n \in Names : resolved[s][n] = Place("unresolved")
  <2> SUFFICES ASSUME NEW n \in Names PROVE resolved[s][n] = Place("unresolved")
    OBVIOUS
  <2>1. resolved[s][n] \in Found /\ resolved[s][n].from = "unresolved"
    BY <1>1 DEF Fresh, IInv, TypeOK, StartersOK
  <2> QED BY <2>1 DEF Found, Place, InRelease
<1> QED BY <1>1, <1>2 DEF Told, Resolved, Reported, FromRelease, Place

(* What a start-up finds of a pinned model that nothing overrides.          *)
LEMMA ResolvePinned ==
    ASSUME IInv, AInv, active # None, NEW s \in Starters, Resolve(s)
    PROVE  \E n \in Names :
             /\ \A m \in Names : m # n => resolved'[s][m] = resolved[s][m]
             /\ verified[s] \subseteq verified'[s]
             /\ \A m \in Names : m # n => (<<active, m>> \in verified'[s] => <<active, m>> \in verified[s])
             /\ Pins(active, n) /\ n \notin Overrides =>
                   \/ resolved'[s][n] = InRelease(active, dirs[active].by)
                   \/ Mismatch(s, active, n) /\ verified'[s] = verified[s]
<1>1. active \in Ids /\ IsActive(active) /\ Complete(active) /\ \A r \in Ids : IsActive(r) => r = active
  BY ActiveIsThere DEF IsActive
<1>2. PICK n \in Names :
        \/ /\ n \in Overrides \/ n \notin Pinned[dirs[active].by]
           /\ \E x \in Found : resolved' = [resolved EXCEPT ![s][n] = x]
           /\ UNCHANGED verified
        \/ /\ n \in Pinned[dirs[active].by] /\ Checks(s, active, n, dirs[active].by)
           /\ resolved' = [resolved EXCEPT ![s][n] = InRelease(active, dirs[active].by)]
           /\ verified' = [verified EXCEPT ![s] = @ \cup {<<active, n>>}]
        \/ /\ n \in Pinned[dirs[active].by] /\ ~Checks(s, active, n, dirs[active].by)
           /\ resolved' = [resolved EXCEPT ![s][n] = Place("none")] /\ UNCHANGED verified
  <2>1. \A n \in Names : Mirror(n) \in Found /\ Place("override") \in Found
    BY DEF Found, Mirror
  <2> QED BY <1>1, <2>1 DEF Resolve
<1>3. resolved \in [Starters -> [Names -> Found]] /\ verified \in [Starters -> SUBSET (Ids \X Names)]
  BY DEF IInv, TypeOK, StartersOK
<1>4. CASE /\ n \in Overrides \/ n \notin Pinned[dirs[active].by]
           /\ \E x \in Found : resolved' = [resolved EXCEPT ![s][n] = x]
           /\ UNCHANGED verified
  BY <1>3, <1>4 DEF Pins
<1>5. CASE /\ n \in Pinned[dirs[active].by] /\ Checks(s, active, n, dirs[active].by)
           /\ resolved' = [resolved EXCEPT ![s][n] = InRelease(active, dirs[active].by)]
           /\ verified' = [verified EXCEPT ![s] = @ \cup {<<active, n>>}]
  <2>1. verified'[s] = verified[s] \cup {<<active, n>>}
    BY <1>3, <1>5
  <2>2. resolved'[s] = [resolved[s] EXCEPT ![n] = InRelease(active, dirs[active].by)] /\ resolved[s] \in [Names -> Found]
    BY <1>3, <1>5
  <2> QED BY <2>1, <2>2
<1>6. CASE /\ n \in Pinned[dirs[active].by] /\ ~Checks(s, active, n, dirs[active].by)
           /\ resolved' = [resolved EXCEPT ![s][n] = Place("none")] /\ UNCHANGED verified
  <2>1. "artifacts" \in dirs[active].items
    BY <1>1, <1>6 DEF Complete, Items
  <2>2. Mismatch(s, active, n)
    BY <1>6, <2>1 DEF Mismatch, Checks, Intact
  <2>3. \A m \in Names : m # n => resolved'[s][m] = resolved[s][m]
    BY <1>3, <1>6
  <2> QED BY <1>6, <2>2, <2>3
<1> QED BY <1>2, <1>4, <1>5, <1>6

(* What is resolved is what the pointer, the overrides and the disk said. *)
LEMMA ResolveTold ==
    ASSUME IInv, AInv, NEW s \in Starters, Told(s), Resolve(s)
    PROVE  Told(s)'
<1> SUFFICES ASSUME ~switched'[s]
             PROVE  Resolved(s)' /\ Reported(s)'
  BY DEF Told
<1>1. phase[s] # "idle" /\ UNCHANGED <<phase, active, switched, report, dirs, drifted>>
  BY DEF Resolve, files
<1>2. Resolved(s) /\ Reported(s)
  BY <1>1 DEF Told
<1>3. CASE active = None
  <2>1. report[s] = None \/ phase[s] # "checked"
    BY <1>2, <1>3 DEF Reported
  <2> QED BY <1>1, <1>3, <2>1 DEF Resolved, Reported
<1>4. CASE active # None
  <2>1. PICK n \in Names :
             /\ \A m \in Names : m # n => resolved'[s][m] = resolved[s][m]
             /\ verified[s] \subseteq verified'[s]
             /\ \A m \in Names : m # n => (<<active, m>> \in verified'[s] => <<active, m>> \in verified[s])
             /\ Pins(active, n) /\ n \notin Overrides =>
                   \/ resolved'[s][n] = InRelease(active, dirs[active].by)
                   \/ Mismatch(s, active, n) /\ verified'[s] = verified[s]
    BY <1>4, ResolvePinned
  <2>2. Resolved(s)'
    <3> SUFFICES ASSUME NEW m \in Names, Pins(active, m), m \notin Overrides
                 PROVE  FromRelease(s, active, m)' \/ Mismatch(s, active, m)'
      BY <1>1 DEF Resolved, Pins, FromRelease, Mismatch, InRelease
    <3>1. CASE m = n
      BY <1>1, <2>1, <3>1 DEF FromRelease, Mismatch, InRelease
    <3>2. CASE m # n
      <4>1. FromRelease(s, active, m) \/ Mismatch(s, active, m)
        BY <1>2, <1>4 DEF Resolved
      <4> QED BY <1>1, <2>1, <3>2, <4>1 DEF FromRelease, Mismatch, InRelease
    <3> QED BY <3>1, <3>2
  <2>3. Reported(s)'
    <3> SUFFICES ASSUME phase[s] = "checked", report[s] # None
                 PROVE  Reported(s)'
      BY <1>1 DEF Reported
    <3>1. active = report[s] /\ \A m \in Names : Pins(active, m) =>
            m \notin Overrides /\ FromRelease(s, active, m) /\ <<active, m>> \in verified[s]
      BY <1>2 DEF Reported
    <3>2. ASSUME NEW m \in Names, Pins(active, m)
          PROVE  m \notin Overrides /\ FromRelease(s, active, m)' /\ <<active, m>> \in verified'[s]
      <4>1. CASE m = n
        BY <1>1, <2>1, <3>1, <3>2, <4>1 DEF FromRelease, Mismatch, InRelease
      <4>2. CASE m # n
        BY <1>1, <2>1, <3>1, <3>2, <4>2 DEF FromRelease, InRelease
      <4> QED BY <4>1, <4>2
    <3> QED BY <1>1, <3>1, <3>2 DEF Reported, Pins, FromRelease, InRelease
  <2> QED BY <2>2, <2>3
<1> QED BY <1>3, <1>4

(* What is reported agrees with what was resolved. *)
LEMMA PreflightTold ==
    ASSUME IInv, AInv, NEW s \in Starters, Told(s), Preflight(s)
    PROVE  Told(s)'
<1> SUFFICES ASSUME ~switched'[s]
             PROVE  Resolved(s)' /\ Reported(s)'
  BY DEF Told
<1>1. phase[s] # "idle" /\ UNCHANGED <<active, switched, dirs, drifted, resolved>>
  BY DEF Preflight, files
<1>2. Resolved(s)
  BY <1>1 DEF Told
<1>3. verified \in [Starters -> SUBSET (Ids \X Names)] /\ report \in [Starters -> Ids \cup {None}]
  BY DEF IInv, TypeOK, StartersOK
<1>4. CASE active = None
  <2>1. report'[s] = None
    BY <1>3, <1>4, NoneIsNobody DEF Preflight, IsActive
  <2> QED BY <1>1, <1>4, <2>1 DEF Resolved, Reported
<1>5. CASE active # None
  <2>1. active \in Ids /\ IsActive(active) /\ Pinned[dirs[active].by] \subseteq Names /\ \A r \in Ids : IsActive(r) => r = active
    BY <1>5, ActiveIsThere DEF IsActive
  <2>2. PICK ns \in SUBSET {n \in Pinned[dirs[active].by] : Checks(s, active, n, dirs[active].by)} :
          /\ report' = [report EXCEPT ![s] = IF Sound(s, active) THEN active ELSE None]
          /\ Sound(s, active) => ns = Pinned[dirs[active].by]
          /\ verified' = [verified EXCEPT ![s] = @ \cup ({active} \X ns)]
    BY <2>1 DEF Preflight
  <2>3. verified'[s] = verified[s] \cup ({active} \X ns) /\ report'[s] = IF Sound(s, active) THEN active ELSE None
    BY <1>3, <2>2
  <2>4. ASSUME NEW m \in Names, Mismatch(s, active, m)
        PROVE  ~Checks(s, active, m, dirs[active].by) /\ Mismatch(s, active, m)'
    <3>1. ~Checks(s, active, m, dirs[active].by)
      BY <2>4 DEF Mismatch, Checks, Intact
    <3>2. m \notin ns
      BY <2>2, <3>1
    <3>3. <<active, m>> \notin verified'[s]
      BY <2>3, <2>4, <3>2 DEF Mismatch
    <3> QED BY <1>1, <2>4, <3>1, <3>3 DEF Mismatch
  <2>5. Resolved(s)'
    BY <1>1, <1>2, <1>5, <2>4 DEF Resolved, Pins, FromRelease, InRelease
  <2>6. Reported(s)'
    <3> SUFFICES ASSUME Sound(s, active)
                 PROVE  Reported(s)'
      BY <1>1, <2>3 DEF Reported
    <3>1. ASSUME NEW m \in Names, Pins(active, m)
          PROVE  m \notin Overrides /\ FromRelease(s, active, m) /\ <<active, m>> \in verified'[s]
      <4>1. m \notin Overrides /\ Checks(s, active, m, dirs[active].by)
        BY <3>1 DEF Sound, Pins
      <4>2. FromRelease(s, active, m)
        BY <1>2, <1>5, <2>4, <3>1, <4>1 DEF Resolved
      <4>3. <<active, m>> \in verified'[s]
        BY <2>2, <2>3, <3>1 DEF Pins
      <4> QED BY <4>1, <4>2, <4>3
    <3> QED BY <1>1, <2>3, <3>1 DEF Reported, Pins, FromRelease, InRelease
  <2> QED BY <2>5, <2>6
<1> QED BY <1>4, <1>5

(* Every step keeps what a start-up was told while the pointer has not moved. *)
LEMMA NextTold ==
    ASSUME IInv, AInv, Calm, FInv, TInv, [Next]_vars
    PROVE  TInv'
<1> SUFFICES ASSUME NEW t \in Starters PROVE Told(t)'
  BY DEF TInv
<1>1. Told(t) /\ Fresh(t)
  BY DEF TInv, FInv
<1>2. ASSUME drifted \subseteq drifted', active' = active, switched'[t] = switched[t],
             phase'[t] = phase[t], resolved'[t] = resolved[t], verified'[t] = verified[t], report'[t] = report[t]
      PROVE  Told(t)'
  BY <1>1, <1>2, ToldStays
<1>3. ASSUME NEW p \in Operators, Command(p)
      PROVE  Told(t)'
  <2>1. drifted' = drifted /\ UNCHANGED starter
    BY <1>3, OperatorStep
  <2>2. \/ active' = active /\ switched' = switched
        \/ switched' = [s \in Starters |-> TRUE]
    BY <1>3 DEF Command, StartMaterialize, Stage, Reserve, MoveItem, RemoveStaging, FailMove, Clean, CleanFails,
       StartActivate, Validate, Activate, Kill
  <2>3. CASE active' = active /\ switched' = switched
    BY <1>2, <2>1, <2>3 DEF starter
  <2>4. CASE switched' = [s \in Starters |-> TRUE]
    BY <2>4 DEF Told
  <2> QED BY <2>2, <2>3, <2>4
<1>4. CASE Drift
  BY <1>2, <1>4 DEF Drift, starter
<1>5. CASE UNCHANGED vars
  BY <1>2, <1>5 DEF vars, files, starter
<1>6. ASSUME NEW s \in Starters, Begin(s) \/ Resolve(s) \/ Serve(s) \/ Preflight(s) \/ Exit(s)
      PROVE  Told(t)'
  <2>1. CASE t # s
    <3>1. /\ drifted' = drifted /\ active' = active /\ switched'[t] = switched[t] /\ phase'[t] = phase[t]
          /\ resolved'[t] = resolved[t] /\ verified'[t] = verified[t] /\ report'[t] = report[t]
      BY <1>6, <2>1 DEF Begin, Resolve, Serve, Preflight, Exit, files, IInv, TypeOK, StartersOK
    <3> QED BY <1>2, <3>1
  <2>2. CASE t = s /\ Begin(s)
    BY <1>1, <2>2, BeginTold
  <2>3. CASE t = s /\ Resolve(s)
    BY <1>1, <2>3, ResolveTold
  <2>4. CASE t = s /\ Preflight(s)
    BY <1>1, <2>4, PreflightTold
  <2>5. CASE t = s /\ Serve(s)
    <3>1. phase[s] = "resolving" /\ phase'[s] = "serving" /\ UNCHANGED <<files, active, resolved, verified, switched>>
      BY <2>5 DEF Serve, IInv, TypeOK, StartersOK
    <3> QED BY <1>1, <2>5, <3>1 DEF Told, Resolved, Reported, Pins, FromRelease, Mismatch, InRelease, files
  <2>6. CASE t = s /\ Exit(s)
    BY <2>6 DEF Exit, Told, IInv, TypeOK, StartersOK
  <2> QED BY <1>6, <2>1, <2>2, <2>3, <2>4, <2>5, <2>6
<1> QED BY <1>3, <1>4, <1>5, <1>6 DEF Next

(* What the preflight reports as sound is what the start-up takes each      *)
(* pinned model from (preflight, _model_release_check).                     *)
THEOREM ReleasePreflightIsTruthful == Spec /\ []Calm => []PreflightIsTruthful
<1>1. Init => AInv /\ FInv /\ TInv
  BY DEF Init, AInv, Holds, Validated, Activates, ActiveIsComplete, FInv, Fresh, Place, TInv, Told
<1>2. IInv /\ AInv /\ Calm /\ FInv /\ TInv /\ [Next]_vars => AInv' /\ FInv' /\ TInv'
  BY NextActive, NextFresh, NextTold
<1>3. IInv /\ AInv /\ TInv => PreflightIsTruthful
  <2> SUFFICES ASSUME IInv, AInv, TInv, NEW s \in Starters, phase[s] = "checked", report[s] # None, ~switched[s],
                      NEW n \in Pinned[dirs[report[s]].by]
               PROVE  resolved[s][n] \in {Place("unresolved"), InRelease(report[s], dirs[report[s]].by)}
    BY DEF PreflightIsTruthful
  <2>1. Reported(s)
    BY DEF TInv, Told
  <2>2. active = report[s] /\ n \in Names
    BY <2>1, ActiveIsThere DEF Reported
  <2> QED BY <2>1, <2>2 DEF Reported, Pins, FromRelease
<1> QED BY <1>1, <1>2, <1>3, ReleaseInvariant, PTL DEF Spec
=============================================================================
