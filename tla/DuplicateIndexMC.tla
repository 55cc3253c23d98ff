-------------------------- MODULE DuplicateIndexMC --------------------------
(***************************************************************************)
(* An instance of DuplicateIndex: two complaints of one petitioner in the  *)
(* same district, on both sides of a New Year; their facts say the window  *)
(* they fall in.  The first analyzer leaves a text as it is, one stamped 2 *)
(* may mask it.  A text is its own band, and alike to itself only.         *)
(***************************************************************************)
EXTENDS DuplicateIndex, TLC

Row(x, s, f) == [text |-> x, home |-> s, facts |-> f]

MCOrigins    == [t \in Tickets |-> {Row(1, IF t = 1 THEN "2023" ELSE "2024", 1)}]
MCFilings    == [t \in Tickets |-> IF t = 1 THEN {Row(1, "2024", 1), Row(1, NoSlice, 1)} ELSE {Row(2, "2023", 2)}]
MCRedact(v, x) == IF v = 1 THEN {x} ELSE {3}
Plain        == [text |-> 1, by |-> 1]
MCEarlier    == [t \in Tickets |-> IF t = 1 THEN {Plain} ELSE {NoRedaction, Plain}]
BothEarlier  == [t \in Tickets |-> {Plain}]
MCDistrict   == [s \in Slices |-> "Sambalpur"]
MCWindow     == [v \in Versions |-> [f \in Facts |-> f]]
MCSalt       == [v \in Versions |-> v]
MCIdentities == [f \in Facts |-> {"mobile"}]
MCBefore     == [t \in Tickets |-> IF t = 1 THEN 1 ELSE 0]
BothBefore   == [t \in Tickets |-> 1]
NoIdentities == [f \in Facts |-> {}]
MCBands(x)   == {x}
MCAlike(v, x, y) == x = y

(* Either complaint may move, also to a third year. *)
MovedFilings == [t \in Tickets |-> {Row(1, s, 1) : s \in Slices}]

TwoRedactors == Permutations(Redactors)

AnyScope   == {{s} : s \in Slices} \cup {Slices}
SliceScope == {{s} : s \in Slices}

=============================================================================
