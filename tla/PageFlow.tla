------------------------------ MODULE PageFlow ------------------------------
(***************************************************************************)
(* What the artifact database promises for each page, whatever is run,     *)
(* killed and run again against it (pipeline/README.md, "resumable"): a    *)
(* page is discovered once, then read once or found unreadable once, and   *)
(* what is redacted later is the text that was read.                       *)
(***************************************************************************)
CONSTANTS Pages, Texts

VARIABLE page   \* page[p]: how far page p has come, and with which text

States == [at : {"unknown", "discovered", "unreadable"}] \cup
          [at : {"read", "redacted"}, text : Texts]

Start == [at |-> "unknown"]

Edge(s, t) ==
    \/ s = Start /\ t.at = "discovered"
    \/ s.at = "discovered" /\ t.at \in {"read", "unreadable"}
    \/ s.at = "read" /\ t.at = "redacted" /\ t.text = s.text

Init == page = [p \in Pages |-> Start]

(* A transaction carries any number of pages one step on. *)
Commit ==
    /\ page' \in [Pages -> States]
    /\ \A p \in Pages : page'[p] = page[p] \/ Edge(page[p], page'[p])

Spec == Init /\ [][Commit]_page
=============================================================================
