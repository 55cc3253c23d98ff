------------------------------ MODULE JobLedger ------------------------------
(***************************************************************************)
(* What the audit log of egress/sarvam.py promises about paid jobs, one    *)
(* entry per request key: a key gets a job only when it has none or its    *)
(* last one ended unsuccessfully, and a completed job is final.            *)
(***************************************************************************)
CONSTANT Keys

VARIABLE ledger

States == {"none", "open", "completed", "unsuccessful"}

TypeOK == ledger \in [Keys -> States]

Init == ledger = [k \in Keys |-> "none"]

Submit(k) ==
    /\ ledger[k] \in {"none", "unsuccessful"}
    /\ ledger' = [ledger EXCEPT ![k] = "open"]

Settle(k) ==
    /\ ledger[k] = "open"
    /\ \E s \in {"completed", "unsuccessful"} : ledger' = [ledger EXCEPT ![k] = s]

Next == \E k \in Keys : Submit(k) \/ Settle(k)

Spec == Init /\ [][Next]_ledger
=============================================================================
