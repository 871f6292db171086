--------------------------- MODULE PaymentLedger ---------------------------
(***************************************************************************)
(* What a seller is promised about the payments of its offers: each        *)
(* settled invoice of a sent offer enters the ledger at most once, with    *)
(* the settle index lnd gave it, and in the order of the settle indices:   *)
(* an entry is never made while an earlier invoice, whose offer the node   *)
(* still has, is missing.  So the highest index in the ledger tells where  *)
(* to go on after a restart.  The promise of the order ends when the user  *)
(* has the indices cleared.                                                *)
(***************************************************************************)
EXTENDS Integers, Sequences

CONSTANTS
    Invoice,   \* payment hashes of the invoices of the lnd node
    History    \* invoices settled and entered before

VARIABLES
    settled,   \* the invoices in the order they were settled
    offered,   \* invoices of the sent offers that the node has
    ledger     \* payment hash -> settle index

vars == <<settled, offered, ledger>>

Entered == DOMAIN ledger
Cleared == \E h \in Entered : ledger[h] = 0

Init ==
    /\ settled = History
    /\ offered = {}
    /\ ledger = [h \in {History[i] : i \in DOMAIN History} |->
                    CHOOSE i \in DOMAIN History : History[i] = h]

Settle(h) ==
    /\ settled' = Append(settled, h)
    /\ UNCHANGED <<offered, ledger>>

\* Offers come and, once they are out of retention, go.
Offers ==
    /\ offered' \in SUBSET Invoice
    /\ UNCHANGED <<settled, ledger>>

Enter(i) ==
    /\ settled[i] \notin Entered
    /\ Cleared \/ \A j \in 1..(i - 1) : settled[j] \in Entered \/ settled[j] \notin offered
    /\ ledger' = [h \in Entered \cup {settled[i]} |->
                    IF h = settled[i] THEN i ELSE ledger[h]]
    /\ UNCHANGED <<settled, offered>>

ClearIndices ==
    /\ ledger' = [h \in Entered |-> 0]
    /\ UNCHANGED <<settled, offered>>

Next ==
    \/ \E h \in Invoice : Settle(h)
    \/ Offers
    \/ \E i \in DOMAIN settled : Enter(i)
    \/ ClearIndices

Spec == Init /\ [][Next]_vars
=============================================================================
