------------------------ MODULE MCPaymentProcessor ------------------------
(* Small instances of PaymentProcessor for TLC.                            *)
EXTENDS PaymentProcessor, TLC

CONSTANTS h0, h1, h2, f1, t1, t2, t3, worker, a1, a2

\* A node that has recorded a payment before, and one that has not.
OneRecorded == <<h0>>
NothingRecorded == <<>>

TaskSymmetry == Permutations(Task)
=============================================================================
