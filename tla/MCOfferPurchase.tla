-------------------------- MODULE MCOfferPurchase --------------------------
(* Small instances of OfferPurchase for TLC.                               *)
EXTENDS OfferPurchase, TLC

CONSTANTS d1, d2, u1, u2, s1, p1, p2, i1, i2, i3

\* One squeak; two invoices of one peer, a third of the same or of another.
OneSqueak == [i \in Invoice |-> s1]
OnePeer == [i \in Invoice |-> p1]
TwoPeers == [i \in Invoice |-> IF i = i3 THEN p2 ELSE p1]

ThreadSymmetry == Permutations(Downloader) \cup Permutations(Payer)
=============================================================================
