--------------------------- MODULE MCSqueakStore ---------------------------
(* Small instances of SqueakStore for TLC.                                 *)
EXTENDS SqueakStore, TLC

CONSTANTS c1, c2, w1, w2, s1, s2, s3, p1, p2, k1, k2, h1

\* Two public squeaks of one profile, a private message from another one to it.
TrioAuthor == s1 :> p1 @@ s2 :> p2 @@ s3 :> p1
TrioRecipient == s1 :> None @@ s2 :> p1 @@ s3 :> None
TrioHeight == s1 :> h1 @@ s2 :> h1 @@ s3 :> h1
TrioKey == s1 :> k1 @@ s2 :> k2 @@ s3 :> k1

\* The public squeak alone.
OneAuthor == s1 :> p1
OneRecipient == s1 :> None
OneHeight == s1 :> h1
OneKey == s1 :> k1

CallerSymmetry == Permutations(Caller)
=============================================================================
