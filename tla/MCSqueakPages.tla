--------------------------- MODULE MCSqueakPages ---------------------------
(* Small instances of SqueakPages for TLC.                                 *)
EXTENDS SqueakPages

CONSTANTS s1, s2, s3, p1, x1, x2

\* Three squeaks of one author, two of them of the same block and second.
ThreeAuthor == [s \in Squeak |-> p1]
ThreeTexts == s1 :> {x1} @@ s2 :> {x1} @@ s3 :> {x1, x2}
ThreeKey == s1 :> <<1, 1, 2>> @@ s2 :> <<1, 1, 3>> @@ s3 :> <<1, 0, 4>>

\* The lists have nothing in common but the deletions: one of them is opened.
OneList == Cardinality({l \in List : query[l] # None}) <= 1
=============================================================================
