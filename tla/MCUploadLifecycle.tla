------------------------- MODULE MCUploadLifecycle --------------------------
(***************************************************************************)
(* Instances of UploadLifecycle for TLC.                                   *)
(***************************************************************************)
EXTENDS UploadRefinement, TLC

CONSTANTS u1, u2, u3, alice, bob, c1, c2, n1, n2, n3, w1, w2, w3, api1, api2, ok, bad

\* Everything belongs to one user.
AllAlice == [u \in Uploads |-> alice]

\* Two users upload.
AliceAndBob == [u \in Uploads |-> IF u = u1 THEN alice ELSE bob]

\* All uploads declare the same hash, each under a name of its own.
SameContent   == [u \in Uploads |-> c1]
DistinctNames == [u \in Uploads |-> IF u = u1 THEN n1 ELSE IF u = u2 THEN n2 ELSE n3]

\* The second upload declares another hash.
SecondDiffers == [u \in Uploads |-> IF u = u2 THEN c2 ELSE c1]

\* Two bytes each, and a quota with room for two files.
TwoBytes  == [c \in Contents |-> 2]
QuotaFour == [x \in Users |-> 4]
QuotaFive == [x \in Users |-> 5]

\* The first two requests are served by one instance, the third by another.
TwoInstances == [w \in Workers |-> IF w = w3 THEN api2 ELSE api1]

\* Requests of one instance are interchangeable.
SameInstance == Permutations({w1, w2})

=============================================================================
