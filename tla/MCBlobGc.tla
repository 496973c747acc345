------------------------------ MODULE MCBlobGc ------------------------------
(***************************************************************************)
(* Instances of BlobGc for TLC: files of one content, two users.           *)
(***************************************************************************)
EXTENDS BlobGc

CONSTANTS f1, f2, f3, alice, bob, c1, g1, g2, d1, d2

MCOwnerOf   == [f \in Files |-> IF f = f3 THEN bob ELSE alice]
MCContentOf == [f \in Files |-> c1]
MCSizeOf    == [c \in Contents |-> 1]

=============================================================================
