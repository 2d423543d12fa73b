------------------------------ MODULE MCVerify ------------------------------
(* A small instance of Verify: two verifications, two scratch VMIDs.      *)
EXTENDS Verify

CONSTANTS v1, v2

Two == {v1, v2}
One == {v1}
=============================================================================
