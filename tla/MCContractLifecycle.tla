------------------------ MODULE MCContractLifecycle ------------------------
(* A small instance of ContractLifecycle for TLC. *)
EXTENDS ContractLifecycle

CONSTANTS r1, r2

OneRequest  == {r1}
TwoRequests == {r1, r2}
=============================================================================
