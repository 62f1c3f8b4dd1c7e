-------------------------- MODULE MCDynamicLeases --------------------------
(* DynamicLeases for TLC: two workers that may outlive their claims, or a  *)
(* lease that is revoked while it is minted.                               *)
EXTENDS DynamicLeases
=============================================================================
