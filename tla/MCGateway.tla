----------------------------- MODULE MCGateway -----------------------------
(***************************************************************************)
(* Gateway for TLC: one request seals a record, or asks for the service's  *)
(* health, and two present the record.                                     *)
(***************************************************************************)
EXTENDS Gateway, TLC

CONSTANTS seal, verify, verify2, c1

MCRequests == {seal, verify, verify2}
AskOfRequests ==
  (seal :> {"seal", "health"}) @@ (verify :> {"verify"}) @@ (verify2 :> {"verify"})
MCClaims == {c1}
=============================================================================
