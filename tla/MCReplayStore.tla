--------------------------- MODULE MCReplayStore ---------------------------
(***************************************************************************)
(* ReplayStore for TLC: records live one or two instants, the clock may    *)
(* move seven instants in either direction, and three claims meet a table  *)
(* of capacity two, so expiry, rollback and a full index all occur.        *)
(***************************************************************************)
EXTENDS ReplayStore, TLC

CONSTANTS c1, c2, c3

MCClaims == {c1, c2, c3}
ClaimSymmetry == Permutations(MCClaims)
=============================================================================
