---------------------------- MODULE MCToolCalls ----------------------------
(* Four calls for TLC, of one address: two that present no key, and two of *)
(* a customer, one of which may have mistyped it.  It takes four to fill a *)
(* burst bucket of two on both sides of its edge.                          *)
EXTENDS ToolCalls, TLC

CONSTANTS paid, paid2, free, free2

MCCalls == {paid, paid2, free, free2}
Want(key, tool) == [ip |-> "ip", key |-> key, tool |-> tool]
WantOfCalls ==
  (paid  :> {Want("k1", "generate"), Want("bogus", "query")})
    @@ (paid2 :> {Want("k1", "generate"), Want("k1", "digest")})
    @@ (free  :> {Want("none", "query")}) @@ (free2 :> {Want("none", "query")})
FreeSymmetry == Permutations({free, free2})
=============================================================================
