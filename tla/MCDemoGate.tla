----------------------------- MODULE MCDemoGate -----------------------------
(* The demo gate for TLC: a token that is used, presented a second time by *)
(* its holder or a stranger, and another token or another amount.          *)
EXTENDS DemoGate, TLC

CONSTANTS p1, p2, p3

As(token, flaw) == [token |-> token, flaw |-> flaw]
Plan == (p1 :> {As(1, "none")}) @@ (p2 :> {As(1, "none"), As(1, "proof")})
        @@ (p3 :> {As(2, "none"), As(1, "amount")})
MCCarries == Plan
=============================================================================
