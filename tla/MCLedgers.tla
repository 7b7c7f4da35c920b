----------------------------- MODULE MCLedgers -----------------------------
(* The ledgers for TLC: two records of one context, each with its holder's *)
(* proof, one record presented by a stranger and one altered.              *)
EXTENDS Ledgers, TLC

Made(nonce, ts) ==
  EncodeV2([holderType |-> Ed25519, alg |-> 1, ts |-> ts, disp |-> 0, ctx |-> "ctx",
            nonce |-> nonce, holder |-> "h", keyId |-> 1], "issuer")
ProofBy(key, r) ==
  [type |-> Ed25519, by |-> key,
   over |-> BindingInput("draft11", r, Export("tls", "draft11", r))]
Framed(r, key)  == [rec |-> r, proof |-> ProofBy(key, r)]

FrameSet ==
  [one      |-> Framed(Made("n1", 1), "h"),
   two      |-> Framed(Made("n2", 2), "h"),
   stranger |-> Framed(Made("n1", 1), "other"),
   altered  |-> Framed([Made("n2", 2) EXCEPT !.ts = 1], "h")]

Policy ==
  [authenticated |-> TRUE, window |-> 1, ctx |-> "ctx", issuer |-> "trusted", key |-> "issuer",
   channel |-> "tls", secret |-> NoPolicy]
PolicySet == {Policy, [Policy EXCEPT !.issuer = "unknown"]}

(* Named once more for TLC, which keeps the value of a definition but not  *)
(* of the one a CONSTANT is replaced by.                                   *)
MCFrames   == FrameSet
MCPolicies == PolicySet

AttemptSymmetry == Permutations(Attempts)
=============================================================================
