----------------------------- MODULE AdmitOnce -----------------------------
(***************************************************************************)
(* What production/README.md promises of the v2 admission service, with    *)
(* its processes, pipes and clocks left out: a claim (issuer, context,     *)
(* nonce) is admitted durably at most once, and the verdict ALLOW is given *)
(* at most once for it, only after the admission is durable.               *)
(***************************************************************************)
CONSTANT Claims

VARIABLES
  admitted,   \* claims with a durable admission receipt
  allowed     \* claim -> how many times its ALLOW left the service

avars == <<admitted, allowed>>

Init ==
  /\ admitted \in SUBSET Claims   \* an upgraded store keeps its receipts
  /\ allowed = [c \in Claims |-> 0]

Admit(c) ==
  /\ c \notin admitted
  /\ admitted' = admitted \cup {c}
  /\ UNCHANGED allowed

Allow(c) ==
  /\ c \in admitted /\ allowed[c] = 0
  /\ allowed' = [allowed EXCEPT ![c] = 1]
  /\ UNCHANGED admitted

Next == \E c \in Claims : Admit(c) \/ Allow(c)

Spec == Init /\ [][Next]_avars
=============================================================================
