---------------------------- MODULE MCPotVerify ----------------------------
(* The records, requests and configurations of the pot_verify run.         *)
EXTENDS PotVerify, TLC

MCSelfKeys == <<"s1", "s2">>

V2(nonce, key)  == GenerateV2(Ed25519, 2, 0, "ctx", "h1", nonce, 7, key)
V2Secret        == GenerateV2(SharedSecret, 2, 0, "ctx", "secret", "n1", 7, "k1")
V08(key)        == GenerateV08(2, 0, 3, FALSE, "digest", "n1", 7, "ctx", key)

Records == {V2("n1", k) : k \in {"k1", "evil", "s1"}} \cup {V2("n2", "k1"), V2Secret, V08("s1")}

Prove(by, rev, r, channel) ==
  [type |-> Ed25519, by |-> by, over |-> BindingInput(rev, r, Export(channel, rev, r))]

Present(r, proof, channel) ==
  [api |-> "v2", rec |-> r, proof |-> proof, channel |-> channel,
   issuer |-> NoPolicy, fresh |-> NoPolicy]

Good(r) == Present(r, Prove("h1", "draft11", r, "tls1"), "tls1")
R1 == V2("n1", "k1")

OnV08(ctx, content, session) ==
  [api |-> "v08", rec |-> V08("s1"), ctxId |-> ctx, issuer |-> NoPolicy,
   content |-> content, client |-> "cl", session |-> session]

Presented ==
  [good     |-> Good(R1),
   again    |-> Present(R1, Prove("h1", "draft11", R1, "tls2"), "tls2"),
   self     |-> Good(V2("n1", "s1")),
   evil     |-> Good(V2("n1", "evil")),
   keyId    |-> Good([R1 EXCEPT !.keyId = 8]),
   holder   |-> Good([R1 EXCEPT !.holder = "h2", !.tag.holder = "h2"]),
   pasted   |-> Good([V2("n1", "evil") EXCEPT !.sig = R1.sig]),
   draft13  |-> Present(R1, Prove("h1", "draft13", R1, "tls1"), "tls1"),
   relayed  |-> Present(R1, Prove("h1", "draft11", R1, "tls1"), "tls2"),
   other    |-> Present(R1, Prove("h1", "draft11", V2("n2", "k1"), "tls1"), "tls1"),
   stranger |-> Present(R1, Prove("h2", "draft11", R1, "tls1"), "tls1"),
   stdio    |-> Present(R1, Prove("h1", "draft11", R1, "tls1"), NoPolicy),
   bare     |-> Present(R1, NoPolicy, "tls1"),
   named    |-> [Present(V2("n1", "evil"), NoPolicy, "tls1")
                   EXCEPT !.issuer = "evil", !.fresh = [now |-> 2, skew |-> 0]],
   secret   |-> Present(V2Secret, [type |-> SharedSecret, by |-> "secret", over |-> "octets"],
                        "tls1"),
   v08      |-> OnV08("ctx", "digest", "se"),
   content  |-> OnV08("ctx", "other", "se"),
   ctx2     |-> OnV08("ctx2", "digest", "se"),
   nameless |-> OnV08("ctx", "digest", "")]

Default ==
  [rev |-> "draft11", binding |-> TRUE, quorum |-> FALSE, enforce |-> TRUE, trusted |-> {},
   pinSelf |-> TRUE, holders |-> {}, ledger |-> "unset", fresh08 |-> FALSE, skew08 |-> NoPolicy,
   presented |-> {"good", "self", "bare", "v08", "content", "ctx2"}]

Environments ==
  {Default,
   [Default EXCEPT !.trusted = {"k1", "k2"}, !.holders = {"h1"}, !.quorum = TRUE,
                   !.presented = {"good", "evil"}],
   [Default EXCEPT !.trusted = {"k1"},
                   !.presented = {"good", "again", "keyId", "holder", "pasted",
                                   "relayed", "other", "stranger", "stdio", "secret"}],
   [Default EXCEPT !.rev = "draft13", !.trusted = {"k1"}, !.presented = {"good", "draft13"}],
   [Default EXCEPT !.binding = FALSE, !.pinSelf = FALSE, !.enforce = FALSE, !.ledger = "0",
                   !.presented = {"named", "bare", "good", "self"}],
   [Default EXCEPT !.ledger = "1", !.fresh08 = TRUE, !.skew08 = 1,
                   !.presented = {"v08", "content", "nameless"}],
   [Default EXCEPT !.fresh08 = TRUE, !.rev = "draft10", !.presented = {"good", "v08"}]}

(* TLC keeps the value of a definition, but not of the one a CONSTANT is    *)
(* replaced by: these stand between.                                       *)
MCIssued   == Records
MCRequests == Presented
MCConfs    == Environments

CallSymmetry == Permutations(Calls)
=============================================================================
