------------------------------ MODULE DemoGate ------------------------------
(***************************************************************************)
(* The demo gate, demo/gate_challenge.mjs, with its Rust verifier child,   *)
(* demo/rust_verifier.mjs and rust-reference/src/main.rs.  Node mints      *)
(* tokens, runs the posted requests one after the other, has each record   *)
(* verified by the child, and then claims its nonce and moves the money in *)
(* one synchronous stretch.  The record's freshness is judged by the wall  *)
(* clock read before the child is asked; the replay entry lives by the     *)
(* monotonic clock read after it has answered.                             *)
(***************************************************************************)
EXTENDS PotRecord, FiniteSets

CONSTANTS
  Carries,       \* what each HTTP request may present: sets of [token, flaw]
  MaxAge, MaxFuture, SafetyMargin,    \* replay.rs
  MaxDispersion, Dispersion,          \* the limit, and what tokens carry
  VerifyTimeout, \* the timer of rust_verifier.mjs
  MaxReplay,     \* MAX_REPLAY_ENTRIES
  MaxQueued,     \* the bound of queuedGates
  Balance,       \* of Bob at the start
  MaxTokens, MaxTime, MaxSteps, MaxLife  \* bounds: tokens, clocks, clock steps, processes

ASSUME GateAssumption ==
  /\ {MaxAge, MaxFuture, MaxDispersion, Dispersion, VerifyTimeout, Balance, MaxTime} \subseteq Nat
  /\ {SafetyMargin, MaxReplay, MaxQueued, MaxLife} \subseteq Nat \ {0}
  /\ Dispersion <= MaxDispersion /\ IsFiniteSet(DOMAIN Carries)

VARIABLES
  wall, mono,  \* Date.now and performance.now
  steps,       \* how often the wall clock was set back
  life,        \* the process; each has its own issuer key
  alive,       \* the child has not failed
  minted,      \* tokens: time and issuer of each, its nonce is its index
  post,        \* the state of every HTTP request
  tail,        \* gateTail: requests whose gate has not run
  replay,      \* the replay map, as a set of claims
  db           \* the canary database: what Bob and Eve have
Posts == DOMAIN Carries
vars == <<wall, mono, steps, life, alive, minted, post, tail, replay, db>>

BobAction == [to |-> "eve", amount |-> 1]
New       == [pc |-> "new"]

(* mintBob, and the forms in which a client may present its token: as it   *)
(* is, for another amount, or with a proof made on another connection.     *)
Record(i) ==
  EncodeV2([holderType |-> Ed25519, alg |-> 1, ts |-> minted[i].ts, disp |-> Dispersion,
            ctx |-> BobAction, nonce |-> i, holder |-> "bob", keyId |-> 1], minted[i].life)
Presented(q)  == Record(post[q].token)
ActionOf(q)   == IF post[q].flaw = "amount" THEN [BobAction EXCEPT !.amount = 2] ELSE BobAction
Exported(q)   == Export("tls", "draft13", Presented(q))
ProofOf(q)    ==
  [type |-> Ed25519, by |-> "bob",
   over |-> BindingInput("draft13", Presented(q),
                         IF post[q].flaw = "proof" THEN Export("other", "draft13", Presented(q))
                         ELSE Exported(q))]

----------------------------------------------------------------------------
(* The child: main.rs verify and replay.rs replay_ttl.                     *)

Last(r) == r.ts + MaxAge + r.disp
LifetimeOK(r, now) ==
  r.disp <= MaxDispersion /\ r.ts - now <= MaxFuture /\ now <= Last(r)

(* Mutant of ReplayTtl: the claim lives as long as the record is fresh.    *)
ReplayTtlBare(r, now) == Last(r) - now

ReplayTtl(r, now) == Last(r) - now + SafetyMargin

RustVerify(r, action, proof, out, now) ==
  FirstFailure(<<
    <<r.version # 2 \/ r.holderType \notin HolderTypes \/ r.alg # 1, "RECORD_REJECTED">>,
    <<r.tag # Fields(r, HeadV2), "DIGEST_MUTATION_FAIL">>,
    <<ForgedV2(r, life), "ISSUER_SIGNATURE_INVALID">>,
    <<~LifetimeOK(r, now), "STALE_TIMESTAMP">>,
    <<r.holder # "bob", "HOLDER_NOT_AUTHORIZED">>,
    <<action.amount <= 0, "INVALID_ACTION">>,
    <<r.ctx # action, "ARGUMENT_BINDING_FAIL">>,
    <<VerifyBinding("draft13", r, proof, out, NoPolicy) # "intact", "TLS_HOLDER_BINDING_FAIL">> >>)

----------------------------------------------------------------------------
(* The HTTP side.                                                          *)

Mint ==
  /\ Len(minted) < MaxTokens
  /\ minted' = Append(minted, [ts |-> wall, life |-> life])
  /\ UNCHANGED <<wall, mono, steps, life, alive, post, tail, replay, db>>

Waiting == {q \in Posts : post[q].pc \in {"queued", "verifying"}}

(* POST /v2/verify with its body read and parsed: gate_busy, or a place in *)
(* the chain of promises.                                                  *)
Post(q, c) ==
  /\ post[q] = New /\ c.token \in DOMAIN minted
  /\ IF Cardinality(Waiting) >= MaxQueued
     THEN /\ post' = [post EXCEPT ![q] = [pc |-> "busy"]]
          /\ UNCHANGED tail
     ELSE /\ post' = [post EXCEPT ![q] = [pc |-> "queued", token |-> c.token, flaw |-> c.flaw]]
          /\ tail' = Append(tail, q)
  /\ UNCHANGED <<wall, mono, steps, life, alive, minted, replay, db>>

(* Mutant of Turn: the gates of two requests overlap.                      *)
TurnAlways == TRUE

Turn == \A q \in Posts : post[q].pc # "verifying"

Rejected(q, reason) ==
  post' = [post EXCEPT ![q] = [pc |-> "reject", reason |-> reason, before |-> @.before,
                               after |-> db]]

(* gate, up to the answer of the child.                                    *)
GateStarts ==
  /\ tail # <<>> /\ Turn
  /\ tail' = Tail(tail)
  /\ LET q == Head(tail)
     IN post' = [post EXCEPT ![q] =
          IF alive
          THEN [pc |-> "verifying", token |-> @.token, flaw |-> @.flaw, before |-> db,
                asked |-> wall, since |-> mono]
          ELSE [pc |-> "reject", reason |-> "RUST_VERIFIER_UNAVAILABLE", before |-> db,
                after |-> db]]
  /\ UNCHANGED <<wall, mono, steps, life, alive, minted, replay, db>>

(* Mutant of Swept: a full map is emptied.                                 *)
SweptAll == IF Cardinality(replay) >= MaxReplay THEN {} ELSE replay

(* A full map drops what has expired, and nothing else.                    *)
Swept == IF Cardinality(replay) >= MaxReplay THEN {e \in replay : e.until > mono} ELSE replay

(* The tests of gate on the child's answer and the claim, in their order.  *)
Ttl(q)     == ReplayTtl(Presented(q), post[q].asked)
Verdict(q) ==
  LET token   == post[q].token
      checked == RustVerify(Presented(q), ActionOf(q), ProofOf(q), Exported(q), post[q].asked)
  IN FirstFailure(<<
       <<checked # "intact", checked>>,
       <<\E e \in replay : e.token = token /\ e.until > mono, "REPLAY_LEDGER_CLAIMED">>,
       <<Ttl(q) < 1 \/ Ttl(q) > MaxFuture + MaxAge + MaxDispersion + SafetyMargin,
         "REPLAY_TTL_REQUIRED">>,
       <<db.bob < ActionOf(q).amount, "INSUFFICIENT_BALANCE">>,
       <<Cardinality(Swept) >= MaxReplay, "REPLAY_LEDGER_CAPACITY">> >>)

(* gate, from the answer of the child: the claim and the transfer.         *)
VerifierAnswers(q) ==
  /\ post[q].pc = "verifying"
  /\ LET p == post[q]
     IN IF Verdict(q) = "intact"
        THEN /\ replay' = {e \in Swept : e.token # p.token}
                           \cup {[token |-> p.token, until |-> mono + Ttl(q)]}
             /\ db' = [bob |-> db.bob - ActionOf(q).amount, eve |-> db.eve + ActionOf(q).amount]
             /\ post' = [post EXCEPT ![q] = [pc |-> "allow", token |-> p.token,
                                             late |-> mono - p.since]]
        ELSE /\ replay' = IF Verdict(q) = "REPLAY_LEDGER_CAPACITY" THEN Swept ELSE replay
             /\ Rejected(q, Verdict(q))
             /\ UNCHANGED db
  /\ UNCHANGED <<wall, mono, steps, life, alive, minted, tail>>

(* The timer; at the bound of the clock it need not wait.                  *)
VerifierTimesOut(q) ==
  /\ post[q].pc = "verifying"
  /\ mono - post[q].since >= VerifyTimeout \/ mono = MaxTime
  /\ Rejected(q, "RUST_VERIFIER_TIMEOUT")
  /\ UNCHANGED <<wall, mono, steps, life, alive, minted, tail, replay, db>>

(* Mutant of VerifierFails: what was pending is forgotten, not rejected.   *)
VerifierFailsSilently ==
  /\ alive /\ alive' = FALSE
  /\ post' = [q \in Posts |-> IF post[q].pc = "verifying" THEN [pc |-> "stuck"] ELSE post[q]]
  /\ UNCHANGED <<wall, mono, steps, life, minted, tail, replay, db>>

(* The child exits or answers with something that is no JSON: it is never  *)
(* started again, and every later request is refused.                      *)
VerifierFails ==
  /\ alive /\ alive' = FALSE
  /\ post' = [q \in Posts |->
                IF post[q].pc = "verifying"
                THEN [pc |-> "reject", reason |-> "RUST_VERIFIER_UNAVAILABLE",
                      before |-> post[q].before, after |-> db]
                ELSE post[q]]
  /\ UNCHANGED <<wall, mono, steps, life, minted, tail, replay, db>>

----------------------------------------------------------------------------

Tick ==
  /\ mono < MaxTime
  /\ \A q \in Posts : post[q].pc = "verifying" => mono - post[q].since < VerifyTimeout
  /\ mono' = mono + 1 /\ wall' = wall + 1
  /\ UNCHANGED <<steps, life, alive, minted, post, tail, replay, db>>

WallStepsBack ==
  /\ steps < MaxSteps /\ wall > 0
  /\ wall' = wall - 1 /\ steps' = steps + 1
  /\ UNCHANGED <<mono, life, alive, minted, post, tail, replay, db>>

(* Everything but the tokens clients hold is in memory.  Requests of the   *)
(* old process are over, the answered ones too.                            *)
Restart ==
  /\ life < MaxLife
  /\ life' = life + 1 /\ alive' = TRUE
  /\ replay' = {} /\ tail' = <<>> /\ db' = [bob |-> Balance, eve |-> 0]
  /\ post' = [q \in Posts |-> IF post[q] = New THEN New ELSE [pc |-> "lost"]]
  /\ UNCHANGED <<wall, mono, steps, minted>>

Init ==
  /\ wall = 0 /\ mono = 0 /\ steps = 0 /\ life = 1 /\ alive = TRUE
  /\ minted = <<>> /\ post = [q \in Posts |-> New] /\ tail = <<>>
  /\ replay = {} /\ db = [bob |-> Balance, eve |-> 0]

Next ==
  \/ Mint \/ GateStarts \/ VerifierFails \/ Tick \/ WallStepsBack \/ Restart
  \/ \E q \in Posts : \/ VerifierAnswers(q) \/ VerifierTimesOut(q)
                      \/ \E c \in Carries[q] : Post(q, c)

(* Promises are run, time passes and timers fire; the child owes nothing.  *)
Fairness == /\ WF_vars(GateStarts) /\ WF_vars(Tick)
            /\ \A q \in Posts : WF_vars(VerifierTimesOut(q))
Spec == Init /\ [][Next]_vars /\ Fairness

----------------------------------------------------------------------------

(* The state has its type; the map never outgrows its limit and the queue  *)
(* never its bound.                                                        *)
TypeOK ==
  /\ {wall, mono} \subseteq 0 .. MaxTime /\ life \in 1 .. MaxLife /\ alive \in BOOLEAN
  /\ \A q \in Posts : post[q].pc \in {"new", "busy", "queued", "verifying", "allow", "reject",
                                       "lost"}
  /\ \A i \in DOMAIN tail : post[tail[i]].pc = "queued"
  /\ Cardinality(replay) <= MaxReplay /\ Cardinality(Waiting) <= MaxQueued
  /\ db.bob >= 0 /\ db.bob + db.eve = Balance

(* "A rejected request never reaches the DB": the hashes a rejection       *)
(* reports, taken before and after its verification, are equal, whatever   *)
(* other requests were allowed meanwhile.                                  *)
RejectedLeavesDb == \A q \in Posts : post[q].pc = "reject" => post[q].before = post[q].after

Allowed(q) == post[q].pc = "allow"

(* While the wall clock is not set back, the claim of an allowed token     *)
(* outlives the token's freshness.                                         *)
RetainedWhileFresh ==
  steps = 0 => \A q \in Posts :
    Allowed(q) /\ wall <= Last(Record(post[q].token)) =>
      \E e \in replay : e.token = post[q].token /\ e.until > mono

(* No token moves the money twice, unless the wall clock was set back or   *)
(* one of the two verifications lasted as long as the safety margin.       *)
TwiceOnlyWhenLate ==
  \A p, q \in Posts :
    Allowed(p) /\ Allowed(q) /\ p # q /\ post[p].token = post[q].token =>
      steps > 0 \/ post[p].late >= SafetyMargin \/ post[q].late >= SafetyMargin

(* Every queued request is answered, though the child may hang or die.     *)
EveryGateEnds ==
  \A q \in Posts : post[q].pc = "queued" ~> post[q].pc \in {"allow", "reject", "lost"}
=============================================================================
