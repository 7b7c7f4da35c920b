----------------------------- MODULE PotVerify -----------------------------
(***************************************************************************)
(* The verification tools of tools.ts, pot_verify_v2 and pot_verify_v08,   *)
(* as concurrent calls of one Node process, with what they share: the      *)
(* cached quorum status, fetched from a status server with an abort timer, *)
(* and the replay keys in Redis.  A call runs without a break up to an     *)
(* await: the status fetch (pc "fetching") and SET NX (pc "claiming").     *)
(* The configuration, read from the environment, is chosen once.           *)
(***************************************************************************)
EXTENDS PotRecord, FiniteSets

CONSTANTS
  Calls,        \* identities of the calls
  Requests,     \* what callers may present: a function from names to requests
  Confs,        \* configurations, each with the names of what is presented under it
  Issued,       \* every record an issuer ever made
  SelfKeys,     \* the process's own key, one for each of its lives
  MaxSkew, MaxFutureSkew,   \* TTTPS_MAX_SKEW_US, TTTPS_MAX_FUTURE_SKEW_US
  ReplayTtl,    \* TTTPS_REPLAY_TTL_SECONDS
  AdmitTtl, FetchTimeout,   \* TTTPS_ADMISSION_TTL_MS, _TIMEOUT_MS
  Never,        \* the expiry of a key without one
  MaxTime,      \* bound on the clock
  MaxSends      \* how often the Redis client sends one command

ASSUME VerifyAssumption ==
  /\ {MaxSkew, MaxFutureSkew, ReplayTtl, AdmitTtl, FetchTimeout, MaxTime, MaxSends} \subseteq Nat
  /\ SelfKeys \in Seq(STRING) /\ SelfKeys # <<>>
  /\ Never \notin Int

(* Signatures are not forged: a record that carries one of its own octets  *)
(* was made by the owner of the key.                                       *)
ASSUME RequestsAssumption ==
  /\ \A f \in Confs :
       f.presented \subseteq DOMAIN Requests /\ (f.skew08 = NoPolicy \/ f.skew08 \in Nat)
  /\ \A n \in DOMAIN Requests :
       LET r == Requests[n].rec
       IN IF Requests[n].api = "v2"
          THEN /\ {r.ts, r.disp} \subseteq Nat
               /\ r.len = 180 /\ r.sig = Sign(r.sig.by, Fields(r, PrefixV2)) => r \in Issued
          ELSE /\ {r.ts, r.bound} \subseteq Nat
               /\ r.len = LengthV08(r) /\ r.sig = Sign(r.sig.by, <<Fields(r, PreV08), r.commitment>>)
                    => r \in Issued

VARIABLES
  conf,    \* the environment variables
  clock,   \* Date.now, also Redis's
  life,    \* index of the process's life: its key is SelfKeys[life]
  quorum,  \* what the status server would answer
  cache,   \* roughtimeAdmitCache, NoPolicy when null
  keys,    \* Redis: replay keys with their expiry
  call     \* the state of every call
vars == <<conf, clock, life, quorum, cache, keys, call>>

NoSample == [ok |-> TRUE, at |-> Never]
Idle == [pc |-> "idle"]
Req(c) == Requests[call[c].req]

----------------------------------------------------------------------------
(* pot_generate_v2 and the v08 part of pot_generate.                       *)

GenerateV2(holderType, ts, disp, ctx, holder, nonce, keyId, key) ==
  EncodeV2([holderType |-> holderType, alg |-> 1, ts |-> ts, disp |-> disp, ctx |-> ctx,
            nonce |-> nonce, holder |-> holder, keyId |-> keyId], key)

(* The caller gets no record when the time has too few sources or an error *)
(* bound that the field cannot hold.                                       *)
GenerateV08(ts, bound, sources, offline, digest, nonce, keyId, ctxId, key) ==
  IF offline \/ ~EncodableV08([srcCnt |-> sources, bound |-> bound]) THEN NoPolicy
  ELSE EncodeV08([version |-> 1, tier |-> 1, alg |-> 1, srcCnt |-> sources, bound |-> bound,
                  ts |-> ts, keyId |-> keyId, nonce |-> nonce, digest |-> digest,
                  holder |-> NoPolicy], ctxId, key)

----------------------------------------------------------------------------
(* The checks of pot_verify_v2 between its two awaits.                     *)

Candidates(req) ==
  CASE conf.trusted # {}                      -> conf.trusted
    [] conf.trusted = {} /\ (conf.pinSelf \/ req.issuer = NoPolicy) -> {SelfKeys[life]}
    [] OTHER                                  -> {req.issuer}

FreshnessV2(req) ==
  IF conf.enforce THEN [now |-> clock, skew |-> MaxSkew] ELSE req.fresh

(* All candidates agree but for the signature.                             *)
RecordVerdict(req) ==
  LET bad   == "issuer signature invalid"
      found == {VerifyV2(req.rec, k, FreshnessV2(req)) : k \in Candidates(req)} \ {bad}
  IN IF found # {} THEN CHOOSE v \in found : TRUE
     ELSE IF conf.trusted # {} THEN "issuer not trusted" ELSE bad

BindingVerdict(req) ==
  IF req.proof = NoPolicy THEN "intact"
  ELSE IF req.channel = NoPolicy THEN "live TLS exporter unavailable"
  ELSE VerifyBinding(conf.rev, req.rec, req.proof,
                     Export(req.channel, conf.rev, req.rec), NoPolicy)

CheckV2(req) ==
  LET r == req.rec IN
  FirstFailure(<<
    <<RecordVerdict(req) # "intact", RecordVerdict(req)>>,
    <<conf.holders # {} /\ r.holder \notin conf.holders, "holder not authorized">>,
    <<BindingVerdict(req) # "intact", BindingVerdict(req)>>,
    <<conf.rev = "draft13" /\ ~Draft13Freshness(r.ts, clock, r.disp, MaxSkew, MaxFutureSkew),
      "asymmetric freshness window exceeded">> >>)

(* The ledger flag has opposite defaults: version 2 skips the ledger only  *)
(* for "0" and version 08 uses it only for "1".                            *)
Ledger(api) == IF api = "v2" THEN conf.ledger # "0" ELSE conf.ledger = "1"

Key(req) == IF req.api = "v2" THEN <<"v2", req.rec.ctx, req.rec.nonce>>
            ELSE <<"v08", req.client, req.session, req.rec.nonce>>

(* Mutant of Decided: the nonce is claimed before the verdict is looked at.*)
DecidedClaimFirst(n, verdict, sample) ==
  [pc |-> IF Ledger(Requests[n].api) THEN "claiming" ELSE "done", req |-> n,
   verdict |-> verdict, at |-> clock, sample |-> sample, sends |-> 0, answer |-> NoPolicy]

(* A call that passes its checks goes on to its claim.                     *)
Decided(n, verdict, sample) ==
  [pc |-> IF verdict = "intact" /\ Ledger(Requests[n].api) THEN "claiming" ELSE "done",
   req |-> n, verdict |-> verdict, at |-> clock, sample |-> sample, sends |-> 0, answer |-> NoPolicy]

Become(c, state) == call' = [call EXCEPT ![c] = state]

Admit(c, n, sample) ==
  Become(c, Decided(n, IF sample.ok THEN CheckV2(Requests[n])
                       ELSE "roughtime chain quorum unavailable", sample))

----------------------------------------------------------------------------
(* pot_verify_v2.                                                          *)

Early(req) ==
  FirstFailure(<<
    <<conf.rev \notin {"draft11", "draft13"}, "unsupported binding revision">>,
    <<conf.binding /\ req.proof = NoPolicy, "TLS exporter binding proof is required">>,
    <<req.rec.len # 180, "invalid record encoding">> >>)

CacheHit == cache # NoPolicy /\ clock - cache.at < AdmitTtl

StartV2(c, n) ==
  LET early == Early(Requests[n]) IN
  /\ call[c] = Idle /\ Requests[n].api = "v2"
  /\ UNCHANGED <<conf, clock, life, quorum, cache, keys>>
  /\ \/ /\ early # "intact"
        /\ Become(c, Decided(n, early, NoSample))
     \/ /\ early = "intact" /\ ~conf.quorum
        /\ Admit(c, n, NoSample)
     \/ /\ early = "intact" /\ conf.quorum /\ CacheHit
        /\ Admit(c, n, [ok |-> cache.ok, at |-> cache.sampled])
     \/ /\ early = "intact" /\ conf.quorum /\ ~CacheHit
        /\ Become(c, [pc |-> "fetching", req |-> n, since |-> clock, sample |-> NoPolicy])

(* The status server looks at its quorum at some moment of the fetch.      *)
Sample(c) ==
  /\ call[c].pc = "fetching" /\ call[c].sample = NoPolicy
  /\ Become(c, [call[c] EXCEPT !.sample = [ok |-> quorum, at |-> clock]])
  /\ UNCHANGED <<conf, clock, life, quorum, cache, keys>>

FetchAnswers(c) ==
  /\ call[c].pc = "fetching" /\ call[c].sample # NoPolicy
  /\ LET s == call[c].sample
     IN /\ cache' = [ok |-> s.ok, at |-> clock, sampled |-> s.at]
        /\ Admit(c, call[c].req, s)
  /\ UNCHANGED <<conf, clock, life, quorum, keys>>

(* Mutant of FetchFails: on an error the last known status is used.        *)
FetchFailsOpen(c) ==
  /\ call[c].pc = "fetching"
  /\ LET s == IF cache = NoPolicy THEN [ok |-> FALSE, at |-> clock]
              ELSE [ok |-> cache.ok, at |-> cache.sampled]
     IN /\ cache' = [ok |-> s.ok, at |-> clock, sampled |-> s.at]
        /\ Admit(c, call[c].req, s)
  /\ UNCHANGED <<conf, clock, life, quorum, keys>>

(* An error, an unreadable answer or the abort timer.                      *)
FetchFails(c) ==
  /\ call[c].pc = "fetching"
  /\ LET s == [ok |-> FALSE, at |-> clock]
     IN /\ cache' = [ok |-> FALSE, at |-> clock, sampled |-> clock]
        /\ Admit(c, call[c].req, s)
  /\ UNCHANGED <<conf, clock, life, quorum, keys>>

----------------------------------------------------------------------------
(* pot_verify_v08.                                                         *)

CheckV08(req) ==
  LET fresh == IF conf.skew08 = NoPolicy THEN NoPolicy
               ELSE [now |-> clock, skew |-> conf.skew08]
      key   == IF req.issuer = NoPolicy THEN SelfKeys[life] ELSE req.issuer
  IN IF conf.fresh08 /\ fresh = NoPolicy THEN "freshness policy is not configured"
     ELSE VerifyV08(req.rec, req.ctxId, key, req.content, fresh)

StartV08(c, n) ==
  /\ call[c] = Idle /\ Requests[n].api = "v08"
  /\ Become(c, Decided(n, CheckV08(Requests[n]), NoSample))
  /\ UNCHANGED <<conf, clock, life, quorum, cache, keys>>

----------------------------------------------------------------------------
(* The claims: SET NX, for version 08 with an expiry.  The Redis client    *)
(* resends a command whose answer it lost, so one command may run twice.   *)

(* Mutants of Expiry: claims of both versions expire; the time to live in  *)
(* a smaller unit.                                                         *)
ExpiryAlways(api) == clock + ReplayTtl
ExpiryShort(api)  == IF api = "v2" THEN Never ELSE clock + 1

Expiry(api) == IF api = "v2" THEN Never ELSE clock + ReplayTtl

Live(k) == \E e \in keys : e.key = k /\ (e.until = Never \/ clock <= e.until)

ClaimRuns(c) ==
  /\ call[c].pc = "claiming" /\ call[c].sends < MaxSends
  /\ LET req == Req(c)
         k   == Key(req)
         set == [call[c] EXCEPT !.sends = @ + 1, !.answer = [ok |-> ~Live(k), at |-> clock]]
     IN /\ req.api = "v08" => "" \notin {req.client, req.session}
        /\ keys' = IF Live(k) THEN keys
                   ELSE {e \in keys : e.key # k} \cup {[key |-> k, until |-> Expiry(req.api)]}
        /\ Become(c, set)
  /\ UNCHANGED <<conf, clock, life, quorum, cache>>

Settle(c, verdict) ==
  /\ Become(c, [call[c] EXCEPT !.pc = "done", !.verdict = verdict])
  /\ UNCHANGED <<conf, clock, life, quorum, cache, keys>>

ClaimAnswered(c) ==
  /\ call[c].pc = "claiming" /\ call[c].answer # NoPolicy
  /\ Settle(c, IF call[c].answer.ok THEN call[c].verdict ELSE "replay detected")

(* No connection, a lost answer, or for version 08 a caller without name.  *)
ClaimFails(c) ==
  /\ call[c].pc = "claiming"
  /\ Settle(c, "replay ledger unavailable")

----------------------------------------------------------------------------
(* The environment.                                                        *)

(* The abort timer bounds how long a fetch waits.                          *)
Tick ==
  /\ clock < MaxTime
  /\ \A c \in Calls : call[c].pc = "fetching" => clock - call[c].since < FetchTimeout
  /\ clock' = clock + 1
  /\ UNCHANGED <<conf, life, quorum, cache, keys, call>>

QuorumChanges ==
  /\ conf.quorum
  /\ quorum' = ~quorum
  /\ UNCHANGED <<conf, clock, life, cache, keys, call>>

(* A new process has a new key, an empty cache and none of the calls; what *)
(* Redis holds stays.                                                      *)
Restart ==
  /\ life < Len(SelfKeys)
  /\ life' = life + 1
  /\ cache' = NoPolicy
  /\ call' = [c \in Calls |-> IF call[c].pc \in {"fetching", "claiming"}
                              THEN [pc |-> "lost"] ELSE call[c]]
  /\ UNCHANGED <<conf, clock, quorum, keys>>

Init ==
  /\ conf \in Confs /\ clock = 0 /\ life = 1 /\ quorum = TRUE
  /\ cache = NoPolicy /\ keys = {} /\ call = [c \in Calls |-> Idle]

Next ==
  \/ \E c \in Calls, n \in conf.presented : StartV2(c, n) \/ StartV08(c, n)
  \/ \E c \in Calls : \/ Sample(c) \/ FetchAnswers(c) \/ FetchFails(c)
                      \/ ClaimRuns(c) \/ ClaimAnswered(c) \/ ClaimFails(c)
  \/ Tick \/ QuorumChanges \/ Restart

Spec == Init /\ [][Next]_vars

----------------------------------------------------------------------------

Done(c)     == call[c].pc = "done"
Accepted(c) == Done(c) /\ call[c].verdict = "intact"
Api(c)      == Req(c).api

(* The state has its type: calls are in one of their phases, and a key of  *)
(* version 2 has no expiry and one of version 08 has one.                  *)
TypeOK ==
  /\ conf \in Confs /\ clock \in 0 .. MaxTime /\ life \in 1 .. Len(SelfKeys)
  /\ quorum \in BOOLEAN
  /\ cache = NoPolicy \/ (cache.ok \in BOOLEAN /\ {cache.at, cache.sampled} \subseteq 0 .. clock)
  /\ \A e \in keys :
       IF e.key[1] = "v2" THEN e.until = Never ELSE e.until \in 0 .. clock + ReplayTtl
  /\ \A c \in Calls : call[c].pc \in {"idle", "fetching", "claiming", "done", "lost"}

(* The proof was made by the record's holder, for this very record, on the *)
(* channel that carries the call.                                          *)
ProvedHere(req) ==
  /\ req.rec.holderType = Ed25519
  /\ req.proof.by = req.rec.holder
  /\ req.proof.over = BindingInput(conf.rev, req.rec, Export(req.channel, conf.rev, req.rec))

(* What version 2 answers "intact" to is a record an accepted issuer made, *)
(* unaltered, of an authorised holder that proves it on this channel, and  *)
(* its time lies in the window at the moment the checks were made; in      *)
(* revision draft13 the future side is the narrower one.                   *)
GenuineV2(req, at) ==
  LET r == req.rec
  IN /\ r \in Issued
     /\ conf.trusted # {} => r.sig.by \in conf.trusted
     /\ conf.trusted = {} /\ conf.pinSelf => r.sig.by \in {SelfKeys[i] : i \in 1 .. life}
     /\ conf.holders # {} => r.holder \in conf.holders
     /\ conf.binding \/ req.proof # NoPolicy => ProvedHere(req)
     /\ conf.enforce => at - r.ts \in -(MaxSkew + r.disp) .. MaxSkew + r.disp
     /\ conf.rev = "draft13" => at - r.ts \in -MaxFutureSkew .. MaxSkew + r.disp

(* A version 08 record answered "intact" is one the named issuer made for  *)
(* this context, over this content, within the skew where there is one.    *)
GenuineV08(req, at) ==
  LET r == req.rec
  IN /\ r \in Issued /\ r.commitment[1] = req.ctxId
     /\ req.issuer # NoPolicy => r.sig.by = req.issuer
     /\ req.content # NoPolicy => r.digest = req.content
     /\ conf.skew08 # NoPolicy => Distance(r.ts, at) <= conf.skew08 + r.bound

Genuine(req, at) == IF req.api = "v2" THEN GenuineV2(req, at) ELSE GenuineV08(req, at)

(* Every record that was accepted is genuine in the sense of its version.  *)
AcceptedIsGenuine ==
  \A c \in Calls : Accepted(c) => Genuine(Req(c), call[c].at)

(* With the ledger, no two calls accept the same context and nonce, across *)
(* concurrent calls, resent commands and restarts of the process.          *)
AcceptedOnce ==
  \A c, d \in Calls :
    /\ Accepted(c) /\ Accepted(d) /\ Api(c) = "v2" /\ Api(d) = "v2"
    /\ Ledger("v2") /\ Key(Req(c)) = Key(Req(d))
    => c = d

(* With its ledger pot_verify_v2 keeps the promise of AdmitOnce: a nonce   *)
(* that is spent stays so, whatever is resent and restarted, and at most   *)
(* one call is accepted for it, once it is spent.                          *)
NonceKeys == {Key(Requests[n]) : n \in {m \in DOMAIN Requests : Requests[m].api = "v2"}}
Promise == INSTANCE AdmitOnce WITH
             Claims   <- NonceKeys,
             admitted <- NonceKeys \cap {e.key : e \in keys},
             allowed  <- [k \in NonceKeys |->
                           IF Ledger("v2")
                           THEN Cardinality({c \in Calls : Accepted(c) /\ Key(Req(c)) = k})
                           ELSE 0]
AdmitOnceSpec == Promise!Spec

(* A version 08 key expires.  With a freshness policy that still lets no   *)
(* record in twice, unless a claim reaches Redis later than its freshness  *)
(* check by more than what the expiry exceeds the whole window.            *)
V08TwiceOnlyWhenLate ==
  \A c, d \in Calls :
    /\ Accepted(c) /\ Accepted(d) /\ c # d /\ Api(c) = "v08" /\ Api(d) = "v08"
    /\ Ledger("v08") /\ conf.skew08 # NoPolicy
    /\ Req(c).rec = Req(d).rec /\ Key(Req(c)) = Key(Req(d))
    => \E e \in {c, d} : call[e].answer.at - call[e].at
                           > ReplayTtl - 2 * (conf.skew08 + Req(e).rec.bound)

(* An answer that passed the quorum gate rests on a quorum the status      *)
(* server saw, less than the cache's life and one fetch ago, whichever of  *)
(* two concurrent fetches wrote the cache last.                            *)
QuorumRecent ==
  \A c \in Calls : Accepted(c) /\ Api(c) = "v2" /\ conf.quorum =>
    call[c].sample.ok /\ call[c].at - call[c].sample.at < AdmitTtl + FetchTimeout

(* A nonce is spent only for a record that passed every check, whatever    *)
(* becomes of the claim: a stranger who saw a record, or altered one,      *)
(* cannot spend its nonce.                                                 *)
ClaimedWasChecked ==
  \A c \in Calls : call[c].pc \in {"claiming", "done"} /\ call[c].sends > 0 =>
    Genuine(Req(c), call[c].at)
=============================================================================
