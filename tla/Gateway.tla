------------------------------ MODULE Gateway ------------------------------
(***************************************************************************)
(* production/gateway.mjs: the customer-local TLS service.  Every request  *)
(* runs as an async handler that awaits answers from two child processes   *)
(* over pipes, the store (replay-store.py, module ReplayStore) and the     *)
(* Rust verifier.  A call in flight ends by its answer, by its three       *)
(* second timer or by the death of the child; a request whose timer fired  *)
(* is still in the pipe and is still executed.  The client may hang up and *)
(* the service may be killed and restarted between any two steps.          *)
(*                                                                         *)
(* A request of the model is used once: a client that retries is another   *)
(* request for the same record.  Routing, authorization, content type and  *)
(* the per-address rate bucket are one refusal, taken or not.              *)
(***************************************************************************)
EXTENDS Naturals, FiniteSets, Sequences

CONSTANTS
  Requests,      \* bound: the HTTP requests of a behaviour
  MayAsk,        \* what each of them may ask for
  MaxInflight,   \* admitted requests at a time (64)
  MaxPending,    \* calls pending at one child (64)
  NoClaim,       \* no record yet
  Claims, Capacity, MaxTai, MaxAge, MaxFuture, MaxDispersion, SafetyMargin, Millisecond

ASSUME GatewayAssumption ==
  /\ {MaxInflight, MaxPending} \subseteq Nat \ {0}
  /\ IsFiniteSet(Requests) /\ NoClaim \notin Claims /\ MaxTai \in Nat
  /\ MayAsk \in [Requests -> SUBSET {"seal", "verify", "health"}]

VARIABLES
  tai, issued, claims, receipts, highWater, admissions,   \* see ReplayStore
  usage,            \* sum of the quantities in the table usage
  req,              \* request -> the state of its handler
  inflight,         \* let inflight
  storeUp,          \* the store process is alive
  storeIn,          \* its stdin: requests not yet executed
  storeOut,         \* its stdout: answers not yet read
  storePending,     \* keys of the store pipe's pending map
  storeFailed,      \* the store pipe's failed flag
  verifierPending,  \* keys of the verifier pipe's pending map
  verifierFailed    \* the verifier pipe's failed flag

storeVars    == <<tai, issued, claims, receipts, highWater, admissions>>
database     == <<claims, receipts, highWater, admissions>>
pipeVars     == <<storeUp, storeIn, storeOut, storePending, storeFailed>>
verifierVars == <<verifierPending, verifierFailed>>
vars         == <<storeVars, usage, req, inflight, pipeVars, verifierVars>>

Store == INSTANCE ReplayStore

----------------------------------------------------------------------------
(* Handlers.                                                               *)

Idle == [pc |-> "idle", kind |-> "none", claim |-> NoClaim, now |-> 0,
         closed |-> FALSE, released |-> TRUE, outcome |-> "none"]

StoreOps == {"clock", "seal_usage", "claim"}
Active   == {r \in Requests : req[r].pc \notin {"idle", "done"}}

(* The handlers in S respond with a status (send does nothing when the     *)
(* response is destroyed) and release their slot, each slot only once.     *)
Ended(h, status) ==
  [h EXCEPT !.pc = "done", !.released = TRUE,
            !.outcome = IF h.closed THEN @ ELSE status]
(* Mutant of EndAll: finally gives a slot back that close has given back.  *)
EndAllTwice(S, status) ==
  /\ req' = [r \in Requests |-> IF r \in S THEN Ended(req[r], status) ELSE req[r]]
  /\ inflight' = inflight - Cardinality(S)

EndAll(S, status) ==
  /\ req' = [r \in Requests |-> IF r \in S THEN Ended(req[r], status) ELSE req[r]]
  /\ inflight' = inflight - Cardinality({r \in S : ~req[r].released})
End(r, status) == EndAll({r}, status)

(* store.call(q) by request r, whose handler goes on as h: refused at once *)
(* when the child is known dead or too many calls are pending.             *)
CallStore(r, h, q) ==
  LET others == storePending \ {r}
  IN IF storeFailed \/ Cardinality(others) >= MaxPending
     THEN /\ End(r, "UNAVAILABLE")
          /\ storePending' = others
          /\ UNCHANGED storeIn
     ELSE /\ req' = [req EXCEPT ![r] = [h EXCEPT !.pc = q.op]]
          /\ storePending' = others \cup {r}
          /\ storeIn' = Append(storeIn, q)
          /\ UNCHANGED inflight

(* verifier.call by request r, whose handler goes on as h.                 *)
CallVerifier(r, h) ==
  IF verifierFailed \/ Cardinality(verifierPending) >= MaxPending
  THEN End(r, "UNAVAILABLE") /\ UNCHANGED verifierPending
  ELSE /\ req' = [req EXCEPT ![r] = [h EXCEPT !.pc = "verify"]]
       /\ verifierPending' = verifierPending \cup {r}
       /\ UNCHANGED inflight

----------------------------------------------------------------------------
(* Ingress.                                                                *)

(* Records that left the service in the answer to a seal.                  *)
Delivered == {req[r].claim : r \in {s \in Requests : req[s].outcome = "SEALED"}}

(* The headers of a POST arrive; an admitted one takes a slot until it     *)
(* responds or its connection closes.                                      *)
Arrive(r, kind, c) ==
  /\ req[r].pc = "idle" /\ kind \in MayAsk[r]
  /\ \/ kind = "seal" /\ c = NoClaim
     \/ kind = "verify" /\ c \in Delivered
  /\ \/ /\ inflight < MaxInflight
        /\ req' = [req EXCEPT ![r].pc = "body", ![r].kind = kind, ![r].claim = c,
                              ![r].released = FALSE]
        /\ inflight' = inflight + 1
     \/ End(r, "REFUSED")
  /\ UNCHANGED <<storeVars, usage, pipeVars, verifierVars>>

(* GET /health asks the store for its clock without taking a slot.         *)
Health(r) ==
  /\ req[r].pc = "idle" /\ "health" \in MayAsk[r]
  /\ CallStore(r, [req[r] EXCEPT !.kind = "health"], [req |-> r, op |-> "clock"])
  /\ UNCHANGED <<storeVars, usage, storeUp, storeOut, storeFailed, verifierVars>>

(* The body is complete: a malformed one is answered, another one asks for *)
(* the clock; when nobody is there to answer the handler just returns.     *)
BodyEnds(r) ==
  /\ req[r].pc = "body"
  /\ \/ End(r, "REJECT") /\ UNCHANGED <<storeIn, storePending>>
     \/ ~req[r].closed /\ CallStore(r, req[r], [req |-> r, op |-> "clock"])
  /\ UNCHANGED <<storeVars, usage, storeUp, storeOut, storeFailed, verifierVars>>

(* The body timer, an oversized body (answered, if the answer still gets   *)
(* out) or a socket error destroys the request: its handler never runs.    *)
BodyFails(r) ==
  /\ req[r].pc = "body"
  /\ \E status \in {"none", "REJECT"} : End(r, status)
  /\ UNCHANGED <<storeVars, usage, pipeVars, verifierVars>>

(* Mutant of ClientCloses: close gives the slot back and sets no flag.     *)
ClientClosesUnflagged(r) ==
  /\ r \in Active /\ ~req[r].closed
  /\ req' = [req EXCEPT ![r].closed = TRUE]
  /\ inflight' = IF req[r].released THEN inflight ELSE inflight - 1
  /\ UNCHANGED <<storeVars, usage, pipeVars, verifierVars>>

(* The client hangs up: the slot is released while the handler still runs. *)
ClientCloses(r) ==
  /\ r \in Active /\ ~req[r].closed
  /\ req' = [req EXCEPT ![r].closed = TRUE, ![r].released = TRUE]
  /\ inflight' = IF req[r].released THEN inflight ELSE inflight - 1
  /\ UNCHANGED <<storeVars, usage, pipeVars, verifierVars>>

----------------------------------------------------------------------------
(* The store process.                                                      *)

Answer(q, ok) ==
  /\ storeIn' = Tail(storeIn)
  /\ storeOut' = Append(storeOut, [req |-> q.req, op |-> q.op, ok |-> ok, now |-> tai])
  /\ UNCHANGED <<req, inflight, storeUp, storePending, storeFailed, verifierVars>>

(* One line of stdin, executed whether or not anyone still waits for it.   *)
(* Each op fails when chrony or SQLite does.                               *)
StoreServes ==
  /\ storeUp /\ storeIn # <<>>
  /\ LET q == Head(storeIn)
     IN \/ /\ Answer(q, FALSE)
           /\ UNCHANGED <<storeVars, usage>>
        \/ /\ q.op = "clock" /\ ~Store!ClockRefuses(tai)
           /\ Answer(q, TRUE)
           /\ UNCHANGED <<storeVars, usage>>
        \/ /\ q.op = "seal_usage"
           /\ usage' = usage + 1
           /\ Answer(q, TRUE)
           /\ UNCHANGED storeVars
        \/ /\ q.op = "claim"
           /\ Store!Claim(q.request)
           /\ Answer(q, Store!Verdict(q.request, tai) = "ok")
           /\ UNCHANGED usage

(* The process dies: unread input is lost, the database is not.            *)
StoreDies ==
  /\ storeUp
  /\ storeUp' = FALSE
  /\ storeIn' = <<>>
  /\ UNCHANGED <<storeVars, usage, req, inflight, storeOut, storePending, storeFailed,
                 verifierVars>>

(* Mutant of StoreExit: the pending map is cleared, its calls not rejected.*)
StoreExitSilent ==
  /\ ~storeUp /\ ~storeFailed
  /\ storeFailed' = TRUE
  /\ storePending' = {}
  /\ storeOut' = <<>>
  /\ UNCHANGED <<storeVars, usage, req, inflight, storeUp, storeIn, verifierVars>>

(* The exit event: fail() rejects every pending call, and every later one. *)
StoreExit ==
  /\ ~storeUp /\ ~storeFailed
  /\ storeFailed' = TRUE
  /\ EndAll(storePending, "UNAVAILABLE")
  /\ storePending' = {}
  /\ storeOut' = <<>>
  /\ UNCHANGED <<storeVars, usage, storeUp, storeIn, verifierVars>>

VerifierExit ==
  /\ ~verifierFailed
  /\ verifierFailed' = TRUE
  /\ EndAll(verifierPending, "UNAVAILABLE")
  /\ verifierPending' = {}
  /\ UNCHANGED <<storeVars, usage, pipeVars>>

----------------------------------------------------------------------------
(* Continuations of the handlers.                                          *)

StoreLineRead == UNCHANGED <<usage, storeUp, storeFailed>>

(* A record is signed over the instant the clock op read, then its unit is *)
(* metered.                                                                *)
AfterClockSeal(r, now) ==
  \E c \in Claims \ DOMAIN issued, d \in 0 .. MaxDispersion :
    /\ issued' = [e \in DOMAIN issued \cup {c} |->
                    IF e = c THEN [ts |-> now, dispersion |-> d] ELSE issued[e]]
    /\ CallStore(r, [req[r] EXCEPT !.claim = c], [req |-> r, op |-> "seal_usage"])
    /\ UNCHANGED <<tai, database, verifierVars>>

AfterClockVerify(r, now) ==
  /\ CallVerifier(r, [req[r] EXCEPT !.now = now])
  /\ storePending' = storePending \ {r}
  /\ UNCHANGED <<storeVars, storeIn, verifierFailed>>

HealthStatus == IF storeFailed \/ verifierFailed THEN "DEGRADED" ELSE "HEALTHY"

(* The handler of r ends here with a status.                               *)
Respond(r, status) ==
  /\ End(r, status)
  /\ storePending' = storePending \ {r}
  /\ UNCHANGED <<storeVars, storeIn, verifierVars>>

(* Mutant of Continue: the ok of seal_usage and of claim is not looked at. *)
ContinueUnchecked(r, a) ==
  \/ Respond(r, "REJECT") /\ a.op = "clock" /\ (~a.ok \/ req[r].kind # "health")
  \/ /\ a.ok /\ a.op = "clock"
     /\ \/ req[r].kind = "health" /\ Respond(r, HealthStatus)
        \/ req[r].kind = "seal" /\ AfterClockSeal(r, a.now)
        \/ req[r].kind = "verify" /\ AfterClockVerify(r, a.now)
  \/ a.op = "seal_usage" /\ Respond(r, "SEALED")
  \/ a.op = "claim" /\ Respond(r, "ALLOW")

(* What the handler does with the answer a: an op that failed and a        *)
(* malformed holder or record are rejected.                                *)
Continue(r, a) ==
  \/ Respond(r, "REJECT") /\ (~a.ok \/ (a.op = "clock" /\ req[r].kind # "health"))
  \/ /\ a.ok /\ a.op = "clock"
     /\ \/ req[r].kind = "health" /\ Respond(r, HealthStatus)
        \/ req[r].kind = "seal" /\ AfterClockSeal(r, a.now)
        \/ req[r].kind = "verify" /\ AfterClockVerify(r, a.now)
  \/ a.ok /\ a.op = "seal_usage" /\ Respond(r, "SEALED")
  \/ a.ok /\ a.op = "claim" /\ Respond(r, "ALLOW")

(* A line of the store's stdout.  Call ids are never used twice, so an     *)
(* answer that comes after its timer finds no pending call.                *)
Awaited(a) == a.req \in storePending /\ req[a.req].pc = a.op

ReadAnswer ==
  /\ storeOut # <<>>
  /\ storeOut' = Tail(storeOut)
  /\ LET a == Head(storeOut)
     IN \/ Awaited(a) /\ Continue(a.req, a)
        \/ /\ ~Awaited(a)
           /\ UNCHANGED <<storeVars, req, inflight, storeIn, storePending, verifierVars>>
  /\ StoreLineRead

(* Mutant of VerifierAnswers: the record's freshness is not tested.        *)
VerifierAnswersStale(r) ==
  /\ r \in verifierPending
  /\ verifierPending' = verifierPending \ {r}
  /\ LET h == req[r]
     IN CallStore(r, h, [req |-> r, op |-> "claim",
                         request |-> Store!ClaimRequest(h.claim, issued[h.claim], h.now)])
  /\ UNCHANGED <<storeVars, usage, storeUp, storeOut, storeFailed, verifierFailed>>

(* The verifier answers: a fresh record with a valid holder proof goes on  *)
(* to the claim.                                                           *)
VerifierAnswers(r) ==
  /\ r \in verifierPending
  /\ verifierPending' = verifierPending \ {r}
  /\ LET h == req[r]  rec == issued[h.claim]
     IN \/ End(r, "REJECT") /\ UNCHANGED <<storeIn, storePending>>
        \/ /\ Store!Fresh(rec, h.now)
           /\ CallStore(r, h, [req |-> r, op |-> "claim",
                               request |-> Store!ClaimRequest(h.claim, rec, h.now)])
  /\ UNCHANGED <<storeVars, usage, storeUp, storeOut, storeFailed, verifierFailed>>

(* The three second timer of a pending call.                               *)
Timeout(r) ==
  /\ r \in storePending \cup verifierPending
  /\ End(r, "UNAVAILABLE")
  /\ storePending' = storePending \ {r}
  /\ verifierPending' = verifierPending \ {r}
  /\ UNCHANGED <<storeVars, usage, storeUp, storeIn, storeOut, storeFailed, verifierFailed>>

----------------------------------------------------------------------------
(* The service is killed, with its children, and systemd starts it again:  *)
(* only the database survives.                                             *)
Restart ==
  /\ req' = [r \in Requests |-> IF r \in Active THEN [req[r] EXCEPT !.pc = "done",
                                                        !.released = TRUE] ELSE req[r]]
  /\ inflight' = 0
  /\ storeUp' = TRUE /\ storeIn' = <<>> /\ storeOut' = <<>>
  /\ storePending' = {} /\ verifierPending' = {}
  /\ storeFailed' = FALSE /\ verifierFailed' = FALSE
  /\ UNCHANGED <<storeVars, usage>>

ClockMoves ==
  /\ Store!ClockMoves
  /\ UNCHANGED <<usage, req, inflight, pipeVars, verifierVars>>

Init ==
  /\ Store!Init /\ issued = <<>>   \* a first installation
  /\ usage = 0
  /\ req = [r \in Requests |-> Idle]
  /\ inflight = 0
  /\ storeUp = TRUE /\ storeIn = <<>> /\ storeOut = <<>>
  /\ storePending = {} /\ verifierPending = {}
  /\ storeFailed = FALSE /\ verifierFailed = FALSE

Next ==
  \/ \E r \in Requests :
       \/ \E kind \in {"seal", "verify"}, c \in Claims \cup {NoClaim} : Arrive(r, kind, c)
       \/ Health(r) \/ BodyEnds(r) \/ BodyFails(r) \/ ClientCloses(r)
       \/ VerifierAnswers(r) \/ Timeout(r)
  \/ StoreServes \/ StoreDies \/ StoreExit \/ VerifierExit \/ ReadAnswer
  \/ Restart \/ ClockMoves

(* The timers of Node's event loop fire; nothing else is owed: the client  *)
(* and the children may stop at any point.                                 *)
Fairness == \A r \in Requests : WF_vars(BodyFails(r)) /\ WF_vars(Timeout(r))

Spec == Init /\ [][Next]_vars /\ Fairness

----------------------------------------------------------------------------
TypeOK ==
  /\ usage \in Nat /\ inflight \in 0 .. MaxInflight
  /\ req \in [Requests ->
       [pc       : {"idle", "body", "verify", "done"} \cup StoreOps,
        kind     : {"none", "seal", "verify", "health"},
        claim    : Claims \cup {NoClaim},
        now      : Store!Instants,
        closed   : BOOLEAN,
        released : BOOLEAN,
        outcome  : {"none", "REFUSED", "REJECT", "UNAVAILABLE", "HEALTHY", "DEGRADED",
                    "SEALED", "ALLOW"}]]
  /\ {storeUp, storeFailed, verifierFailed} \subseteq BOOLEAN
  /\ storePending \subseteq Requests /\ verifierPending \subseteq Requests
  /\ \A i \in DOMAIN storeIn : storeIn[i].req \in Requests /\ storeIn[i].op \in StoreOps
  /\ \A i \in DOMAIN storeOut : storeOut[i].req \in Requests /\ storeOut[i].op \in StoreOps

(* A slot is counted once and given back once, whichever of the response,  *)
(* the body timer, a hang-up, a timed out call or a dead child comes first *)
(* (release and its flag, gateway.mjs).                                    *)
SlotsExact == inflight = Cardinality({r \in Active : ~req[r].released})

(* "Each successful v2 seal durably records one metered unit before        *)
(* acknowledgement" (production/README.md), across timeouts and restarts.  *)
MeteredBeforeSealed ==
  Cardinality({r \in Requests : req[r].outcome = "SEALED"}) <= usage

(* The receipt a client holds is the stored one: an ALLOW never carries an *)
(* instant other than that of the durable receipt of its claim, though     *)
(* answers come late, out of turn or not at all.                           *)
ReceiptIsDurable ==
  \A r \in Requests : req[r].outcome = "ALLOW" =>
    /\ req[r].claim \in DOMAIN receipts
    /\ receipts[req[r].claim] = req[r].now

(* No handler waits forever, whatever the client and the children do: the  *)
(* service comes to rest again and again.  A request is used once and stays*)
(* ended, so this is to say that every request that came in ends.          *)
EveryRequestEnds == []<>(Active = {})

(* The service, with its pipes, timeouts and restarts, drives the store    *)
(* only as ReplayStore says a store is driven.                             *)
StoreSpec == Store!Spec

(* The service keeps the promise of AdmitOnce: one durable admission and   *)
(* at most one ALLOW for each claim.                                       *)
Promise == INSTANCE AdmitOnce WITH
             admitted <- DOMAIN receipts,
             allowed  <- [c \in Claims |->
                           Cardinality({r \in Requests :
                             req[r].outcome = "ALLOW" /\ req[r].claim = c})]
AdmitOnceSpec == Promise!Spec
=============================================================================
