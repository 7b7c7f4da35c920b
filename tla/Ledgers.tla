------------------------------ MODULE Ledgers ------------------------------
(***************************************************************************)
(* The three other places where a nonce is claimed: the draft-12 shadow    *)
(* verifier with its in-process ledger (shadow/draft12_shadow.ts), the     *)
(* LocalNonceCache of the Rust crate (replay.rs) and the MemoryDB client   *)
(* (demo/memorydb_replay.mjs).  Each behaviour is one of them, its site.   *)
(* A claim at "local" and "memorydb" comes with the time to live that      *)
(* replay_ttl gave when the record was verified, earlier; the shadow       *)
(* verifier checks and claims at the instant its caller passes.  The clocks*)
(* of all three go forward.                                                *)
(***************************************************************************)
EXTENDS PotRecord, FiniteSets

CONSTANTS
  Attempts,    \* identities of the calls
  Frames,      \* records with a holder's proof: a function from names to them
  Policies,    \* what the shadow verifier's callers pass
  Capacity,    \* of the ledger and of the cache
  MaxAge, SafetyMargin,
  Nobody,      \* an entry's claimant where the site does not record one
  MaxTime      \* bound on the clock

ASSUME LedgerAssumption ==
  /\ Capacity \in Nat \ {0} /\ {MaxAge, SafetyMargin, MaxTime} \subseteq Nat
  /\ \A f \in DOMAIN Frames : {Frames[f].rec.ts, Frames[f].rec.disp} \subseteq Nat
  /\ \A p \in Policies : p.window \in Int

VARIABLES
  site,       \* which of the three
  now,        \* their clock
  connected,  \* the MemoryDB client is connected and ready
  entries,    \* claims held, with the instant each lives until
  att         \* the state of every call
vars == <<site, now, connected, entries, att>>

New    == [pc |-> "new"]
Key(f) == <<Frames[f].rec.ctx, Frames[f].rec.nonce>>

(* The entry of a key is one: writing it replaces the old one.             *)
Without(k)         == {e \in entries : e.key # k}
Put(k, until, who) == entries' = Without(k) \cup {[key |-> k, until |-> until, by |-> who]}
Finish(a, f, answer, at, late) ==
  att' = [att EXCEPT ![a] = [pc |-> "done", frame |-> f, answer |-> answer, at |-> at,
                             late |-> late]]

----------------------------------------------------------------------------
(* verifyDraft12ShadowFrame, in one call and so without interleaving.      *)

Allowed(r, policy) == policy.window + r.disp

ShadowBefore(f, policy) ==
  LET r == Frames[f].rec IN
  FirstFailure(<<
    <<~policy.authenticated \/ policy.window < 0, "UNVERIFIABLE: manifest">>,
    <<r.len # 180 \/ r.holderType \notin HolderTypes \/ Frames[f].proof.type # r.holderType,
      "REJECT: framing">>,
    <<r.version # 2 \/ r.alg # 1, "REJECT: version">>,
    <<r.tag # Fields(r, HeadV2), "REJECT: integrity">>,
    <<r.ctx # policy.ctx, "UNVERIFIABLE: context">>,
    <<Distance(r.ts, now) > Allowed(r, policy), "REJECT: freshness">> >>)

ShadowAfter(f, policy) ==
  LET r == Frames[f].rec IN
  FirstFailure(<<
    <<policy.issuer \in {"unresolved", "unknown", "expired", "nokey"}, "UNVERIFIABLE: issuer">>,
    <<policy.issuer = "revoked", "REJECT: issuer">>,
    <<ForgedV2(r, policy.key), "REJECT: issuer signature">>,
    <<policy.channel = NoPolicy, "UNVERIFIABLE: exporter">>,
    <<VerifyBinding("draft11", r, Frames[f].proof, Export(policy.channel, "draft11", r),
                    policy.secret) # "intact", "REJECT: binding">> >>)

(* Mutant of ShadowClaim: no bound.                                        *)
ShadowClaimUnbounded(k) ==
  IF \E e \in entries : e.key = k /\ e.until > now THEN "duplicate" ELSE "claimed"

(* claim: an entry of this key that has not expired, or no room for it.    *)
ShadowClaim(k) ==
  IF \E e \in entries : e.key = k /\ e.until > now THEN "duplicate"
  ELSE IF Cardinality(Without(k)) >= Capacity THEN "full" ELSE "claimed"

(* A claim is released again when a later check fails; an expired entry of *)
(* the same key is gone either way.                                        *)
ShadowEntries(k, until, kept) == IF kept THEN Put(k, until, Nobody) ELSE entries' = Without(k)

VerifyShadow(a, f, policy) ==
  /\ site = "shadow" /\ att[a] = New
  /\ LET r      == Frames[f].rec
         before == ShadowBefore(f, policy)
         claim  == ShadowClaim(Key(f))
         after  == ShadowAfter(f, policy)
     IN \/ /\ before # "intact"
           /\ Finish(a, f, before, now, 0) /\ UNCHANGED entries
        \/ /\ before = "intact" /\ claim = "duplicate"
           /\ Finish(a, f, "REJECT: replay", now, 0) /\ UNCHANGED entries
        \/ /\ before = "intact" /\ claim = "full"
           /\ Finish(a, f, "HOLD", now, 0) /\ entries' = Without(Key(f))
        \/ /\ before = "intact" /\ claim = "claimed"
           /\ ShadowEntries(Key(f), r.ts + Allowed(r, policy), after = "intact")
           /\ Finish(a, f, IF after = "intact" THEN "ACCEPT" ELSE after, now, 0)
  /\ UNCHANGED <<site, now, connected>>

----------------------------------------------------------------------------
(* The Rust side: a record is verified, and its claim follows some time    *)
(* later with the time to live computed then.                              *)

Last(r) == r.ts + MaxAge + r.disp

Verified(a, f) ==
  /\ site # "shadow" /\ att[a] = New
  /\ LET r == Frames[f].rec
     IN /\ VerifyV2(r, r.sig.by, NoPolicy) = "intact" /\ Frames[f].proof.by = r.holder
        /\ now <= Last(r)
  /\ att' = [att EXCEPT ![a] = [pc |-> "verified", frame |-> f, at |-> now,
                                ttl |-> Last(Frames[f].rec) - now + SafetyMargin]]
  /\ UNCHANGED <<site, now, connected, entries>>

(* Mutant of Retained: at capacity the entries that expire first give way. *)
RetainedNewest ==
  IF Cardinality(entries) < Capacity THEN entries
  ELSE {e \in entries : \E d \in entries : d.until < e.until}

(* At capacity, what has expired is dropped.                               *)
Retained ==
  IF Cardinality(entries) < Capacity THEN entries ELSE {e \in entries : e.until > now}

(* LocalNonceCache.check_and_set, under its mutex.                         *)
CheckAndSet(a) ==
  /\ site = "local" /\ att[a].pc = "verified"
  /\ LET k    == Key(att[a].frame)
         seen == \E e \in entries : e.key = k /\ e.until > now
         room == Cardinality(Retained) < Capacity
         done(answer) == Finish(a, att[a].frame, answer, att[a].at, now - att[a].at)
     IN \/ /\ att[a].ttl = 0
           /\ done("InvalidLifetime") /\ UNCHANGED entries
        \/ /\ att[a].ttl > 0 /\ seen
           /\ done("AlreadySeen") /\ UNCHANGED entries
        \/ /\ att[a].ttl > 0 /\ ~seen /\ ~room /\ \A e \in Retained : e.key # k
           /\ done("Capacity") /\ entries' = Retained
        \/ /\ att[a].ttl > 0 /\ ~seen /\ (room \/ \E e \in Retained : e.key = k)
           /\ done("New")
           /\ entries' = {e \in Retained : e.key # k}
                           \cup {[key |-> k, until |-> now + att[a].ttl, by |-> a]}
  /\ UNCHANGED <<site, now, connected>>

----------------------------------------------------------------------------
(* The MemoryDB client: SET PX NX, sent at most once.  A command whose     *)
(* answer timed out may still reach the database.                          *)

Connects == ~connected /\ connected' = TRUE
Closes   == connected /\ connected' = FALSE
Connection ==
  /\ site = "memorydb" /\ (Connects \/ Closes)
  /\ UNCHANGED <<site, now, entries, att>>

Claim(a) ==
  /\ site = "memorydb" /\ att[a].pc = "verified"
  /\ IF ~connected THEN Finish(a, att[a].frame, "NOT_CONNECTED", att[a].at, 0)
     ELSE att' = [att EXCEPT ![a] = [pc |-> "claiming", frame |-> @.frame, at |-> @.at,
                                     ttl |-> @.ttl, result |-> "none", late |-> 0]]
  /\ UNCHANGED <<site, now, connected, entries>>

(* Mutant of Taken: SET without NX.                                        *)
TakenNever(k) == FALSE

Taken(k) == \E e \in entries : e.key = k /\ e.until >= now

SetRuns(a) ==
  /\ att[a].pc \in {"claiming", "unconfirmed"} /\ att[a].result = "none"
  /\ LET k == Key(att[a].frame)
     IN /\ att' = [att EXCEPT ![a].result = IF Taken(k) THEN "null" ELSE "OK",
                              ![a].late = now - att[a].at]
        /\ IF Taken(k) THEN UNCHANGED entries ELSE Put(k, now + att[a].ttl, a)
  /\ UNCHANGED <<site, now, connected>>

Answered(a) ==
  /\ att[a].pc = "claiming" /\ att[a].result # "none"
  /\ Finish(a, att[a].frame, IF att[a].result = "OK" THEN "new" ELSE "already_seen",
            att[a].at, att[a].late)
  /\ UNCHANGED <<site, now, connected, entries>>

(* MEMORYDB_CLAIM_UNCONFIRMED: a timeout or a lost connection.             *)
Unconfirmed(a) ==
  /\ att[a].pc = "claiming"
  /\ att' = [att EXCEPT ![a].pc = "unconfirmed"]
  /\ UNCHANGED <<site, now, connected, entries>>

----------------------------------------------------------------------------

Tick == now < MaxTime /\ now' = now + 1 /\ UNCHANGED <<site, connected, entries, att>>

Init ==
  /\ site \in {"shadow", "local", "memorydb"} /\ now = 0 /\ connected = FALSE
  /\ entries = {} /\ att = [a \in Attempts |-> New]

Next ==
  \/ Tick \/ Connection
  \/ \E a \in Attempts :
       \/ \E f \in DOMAIN Frames : Verified(a, f)
       \/ \E f \in DOMAIN Frames, p \in Policies : VerifyShadow(a, f, p)
       \/ CheckAndSet(a) \/ Claim(a) \/ SetRuns(a) \/ Answered(a) \/ Unconfirmed(a)

Spec == Init /\ [][Next]_vars

----------------------------------------------------------------------------

Done(a)     == att[a].pc = "done"
Accepted(a) == Done(a) /\ att[a].answer \in {"ACCEPT", "New", "new"}

(* The state has its type, a key has one entry, and the bounded ledgers    *)
(* hold no more than their capacity.                                       *)
TypeOK ==
  /\ now \in 0 .. MaxTime /\ connected \in BOOLEAN
  /\ \A e \in entries : e.until \in Nat /\ e.by \in Attempts \cup {Nobody}
  /\ \A d, e \in entries : d.key = e.key => d = e
  /\ site # "memorydb" => Cardinality(entries) <= Capacity
  /\ \A a \in Attempts : att[a].pc \in {"new", "verified", "claiming", "unconfirmed", "done"}

(* No record is accepted twice, but for two cases.  The shadow verifier    *)
(* takes the last instant of the window as fresh and the entry as expired; *)
(* the others, when a claim runs later after its verification than the     *)
(* safety margin.                                                          *)
TwiceOnlyAtTheEdge ==
  \A a, b \in Attempts :
    /\ a # b /\ Accepted(a) /\ Accepted(b)
    /\ Frames[att[a].frame].rec = Frames[att[b].frame].rec
    => LET r == Frames[att[a].frame].rec
       IN IF site = "shadow"
          THEN \E p \in Policies : r.ts + Allowed(r, p) \in {att[a].at, att[b].at}
          ELSE att[a].late >= SafetyMargin \/ att[b].late >= SafetyMargin

(* A rejected frame spends nothing: an entry of the shadow ledger is that  *)
(* of an accepted frame, any other one that of a call that was answered    *)
(* "new", waits for its answer, or does not know it.                       *)
HeldByItsClaimant ==
  \A e \in entries :
    IF site = "shadow"
    THEN \E a \in Attempts : Accepted(a) /\ Key(att[a].frame) = e.key
    ELSE /\ Key(att[e.by].frame) = e.key
         /\ Accepted(e.by) \/ att[e.by].pc \in {"claiming", "unconfirmed"}

(* While a claim answered "new" lives, it is held in the name of the call  *)
(* that got this answer, however full the cache is and however many other  *)
(* calls timed out.                                                        *)
NewIsHeld ==
  site # "shadow" => \A a \in Attempts :
    Accepted(a) /\ now < Last(Frames[att[a].frame].rec) + SafetyMargin + att[a].late
      => \E e \in entries : e.key = Key(att[a].frame) /\ e.by = a

(* Answers and ledger agree, in both directions.                           *)
ClaimsMatchAnswers == HeldByItsClaimant /\ NewIsHeld
=============================================================================
