---------------------------- MODULE ReplayStore ----------------------------
(***************************************************************************)
(* production/replay-store.py: the SQLite claim, receipt and clock tables  *)
(* of the single-node v2 admission service, together with the lifetime the *)
(* Rust verifier derives for a claim (rust-reference/src/replay.rs).       *)
(*                                                                         *)
(* The store is one process that reads requests from a pipe and runs each  *)
(* in one transaction, so a request is one step.  A crash before COMMIT    *)
(* leaves the database as it was and one after COMMIT loses nothing, so a  *)
(* crash of the store is no step of this module (Gateway models what it    *)
(* does to the requests under way).  The hazard here is time: CLOCK_TAI    *)
(* may be stepped either way between any two requests, and the nonce index *)
(* forgets claims by that same clock.                                      *)
(***************************************************************************)
EXTENDS Naturals, FiniteSets, Functions

CONSTANTS
  Claims,         \* digests of issuer and record[16..48]: one per context and nonce
  Capacity,       \* TTTPS_CLAIM_CAPACITY
  MaxTai,         \* bound on the instants CLOCK_TAI takes
  MaxAge,         \* MAX_AGE_US
  MaxFuture,      \* MAX_FUTURE_US
  MaxDispersion,  \* MAX_DISPERSION_US
  SafetyMargin,   \* SAFETY_MARGIN_US
  Millisecond     \* instants in one unit of ttl_ms

ASSUME StoreAssumption ==
  /\ Capacity \in Nat \ {0}
  /\ {MaxTai, MaxAge, MaxFuture, MaxDispersion} \subseteq Nat
  /\ {SafetyMargin, Millisecond} \subseteq Nat \ {0}

VARIABLES
  tai,        \* what CLOCK_TAI reads now
  issued,     \* claim -> its signed record, for the records the issuer sealed
  claims,     \* table claims: claim -> expires_us
  receipts,   \* table receipts: claim -> admitted_tai_us of the stored receipt
  highWater,  \* clock_state.high_water_us
  admissions  \* history: claim -> number of claim requests answered ok

svars == <<tai, issued, claims, receipts, highWater, admissions>>
db    == <<claims, receipts, highWater, admissions>>

Instants == 0 .. MaxTai
Record   == [ts : Instants, dispersion : 0 .. MaxDispersion]

----------------------------------------------------------------------------
(* Lifetimes.                                                              *)

(* Last instant at which the record is valid, inclusive.                   *)
ValidUntil(rec) == rec.ts + MaxAge + rec.dispersion

(* The verifier's test of a record at instant now.                         *)
Fresh(rec, now) ==
  /\ rec.ts <= now + MaxFuture
  /\ now <= ValidUntil(rec)

(* Mutant of RoundUp: integer division.                                    *)
RoundDown(us) == us - (us % Millisecond)

(* Microseconds rounded up to whole milliseconds.                          *)
RoundUp(us) == us + ((Millisecond - (us % Millisecond)) % Millisecond)

(* expires_us of the claim request for a record verified at instant now:   *)
(* the remaining validity plus the margin, as the verifier's ttl_ms, added *)
(* to now again by the gateway.                                            *)
Expires(rec, now) == now + RoundUp(ValidUntil(rec) + SafetyMargin - now)

(* The request the gateway sends for a record verified at instant now.     *)
ClaimRequest(c, rec, now) ==
  [claim |-> c, admittedTai |-> now,
   expires |-> Expires(rec, now), validUntil |-> ValidUntil(rec)]

----------------------------------------------------------------------------
(* The claim transaction.                                                  *)

(* Mutant of ClockRefuses: no high-water mark.                             *)
ClockTrusted(now) == FALSE

(* now_tai and the two expiry tests raise: the transaction is rolled back. *)
ClockRefuses(now) == now < highWater
Refused(q, now) ==
  \/ ClockRefuses(now)
  \/ q.expires <= now
  \/ now > q.validUntil

(* Mutant of Live: DELETE FROM claims WHERE expires_us <= now.             *)
LiveExclusive(now) == {c \in DOMAIN claims : claims[c] > now}

(* What DELETE FROM claims WHERE expires_us < now leaves.                  *)
Live(now) == {c \in DOMAIN claims : claims[c] >= now}

Replayed(q, now) == q.claim \in Live(now)
Full(now)        == Cardinality(Live(now)) >= Capacity

(* The receipts table's primary key rejects the INSERT.                    *)
ReceiptConflict(q) == q.claim \in DOMAIN receipts

(* Mutant of Verdict: INSERT OR REPLACE into both tables, no look-up.      *)
VerdictUpsert(q, now) ==
  IF Refused(q, now) THEN "STORE_OR_CLOCK_UNAVAILABLE"
  ELSE IF Full(now) THEN "REPLAY_CAPACITY" ELSE "ok"

Verdict(q, now) ==
  IF Refused(q, now) THEN "STORE_OR_CLOCK_UNAVAILABLE"
  ELSE IF Replayed(q, now) THEN "REPLAY_DETECTED"
  ELSE IF Full(now) THEN "REPLAY_CAPACITY"
  ELSE IF ReceiptConflict(q) THEN "STORE_OR_CLOCK_UNAVAILABLE"
  ELSE "ok"

(* Mutant of Commit: the high-water mark is raised to the claim's expiry.  *)
CommitExpiry(q, now) ==
  /\ claims' = [c \in Live(now) \cup {q.claim} |->
                  IF c = q.claim THEN q.expires ELSE claims[c]]
  /\ receipts' = [c \in DOMAIN receipts \cup {q.claim} |->
                    IF c = q.claim THEN q.admittedTai ELSE receipts[c]]
  /\ highWater' = q.expires
  /\ admissions' = [admissions EXCEPT ![q.claim] = @ + 1]

(* The three writes of an admission, committed together.                   *)
Commit(q, now) ==
  /\ claims' = [c \in Live(now) \cup {q.claim} |->
                  IF c = q.claim THEN q.expires ELSE claims[c]]
  /\ receipts' = [c \in DOMAIN receipts \cup {q.claim} |->
                    IF c = q.claim THEN q.admittedTai ELSE receipts[c]]
  /\ highWater' = now
  /\ admissions' = [admissions EXCEPT ![q.claim] = @ + 1]

(* The op "claim".  Every answer but "ok" leaves the tables untouched, the *)
(* DELETE included: it is rolled back with the rest.                       *)
Claim(q) ==
  /\ \/ Verdict(q, tai) = "ok" /\ Commit(q, tai)
     \/ Verdict(q, tai) # "ok" /\ UNCHANGED db
  /\ UNCHANGED <<tai, issued>>

----------------------------------------------------------------------------
(* The environment: the kernel clock, the issuer and the verified requests.*)

(* CLOCK_TAI runs, or is stepped in either direction.                      *)
ClockMoves ==
  /\ tai' \in Instants \ {tai}
  /\ UNCHANGED <<issued, db>>

(* A record is sealed with an instant that some earlier op "clock" read;   *)
(* its nonce, and so its claim, is new.                                    *)
Issue(c) ==
  /\ c \notin DOMAIN issued
  /\ \E rec \in Record :
       issued' = [e \in DOMAIN issued \cup {c} |-> IF e = c THEN rec ELSE issued[e]]
  /\ UNCHANGED <<tai, db>>

(* A claim arrives for a record that the verifier found fresh at whatever  *)
(* instant the gateway had read: any number of times, arbitrarily late.    *)
Present(c) ==
  /\ c \in DOMAIN issued
  /\ \E now \in Instants :
       /\ Fresh(issued[c], now)
       /\ Claim(ClaimRequest(c, issued[c], now))

(* A database of the schema before expires_us: every stored claim has a    *)
(* receipt, and the start-up migration derives its expiry from the record  *)
(* and the high-water mark from the receipts.                              *)
Migrated(legacy) ==
  /\ issued \in [legacy -> Record]
  /\ receipts \in [legacy -> Instants]
  /\ claims = [c \in legacy |-> ValidUntil(issued[c]) + SafetyMargin]
  /\ highWater \in {0} \cup Range(receipts)
  /\ \A c \in legacy : receipts[c] <= highWater

Init ==
  /\ tai \in Instants
  /\ \E legacy \in SUBSET Claims : Migrated(legacy)
  /\ admissions = [c \in Claims |-> IF c \in DOMAIN receipts THEN 1 ELSE 0]

Next ==
  \/ ClockMoves
  \/ \E c \in Claims : Issue(c) \/ Present(c)

Spec == Init /\ [][Next]_svars

----------------------------------------------------------------------------
(* Types.                                                                  *)
TypeOK ==
  /\ tai \in Instants
  /\ highWater \in Instants
  /\ DOMAIN issued \in SUBSET Claims /\ issued \in [DOMAIN issued -> Record]
  /\ DOMAIN claims \in SUBSET Claims /\ claims \in [DOMAIN claims -> Nat]
  /\ DOMAIN receipts \in SUBSET Claims /\ receipts \in [DOMAIN receipts -> Instants]
  /\ admissions \in [Claims -> Nat]

(* A claim is admitted at most once, whatever the clock does and however   *)
(* often its request is repeated ("SQLite ... claims a domain/context/nonce*)
(* atomically", production/README.md).                                     *)
AdmittedAtMostOnce == \A c \in Claims : admissions[c] <= 1

(* The nonce index may forget a claim only when the persisted high-water   *)
(* mark already refuses every request that could carry it.  So the receipt *)
(* table's primary key, the last line of defence, never has to stop one:   *)
(* a conflict there would be answered as an outage, not as a replay.       *)
PrimaryKeyNeverFires ==
  \A c \in DOMAIN issued : \A now \in Instants :
    LET q == ClaimRequest(c, issued[c], now)
    IN Fresh(issued[c], now) /\ ~Refused(q, tai) /\ ReceiptConflict(q)
         => Replayed(q, tai)

(* "The nonce index expires only after the signed validity window plus     *)
(* safety margin; the persisted clock high-water mark rejects backward     *)
(* steps" (production/README.md): an admitted record that is no longer     *)
(* indexed, or is indexed only up to an instant of its own validity, has   *)
(* already been overtaken by the high-water mark.                          *)
RetainedWhileValid ==
  \A c \in DOMAIN receipts :
    \/ c \in DOMAIN claims /\ claims[c] > ValidUntil(issued[c])
    \/ highWater > ValidUntil(issued[c])

(* Receipts are retained and never rewritten ("Receipts are retained       *)
(* separately"), the high-water mark never falls, and a claim is forgotten *)
(* only by an admission later than its retention: capacity pressure evicts *)
(* nothing.                                                                *)
Durable ==
  [][/\ \A c \in DOMAIN receipts : c \in DOMAIN receipts' /\ receipts'[c] = receipts[c]
     /\ highWater' >= highWater
     /\ \A c \in DOMAIN claims \ DOMAIN claims' : claims[c] < highWater']_svars
=============================================================================
