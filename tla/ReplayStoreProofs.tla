------------------------- MODULE ReplayStoreProofs -------------------------
(***************************************************************************)
(* What ReplayStore guarantees for every set of claims, every capacity and *)
(* every lifetime.  The argument: an admitted claim stays in the index     *)
(* until an admission at an instant beyond its record's validity, and that *)
(* same admission lifts the high-water mark beyond it; from then on each   *)
(* request that carries the record is refused by one of the clock tests.   *)
(***************************************************************************)
EXTENDS ReplayStore, TLAPS

(* The tables agree: an indexed claim has a receipt, a receipt belongs to  *)
(* a sealed record, and a claim was admitted once if and only if it has a  *)
(* receipt.                                                                *)
TablesAgree ==
  /\ DOMAIN claims \subseteq DOMAIN receipts
  /\ DOMAIN receipts \subseteq DOMAIN issued
  /\ \A c \in Claims : admissions[c] = IF c \in DOMAIN receipts THEN 1 ELSE 0

IInv == TypeOK /\ TablesAgree /\ RetainedWhileValid

----------------------------------------------------------------------------
(* Rounding a lifetime up to milliseconds never shortens it (replay_ttl    *)
(* and the verifier's "+ 999").                                            *)
LEMMA RoundUpNotLess ==
  ASSUME NEW us \in Nat
  PROVE  RoundUp(us) \in Nat /\ RoundUp(us) >= us
<1>1. Millisecond \in Nat /\ Millisecond > 0
  BY StoreAssumption
<1>2. us % Millisecond \in 0 .. Millisecond - 1
  BY <1>1
<1> DEFINE gap == Millisecond - (us % Millisecond)
<1>3. gap \in Nat
  BY <1>1, <1>2
<1>4. gap % Millisecond \in 0 .. Millisecond - 1
  BY <1>1, <1>3
<1> QED
  BY <1>4 DEF RoundUp

LEMMA ValidUntilNat ==
  ASSUME NEW rec \in Record
  PROVE  ValidUntil(rec) \in Nat
BY StoreAssumption DEF Record, Instants, ValidUntil

(* A claim request for a fresh record expires beyond the record's validity.*)
LEMMA ExpiresBeyondValidity ==
  ASSUME NEW rec \in Record, NEW now \in Instants, Fresh(rec, now)
  PROVE  /\ Expires(rec, now) \in Nat
         /\ Expires(rec, now) > ValidUntil(rec)
<1> DEFINE left == ValidUntil(rec) + SafetyMargin - now
<1>1. ValidUntil(rec) \in Nat /\ now \in Nat /\ SafetyMargin \in Nat \ {0}
  BY ValidUntilNat, StoreAssumption DEF Instants
<1>2. left \in Nat /\ left > ValidUntil(rec) - now
  BY <1>1 DEF Fresh
<1>3. RoundUp(left) \in Nat /\ RoundUp(left) >= left
  BY <1>2, RoundUpNotLess
<1>4. Expires(rec, now) = now + RoundUp(left)
  BY DEF Expires
<1> QED
  BY <1>1, <1>2, <1>3, <1>4

----------------------------------------------------------------------------
(* The initial states: a fresh database, or one migrated from the earlier  *)
(* schema with any set of stored claims.                                   *)
LEMMA InitEstablishes == Init => IInv
<1> SUFFICES ASSUME Init PROVE IInv
  OBVIOUS
<1>1. PICK legacy \in SUBSET Claims : Migrated(legacy)
  BY DEF Init
<1>2. /\ issued \in [legacy -> Record]
      /\ receipts \in [legacy -> Instants]
      /\ claims = [c \in legacy |-> ValidUntil(issued[c]) + SafetyMargin]
      /\ highWater \in {0} \cup Range(receipts)
  BY <1>1 DEF Migrated
<1>3. \A c \in legacy : /\ ValidUntil(issued[c]) \in Nat
                        /\ claims[c] \in Nat
                        /\ claims[c] > ValidUntil(issued[c])
  BY <1>2, ValidUntilNat, StoreAssumption
<1>4. highWater \in Instants
  BY <1>2, StoreAssumption DEF Range, Instants
<1>5. TypeOK
  BY <1>2, <1>3, <1>4 DEF TypeOK, Init
<1>6. TablesAgree
  BY <1>2 DEF TablesAgree, Init
<1>7. RetainedWhileValid
  BY <1>2, <1>3 DEF RetainedWhileValid
<1> QED
  BY <1>5, <1>6, <1>7 DEF IInv

(* The arrival of a request from the verifier, as its parts.               *)
LEMMA RequestParts ==
  ASSUME NEW c \in Claims, NEW rec \in Record, NEW now \in Instants, Fresh(rec, now)
  PROVE  LET q == ClaimRequest(c, rec, now)
         IN /\ q.claim = c
            /\ q.admittedTai = now
            /\ q.expires \in Nat
            /\ q.expires > ValidUntil(rec)
            /\ q.validUntil = ValidUntil(rec)
BY ExpiresBeyondValidity DEF ClaimRequest

(* A claim that has a receipt is refused or found in the index, so the     *)
(* verdict ok is given only to claims without one.                         *)
LEMMA OkIsNew ==
  ASSUME NEW q, Verdict(q, tai) = "ok"
  PROVE  /\ ~Refused(q, tai)
         /\ q.claim \notin Live(tai)
         /\ q.claim \notin DOMAIN receipts
BY DEF Verdict, Replayed, ReceiptConflict

(* The transaction of an admission preserves the invariant.                *)
LEMMA CommitPreserves ==
  ASSUME IInv, NEW c \in Claims, NEW now \in Instants, c \in DOMAIN issued,
         Fresh(issued[c], now),
         Verdict(ClaimRequest(c, issued[c], now), tai) = "ok",
         Commit(ClaimRequest(c, issued[c], now), tai),
         UNCHANGED <<tai, issued>>
  PROVE  IInv'
<1> DEFINE q == ClaimRequest(c, issued[c], now)
<1>1. /\ TypeOK /\ TablesAgree /\ RetainedWhileValid
      /\ tai \in Nat /\ highWater \in Nat /\ issued[c] \in Record
  BY DEF IInv, TypeOK, Instants
<1>2. /\ q.claim = c /\ q.admittedTai = now
      /\ q.expires \in Nat /\ q.expires > ValidUntil(issued[c])
  BY <1>1, RequestParts
<1>3. ~Refused(q, tai) /\ c \notin Live(tai) /\ c \notin DOMAIN receipts
  BY <1>2, OkIsNew
<1>4. tai >= highWater
  BY <1>1, <1>3 DEF Refused, ClockRefuses
<1>5. /\ claims' = [d \in Live(tai) \cup {c} |-> IF d = c THEN q.expires ELSE claims[d]]
      /\ receipts' = [d \in DOMAIN receipts \cup {c} |-> IF d = c THEN now ELSE receipts[d]]
      /\ highWater' = tai
      /\ admissions' = [admissions EXCEPT ![c] = @ + 1]
      /\ tai' = tai /\ issued' = issued
  BY <1>2 DEF Commit
<1>6. Live(tai) \subseteq DOMAIN claims /\ \A d \in Live(tai) : claims[d] \in Nat
  BY <1>1 DEF Live, TypeOK
<1>7. TypeOK'
  <2>1. claims' \in [DOMAIN claims' -> Nat] /\ DOMAIN claims' \in SUBSET Claims
    BY <1>1, <1>2, <1>5, <1>6 DEF TypeOK
  <2>2. receipts' \in [DOMAIN receipts' -> Instants] /\ DOMAIN receipts' \in SUBSET Claims
    BY <1>1, <1>5 DEF TypeOK
  <2>3. admissions' \in [Claims -> Nat]
    BY <1>1, <1>5 DEF TypeOK
  <2> QED
    BY <1>1, <1>5, <2>1, <2>2, <2>3 DEF TypeOK
<1>8. TablesAgree'
  <2>1. DOMAIN claims' \subseteq DOMAIN receipts'
    BY <1>1, <1>5, <1>6 DEF TablesAgree
  <2>2. DOMAIN receipts' \subseteq DOMAIN issued'
    BY <1>1, <1>5 DEF TablesAgree
  <2>3. \A d \in Claims : admissions'[d] = IF d \in DOMAIN receipts' THEN 1 ELSE 0
    BY <1>1, <1>3, <1>5 DEF TablesAgree, TypeOK
  <2> QED
    BY <2>1, <2>2, <2>3 DEF TablesAgree
<1>9. RetainedWhileValid'
  <2> SUFFICES ASSUME NEW d \in DOMAIN receipts'
               PROVE  \/ d \in DOMAIN claims' /\ claims'[d] > ValidUntil(issued[d])
                      \/ tai > ValidUntil(issued[d])
    BY <1>5 DEF RetainedWhileValid, ValidUntil
  <2>1. CASE d = c
    BY <1>2, <1>5, <2>1
  <2>2. CASE d # c
    <3>1. d \in DOMAIN receipts /\ d \in DOMAIN issued /\ issued[d] \in Record
      BY <1>1, <1>5, <2>2 DEF TablesAgree, TypeOK
    <3>2. ValidUntil(issued[d]) \in Nat
      BY <3>1, ValidUntilNat
    <3>3. CASE highWater > ValidUntil(issued[d])
      BY <1>1, <1>4, <3>2, <3>3
    <3>4. CASE d \in DOMAIN claims /\ claims[d] > ValidUntil(issued[d])
      <4>1. CASE d \in Live(tai)
        BY <1>5, <2>2, <3>4, <4>1
      <4>2. CASE d \notin Live(tai)
        <5>1. claims[d] \in Nat /\ claims[d] < tai
          BY <1>1, <3>4, <4>2 DEF Live, TypeOK
        <5> QED
          BY <1>1, <3>2, <3>4, <5>1
      <4> QED
        BY <4>1, <4>2
    <3> QED
      BY <1>1, <3>1, <3>3, <3>4 DEF RetainedWhileValid
  <2> QED
    BY <2>1, <2>2
<1> QED
  BY <1>7, <1>8, <1>9 DEF IInv

(* Every step preserves the invariant.                                     *)
LEMMA StepPreserves == IInv /\ [Next]_svars => IInv'
<1> SUFFICES ASSUME IInv, [Next]_svars PROVE IInv'
  OBVIOUS
<1>1. CASE UNCHANGED svars
  BY <1>1 DEF svars, IInv, TypeOK, TablesAgree, RetainedWhileValid, ValidUntil
<1>2. CASE ClockMoves
  BY <1>2 DEF ClockMoves, db, IInv, TypeOK, TablesAgree, RetainedWhileValid, ValidUntil
<1>3. ASSUME NEW c \in Claims, Issue(c) PROVE IInv'
  <2>1. PICK rec \in Record :
          issued' = [e \in DOMAIN issued \cup {c} |-> IF e = c THEN rec ELSE issued[e]]
    BY <1>3 DEF Issue
  <2>2. /\ tai' = tai /\ claims' = claims /\ receipts' = receipts
        /\ highWater' = highWater /\ admissions' = admissions /\ c \notin DOMAIN issued
    BY <1>3 DEF Issue, db
  <2>3. \A e \in DOMAIN issued : issued'[e] = issued[e]
    BY <2>1, <2>2
  <2>4. TypeOK'
    <3>1. issued' \in [DOMAIN issued' -> Record] /\ DOMAIN issued' \in SUBSET Claims
      BY <2>1 DEF IInv, TypeOK
    <3> QED
      BY <2>2, <3>1 DEF IInv, TypeOK
  <2>5. TablesAgree'
    BY <2>1, <2>2 DEF IInv, TablesAgree
  <2>6. RetainedWhileValid'
    BY <2>2, <2>3 DEF IInv, TablesAgree, RetainedWhileValid, ValidUntil
  <2> QED
    BY <2>4, <2>5, <2>6 DEF IInv
<1>4. ASSUME NEW c \in Claims, Present(c) PROVE IInv'
  <2>1. PICK now \in Instants :
          Fresh(issued[c], now) /\ Claim(ClaimRequest(c, issued[c], now))
    BY <1>4 DEF Present
  <2>2. c \in DOMAIN issued
    BY <1>4 DEF Present
  <2>3. CASE UNCHANGED db
    BY <2>1, <2>3 DEF Claim, db, IInv, TypeOK, TablesAgree, RetainedWhileValid, ValidUntil
  <2>4. CASE /\ Verdict(ClaimRequest(c, issued[c], now), tai) = "ok"
             /\ Commit(ClaimRequest(c, issued[c], now), tai)
    <3>1. UNCHANGED <<tai, issued>>
      BY <2>1 DEF Claim
    <3> QED
      BY <2>1, <2>2, <2>4, <3>1, CommitPreserves
  <2> QED
    BY <2>1, <2>3, <2>4 DEF Claim
<1> QED
  BY <1>1, <1>2, <1>3, <1>4 DEF Next

THEOREM InvariantHolds == Spec => []IInv
<1>1. Init => IInv
  BY InitEstablishes
<1>2. IInv /\ [Next]_svars => IInv'
  BY StepPreserves
<1> QED
  BY <1>1, <1>2, PTL DEF Spec

----------------------------------------------------------------------------
(* The database is well typed.                                             *)
THEOREM TypeCorrect == Spec => []TypeOK
<1>1. IInv => TypeOK
  BY DEF IInv
<1> QED
  BY <1>1, InvariantHolds, PTL

(* No clock movement and no repetition of requests admits a claim twice.   *)
THEOREM AtMostOnce == Spec => []AdmittedAtMostOnce
<1>1. IInv => AdmittedAtMostOnce
  BY DEF IInv, TablesAgree, AdmittedAtMostOnce
<1> QED
  BY <1>1, InvariantHolds, PTL

(* A nonce is forgotten only when the high-water mark has overtaken it.    *)
THEOREM RetentionHolds == Spec => []RetainedWhileValid
<1>1. IInv => RetainedWhileValid
  BY DEF IInv
<1> QED
  BY <1>1, InvariantHolds, PTL

(* The index and the clock tests alone keep every replay out: the receipt  *)
(* table's primary key is never what stops one.                            *)
THEOREM IndexSuffices == Spec => []PrimaryKeyNeverFires
<1>1. IInv => PrimaryKeyNeverFires
  <2> SUFFICES ASSUME IInv, NEW c \in DOMAIN issued, NEW now \in Instants,
                      Fresh(issued[c], now),
                      ~Refused(ClaimRequest(c, issued[c], now), tai),
                      ReceiptConflict(ClaimRequest(c, issued[c], now))
               PROVE  Replayed(ClaimRequest(c, issued[c], now), tai)
    BY DEF PrimaryKeyNeverFires
  <2> DEFINE q == ClaimRequest(c, issued[c], now)
  <2>1. c \in Claims /\ issued[c] \in Record /\ tai \in Nat /\ highWater \in Nat
    BY DEF IInv, TypeOK, Instants
  <2>2. q.claim = c /\ q.validUntil = ValidUntil(issued[c])
    BY <2>1, RequestParts
  <2>3. ValidUntil(issued[c]) \in Nat
    BY <2>1, ValidUntilNat
  <2>4. highWater <= tai /\ tai <= ValidUntil(issued[c])
    BY <2>1, <2>2, <2>3 DEF Refused, ClockRefuses
  <2>5. c \in DOMAIN receipts
    BY <2>2 DEF ReceiptConflict
  <2>6. c \in DOMAIN claims /\ claims[c] > ValidUntil(issued[c]) /\ claims[c] \in Nat
    BY <2>1, <2>3, <2>4, <2>5 DEF IInv, RetainedWhileValid, TypeOK
  <2> QED
    BY <2>1, <2>2, <2>3, <2>4, <2>6 DEF Replayed, Live
<1> QED
  BY <1>1, InvariantHolds, PTL

(* Receipts are permanent, the high-water mark never falls, and a claim    *)
(* leaves the index only in an admission later than its retention.         *)
THEOREM DurableHolds == Spec => Durable
<1> DEFINE Kept ==
      /\ \A c \in DOMAIN receipts : c \in DOMAIN receipts' /\ receipts'[c] = receipts[c]
      /\ highWater' >= highWater
      /\ \A c \in DOMAIN claims \ DOMAIN claims' : claims[c] < highWater'
<1>1. ASSUME IInv, UNCHANGED db PROVE Kept
  BY <1>1 DEF db, IInv, TypeOK, Instants
<1>2. ASSUME IInv, NEW c \in Claims, Present(c) PROVE Kept
  <2>1. PICK now \in Instants :
          Fresh(issued[c], now) /\ Claim(ClaimRequest(c, issued[c], now))
    BY <1>2 DEF Present
  <2> DEFINE q == ClaimRequest(c, issued[c], now)
  <2>2. CASE Verdict(q, tai) = "ok" /\ Commit(q, tai)
    <3>1. ~Refused(q, tai) /\ q.claim \notin DOMAIN receipts
      BY <2>2, OkIsNew
    <3>2. highWater' >= highWater
      BY <1>2, <2>2, <3>1 DEF Commit, Refused, ClockRefuses, IInv, TypeOK, Instants
    <3>3. \A d \in DOMAIN receipts : d \in DOMAIN receipts' /\ receipts'[d] = receipts[d]
      BY <2>2, <3>1 DEF Commit
    <3>4. ASSUME NEW d \in DOMAIN claims \ DOMAIN claims' PROVE claims[d] < highWater'
      <4>1. d \notin Live(tai) /\ highWater' = tai
        BY <2>2, <3>4 DEF Commit
      <4> QED
        BY <1>2, <3>4, <4>1 DEF Live, IInv, TypeOK, Instants
    <3> QED
      BY <3>2, <3>3, <3>4
  <2> QED
    BY <1>1, <1>2, <2>1, <2>2 DEF Claim
<1>3. IInv /\ [Next]_svars => [Kept]_svars
  BY <1>1, <1>2 DEF Next, ClockMoves, Issue, svars
<1> QED
  BY <1>3, InvariantHolds, PTL DEF Spec, Durable

=============================================================================
