--------------------------- MODULE MeteringProofs ---------------------------
(***************************************************************************)
(* What metering guarantees for every resolution of the clock, window and  *)
(* number of seals: nothing is billed beyond what was sealed, and only a   *)
(* seal that commits after its hour can be missing from a reported bucket. *)
(***************************************************************************)
EXTENDS Metering, TLAPS

Typed ==
  /\ now \in Nat /\ sealing \in Int
  /\ \A h \in DOMAIN usage : /\ h \in Int /\ DOMAIN usage[h] = {"quantity", "reported"}
                             /\ usage[h].quantity \in Nat
  /\ \A h \in DOMAIN billed : h \in Int /\ billed[h] \in Nat
  /\ DOMAIN round = {"rows", "sent"}
  /\ \A row \in round.rows : row.hour \in Int /\ row.quantity \in Nat

(* A quantity claimed for an hour: it is closed, and holds no more than its*)
(* bucket, exactly as much unless a seal came late.                        *)
Covered(h, quantity) ==
  /\ h < HourOf(now) /\ h \in DOMAIN usage /\ quantity <= usage[h].quantity
  /\ h \notin late => quantity = usage[h].quantity

SealingOpen   == sealing <= HourOf(now)
BilledCovered == \A h \in DOMAIN billed : Covered(h, billed[h])
RowsCovered   == \A row \in round.rows : Covered(row.hour, row.quantity)
SentIsBilled  == round.sent => \A row \in round.rows : First(row) => row.hour \in DOMAIN billed
MarkedIsBilled == \A h \in DOMAIN usage : usage[h].reported => h \in DOMAIN billed

IInv == Typed /\ SealingOpen /\ BilledCovered /\ RowsCovered /\ SentIsBilled /\ MarkedIsBilled

----------------------------------------------------------------------------
LEMMA HourGrows ==
  ASSUME NEW t \in Nat
  PROVE  HourOf(t) \in Int /\ HourOf(t + 1) \in Int /\ HourOf(t) <= HourOf(t + 1)
<1>1. TicksPerHour \in Nat \ {0}
  BY MeteringAssumption
<1> DEFINE a == t \div TicksPerHour
           b == (t + 1) \div TicksPerHour
<1>2. a \in Int /\ b \in Int
  BY <1>1
<1>3. t >= TicksPerHour * a /\ t + 1 < TicksPerHour * (b + 1)
  BY <1>1
<1>4. a > b => TicksPerHour * a >= TicksPerHour * (b + 1)
  BY <1>1, <1>2
<1> QED
  BY <1>1, <1>2, <1>3, <1>4 DEF HourOf

LEMMA TickKeeps ==
  ASSUME IInv, Tick
  PROVE  IInv'
<1>1. /\ now' = now + 1 /\ now \in Nat /\ UNCHANGED <<sealing, usage, round, billed, late>>
      /\ HourOf(now) \in Int /\ HourOf(now') \in Int /\ HourOf(now) <= HourOf(now')
  BY HourGrows DEF IInv, Typed, Tick
<1>2. Typed' /\ SealingOpen' /\ SentIsBilled' /\ MarkedIsBilled'
  BY <1>1 DEF IInv, Typed, SealingOpen, SentIsBilled, MarkedIsBilled, First
<1>3. \A h, quantity : h \in Int /\ Covered(h, quantity) => Covered(h, quantity)'
  BY <1>1 DEF Covered
<1>4. BilledCovered' /\ RowsCovered'
  BY <1>1, <1>3 DEF IInv, Typed, BilledCovered, RowsCovered
<1> QED
  BY <1>2, <1>4 DEF IInv

(* A seal adds to the bucket of its hour: an open one, of which nothing is *)
(* claimed yet, or a closed one that it makes late.                        *)
LEMMA SealKeeps ==
  ASSUME IInv, SealCommits
  PROVE  IInv'
<1>1. /\ UNCHANGED <<now, round, billed>> /\ usage' = Upserted(sealing) /\ sealing' = NoHour
      /\ sealing \in Int /\ sealing <= HourOf(now) /\ HourOf(now) \in Int /\ now \in Nat
      /\ sealing # NoHour
      /\ late' = IF sealing < HourOf(now) THEN late \cup {sealing} ELSE late
  BY HourGrows DEF SealCommits, IInv, Typed, SealingOpen
<1>2. /\ DOMAIN usage' = DOMAIN usage \cup {sealing}
      /\ \A h \in DOMAIN usage \ {sealing} : usage'[h] = usage[h]
      /\ sealing \in DOMAIN usage =>
           /\ usage'[sealing].quantity = usage[sealing].quantity + 1
           /\ usage'[sealing].reported = usage[sealing].reported
           /\ DOMAIN usage'[sealing] = {"quantity", "reported"}
      /\ sealing \notin DOMAIN usage => usage'[sealing] = [quantity |-> 1, reported |-> FALSE]
  BY <1>1 DEF Upserted, IInv, Typed
<1>3. Typed'
  BY <1>1, <1>2 DEF IInv, Typed, NoHour
<1>4. SealingOpen'
  <2>1. HourOf(now) >= 0
    BY <1>1, MeteringAssumption DEF HourOf
  <2> QED
    BY <1>1, <2>1 DEF SealingOpen, NoHour
<1>5. SentIsBilled'
  BY <1>1 DEF IInv, SentIsBilled, First
<1>6. MarkedIsBilled'
  BY <1>1, <1>2 DEF IInv, MarkedIsBilled
<1>7. ASSUME NEW h \in Int, NEW quantity \in Nat, Covered(h, quantity)
      PROVE  Covered(h, quantity)'
  <2>1. CASE h # sealing
    BY <1>1, <1>2, <1>7, <2>1 DEF Covered
  <2>2. CASE h = sealing
    BY <1>1, <1>2, <1>7, <2>2 DEF Covered, IInv, Typed
  <2> QED
    BY <2>1, <2>2
<1>8. BilledCovered' /\ RowsCovered'
  BY <1>1, <1>7 DEF IInv, Typed, BilledCovered, RowsCovered
<1> QED
  BY <1>3, <1>4, <1>5, <1>6, <1>8 DEF IInv

LEMMA BeginKeeps ==
  ASSUME IInv, FlushBegins
  PROVE  IInv'
<1>1. /\ UNCHANGED <<now, sealing, usage, billed, late>>
      /\ round' = [rows |-> Selected(now), sent |-> FALSE]
  BY DEF FlushBegins
<1>2. \A row \in round'.rows : \E h \in DOMAIN usage :
        h < HourOf(now) /\ row = [hour |-> h, quantity |-> usage[h].quantity]
  BY <1>1 DEF Selected, Reportable
<1>3. Typed' /\ SealingOpen' /\ BilledCovered' /\ SentIsBilled' /\ MarkedIsBilled'
  BY <1>1, <1>2 DEF IInv, Typed, SealingOpen, BilledCovered, Covered, SentIsBilled, MarkedIsBilled
<1>4. RowsCovered'
  BY <1>1, <1>2 DEF IInv, Typed, RowsCovered, Covered
<1> QED
  BY <1>3, <1>4 DEF IInv

(* AWS accepts a row that covers no more than its bucket.                  *)
LEMMA AcceptKeeps ==
  ASSUME IInv, NEW row \in round.rows, Accept(row) \/ UNCHANGED billed,
         UNCHANGED <<now, sealing, usage, late>>,
         DOMAIN round' = {"rows", "sent"}, round'.rows \subseteq round.rows,
         round'.sent => First(row) /\ Accept(row) /\ round'.rows = round.rows
  PROVE  IInv'
<1>1. /\ row.hour \in Int /\ row.quantity \in Nat /\ Covered(row.hour, row.quantity)
  BY DEF IInv, Typed, RowsCovered
<1>2. /\ DOMAIN billed \subseteq DOMAIN billed'
      /\ \A h \in DOMAIN billed : billed'[h] = billed[h]
      /\ \A h \in DOMAIN billed' \ DOMAIN billed : h = row.hour /\ billed'[h] = row.quantity
      /\ Accept(row) => row.hour \in DOMAIN billed'
  BY DEF Accept
<1>3. Typed' /\ SealingOpen' /\ RowsCovered' /\ MarkedIsBilled'
  BY <1>1, <1>2 DEF IInv, Typed, SealingOpen, RowsCovered, Covered, MarkedIsBilled
<1>4. BilledCovered'
  BY <1>1, <1>2 DEF IInv, BilledCovered, Covered
<1>5. SentIsBilled'
  <2> SUFFICES ASSUME round'.sent, NEW r \in round'.rows, First(r)' PROVE r.hour \in DOMAIN billed'
    BY DEF SentIsBilled
  <2>1. r.hour <= row.hour /\ row.hour <= r.hour /\ r.hour \in Int
    BY DEF First, IInv, Typed
  <2> QED
    BY <1>1, <1>2, <2>1
<1> QED
  BY <1>3, <1>4, <1>5 DEF IInv

LEMMA MarkKeeps ==
  ASSUME IInv, FlushMarks
  PROVE  IInv'
<1>1. PICK row \in round.rows : /\ First(row) /\ NextRow(row) /\ round.sent
                                /\ usage' = [usage EXCEPT ![row.hour].reported = TRUE]
  BY DEF FlushMarks
<1>2. /\ UNCHANGED <<now, sealing, billed, late>> /\ DOMAIN usage' = DOMAIN usage
      /\ \A h \in DOMAIN usage :
           /\ usage'[h].quantity = usage[h].quantity
           /\ DOMAIN usage'[h] = {"quantity", "reported"}
           /\ h # row.hour => usage'[h].reported = usage[h].reported
  BY <1>1 DEF FlushMarks, IInv, Typed
<1>3. round' = [rows |-> round.rows \ {row}, sent |-> FALSE]
  BY <1>1 DEF NextRow
<1>4. row.hour \in DOMAIN billed
  BY <1>1 DEF IInv, SentIsBilled
<1>5. Typed' /\ SealingOpen' /\ BilledCovered' /\ RowsCovered' /\ SentIsBilled'
  BY <1>2, <1>3
  DEF IInv, Typed, SealingOpen, BilledCovered, RowsCovered, Covered, SentIsBilled
<1>6. MarkedIsBilled'
  BY <1>2, <1>4 DEF IInv, MarkedIsBilled
<1> QED
  BY <1>5, <1>6 DEF IInv

LEMMA StepKeeps ==
  ASSUME IInv, [Next]_vars
  PROVE  IInv'
<1>1. ASSUME SealReadsHour \/ SealFails PROVE IInv'
  <2>1. /\ UNCHANGED <<now, usage, round, billed, late>> /\ sealing' \in {HourOf(now), NoHour}
        /\ HourOf(now) \in Int /\ HourOf(now) >= 0
    <3>1. now \in Nat /\ HourOf(now) \in Int
      BY HourGrows DEF IInv, Typed
    <3>2. HourOf(now) >= 0
      BY <3>1, MeteringAssumption DEF HourOf
    <3> QED
      BY <1>1, <3>1, <3>2 DEF SealReadsHour, SealFails
  <2> QED
    BY <2>1 DEF IInv, Typed, SealingOpen, BilledCovered, RowsCovered, Covered, SentIsBilled,
                MarkedIsBilled, First, NoHour
<1>2. ASSUME FlushSends PROVE IInv'
  <2>1. PICK row \in round.rows : First(row) /\ Accept(row)
    BY <1>2 DEF FlushSends
  <2>2. /\ UNCHANGED <<now, sealing, usage, late>> /\ DOMAIN round' = {"rows", "sent"}
        /\ round'.rows = round.rows
    BY <1>2 DEF FlushSends, IInv, Typed
  <2> QED
    BY <2>1, <2>2, AcceptKeeps
<1>3. ASSUME FlushSendRaises PROVE IInv'
  <2>1. PICK row \in round.rows : Accept(row) \/ UNCHANGED billed
    BY <1>3 DEF FlushSendRaises
  <2>2. /\ UNCHANGED <<now, sealing, usage, late>> /\ DOMAIN round' = {"rows", "sent"}
        /\ round'.rows = {} /\ ~round'.sent
    BY <1>3 DEF FlushSendRaises, NoRound
  <2> QED
    BY <2>1, <2>2, AcceptKeeps
<1>4. ASSUME FlushStops PROVE IInv'
  <2>1. /\ UNCHANGED <<now, sealing, usage, billed, late>> /\ DOMAIN round' = {"rows", "sent"}
        /\ round'.rows = {} /\ ~round'.sent
    BY <1>4 DEF FlushStops, NoRound
  <2> QED
    BY <2>1 DEF IInv, Typed, SealingOpen, BilledCovered, RowsCovered, Covered, SentIsBilled,
                MarkedIsBilled
<1>5. ASSUME UNCHANGED vars PROVE IInv'
  BY <1>5 DEF vars, IInv, Typed, SealingOpen, BilledCovered, RowsCovered, Covered, SentIsBilled,
              MarkedIsBilled, First
<1> QED
  BY <1>1, <1>2, <1>3, <1>4, <1>5, TickKeeps, SealKeeps, BeginKeeps, MarkKeeps DEF Next

LEMMA InitKeeps == Init => IInv
<1> SUFFICES ASSUME Init PROVE IInv
  OBVIOUS
<1>1. DOMAIN usage = {} /\ DOMAIN billed = {} /\ round.rows = {} /\ round.sent = FALSE
  BY DEF Init, NoRound
<1>2. now = 0 /\ sealing = -1
  BY DEF Init, NoHour
<1>3. SealingOpen
  <2>1. HourOf(0) >= 0 /\ HourOf(0) \in Int
    BY MeteringAssumption DEF HourOf
  <2> QED
    BY <1>2, <2>1 DEF SealingOpen
<1>4. DOMAIN round = {"rows", "sent"}
  BY DEF Init, NoRound
<1> QED
  BY <1>1, <1>2, <1>3, <1>4 DEF IInv, Typed, BilledCovered, RowsCovered, SentIsBilled,
                                MarkedIsBilled

(* No customer is billed for an open bucket or for more than was sealed,   *)
(* however often a bucket is sent, a call raises or the service dies.      *)
THEOREM NothingOverbilled == Spec => []NeverOverbilled
<1>1. IInv => NeverOverbilled
  BY DEF IInv, BilledCovered, Covered, NeverOverbilled
<1> QED
  BY <1>1, InitKeeps, StepKeeps, PTL DEF Spec

(* A reported bucket was billed, and in full unless a seal entered it after*)
(* its hour: retries and crashes lose nothing of it.                       *)
THEOREM OnlyLatenessLoses == Spec => []OnlyLateSealsAreLost
<1>1. IInv => OnlyLateSealsAreLost
  BY DEF IInv, BilledCovered, MarkedIsBilled, Covered, OnlyLateSealsAreLost
<1> QED
  BY <1>1, InitKeeps, StepKeeps, PTL DEF Spec

----------------------------------------------------------------------------
(* The types are kept by every step on their own account.                  *)
LEMMA HourIsListed ==
  ASSUME NEW t \in 0 .. MaxTicks
  PROVE  HourOf(t) \in Hours
<1>1. TicksPerHour \in Nat \ {0} /\ MaxTicks \in Nat /\ t \in Nat /\ t <= MaxTicks
  BY MeteringAssumption
<1> DEFINE a == t \div TicksPerHour
           b == MaxTicks \div TicksPerHour
<1>2. a \in Int /\ b \in Int /\ a >= 0
  BY <1>1
<1>3. t >= TicksPerHour * a /\ MaxTicks < TicksPerHour * (b + 1)
  BY <1>1
<1>4. a > b => TicksPerHour * a >= TicksPerHour * (b + 1)
  BY <1>1, <1>2
<1>5. a <= b
  BY <1>1, <1>2, <1>3, <1>4
<1> QED
  BY <1>2, <1>5 DEF HourOf, Hours

LEMMA BucketGrows ==
  ASSUME NEW u \in [quantity : Nat \ {0}, reported : BOOLEAN]
  PROVE  /\ [u EXCEPT !.quantity = @ + 1] \in [quantity : Nat \ {0}, reported : BOOLEAN]
         /\ [u EXCEPT !.reported = TRUE] \in [quantity : Nat \ {0}, reported : BOOLEAN]
<1>1. u.quantity + 1 \in Nat \ {0}
  OBVIOUS
<1> QED
  BY <1>1

LEMMA AcceptTyped ==
  ASSUME TypeOK, NEW row \in round.rows, Accept(row)
  PROVE  DOMAIN billed' \subseteq Hours /\ \A h \in DOMAIN billed' : billed'[h] \in Nat
<1>1. row.hour \in Hours /\ row.quantity \in Nat
  BY DEF TypeOK, Row
<1> QED
  BY <1>1 DEF Accept, TypeOK

LEMMA StepTyped ==
  ASSUME TypeOK, [Next]_vars
  PROVE  TypeOK'
<1>1. {MaxTicks, MaxUnits} \subseteq Nat /\ NoRound \in [rows : SUBSET Row, sent : BOOLEAN]
  BY MeteringAssumption DEF NoRound
<1>2. CASE Tick
  BY <1>1, <1>2 DEF Tick, TypeOK
<1>3. CASE SealReadsHour
  BY <1>1, <1>3, HourIsListed DEF SealReadsHour, TypeOK
<1>4. CASE SealCommits
  <2>1. sealing \in Hours /\ usage' = Upserted(sealing)
    BY <1>4 DEF SealCommits, TypeOK
  <2>2. DOMAIN usage' \subseteq Hours
    BY <2>1 DEF Upserted, TypeOK
  <2>3. ASSUME NEW h \in DOMAIN usage'
        PROVE  usage'[h] \in [quantity : Nat \ {0}, reported : BOOLEAN]
    <3>1. h \in DOMAIN usage => usage[h] \in [quantity : Nat \ {0}, reported : BOOLEAN]
      BY DEF TypeOK
    <3>2. \/ h \in DOMAIN usage /\ usage'[h] = usage[h]
          \/ h \in DOMAIN usage /\ usage'[h] = [usage[h] EXCEPT !.quantity = @ + 1]
          \/ usage'[h] = [quantity |-> 1, reported |-> FALSE]
      BY <2>1 DEF Upserted
    <3>3. [quantity |-> 1, reported |-> FALSE] \in [quantity : Nat \ {0}, reported : BOOLEAN]
      OBVIOUS
    <3> QED
      BY <3>1, <3>2, <3>3, BucketGrows
  <2> QED
    BY <1>4, <2>1, <2>2, <2>3 DEF SealCommits, TypeOK
<1>5. CASE SealFails
  BY <1>5 DEF SealFails, TypeOK
<1>6. CASE FlushBegins
  <2>1. Selected(now) \subseteq Row
    BY DEF Selected, Reportable, Row, TypeOK
  <2> QED
    BY <1>6, <2>1 DEF FlushBegins, TypeOK
<1>7. CASE FlushSends
  <2>1. round' \in [rows : SUBSET Row, sent : BOOLEAN]
    BY <1>7 DEF FlushSends, TypeOK
  <2> QED
    BY <1>7, <2>1, AcceptTyped DEF FlushSends, TypeOK
<1>8. CASE FlushSendRaises
  BY <1>1, <1>8, AcceptTyped DEF FlushSendRaises, TypeOK
<1>9. CASE FlushMarks
  <2>1. PICK row \in round.rows : /\ NextRow(row)
                                  /\ usage' = [usage EXCEPT ![row.hour].reported = TRUE]
    BY <1>9 DEF FlushMarks
  <2>2. round' \in [rows : SUBSET Row, sent : BOOLEAN]
    BY <2>1 DEF NextRow, TypeOK
  <2>3. /\ DOMAIN usage' = DOMAIN usage
        /\ \A h \in DOMAIN usage : \/ usage'[h] = usage[h]
                                   \/ usage'[h] = [usage[h] EXCEPT !.reported = TRUE]
    BY <2>1
  <2>4. \A h \in DOMAIN usage' : usage'[h] \in [quantity : Nat \ {0}, reported : BOOLEAN]
    <3> SUFFICES ASSUME NEW h \in DOMAIN usage
                 PROVE  usage'[h] \in [quantity : Nat \ {0}, reported : BOOLEAN]
      BY <2>3
    <3>1. usage[h] \in [quantity : Nat \ {0}, reported : BOOLEAN]
      BY DEF TypeOK
    <3>2. [usage[h] EXCEPT !.reported = TRUE] \in [quantity : Nat \ {0}, reported : BOOLEAN]
      BY <3>1, BucketGrows
    <3>3. usage'[h] = usage[h] \/ usage'[h] = [usage[h] EXCEPT !.reported = TRUE]
      BY <2>3
    <3> QED
      BY <3>1, <3>2, <3>3
  <2> QED
    BY <1>9, <2>2, <2>3, <2>4 DEF FlushMarks, TypeOK
<1>10. CASE FlushStops
  BY <1>1, <1>10 DEF FlushStops, TypeOK
<1>11. CASE UNCHANGED vars
  BY <1>11 DEF vars, TypeOK, Hours, Row
<1> QED
  BY <1>2, <1>3, <1>4, <1>5, <1>6, <1>7, <1>8, <1>9, <1>10, <1>11 DEF Next

(* Every bucket is of an hour of the clock and holds a unit at least; what *)
(* is sent and what is billed are quantities of such hours.                *)
THEOREM TypeCorrect == Spec => []TypeOK
<1>1. Init => TypeOK
  BY MeteringAssumption DEF Init, TypeOK, NoRound
<1> QED
  BY <1>1, StepTyped, PTL DEF Spec
=============================================================================
