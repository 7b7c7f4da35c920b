------------------------------ MODULE Metering ------------------------------
(***************************************************************************)
(* Marketplace usage: the table usage shared by two processes.  The store  *)
(* (production/replay-store.py, op seal_usage) counts each seal in the     *)
(* bucket of an hour it read before its transaction; the metering service  *)
(* (production/metering.py) reports closed buckets to AWS and marks them.  *)
(* Every SQL statement is a transaction of its own, and the two processes  *)
(* interleave between them.                                                *)
(***************************************************************************)
EXTENDS Integers

CONSTANTS
  TicksPerHour,   \* resolution of the wall clock
  ReportWindow,   \* hours a closed bucket may be reported for (6)
  MaxTicks,       \* bound on the clock
  MaxUnits        \* bound on the seals

ASSUME MeteringAssumption ==
  {TicksPerHour, ReportWindow, MaxTicks, MaxUnits} \subseteq Nat \ {0}

NoHour == -1
NoRound == [rows |-> {}, sent |-> FALSE]

VARIABLES
  now,      \* time.time() of both processes
  units,    \* seals that began
  sealing,  \* hour read by seal_usage whose transaction has not committed
  usage,    \* table usage: hour -> [quantity, reported]
  round,    \* the flush under way: the rows it has left, and whether the
            \* first of them was accepted and awaits its mark
  billed,   \* hour -> quantity AWS accepted under the bucket's ClientToken
  late      \* history: hours that a seal entered after they had closed

vars == <<now, units, sealing, usage, round, billed, late>>

HourOf(t) == t \div TicksPerHour
Hours     == 0 .. HourOf(MaxTicks)
Row       == [hour : Hours, quantity : Nat]

Tick ==
  /\ now < MaxTicks
  /\ now' = now + 1
  /\ UNCHANGED <<units, sealing, usage, round, billed, late>>

----------------------------------------------------------------------------
(* op seal_usage.                                                          *)

SealReadsHour ==
  /\ sealing = NoHour
  /\ units < MaxUnits
  /\ units' = units + 1
  /\ sealing' = HourOf(now)
  /\ UNCHANGED <<now, usage, round, billed, late>>

(* Mutant of Upserted: a new row starts at zero.                           *)
UpsertedFromZero(h) ==
  [b \in DOMAIN usage \cup {h} |->
     IF b \notin DOMAIN usage THEN [quantity |-> 0, reported |-> FALSE]
     ELSE [usage[b] EXCEPT !.quantity = IF b = h THEN @ + 1 ELSE @]]

(* The upsert adds to the row whatever its reported flag says.             *)
Upserted(h) ==
  [b \in DOMAIN usage \cup {h} |->
     IF b # h THEN usage[b]
     ELSE IF h \in DOMAIN usage THEN [usage[h] EXCEPT !.quantity = @ + 1]
     ELSE [quantity |-> 1, reported |-> FALSE]]

SealCommits ==
  /\ sealing # NoHour
  /\ usage' = Upserted(sealing)
  /\ sealing' = NoHour
  /\ late' = IF sealing < HourOf(now) THEN late \cup {sealing} ELSE late
  /\ UNCHANGED <<now, units, round, billed>>

(* The database is locked, or the store dies: the seal is not answered.    *)
SealFails ==
  /\ sealing # NoHour
  /\ sealing' = NoHour
  /\ UNCHANGED <<now, units, usage, round, billed, late>>

----------------------------------------------------------------------------
(* flush.                                                                  *)

(* SELECT ... WHERE reported=0 AND hour<? ORDER BY hour, fetched at once:  *)
(* a set of rows, of which First is the one that is next.                  *)
(* The rows too old to report are the first of it; the loop passes over    *)
(* them without a call, so they are left out from the start.               *)
TooOld(h, t)  == t - h * TicksPerHour > ReportWindow * TicksPerHour

(* Mutant of Reportable: hour=?-1.                                         *)
ReportableLast(t) == {h \in DOMAIN usage : h = HourOf(t) - 1 /\ ~usage[h].reported}

Reportable(t) ==
  {h \in DOMAIN usage : h < HourOf(t) /\ ~usage[h].reported /\ ~TooOld(h, t)}
Selected(t) == {[hour |-> h, quantity |-> usage[h].quantity] : h \in Reportable(t)}
First(row)  == row \in round.rows /\ \A r \in round.rows : row.hour <= r.hour

FlushBegins ==
  /\ round = NoRound
  /\ Reportable(now) # {}
  /\ round' = [rows |-> Selected(now), sent |-> FALSE]
  /\ UNCHANGED <<now, units, sealing, usage, billed, late>>

(* The round goes on after its first row, and is over after its last.      *)
NextRow(row) == round' = [rows |-> round.rows \ {row}, sent |-> FALSE]

(* Mutant of Accept: a ClientToken that differs from call to call.         *)
AcceptAgain(row) ==
  billed' = [b \in DOMAIN billed \cup {row.hour} |->
               IF b # row.hour THEN billed[b]
               ELSE row.quantity + IF b \in DOMAIN billed THEN billed[b] ELSE 0]

(* AWS takes the first quantity of a ClientToken and answers the same      *)
(* request alike; another quantity under the same token is an error.       *)
Accept(row) ==
  billed' = IF row.hour \in DOMAIN billed THEN billed
            ELSE [b \in DOMAIN billed \cup {row.hour} |->
                    IF b = row.hour THEN row.quantity ELSE billed[b]]
Conflict(row) == row.hour \in DOMAIN billed /\ billed[row.hour] # row.quantity

FlushSends ==
  /\ ~round.sent
  /\ \E row \in round.rows : First(row) /\ ~Conflict(row) /\ Accept(row)
  /\ round' = [round EXCEPT !.sent = TRUE]
  /\ UNCHANGED <<now, units, sealing, usage, late>>

(* send raises, and the round ends: the request was rejected, or it was    *)
(* accepted and its answer lost.                                           *)
FlushSendRaises ==
  /\ ~round.sent
  /\ \E row \in round.rows : First(row) /\ (Accept(row) \/ UNCHANGED billed)
  /\ round' = NoRound
  /\ UNCHANGED <<now, units, sealing, usage, late>>

(* Mutant of FlushMarks: UPDATE usage SET reported=1 WHERE hour<?          *)
FlushMarksAll ==
  /\ round.sent
  /\ usage' = [h \in DOMAIN usage |->
                 [usage[h] EXCEPT !.reported = @ \/ h < HourOf(now)]]
  /\ \E row \in round.rows : First(row) /\ NextRow(row)
  /\ UNCHANGED <<now, units, sealing, billed, late>>

FlushMarks ==
  /\ round.sent
  /\ \E row \in round.rows :
       /\ First(row) /\ NextRow(row)
       /\ usage' = [usage EXCEPT ![row.hour].reported = TRUE]
  /\ UNCHANGED <<now, units, sealing, billed, late>>

(* The service is killed, or its UPDATE finds the database locked.         *)
FlushStops ==
  /\ round # NoRound
  /\ round' = NoRound
  /\ UNCHANGED <<now, units, sealing, usage, billed, late>>

Init ==
  /\ now = 0 /\ units = 0 /\ sealing = NoHour
  /\ usage = <<>> /\ round = NoRound /\ billed = <<>> /\ late = {}

Next ==
  \/ Tick \/ SealReadsHour \/ SealCommits \/ SealFails
  \/ FlushBegins \/ FlushSends \/ FlushSendRaises \/ FlushMarks \/ FlushStops

(* The service's loop comes round every minute.  An endpoint, a database   *)
(* and a service that work from time to time are assumed: a row that round *)
(* after round reaches is at last accepted and marked.                     *)
Fairness ==
  /\ WF_vars(FlushBegins) /\ SF_vars(FlushSends) /\ SF_vars(FlushMarks)

Spec == Init /\ [][Next]_vars /\ Fairness

----------------------------------------------------------------------------
TypeOK ==
  /\ now \in 0 .. MaxTicks /\ units \in 0 .. MaxUnits
  /\ sealing \in Hours \cup {NoHour}
  /\ DOMAIN usage \subseteq Hours
  /\ \A h \in DOMAIN usage : usage[h] \in [quantity : Nat \ {0}, reported : BOOLEAN]
  /\ round \in [rows : SUBSET Row, sent : BOOLEAN]
  /\ DOMAIN billed \subseteq Hours /\ \A h \in DOMAIN billed : billed[h] \in Nat
  /\ late \subseteq Hours

(* Only closed buckets are billed, and a customer never for more than was  *)
(* sealed, however often a bucket is sent: after a lost answer, a crash    *)
(* before the mark, a restart.                                             *)
NeverOverbilled ==
  \A h \in DOMAIN billed :
    h < HourOf(now) /\ h \in DOMAIN usage /\ billed[h] <= usage[h].quantity

(* A bucket is marked only after AWS took it.  A seal that enters it after *)
(* its hour is over is the only way in which a recorded unit can then be   *)
(* missing from the bill: crashes, lost answers and retries lose nothing.  *)
(* A bucket that grew older than the report window is never marked: it is  *)
(* kept, unreported, and this says nothing of it.                          *)
OnlyLateSealsAreLost ==
  \A h \in DOMAIN usage :
    usage[h].reported =>
      h \in DOMAIN billed /\ (h \notin late => billed[h] = usage[h].quantity)

(* Every closed bucket is at last reported, or grows too old for the API   *)
(* (flush then retains it), or is held up by a bucket no later than itself *)
(* whose quantity changed after AWS had taken it: one failing row ends the *)
(* round for those behind it.                                              *)
Reported(h) == h \in DOMAIN usage /\ usage[h].reported
ClosedBucketsReported ==
  \A h \in Hours :
    (h \in DOMAIN usage /\ h < HourOf(now))
      ~> (\/ Reported(h)
          \/ TooOld(h, now)
          \/ \E b \in late : b <= h)

(* "Unreported closed buckets are immutable and retried" (metering.py:3).  *)
ClosedBucketsImmutable ==
  [][\A h \in DOMAIN usage :
       h < HourOf(now) /\ ~usage[h].reported => usage'[h].quantity = usage[h].quantity]_vars
=============================================================================
