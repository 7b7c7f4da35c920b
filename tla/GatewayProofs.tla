--------------------------- MODULE GatewayProofs ---------------------------
(***************************************************************************)
(* Theorems about Gateway: its types, its slots, its metering, its         *)
(* receipts, and that it refines ReplayStore and AdmitOnce.  One inductive *)
(* invariant, IInv, carries them all.                                      *)
(***************************************************************************)
EXTENDS Gateway, FiniteSetTheorems, SequenceTheorems, TLAPS

(* The values of a handler and the lines of the two pipes.                 *)
Handlers ==
  [pc       : {"idle", "body", "verify", "done"} \cup StoreOps,
   kind     : {"none", "seal", "verify", "health"},
   claim    : Claims \cup {NoClaim},
   now      : Store!Instants,
   closed   : BOOLEAN,
   released : BOOLEAN,
   outcome  : {"none", "REFUSED", "REJECT", "UNAVAILABLE", "HEALTHY", "DEGRADED",
               "SEALED", "ALLOW"}]
Statuses == {"none", "REFUSED", "REJECT", "UNAVAILABLE", "HEALTHY", "DEGRADED", "SEALED", "ALLOW"}

ClaimRequests ==
  {Store!ClaimRequest(x[1], x[2], x[3]) : x \in Claims \X Store!Record \X Store!Instants}
Asked    == [req : Requests, op : {"clock", "seal_usage"}]
              \cup [req : Requests, op : {"claim"}, request : ClaimRequests]
Answered == [req : Requests, op : StoreOps, ok : BOOLEAN, now : Store!Instants]

Lines(s) == {s[i] : i \in DOMAIN s}

Typed ==
  /\ usage \in Nat /\ inflight \in 0 .. MaxInflight
  /\ req \in [Requests -> Handlers]
  /\ {storeUp, storeFailed, verifierFailed} \subseteq BOOLEAN
  /\ storePending \subseteq Requests /\ verifierPending \subseteq Requests
  /\ storeIn \in Seq(Asked) /\ storeOut \in Seq(Answered)
  /\ tai \in Store!Instants
  /\ DOMAIN issued \subseteq Claims /\ \A c \in DOMAIN issued : issued[c] \in Store!Record
  /\ DOMAIN receipts \subseteq Claims

(* The slots taken are those that have not been released.                  *)
Held    == {r \in Requests : ~req[r].released}
Counted == inflight = Cardinality(Held)

(* A handler has no outcome before its end and no slot outside its life,   *)
(* and what is verified, claimed or delivered was issued.                  *)
Coherent(r) ==
  LET h == req[r]
  IN /\ h.outcome # "none" => h.pc = "done"
     /\ ~h.released => h.pc \notin {"idle", "done"}
     /\ \/ h.kind = "verify" \/ h.outcome = "SEALED"
        \/ h.pc \in {"verify", "claim", "seal_usage"}
        => h.claim \in DOMAIN issued

(* Pending calls are those of handlers that await them.                    *)
Pending == /\ \A r \in storePending : req[r].pc \in StoreOps
           /\ \A r \in verifierPending : req[r].pc = "verify"

(* A claim under way to the store speaks for its handler, and is of a      *)
(* record that was fresh at the instant it names.                          *)
Speaks(q) ==
  LET h == req[q.req]
  IN q.op = "claim" =>
       /\ h.pc \in {"claim", "done"} /\ h.claim \in DOMAIN issued
       /\ Store!Fresh(issued[h.claim], h.now)
       /\ q.request = Store!ClaimRequest(h.claim, issued[h.claim], h.now)
Spoken == \A q \in Lines(storeIn) : Speaks(q)

(* A request to which the store said ok, whether or not the handler knows. *)
Granted(r, op) == \E a \in Lines(storeOut) : a.req = r /\ a.op = op /\ a.ok
Won(r)  == req[r].outcome = "ALLOW" \/ Granted(r, "claim")
Paid(r) == req[r].outcome = "SEALED" \/ Granted(r, "seal_usage")

Winners ==
  /\ \A r \in Requests : Won(r) =>
       /\ req[r].pc \in {"claim", "done"}
       /\ req[r].claim \in DOMAIN receipts /\ receipts[req[r].claim] = req[r].now
  /\ \A r, s \in Requests : Won(r) /\ Won(s) /\ req[r].claim = req[s].claim => r = s
Metered == Cardinality({r \in Requests : Paid(r)}) <= usage

IInv == /\ Typed /\ Counted /\ Pending /\ Spoken /\ Winners /\ Metered
        /\ \A r \in Requests : Coherent(r)

----------------------------------------------------------------------------
(* Pipes: a line written is added to the lines, one read is taken away.    *)
LEMMA LineWritten ==
  ASSUME NEW S, NEW s \in Seq(S), NEW e \in S
  PROVE  Append(s, e) \in Seq(S) /\ Lines(Append(s, e)) = Lines(s) \cup {e}
<1>1. /\ Append(s, e) \in Seq(S) /\ DOMAIN Append(s, e) = 1 .. Len(s) + 1
      /\ \A i \in 1 .. Len(s) : Append(s, e)[i] = s[i]
      /\ Append(s, e)[Len(s) + 1] = e
  BY AppendProperties
<1>2. DOMAIN s = 1 .. Len(s) /\ Len(s) \in Nat
  OBVIOUS
<1>3. 1 .. Len(s) + 1 = (1 .. Len(s)) \cup {Len(s) + 1}
  BY <1>2
<1>4. ASSUME NEW x
      PROVE  x \in Lines(Append(s, e)) <=> x \in Lines(s) \cup {e}
  BY <1>1, <1>2, <1>3 DEF Lines
<1> QED
  BY <1>1, <1>4

LEMMA LineRead ==
  ASSUME NEW S, NEW s \in Seq(S), s # <<>>
  PROVE  /\ Head(s) \in S /\ Head(s) \in Lines(s)
         /\ Tail(s) \in Seq(S) /\ Lines(Tail(s)) \subseteq Lines(s)
<1>1. /\ Head(s) = s[1] /\ Tail(s) \in Seq(S) /\ Len(s) \in Nat /\ Len(s) > 0
      /\ DOMAIN s = 1 .. Len(s) /\ DOMAIN Tail(s) = 1 .. Len(s) - 1
      /\ \A i \in 1 .. Len(s) - 1 : Tail(s)[i] = s[i + 1]
  BY HeadTailProperties
<1>2. 1 \in DOMAIN s /\ s[1] \in S
  BY <1>1
<1>3. \A i \in 1 .. Len(s) - 1 : i + 1 \in DOMAIN s
  BY <1>1
<1> QED
  BY <1>1, <1>2, <1>3 DEF Lines

LEMMA NoLines == Lines(<<>>) = {} /\ <<>> \in Seq(Asked) /\ <<>> \in Seq(Answered)
BY DEF Lines

----------------------------------------------------------------------------
(* Slots.                                                                  *)

LEMMA HeldFinite ==
  ASSUME NEW T \in SUBSET Requests
  PROVE  IsFiniteSet(T) /\ Cardinality(T) \in Nat
BY GatewayAssumption, FS_Subset, FS_CardinalityType

(* Whatever handlers end together, each gives back the slot it still has.  *)
LEMMA SlotsGiven ==
  ASSUME Typed, Counted, NEW S \in SUBSET Requests, NEW status \in Statuses, EndAll(S, status)
  PROVE  /\ req' \in [Requests -> Handlers] /\ inflight' \in 0 .. MaxInflight /\ Counted'
         /\ \A r \in Requests : req'[r] = IF r \in S THEN Ended(req[r], status) ELSE req[r]
<1>1. \A r \in Requests : req'[r] = IF r \in S THEN Ended(req[r], status) ELSE req[r]
  BY DEF EndAll
<1>2. \A h \in Handlers : Ended(h, status) \in Handlers /\ Ended(h, status).released
  BY DEF Handlers, Ended, Statuses
<1>3. req' \in [Requests -> Handlers]
  BY <1>2 DEF EndAll, Typed
<1> DEFINE Gone == {r \in S : ~req[r].released}
<1>4. Held' = Held \ Gone
  BY <1>1, <1>2 DEF Held, Typed
<1>5. Gone \subseteq Held /\ Held \cap Gone = Gone /\ Held \subseteq Requests
  BY DEF Held
<1>6. Cardinality(Held \ Gone) = Cardinality(Held) - Cardinality(Gone)
  BY <1>5, HeldFinite, FS_Difference
<1>7. Cardinality(Held') \in Nat
  BY <1>4, <1>5, HeldFinite
<1>8. inflight' = inflight - Cardinality(Gone)
  BY DEF EndAll
<1>9. Cardinality(Gone) \in Nat /\ Cardinality(Held) \in Nat
  BY <1>5, HeldFinite
<1>10. inflight' = Cardinality(Held')
  BY <1>4, <1>6, <1>8 DEF Counted
<1>11. inflight' \in 0 .. MaxInflight
  BY <1>7, <1>8, <1>9, <1>10, GatewayAssumption DEF Typed
<1> QED
  BY <1>1, <1>3, <1>10, <1>11 DEF Counted

(* A handler that goes on keeps its slot.                                  *)
LEMMA SlotKept ==
  ASSUME Typed, Counted, NEW r \in Requests, NEW h \in Handlers,
         req' = [req EXCEPT ![r] = h], h.released = req[r].released, UNCHANGED inflight
  PROVE  /\ req' \in [Requests -> Handlers] /\ inflight' \in 0 .. MaxInflight /\ Counted'
         /\ req'[r] = h /\ \A s \in Requests \ {r} : req'[s] = req[s]
<1>1. Held' = Held
  BY DEF Held, Typed
<1> QED
  BY <1>1 DEF Counted, Typed

(* A single handler ends.                                                  *)
LEMMA OneEnds ==
  ASSUME Typed, Counted, NEW r \in Requests, NEW status \in Statuses, End(r, status)
  PROVE  /\ req' \in [Requests -> Handlers] /\ inflight' \in 0 .. MaxInflight /\ Counted'
         /\ req'[r] = Ended(req[r], status) /\ \A s \in Requests \ {r} : req'[s] = req[s]
<1>1. EndAll({r}, status) /\ {r} \in SUBSET Requests
  BY DEF End
<1> QED
  BY <1>1, SlotsGiven

----------------------------------------------------------------------------
(* What a step does to the handlers: one that changes was not done; it is  *)
(* coherent, gives no verdict that the store has not granted, and after    *)
(* its claim it can only end.                                              *)
Moved(r) ==
  \/ req'[r] = req[r]
  \/ /\ req[r].pc # "done" /\ Coherent(r)'
     /\ req'[r].outcome = "ALLOW" => Won(r)
     /\ req'[r].outcome = "SEALED" => Paid(r)
     /\ req[r].pc = "claim" =>
          /\ req'[r].pc \in {"claim", "done"}
          /\ req'[r].claim = req[r].claim /\ req'[r].now = req[r].now

(* Such a step, by which the store says nothing new, keeps the invariant.  *)
LEMMA QuietKeeps ==
  ASSUME IInv, Typed', Counted', Pending',
         \A r \in Requests : Moved(r),
         \A c \in DOMAIN issued : c \in DOMAIN issued' /\ issued'[c] = issued[c],
         \A q \in Lines(storeIn') : q \in Lines(storeIn) \/ Speaks(q)',
         \A a \in Lines(storeOut') : a \in Lines(storeOut) \/ ~a.ok \/ a.op = "clock",
         UNCHANGED <<receipts, usage>>
  PROVE  IInv'
<1>1. \A r \in Requests : Coherent(r)'
  BY DEF IInv, Moved, Coherent
<1>2. \A q \in Lines(storeIn) : q.req \in Requests
  BY DEF Lines, IInv, Typed, Asked
<1>3. ASSUME NEW q \in Lines(storeIn)
      PROVE  Speaks(q)'
  <2>1. Speaks(q) /\ Moved(q.req)
    BY <1>2 DEF IInv, Spoken
  <2>2. CASE q.op = "claim"
    <3>1. /\ req[q.req].pc \in {"claim", "done"}
          /\ req[q.req].claim \in DOMAIN issued
          /\ Store!Fresh(issued[req[q.req].claim], req[q.req].now)
          /\ q.request = Store!ClaimRequest(req[q.req].claim, issued[req[q.req].claim],
                                            req[q.req].now)
      BY <2>1, <2>2 DEF Speaks
    <3>2. /\ req'[q.req].pc \in {"claim", "done"} /\ req'[q.req].claim = req[q.req].claim
          /\ req'[q.req].now = req[q.req].now
      BY <2>1, <3>1 DEF Moved
    <3>3. issued'[req[q.req].claim] = issued[req[q.req].claim]
      BY <3>1
    <3> QED
      BY <3>1, <3>2, <3>3 DEF Speaks, Store!Fresh, Store!ClaimRequest, Store!ValidUntil,
                              Store!Expires, Store!RoundUp
  <2> QED
    BY <2>2 DEF Speaks
<1>4. Spoken'
  BY <1>3 DEF Spoken
<1>5. \A r \in Requests : (Won(r)' => Won(r)) /\ (Paid(r)' => Paid(r))
  BY DEF Moved, Won, Paid, Granted
<1>6. \A r \in Requests : Won(r) => /\ req'[r].pc \in {"claim", "done"}
                                    /\ req'[r].claim = req[r].claim /\ req'[r].now = req[r].now
  BY DEF Moved, IInv, Winners
<1>7. Winners'
  BY <1>5, <1>6 DEF IInv, Winners
<1>8. Metered'
  <2>1. {r \in Requests : Paid(r)'} \subseteq {r \in Requests : Paid(r)}
    BY <1>5
  <2> DEFINE Before == {r \in Requests : Paid(r)}
  <2> DEFINE After == {r \in Requests : Paid(r)'}
  <2>2. Cardinality(After) <= Cardinality(Before)
    BY <2>1, HeldFinite, FS_Subset
  <2>3. Cardinality(After) \in Nat /\ Cardinality(Before) \in Nat
    BY HeldFinite
  <2>4. Cardinality(Before) <= usage
    BY DEF IInv, Metered
  <2> HIDE DEF Before, After
  <2>5. Cardinality(After) <= usage /\ usage' = usage
    BY <2>2, <2>3, <2>4 DEF IInv, Typed
  <2> QED
    BY <2>5 DEF Metered, After
<1> QED
  BY <1>1, <1>4, <1>7, <1>8 DEF IInv

(* A handler that ends without a verdict, or with one the store granted.   *)
LEMMA EndsMoved ==
  ASSUME IInv, NEW r \in Requests, req[r].pc # "done", NEW status \in Statuses,
         status = "ALLOW" => Won(r), status = "SEALED" => Paid(r) /\ req[r].claim \in DOMAIN issued,
         req'[r] = Ended(req[r], status),
         \A c \in DOMAIN issued : c \in DOMAIN issued'
  PROVE  Moved(r)
<1> DEFINE h == req[r]
<1>1. h \in Handlers /\ Coherent(r)
  BY DEF IInv, Typed
<1>2. h.outcome = "none"
  BY <1>1 DEF Coherent
<1>3. /\ req'[r].pc = "done" /\ req'[r].released /\ req'[r].claim = h.claim
      /\ req'[r].now = h.now /\ req'[r].kind = h.kind
      /\ req'[r].outcome = IF h.closed THEN "none" ELSE status
  BY <1>1, <1>2 DEF Ended, Handlers
<1>4. Coherent(r)'
  BY <1>1, <1>3 DEF Coherent
<1> QED
  BY <1>3, <1>4 DEF Moved

(* The call of the store by a handler that goes on as h: it is refused and *)
(* ends the handler, or its line is written and the handler awaits it.     *)
LEMMA StoreCalled ==
  ASSUME IInv, NEW r \in Requests, NEW h \in Handlers, NEW q \in Asked, CallStore(r, h, q),
         req[r].pc \notin {"done", "claim"}, q.req = r,
         h.released = req[r].released, h.outcome = req[r].outcome,
         h.kind = "verify" \/ q.op \in {"claim", "seal_usage"} => h.claim \in DOMAIN issued',
         \A c \in DOMAIN issued : c \in DOMAIN issued',
         q.op = "claim" => /\ Store!Fresh(issued'[h.claim], h.now)
                           /\ q.request = Store!ClaimRequest(h.claim, issued'[h.claim], h.now)
  PROVE  /\ req' \in [Requests -> Handlers] /\ inflight' \in 0 .. MaxInflight /\ Counted'
         /\ \A s \in Requests : Moved(s) /\ (s # r => req'[s] = req[s])
         /\ req'[r].outcome # "ALLOW"
         /\ storeIn' \in Seq(Asked)
         /\ \A x \in Lines(storeIn') : x \in Lines(storeIn) \/ Speaks(x)'
         /\ storePending' \subseteq storePending \cup {r}
         /\ r \in storePending' => req'[r].pc \in StoreOps
<1>1. Typed /\ Counted /\ Coherent(r) /\ req[r] \in Handlers
  BY DEF IInv, Typed
<1>2. req[r].outcome = "none"
  BY <1>1 DEF Coherent
<1>3. CASE End(r, "UNAVAILABLE") /\ storePending' = storePending \ {r} /\ UNCHANGED storeIn
  <2>1. "UNAVAILABLE" \in Statuses
    BY DEF Statuses
  <2>2. /\ req' \in [Requests -> Handlers] /\ inflight' \in 0 .. MaxInflight /\ Counted'
        /\ req'[r] = Ended(req[r], "UNAVAILABLE") /\ \A s \in Requests \ {r} : req'[s] = req[s]
    BY <1>1, <1>3, <2>1, OneEnds
  <2>3. Moved(r)
    BY <2>1, <2>2, EndsMoved
  <2>4. req'[r].outcome # "ALLOW"
    BY <1>1, <1>2, <2>2 DEF Ended, Handlers
  <2> QED
    BY <1>1, <1>3, <2>2, <2>3, <2>4 DEF Moved, Typed
<1>4. CASE /\ req' = [req EXCEPT ![r] = [h EXCEPT !.pc = q.op]]
           /\ storePending' = (storePending \ {r}) \cup {r}
           /\ storeIn' = Append(storeIn, q) /\ UNCHANGED inflight
  <2> DEFINE g == [h EXCEPT !.pc = q.op]
  <2>1. q.op \in StoreOps
    BY DEF Asked, StoreOps
  <2>2. /\ g \in Handlers /\ g.pc = q.op /\ g.released = h.released /\ g.claim = h.claim
        /\ g.now = h.now /\ g.kind = h.kind /\ g.outcome = h.outcome
    BY <2>1 DEF Handlers
  <2> HIDE DEF g
  <2>3. /\ req' \in [Requests -> Handlers] /\ inflight' \in 0 .. MaxInflight /\ Counted'
        /\ req'[r] = g /\ \A s \in Requests \ {r} : req'[s] = req[s]
    BY <1>1, <1>4, <2>2, SlotKept DEF g
  <2>4. Coherent(r)'
    BY <1>2, <2>1, <2>2, <2>3 DEF Coherent, StoreOps
  <2>5. Moved(r)
    BY <1>2, <2>2, <2>3, <2>4 DEF Moved
  <2>6. Lines(storeIn') = Lines(storeIn) \cup {q} /\ storeIn' \in Seq(Asked)
    BY <1>1, <1>4, LineWritten DEF Typed
  <2>7. Speaks(q)'
    BY <2>2, <2>3 DEF Speaks, Store!Fresh, Store!ClaimRequest, Store!ValidUntil,
                      Store!Expires, Store!RoundUp
  <2> QED
    BY <1>2, <1>4, <2>1, <2>2, <2>3, <2>5, <2>6, <2>7 DEF Moved
<1> QED
  BY <1>3, <1>4 DEF CallStore

----------------------------------------------------------------------------
(* The refinements.  Nothing shows outside while no receipt is written and *)
(* no handler gets ALLOW: those that have it are done, and stay.           *)

AllowedTo(c) == {r \in Requests : req[r].outcome = "ALLOW" /\ req[r].claim = c}

LEMMA NothingShows ==
  ASSUME IInv, \A r \in Requests : Moved(r),
         \A r \in Requests : req'[r] = req[r] \/ req'[r].outcome # "ALLOW",
         DOMAIN receipts' = DOMAIN receipts
  PROVE  [Promise!Next]_(Promise!avars)
<1>1. \A r \in Requests : req[r].outcome = "ALLOW" => req'[r] = req[r]
  BY DEF IInv, Coherent, Moved
<1>2. \A c : AllowedTo(c)' = AllowedTo(c)
  BY <1>1 DEF AllowedTo
<1>3. [c \in Claims |-> Cardinality({r \in Requests : req[r].outcome = "ALLOW" /\ req[r].claim = c})]'
       = [c \in Claims |-> Cardinality({r \in Requests : req[r].outcome = "ALLOW" /\ req[r].claim = c})]
  BY <1>2 DEF AllowedTo
<1> QED
  BY <1>3 DEF Promise!avars

----------------------------------------------------------------------------
(* What every step has to show.                                            *)
Advance == IInv' /\ [Store!Next]_(Store!svars) /\ [Promise!Next]_(Promise!avars)

(* A step that leaves the store's tables alone; the pipe from the store    *)
(* stays, loses lines or gets one that grants nothing.                     *)
LEMMA QuietAdvances ==
  ASSUME IInv, Counted', Pending',
         req' \in [Requests -> Handlers], inflight' \in 0 .. MaxInflight,
         \A r \in Requests : Moved(r),
         \A r \in Requests : req'[r] = req[r] \/ req'[r].outcome # "ALLOW",
         storeIn' \in Seq(Asked), storeOut' \in Seq(Answered),
         \A q \in Lines(storeIn') : q \in Lines(storeIn) \/ Speaks(q)',
         \A a \in Lines(storeOut') : a \in Lines(storeOut) \/ ~a.ok \/ a.op = "clock",
         storePending' \subseteq Requests, verifierPending' \subseteq Requests,
         {storeUp', storeFailed', verifierFailed'} \subseteq BOOLEAN,
         UNCHANGED <<storeVars, usage>>
  PROVE  Advance
<1>1. Typed'
  BY DEF IInv, Typed, storeVars
<1>2. IInv'
  BY <1>1, QuietKeeps DEF storeVars
<1>3. UNCHANGED Store!svars
  BY DEF storeVars, Store!svars
<1>4. [Promise!Next]_(Promise!avars)
  BY NothingShows DEF storeVars
<1> QED
  BY <1>2, <1>3, <1>4 DEF Advance

(* One handler ends without a verdict that lets anyone in.                 *)
LEMMA OneEnded ==
  ASSUME IInv, NEW r \in Requests, req[r].pc # "done",
         NEW status \in Statuses \ {"ALLOW", "SEALED"}, End(r, status),
         \A c \in DOMAIN issued : c \in DOMAIN issued'
  PROVE  /\ req' \in [Requests -> Handlers] /\ inflight' \in 0 .. MaxInflight /\ Counted'
         /\ req'[r].pc = "done" /\ req'[r].outcome # "ALLOW"
         /\ \A s \in Requests : Moved(s) /\ (s # r => req'[s] = req[s])
<1>1. /\ req' \in [Requests -> Handlers] /\ inflight' \in 0 .. MaxInflight /\ Counted'
      /\ req'[r] = Ended(req[r], status) /\ \A s \in Requests \ {r} : req'[s] = req[s]
  BY OneEnds DEF IInv
<1>2. Moved(r)
  BY <1>1, EndsMoved
<1>3. req[r] \in Handlers /\ req[r].outcome = "none"
  BY DEF IInv, Typed, Coherent
<1>4. req'[r].pc = "done" /\ req'[r].outcome # "ALLOW"
  BY <1>1, <1>3 DEF Ended, Handlers
<1> QED
  BY <1>1, <1>2, <1>4 DEF Moved

LEMMA ArriveAdvances ==
  ASSUME IInv, NEW r \in Requests, NEW kind \in {"seal", "verify"}, NEW c \in Claims \cup {NoClaim},
         Arrive(r, kind, c)
  PROVE  Advance
<1>1. /\ Typed /\ Counted /\ Pending /\ req[r].pc = "idle" /\ req[r] \in Handlers /\ Coherent(r)
      /\ UNCHANGED <<storeVars, usage, pipeVars, verifierVars>>
  BY DEF IInv, Typed, Arrive
<1>2. r \notin storePending /\ r \notin verifierPending
  BY <1>1 DEF Pending, StoreOps
<1>3. kind = "verify" => c \in DOMAIN issued
  BY DEF Arrive, Delivered, IInv, Coherent
<1>4. CASE End(r, "REFUSED")
  <2>1. "REFUSED" \in Statuses \ {"ALLOW", "SEALED"}
    BY DEF Statuses
  <2>2. /\ req' \in [Requests -> Handlers] /\ inflight' \in 0 .. MaxInflight /\ Counted'
        /\ req'[r].pc = "done" /\ req'[r].outcome # "ALLOW"
        /\ \A s \in Requests : Moved(s) /\ (s # r => req'[s] = req[s])
    BY <1>1, <1>4, <2>1, OneEnded DEF storeVars
  <2>3. Pending'
    BY <1>1, <1>2, <2>2 DEF Pending, Typed, pipeVars, verifierVars
  <2> QED
    BY <1>1, <2>2, <2>3, QuietAdvances DEF Typed, pipeVars, verifierVars
<1>5. CASE /\ inflight < MaxInflight /\ inflight' = inflight + 1
           /\ req' = [req EXCEPT ![r].pc = "body", ![r].kind = kind, ![r].claim = c,
                                 ![r].released = FALSE]
  <2> DEFINE h == [req[r] EXCEPT !.pc = "body", !.kind = kind, !.claim = c, !.released = FALSE]
  <2>1. /\ h \in Handlers /\ h.pc = "body" /\ h.kind = kind /\ h.claim = c /\ ~h.released
        /\ h.outcome = req[r].outcome
    BY <1>1 DEF Handlers
  <2>2. req'[r] = h /\ req' \in [Requests -> Handlers] /\ \A s \in Requests \ {r} : req'[s] = req[s]
    BY <1>1, <1>5, <2>1 DEF Typed
  <2> HIDE DEF h
  <2>3. req[r].outcome = "none" /\ req[r].released
    BY <1>1 DEF Coherent, Handlers
  <2>4. Held' = Held \cup {r} /\ r \notin Held /\ Held \in SUBSET Requests
    BY <2>1, <2>2, <2>3 DEF Held
  <2>5. Cardinality(Held') = Cardinality(Held) + 1
    BY <2>4, HeldFinite, FS_AddElement
  <2>6. Counted' /\ inflight' \in 0 .. MaxInflight
    BY <1>1, <1>5, <2>5, GatewayAssumption DEF Counted, Typed
  <2>7. Moved(r) /\ req'[r].outcome # "ALLOW"
    BY <1>1, <1>3, <2>1, <2>2, <2>3 DEF Moved, Coherent, storeVars
  <2>8. \A s \in Requests : Moved(s)
    BY <2>2, <2>7 DEF Moved
  <2>9. Pending'
    BY <1>1, <1>2, <2>2 DEF Pending, Typed, pipeVars, verifierVars
  <2> QED
    BY <1>1, <2>2, <2>6, <2>7, <2>8, <2>9, QuietAdvances DEF Typed, pipeVars, verifierVars
<1> QED
  BY <1>4, <1>5 DEF Arrive

(* A handler calls the store, or ends because it cannot; the store's       *)
(* answers and the verifier's calls are as before.                         *)
LEMMA CallAdvances ==
  ASSUME IInv, NEW r \in Requests, NEW h \in Handlers, NEW q \in Asked, CallStore(r, h, q),
         req[r].pc \notin {"done", "claim"}, q.req = r,
         h.released = req[r].released, h.outcome = req[r].outcome,
         h.kind = "verify" \/ q.op \in {"claim", "seal_usage"} => h.claim \in DOMAIN issued,
         q.op = "claim" => /\ Store!Fresh(issued[h.claim], h.now)
                           /\ q.request = Store!ClaimRequest(h.claim, issued[h.claim], h.now),
         verifierPending' = verifierPending \ {r},
         UNCHANGED <<storeVars, usage, storeUp, storeOut, storeFailed, verifierFailed>>
  PROVE  Advance
<1>1. issued' = issued
  BY DEF storeVars
<1>2. /\ req' \in [Requests -> Handlers] /\ inflight' \in 0 .. MaxInflight /\ Counted'
      /\ \A s \in Requests : Moved(s) /\ (s # r => req'[s] = req[s])
      /\ req'[r].outcome # "ALLOW"
      /\ storeIn' \in Seq(Asked)
      /\ \A x \in Lines(storeIn') : x \in Lines(storeIn) \/ Speaks(x)'
      /\ storePending' \subseteq storePending \cup {r}
      /\ r \in storePending' => req'[r].pc \in StoreOps
  BY <1>1, StoreCalled
<1>3. Typed /\ Pending
  BY DEF IInv
<1>4. Pending'
  BY <1>2, <1>3 DEF Pending, Typed
<1> QED
  BY <1>2, <1>3, <1>4, QuietAdvances DEF Typed

LEMMA HealthAdvances ==
  ASSUME IInv, NEW r \in Requests, Health(r)
  PROVE  Advance
<1> DEFINE h == [req[r] EXCEPT !.kind = "health"]
<1> DEFINE q == [req |-> r, op |-> "clock"]
<1>1. Typed /\ Pending /\ Coherent(r) /\ req[r] \in Handlers /\ req[r].pc = "idle"
  BY DEF IInv, Typed, Health
<1>2. h \in Handlers /\ h.kind = "health" /\ h.released = req[r].released /\ h.outcome = req[r].outcome
  BY <1>1 DEF Handlers
<1>3. q \in Asked /\ q.req = r /\ q.op = "clock"
  BY DEF Asked
<1>4. CallStore(r, h, q)
  BY DEF Health
<1>5. /\ verifierPending' = verifierPending \ {r}
      /\ UNCHANGED <<storeVars, usage, storeUp, storeOut, storeFailed, verifierFailed>>
  BY <1>1 DEF Health, verifierVars, Pending
<1> HIDE DEF h, q
<1> QED
  BY <1>1, <1>2, <1>3, <1>4, <1>5, CallAdvances

(* A handler that awaits no store ends, by its body or by its client.      *)
LEMMA BodyAdvances ==
  ASSUME IInv, NEW r \in Requests, req[r].pc = "body",
         NEW status \in {"none", "REJECT"}, End(r, status),
         UNCHANGED <<storeVars, usage, pipeVars, verifierVars>>
  PROVE  Advance
<1>1. status \in Statuses \ {"ALLOW", "SEALED"}
  BY DEF Statuses
<1>2. /\ req' \in [Requests -> Handlers] /\ inflight' \in 0 .. MaxInflight /\ Counted'
      /\ req'[r].pc = "done" /\ req'[r].outcome # "ALLOW"
      /\ \A s \in Requests : Moved(s) /\ (s # r => req'[s] = req[s])
  BY <1>1, OneEnded DEF storeVars
<1>3. Typed /\ Pending /\ r \notin storePending /\ r \notin verifierPending
  BY DEF IInv, Pending, StoreOps
<1>4. Pending'
  BY <1>2, <1>3 DEF Pending, Typed, pipeVars, verifierVars
<1> QED
  BY <1>2, <1>3, <1>4, QuietAdvances DEF Typed, pipeVars, verifierVars

LEMMA BodyEndsAdvances ==
  ASSUME IInv, NEW r \in Requests, BodyEnds(r)
  PROVE  Advance
<1>1. req[r].pc = "body" /\ Typed /\ Pending /\ Coherent(r) /\ req[r] \in Handlers
  BY DEF IInv, Typed, BodyEnds
<1>2. UNCHANGED <<storeVars, usage, storeUp, storeOut, storeFailed, verifierVars>>
  BY DEF BodyEnds
<1>3. CASE End(r, "REJECT") /\ UNCHANGED <<storeIn, storePending>>
  BY <1>1, <1>2, <1>3, BodyAdvances DEF pipeVars
<1>4. CASE CallStore(r, req[r], [req |-> r, op |-> "clock"])
  <2> DEFINE q == [req |-> r, op |-> "clock"]
  <2>1. q \in Asked /\ q.req = r /\ q.op = "clock"
    BY DEF Asked
  <2>2. verifierPending' = verifierPending \ {r} /\ UNCHANGED verifierFailed
    BY <1>1, <1>2 DEF verifierVars, Pending
  <2>3. req[r].kind = "verify" => req[r].claim \in DOMAIN issued
    BY <1>1 DEF Coherent
  <2>4. CallStore(r, req[r], q)
    BY <1>4
  <2> HIDE DEF q
  <2> QED
    BY <1>1, <1>2, <2>1, <2>2, <2>3, <2>4, CallAdvances
<1> QED
  BY <1>3, <1>4 DEF BodyEnds

(* The hang-up: the slot goes back, the handler stays.                     *)
LEMMA CloseAdvances ==
  ASSUME IInv, NEW r \in Requests, ClientCloses(r)
  PROVE  Advance
<1> DEFINE h == [req[r] EXCEPT !.closed = TRUE, !.released = TRUE]
<1>1. /\ Typed /\ Counted /\ Pending /\ Coherent(r) /\ req[r] \in Handlers
      /\ req[r].pc \notin {"idle", "done"}
      /\ UNCHANGED <<storeVars, usage, pipeVars, verifierVars>>
  BY DEF IInv, Typed, ClientCloses, Active
<1>2. /\ h \in Handlers /\ h.released /\ h.pc = req[r].pc /\ h.kind = req[r].kind
      /\ h.claim = req[r].claim /\ h.now = req[r].now /\ h.outcome = req[r].outcome
  BY <1>1 DEF Handlers
<1>3. req'[r] = h /\ req' \in [Requests -> Handlers] /\ \A s \in Requests \ {r} : req'[s] = req[s]
  BY <1>1, <1>2 DEF ClientCloses, Typed
<1> HIDE DEF h
<1>4. Counted' /\ inflight' \in 0 .. MaxInflight
  <2>1. Held \in SUBSET Requests /\ Cardinality(Held) \in Nat
    BY HeldFinite DEF Held
  <2>2. CASE req[r].released
    <3>1. Held' = Held /\ inflight' = inflight
      BY <1>2, <1>3, <2>2 DEF Held, ClientCloses
    <3> QED
      BY <1>1, <3>1 DEF Counted, Typed
  <2>3. CASE ~req[r].released
    <3>1. Held' = Held \ {r} /\ r \in Held /\ inflight' = inflight - 1
      BY <1>2, <1>3, <2>3 DEF Held, ClientCloses
    <3>2. Cardinality(Held \ {r}) = Cardinality(Held) - 1
      BY <2>1, <3>1, HeldFinite, FS_RemoveElement
    <3>3. Cardinality(Held') \in Nat
      BY <2>1, <3>1, HeldFinite
    <3> QED
      BY <1>1, <3>1, <3>2, <3>3, GatewayAssumption DEF Counted, Typed
  <2> QED
    BY <2>2, <2>3
<1>5. req[r].outcome = "none"
  BY <1>1 DEF Coherent
<1>6. Moved(r)
  BY <1>1, <1>2, <1>3, <1>5 DEF Moved, Coherent, storeVars
<1>7. \A s \in Requests : Moved(s) /\ (req'[s] = req[s] \/ req'[s].outcome # "ALLOW")
  BY <1>2, <1>3, <1>5, <1>6 DEF Moved
<1>8. Pending'
  BY <1>1, <1>2, <1>3 DEF Pending, Typed, pipeVars, verifierVars
<1> QED
  BY <1>1, <1>3, <1>4, <1>7, <1>8, QuietAdvances DEF Typed, pipeVars, verifierVars

----------------------------------------------------------------------------
(* Timers, deaths and restarts.                                            *)

LEMMA AllEnded ==
  ASSUME IInv, NEW S \in SUBSET Requests, \A r \in S : req[r].pc # "done",
         EndAll(S, "UNAVAILABLE"), UNCHANGED issued
  PROVE  /\ req' \in [Requests -> Handlers] /\ inflight' \in 0 .. MaxInflight /\ Counted'
         /\ \A r \in Requests : Moved(r) /\ (r \notin S => req'[r] = req[r])
         /\ \A r \in S : req'[r].pc = "done" /\ req'[r].outcome # "ALLOW"
<1>1. "UNAVAILABLE" \in Statuses
  BY DEF Statuses
<1>2. /\ req' \in [Requests -> Handlers] /\ inflight' \in 0 .. MaxInflight /\ Counted'
      /\ \A r \in Requests :
           req'[r] = IF r \in S THEN Ended(req[r], "UNAVAILABLE") ELSE req[r]
  BY <1>1, SlotsGiven DEF IInv
<1>3. ASSUME NEW r \in S
      PROVE  Moved(r) /\ req'[r].pc = "done" /\ req'[r].outcome # "ALLOW"
  <2>1. req'[r] = Ended(req[r], "UNAVAILABLE") /\ req[r].pc # "done"
    BY <1>2
  <2>2. Moved(r)
    BY <1>1, <2>1, EndsMoved
  <2>3. req[r] \in Handlers /\ req[r].outcome = "none"
    BY DEF IInv, Typed, Coherent
  <2> QED
    BY <2>1, <2>2, <2>3 DEF Ended, Handlers
<1> QED
  BY <1>2, <1>3 DEF Moved

LEMMA TimeoutAdvances ==
  ASSUME IInv, NEW r \in Requests, Timeout(r)
  PROVE  Advance
<1>1. Typed /\ Pending /\ req[r].pc # "done"
  BY DEF IInv, Timeout, Pending, StoreOps
<1>2. /\ EndAll({r}, "UNAVAILABLE") /\ storePending' = storePending \ {r}
      /\ verifierPending' = verifierPending \ {r}
      /\ UNCHANGED <<storeVars, usage, storeUp, storeIn, storeOut, storeFailed, verifierFailed>>
  BY DEF Timeout, End
<1>3. /\ req' \in [Requests -> Handlers] /\ inflight' \in 0 .. MaxInflight /\ Counted'
      /\ \A s \in Requests : Moved(s) /\ (s # r => req'[s] = req[s])
      /\ req'[r].outcome # "ALLOW"
  BY <1>1, <1>2, AllEnded DEF storeVars
<1>4. Pending'
  BY <1>1, <1>2, <1>3 DEF Pending, Typed
<1> QED
  BY <1>1, <1>2, <1>3, <1>4, QuietAdvances DEF Typed

LEMMA StoreDiesAdvances ==
  ASSUME IInv, StoreDies
  PROVE  Advance
<1>1. Typed /\ Counted /\ Pending
  BY DEF IInv
<1>2. /\ storeIn' = <<>> /\ ~storeUp'
      /\ UNCHANGED <<storeVars, usage, req, inflight, storeOut, storePending, storeFailed,
                     verifierVars>>
  BY DEF StoreDies
<1>3. Pending' /\ Counted' /\ \A r \in Requests : Moved(r)
  BY <1>1, <1>2 DEF Pending, Counted, Held, Moved, verifierVars
<1>4. storeUp' \in BOOLEAN
  BY DEF StoreDies
<1> QED
  BY <1>1, <1>2, <1>3, <1>4, NoLines, QuietAdvances DEF Typed, verifierVars

LEMMA StoreExitAdvances ==
  ASSUME IInv, StoreExit
  PROVE  Advance
<1>1. Typed /\ Pending /\ \A r \in storePending : req[r].pc # "done" /\ r \notin verifierPending
  BY DEF IInv, Pending, StoreOps
<1>2. /\ storeFailed' = TRUE /\ EndAll(storePending, "UNAVAILABLE")
      /\ storePending' = {} /\ storeOut' = <<>>
      /\ UNCHANGED <<storeVars, usage, storeUp, storeIn, verifierVars>>
  BY DEF StoreExit
<1>3. /\ req' \in [Requests -> Handlers] /\ inflight' \in 0 .. MaxInflight /\ Counted'
      /\ \A r \in Requests : Moved(r) /\ (r \notin storePending => req'[r] = req[r])
      /\ \A r \in storePending : req'[r].pc = "done" /\ req'[r].outcome # "ALLOW"
  BY <1>1, <1>2, AllEnded DEF Typed, storeVars
<1>4. Pending'
  BY <1>1, <1>2, <1>3 DEF Pending, Typed, verifierVars
<1> QED
  BY <1>1, <1>2, <1>3, <1>4, NoLines, QuietAdvances DEF Typed, verifierVars

LEMMA VerifierExitAdvances ==
  ASSUME IInv, VerifierExit
  PROVE  Advance
<1>1. Typed /\ Pending /\ \A r \in verifierPending : req[r].pc # "done" /\ r \notin storePending
  BY DEF IInv, Pending, StoreOps
<1>2. /\ verifierFailed' = TRUE /\ EndAll(verifierPending, "UNAVAILABLE")
      /\ verifierPending' = {} /\ UNCHANGED <<storeVars, usage, pipeVars>>
  BY DEF VerifierExit
<1>3. /\ req' \in [Requests -> Handlers] /\ inflight' \in 0 .. MaxInflight /\ Counted'
      /\ \A r \in Requests : Moved(r) /\ (r \notin verifierPending => req'[r] = req[r])
      /\ \A r \in verifierPending : req'[r].pc = "done" /\ req'[r].outcome # "ALLOW"
  BY <1>1, <1>2, AllEnded DEF Typed, storeVars
<1>4. Pending'
  BY <1>1, <1>2, <1>3 DEF Pending, Typed, pipeVars
<1> QED
  BY <1>1, <1>2, <1>3, <1>4, QuietAdvances DEF Typed, pipeVars

LEMMA RestartAdvances ==
  ASSUME IInv, Restart
  PROVE  Advance
<1>1. Typed
  BY DEF IInv
<1>2. /\ inflight' = 0 /\ storeUp' = TRUE /\ storeIn' = <<>> /\ storeOut' = <<>>
      /\ storePending' = {} /\ verifierPending' = {}
      /\ storeFailed' = FALSE /\ verifierFailed' = FALSE
      /\ UNCHANGED <<storeVars, usage>>
  BY DEF Restart
<1>3. \A h \in Handlers :
        LET g == [h EXCEPT !.pc = "done", !.released = TRUE]
        IN /\ g \in Handlers /\ g.pc = "done" /\ g.released /\ g.claim = h.claim
           /\ g.now = h.now /\ g.kind = h.kind /\ g.outcome = h.outcome
  BY DEF Handlers
<1>4. \A r \in Requests :
        req'[r] = IF r \in Active THEN [req[r] EXCEPT !.pc = "done", !.released = TRUE] ELSE req[r]
  BY DEF Restart
<1>5. req' \in [Requests -> Handlers]
  BY <1>1, <1>3 DEF Restart, Typed
<1>6. ASSUME NEW r \in Requests
      PROVE  Moved(r) /\ req'[r].released /\ (req'[r] = req[r] \/ req'[r].outcome # "ALLOW")
  <2>1. Coherent(r) /\ req[r] \in Handlers
    BY <1>1 DEF IInv, Typed
  <2>2. CASE r \in Active
    <3>1. /\ req'[r].pc = "done" /\ req'[r].released /\ req'[r].claim = req[r].claim
          /\ req'[r].now = req[r].now /\ req'[r].kind = req[r].kind
          /\ req'[r].outcome = req[r].outcome
      BY <1>3, <1>4, <2>1, <2>2
    <3>2. req[r].pc # "done" /\ req[r].outcome = "none"
      BY <2>1, <2>2 DEF Active, Coherent
    <3> QED
      BY <1>2, <2>1, <3>1, <3>2 DEF Moved, Coherent, storeVars
  <2>3. CASE r \notin Active
    BY <1>4, <2>1, <2>3 DEF Moved, Coherent, Active, Handlers
  <2> QED
    BY <2>2, <2>3
<1>7. Held' = {}
  BY <1>6 DEF Held
<1>8. Counted' /\ inflight' \in 0 .. MaxInflight
  BY <1>2, <1>7, FS_EmptySet, GatewayAssumption DEF Counted
<1>9. Pending'
  BY <1>2 DEF Pending
<1> QED
  BY <1>2, <1>5, <1>6, <1>8, <1>9, NoLines, QuietAdvances

(* The clock moves: the only step on the store's variables but its own.    *)
LEMMA ClockAdvances ==
  ASSUME IInv, ClockMoves
  PROVE  Advance
<1>1. /\ Store!ClockMoves /\ tai' \in Store!Instants
      /\ UNCHANGED <<issued, database, usage, req, inflight, pipeVars, verifierVars>>
  BY DEF ClockMoves, Store!ClockMoves, Store!db, database
<1>2. Typed'
  BY <1>1 DEF IInv, Typed, database, pipeVars, verifierVars
<1>3. Counted' /\ Pending' /\ \A r \in Requests : Moved(r)
  BY <1>1 DEF IInv, Counted, Held, Pending, Moved, pipeVars, verifierVars
<1>4. IInv'
  BY <1>1, <1>2, <1>3, QuietKeeps DEF database, pipeVars
<1>5. [Promise!Next]_(Promise!avars)
  BY <1>1, <1>3, NothingShows DEF database
<1> QED
  BY <1>1, <1>4, <1>5 DEF Advance, Store!Next

LEMMA StutterAdvances ==
  ASSUME IInv, UNCHANGED vars
  PROVE  Advance
<1>1. Counted' /\ Pending' /\ \A r \in Requests : Moved(r)
  BY DEF IInv, Counted, Held, Pending, Moved, vars, pipeVars, verifierVars
<1> QED
  BY <1>1, QuietAdvances DEF IInv, Typed, vars, pipeVars, verifierVars

----------------------------------------------------------------------------
(* The verifier's answer and the store's.                                  *)

LEMMA VerifierAdvances ==
  ASSUME IInv, NEW r \in Requests, VerifierAnswers(r)
  PROVE  Advance
<1> DEFINE h == req[r]
<1> DEFINE rec == issued[h.claim]
<1>1. /\ Typed /\ Pending /\ Coherent(r) /\ h \in Handlers /\ h.pc = "verify"
      /\ h.claim \in DOMAIN issued /\ r \notin storePending
  BY DEF IInv, Typed, VerifierAnswers, Pending, Coherent, StoreOps
<1>2. /\ verifierPending' = verifierPending \ {r}
      /\ UNCHANGED <<storeVars, usage, storeUp, storeOut, storeFailed, verifierFailed>>
  BY DEF VerifierAnswers
<1>3. CASE End(r, "REJECT") /\ UNCHANGED <<storeIn, storePending>>
  <2>1. "REJECT" \in Statuses \ {"ALLOW", "SEALED"}
    BY DEF Statuses
  <2>2. /\ req' \in [Requests -> Handlers] /\ inflight' \in 0 .. MaxInflight /\ Counted'
        /\ req'[r].outcome # "ALLOW"
        /\ \A s \in Requests : Moved(s) /\ (s # r => req'[s] = req[s])
    BY <1>1, <1>2, <1>3, <2>1, OneEnded DEF storeVars
  <2>3. Pending'
    BY <1>1, <1>2, <1>3, <2>2 DEF Pending, Typed
  <2> QED
    BY <1>1, <1>2, <1>3, <2>2, <2>3, QuietAdvances DEF Typed
<1>4. CASE /\ Store!Fresh(rec, h.now)
           /\ CallStore(r, h, [req |-> r, op |-> "claim",
                               request |-> Store!ClaimRequest(h.claim, rec, h.now)])
  <2> DEFINE x == <<h.claim, rec, h.now>>
  <2> DEFINE q == [req |-> r, op |-> "claim", request |-> Store!ClaimRequest(h.claim, rec, h.now)]
  <2>1. x \in Claims \X Store!Record \X Store!Instants
    BY <1>1 DEF Typed, Handlers
  <2>2. Store!ClaimRequest(x[1], x[2], x[3]) \in ClaimRequests
    BY <2>1 DEF ClaimRequests
  <2>3. q \in Asked
    BY <2>2 DEF Asked
  <2>4. q.req = r /\ q.op = "claim" /\ q.request = Store!ClaimRequest(h.claim, rec, h.now)
    OBVIOUS
  <2>5. CallStore(r, h, q)
    BY <1>4
  <2> HIDE DEF x, q
  <2> QED
    BY <1>1, <1>2, <1>4, <2>3, <2>4, <2>5, CallAdvances
<1> QED
  BY <1>3, <1>4 DEF VerifierAnswers

(* An answer is a line that was in the pipe, and what is left is a part.   *)
Reads(a) ==
  /\ a \in Lines(storeOut) /\ a \in Answered
  /\ storeOut' \in Seq(Answered) /\ Lines(storeOut') \subseteq Lines(storeOut)
  /\ UNCHANGED <<usage, storeUp, storeFailed>>

(* The handler responds; with ALLOW it is the first for its claim.         *)
LEMMA RespondAdvances ==
  ASSUME IInv, NEW a, Reads(a), NEW r \in storePending,
         NEW status \in Statuses, Respond(r, status),
         status = "ALLOW" => Won(r),
         status = "SEALED" => Paid(r) /\ req[r].claim \in DOMAIN issued
  PROVE  Advance
<1>1. /\ Typed /\ Counted /\ Pending /\ r \in Requests /\ Coherent(r) /\ req[r] \in Handlers
      /\ req[r].pc \in StoreOps
  BY DEF IInv, Typed, Pending
<1>2. /\ End(r, status) /\ storePending' = storePending \ {r}
      /\ UNCHANGED <<storeVars, storeIn, verifierVars>>
  BY DEF Respond
<1>3. req[r].pc # "done" /\ req[r].outcome = "none" /\ r \notin verifierPending
  BY <1>1 DEF StoreOps, Coherent, Pending
<1>4. /\ req' \in [Requests -> Handlers] /\ inflight' \in 0 .. MaxInflight /\ Counted'
      /\ req'[r] = Ended(req[r], status) /\ \A s \in Requests \ {r} : req'[s] = req[s]
  BY <1>1, <1>2, OneEnds
<1>5. Moved(r)
  BY <1>1, <1>2, <1>3, <1>4, EndsMoved DEF storeVars
<1>6. \A s \in Requests : Moved(s)
  BY <1>4, <1>5 DEF Moved
<1>7. Pending'
  BY <1>1, <1>2, <1>3, <1>4 DEF Pending, Typed, verifierVars
<1>8. Typed'
  BY <1>1, <1>2, <1>4 DEF Typed, storeVars, Reads, verifierVars
<1>9. IInv'
  BY <1>2, <1>4, <1>6, <1>7, <1>8, QuietKeeps DEF storeVars, Reads
<1>10. /\ req'[r].claim = req[r].claim
       /\ req'[r].outcome = IF req[r].closed THEN "none" ELSE status
  BY <1>1, <1>3, <1>4 DEF Ended, Handlers
<1>11. CASE req'[r].outcome # "ALLOW"
  <2>1. [Promise!Next]_(Promise!avars)
    BY <1>2, <1>4, <1>6, <1>11, NothingShows DEF storeVars
  <2> QED
    BY <1>2, <1>9, <2>1 DEF Advance, storeVars, Store!svars
<1>12. CASE req'[r].outcome = "ALLOW"
  <2>0. PICK c \in Claims : c = req[r].claim /\ c \in DOMAIN receipts
    BY <1>1, <1>10, <1>12 DEF IInv, Winners, Typed
  <2>1. Won(r)
    BY <1>10, <1>12
  <2>2. AllowedTo(c) = {}
    BY <1>1, <1>3, <2>0, <2>1 DEF AllowedTo, IInv, Winners, Won
  <2>3. AllowedTo(c)' = {r}
    BY <1>1, <1>4, <1>10, <1>12, <2>0, <2>2 DEF AllowedTo
  <2>4. \A d : d # c => AllowedTo(d)' = AllowedTo(d)
    BY <1>4, <1>10, <2>0 DEF AllowedTo
  <2>5. Cardinality(AllowedTo(c)) = 0 /\ Cardinality(AllowedTo(c)') = 1
    BY <2>2, <2>3, FS_EmptySet, FS_Singleton
  <2> DEFINE allowed == [d \in Claims |-> Cardinality({s \in Requests :
                           req[s].outcome = "ALLOW" /\ req[s].claim = d})]
  <2>6. allowed = [d \in Claims |-> Cardinality(AllowedTo(d))]
    BY DEF AllowedTo
  <2>7. allowed' = [d \in Claims |-> Cardinality(AllowedTo(d)')]
    BY DEF AllowedTo
  <2> HIDE DEF allowed
  <2>8. allowed[c] = 0 /\ allowed' = [allowed EXCEPT ![c] = 1]
    <3>1. ASSUME NEW d \in Claims
          PROVE  Cardinality(AllowedTo(d)') = IF d = c THEN 1 ELSE allowed[d]
      <4>1. allowed[d] = Cardinality(AllowedTo(d))
        BY <2>6
      <4>2. CASE d = c
        BY <2>5, <4>2
      <4>3. CASE d # c
        <5>1. AllowedTo(d)' = AllowedTo(d)
          BY <2>4, <4>3
        <5> QED
          BY <4>1, <4>3, <5>1
      <4> QED
        BY <4>2, <4>3
    <3>2. allowed' = [d \in Claims |-> IF d = c THEN 1 ELSE allowed[d]]
      BY <2>7, <3>1
    <3>3. [allowed EXCEPT ![c] = 1] = [d \in Claims |-> IF d = c THEN 1 ELSE allowed[d]]
      BY <2>6
    <3> QED
      BY <2>1, <2>5, <2>6, <3>2, <3>3
  <2>9. Promise!Allow(c)
    BY <1>2, <2>0, <2>8 DEF Promise!Allow, storeVars, allowed
  <2>10. Promise!Next
    BY <2>9 DEF Promise!Next
  <2> QED
    BY <1>2, <1>9, <2>10 DEF Advance, storeVars, Store!svars
<1> QED
  BY <1>11, <1>12

(* A record is sealed: ReplayStore's Issue, and the call that meters it.   *)
LEMMA SealAdvances ==
  ASSUME IInv, NEW a, Reads(a), NEW r \in storePending, req[r].pc = "clock",
         AfterClockSeal(r, a.now)
  PROVE  Advance
<1>1. /\ Typed /\ Counted /\ Pending /\ r \in Requests /\ Coherent(r) /\ req[r] \in Handlers
      /\ r \notin verifierPending /\ a.now \in Store!Instants
  BY DEF IInv, Typed, Pending, Reads, Answered
<1>2. PICK c \in Claims \ DOMAIN issued, d \in 0 .. MaxDispersion :
        /\ issued' = [e \in DOMAIN issued \cup {c} |->
                        IF e = c THEN [ts |-> a.now, dispersion |-> d] ELSE issued[e]]
        /\ CallStore(r, [req[r] EXCEPT !.claim = c], [req |-> r, op |-> "seal_usage"])
        /\ UNCHANGED <<tai, database, verifierVars>>
  BY DEF AfterClockSeal
<1> DEFINE h == [req[r] EXCEPT !.claim = c]
<1> DEFINE q == [req |-> r, op |-> "seal_usage"]
<1>3. /\ h \in Handlers /\ h.claim = c /\ h.released = req[r].released
      /\ h.outcome = req[r].outcome
  BY <1>1 DEF Handlers
<1>4. q \in Asked /\ q.req = r /\ q.op = "seal_usage"
  BY <1>1 DEF Asked
<1>5. CallStore(r, h, q)
  BY <1>2
<1> HIDE DEF h, q
<1>6. [ts |-> a.now, dispersion |-> d] \in Store!Record
  BY <1>1, <1>2 DEF Store!Record
<1>7. /\ c \in DOMAIN issued' /\ DOMAIN issued' \subseteq Claims
      /\ \A e \in DOMAIN issued' : issued'[e] \in Store!Record
      /\ \A e \in DOMAIN issued : e \in DOMAIN issued' /\ issued'[e] = issued[e]
  BY <1>1, <1>2, <1>6 DEF Typed
<1>8. /\ req' \in [Requests -> Handlers] /\ inflight' \in 0 .. MaxInflight /\ Counted'
      /\ \A s \in Requests : Moved(s) /\ (s # r => req'[s] = req[s])
      /\ req'[r].outcome # "ALLOW" /\ storeIn' \in Seq(Asked)
      /\ \A x \in Lines(storeIn') : x \in Lines(storeIn) \/ Speaks(x)'
      /\ storePending' \subseteq storePending \cup {r}
      /\ r \in storePending' => req'[r].pc \in StoreOps
  BY <1>1, <1>3, <1>4, <1>5, <1>7, StoreCalled
<1>9. Typed'
  BY <1>1, <1>2, <1>7, <1>8 DEF Typed, Reads, database, verifierVars
<1>10. Pending'
  BY <1>1, <1>2, <1>8 DEF Pending, Typed, verifierVars
<1>11. IInv'
  BY <1>2, <1>7, <1>8, <1>9, <1>10, QuietKeeps DEF Reads, database
<1>12. Store!Issue(c)
  BY <1>2, <1>6 DEF Store!Issue, Store!db, database
<1>13. [Promise!Next]_(Promise!avars)
  BY <1>2, <1>8, NothingShows DEF database
<1> QED
  BY <1>11, <1>12, <1>13 DEF Advance, Store!Next

(* A record is given to the verifier, or nobody can verify it.             *)
LEMMA VerifyAdvances ==
  ASSUME IInv, NEW a, Reads(a), NEW r \in storePending, req[r].pc = "clock",
         req[r].kind = "verify", AfterClockVerify(r, a.now)
  PROVE  Advance
<1>1. /\ Typed /\ Counted /\ Pending /\ r \in Requests /\ Coherent(r) /\ req[r] \in Handlers
      /\ r \notin verifierPending /\ a.now \in Store!Instants
      /\ req[r].claim \in DOMAIN issued /\ req[r].outcome = "none"
  BY DEF IInv, Typed, Pending, Reads, Answered, Coherent
<1>2. /\ storePending' = storePending \ {r}
      /\ UNCHANGED <<storeVars, storeIn, verifierFailed>>
  BY DEF AfterClockVerify
<1>3. CASE End(r, "UNAVAILABLE") /\ UNCHANGED verifierPending
  <2>1. "UNAVAILABLE" \in Statuses \ {"ALLOW", "SEALED"}
    BY DEF Statuses
  <2>2. /\ req' \in [Requests -> Handlers] /\ inflight' \in 0 .. MaxInflight /\ Counted'
        /\ req'[r].outcome # "ALLOW"
        /\ \A s \in Requests : Moved(s) /\ (s # r => req'[s] = req[s])
    BY <1>1, <1>2, <1>3, <2>1, OneEnded DEF storeVars
  <2>3. Pending'
    BY <1>1, <1>2, <1>3, <2>2 DEF Pending, Typed
  <2> QED
    BY <1>1, <1>2, <1>3, <2>2, <2>3, QuietAdvances DEF Typed, Reads
<1>4. CASE /\ req' = [req EXCEPT ![r] = [[req[r] EXCEPT !.now = a.now] EXCEPT !.pc = "verify"]]
           /\ verifierPending' = verifierPending \cup {r} /\ UNCHANGED inflight
  <2> DEFINE h == [[req[r] EXCEPT !.now = a.now] EXCEPT !.pc = "verify"]
  <2>1. /\ h \in Handlers /\ h.pc = "verify" /\ h.claim = req[r].claim /\ h.kind = "verify"
        /\ h.released = req[r].released /\ h.outcome = "none"
    BY <1>1 DEF Handlers
  <2> HIDE DEF h
  <2>2. /\ req' \in [Requests -> Handlers] /\ inflight' \in 0 .. MaxInflight /\ Counted'
        /\ req'[r] = h /\ \A s \in Requests \ {r} : req'[s] = req[s]
    BY <1>1, <1>4, <2>1, SlotKept DEF h
  <2>3. Moved(r) /\ req'[r].outcome # "ALLOW"
    BY <1>1, <1>2, <2>1, <2>2 DEF Moved, Coherent, storeVars
  <2>4. \A s \in Requests : Moved(s)
    BY <2>2, <2>3 DEF Moved
  <2>5. Pending'
    BY <1>1, <1>2, <1>4, <2>1, <2>2 DEF Pending, Typed
  <2> QED
    BY <1>1, <1>2, <1>4, <2>2, <2>3, <2>4, <2>5, QuietAdvances DEF Typed, Reads
<1> QED
  BY <1>3, <1>4 DEF AfterClockVerify, CallVerifier

LEMMA ReadAdvances ==
  ASSUME IInv, ReadAnswer
  PROVE  Advance
<1> DEFINE a == Head(storeOut)
<1> DEFINE r == a.req
<1>1. Typed /\ Counted /\ Pending
  BY DEF IInv
<1>2. Reads(a)
  BY <1>1, LineRead DEF Typed, ReadAnswer, StoreLineRead, Reads
<1>3. CASE ~Awaited(a) /\ UNCHANGED <<storeVars, req, inflight, storeIn, storePending, verifierVars>>
  <2>1. Counted' /\ Pending' /\ \A s \in Requests : Moved(s)
    BY <1>1, <1>3 DEF Counted, Held, Pending, Moved, verifierVars
  <2> QED
    BY <1>1, <1>2, <1>3, <2>1, QuietAdvances DEF Typed, Reads, verifierVars
<1>4. CASE Awaited(a) /\ Continue(r, a)
  <2>1. r \in storePending /\ r \in Requests /\ req[r].pc = a.op
    BY <1>1, <1>4 DEF Awaited, Typed
  <2>2. a.ok => Granted(r, a.op)
    BY <1>2 DEF Granted, Reads
  <2>3. \A s \in {"REJECT", "HEALTHY", "DEGRADED", "SEALED", "ALLOW"} : s \in Statuses
    BY DEF Statuses
  <2> HIDE DEF a
  <2>4. CASE Respond(r, "REJECT")
    BY <1>2, <2>1, <2>3, <2>4, RespondAdvances
  <2>5. CASE Respond(r, HealthStatus)
    <3>1. HealthStatus \in Statuses \ {"ALLOW", "SEALED"}
      BY DEF HealthStatus, Statuses
    <3> QED
      BY <1>2, <2>1, <2>5, <3>1, RespondAdvances
  <2>6. CASE a.op = "clock" /\ AfterClockSeal(r, a.now)
    BY <1>2, <2>1, <2>6, SealAdvances
  <2>7. CASE a.op = "clock" /\ req[r].kind = "verify" /\ AfterClockVerify(r, a.now)
    BY <1>2, <2>1, <2>7, VerifyAdvances
  <2>8. CASE a.ok /\ a.op = "seal_usage" /\ Respond(r, "SEALED")
    <3>1. Paid(r) /\ req[r].claim \in DOMAIN issued
      BY <2>1, <2>2, <2>8 DEF Paid, IInv, Coherent
    <3> QED
      BY <1>2, <2>1, <2>3, <2>8, <3>1, RespondAdvances
  <2>9. CASE a.ok /\ a.op = "claim" /\ Respond(r, "ALLOW")
    <3>1. Won(r)
      BY <2>2, <2>9 DEF Won
    <3> QED
      BY <1>2, <2>1, <2>3, <2>9, <3>1, RespondAdvances
  <2> QED
    BY <1>4, <2>4, <2>5, <2>6, <2>7, <2>8, <2>9 DEF Continue
<1> QED
  BY <1>3, <1>4 DEF ReadAnswer

----------------------------------------------------------------------------
(* The store executes a line.                                              *)

LEMMA AnswerGiven ==
  ASSUME IInv, NEW q, q = Head(storeIn), storeIn # <<>>, NEW ok \in BOOLEAN, Answer(q, ok)
  PROVE  /\ q \in Lines(storeIn) /\ q \in Asked /\ Speaks(q)
         /\ storeIn' \in Seq(Asked) /\ Lines(storeIn') \subseteq Lines(storeIn)
         /\ storeOut' \in Seq(Answered)
         /\ \A a : a \in Lines(storeOut') <=>
              a \in Lines(storeOut) \/ a = [req |-> q.req, op |-> q.op, ok |-> ok, now |-> tai]
         /\ Counted' /\ Pending' /\ \A r \in Requests : Moved(r)
         /\ UNCHANGED <<req, inflight, storeUp, storePending, storeFailed, verifierVars>>
<1>1. Typed
  BY DEF IInv
<1>2. /\ q \in Lines(storeIn) /\ q \in Asked
      /\ Tail(storeIn) \in Seq(Asked) /\ Lines(Tail(storeIn)) \subseteq Lines(storeIn)
  BY <1>1, LineRead DEF Typed
<1>3. [req |-> q.req, op |-> q.op, ok |-> ok, now |-> tai] \in Answered
  BY <1>1, <1>2 DEF Typed, Asked, Answered, StoreOps
<1>4. /\ storeIn' = Tail(storeIn)
      /\ storeOut' = Append(storeOut, [req |-> q.req, op |-> q.op, ok |-> ok, now |-> tai])
      /\ UNCHANGED <<req, inflight, storeUp, storePending, storeFailed, verifierVars>>
  BY DEF Answer
<1>5. /\ storeOut' \in Seq(Answered)
      /\ Lines(storeOut') = Lines(storeOut)
                              \cup {[req |-> q.req, op |-> q.op, ok |-> ok, now |-> tai]}
  BY <1>1, <1>3, <1>4, LineWritten DEF Typed
<1>6. Counted' /\ Pending' /\ \A r \in Requests : Moved(r)
  BY <1>4 DEF IInv, Counted, Held, Pending, Moved, verifierVars
<1>7. Speaks(q)
  BY <1>2 DEF IInv, Spoken
<1> QED
  BY <1>2, <1>4, <1>5, <1>6, <1>7

(* An answer that grants nothing: a failure, or a clock read.              *)
LEMMA NothingGranted ==
  ASSUME IInv, NEW q, q = Head(storeIn), storeIn # <<>>, NEW ok \in BOOLEAN, Answer(q, ok),
         ~ok \/ q.op = "clock", UNCHANGED <<storeVars, usage>>
  PROVE  Advance
<1>1. /\ storeIn' \in Seq(Asked) /\ Lines(storeIn') \subseteq Lines(storeIn)
      /\ storeOut' \in Seq(Answered)
      /\ \A a : a \in Lines(storeOut') <=>
           a \in Lines(storeOut) \/ a = [req |-> q.req, op |-> q.op, ok |-> ok, now |-> tai]
      /\ Counted' /\ Pending' /\ \A r \in Requests : Moved(r)
      /\ UNCHANGED <<req, inflight, storeUp, storePending, storeFailed, verifierVars>>
  BY AnswerGiven
<1>2. \A a \in Lines(storeOut') : a \in Lines(storeOut) \/ ~a.ok \/ a.op = "clock"
  BY <1>1
<1> QED
  BY <1>1, <1>2, QuietAdvances DEF IInv, Typed, verifierVars

(* A unit is metered for the one request that asked for it.                *)
LEMMA UnitMetered ==
  ASSUME IInv, NEW q, q = Head(storeIn), storeIn # <<>>, Answer(q, TRUE),
         q.op = "seal_usage", usage' = usage + 1, UNCHANGED storeVars
  PROVE  Advance
<1>1. /\ q \in Lines(storeIn) /\ q \in Asked
      /\ storeIn' \in Seq(Asked) /\ Lines(storeIn') \subseteq Lines(storeIn)
      /\ storeOut' \in Seq(Answered)
      /\ \A a : a \in Lines(storeOut') <=>
           a \in Lines(storeOut) \/ a = [req |-> q.req, op |-> q.op, ok |-> TRUE, now |-> tai]
      /\ Counted' /\ Pending' /\ \A r \in Requests : Moved(r)
      /\ UNCHANGED <<req, inflight, storeUp, storePending, storeFailed, verifierVars>>
  BY AnswerGiven
<1>2. Typed /\ q.req \in Requests /\ usage \in Nat
  BY <1>1 DEF IInv, Typed, Asked
<1>3. Typed'
  BY <1>1, <1>2 DEF Typed, storeVars, verifierVars
<1>4. Spoken'
  BY <1>1 DEF IInv, Spoken, Speaks, Store!Fresh, Store!ClaimRequest, Store!ValidUntil,
              Store!Expires, Store!RoundUp, storeVars
<1>5. \A r : Won(r)' <=> Won(r)
  BY <1>1 DEF Won, Granted
<1>6. Winners'
  BY <1>1, <1>5 DEF IInv, Winners, storeVars
<1>7. PICK Before : Before = {r \in Requests : Paid(r)}
  OBVIOUS
<1>8. PICK After : After = {r \in Requests : Paid(r)'}
  OBVIOUS
<1>9. \A r \in Requests : Paid(r)' => Paid(r) \/ r = q.req
  BY <1>1 DEF Paid, Granted
<1>10. After \subseteq Before \cup {q.req} /\ Before \cup {q.req} \in SUBSET Requests
  BY <1>2, <1>7, <1>8, <1>9
<1>11. /\ Cardinality(After) <= Cardinality(Before \cup {q.req})
       /\ Cardinality(Before \cup {q.req}) <= Cardinality(Before) + 1
       /\ Cardinality(After) \in Nat /\ Cardinality(Before) \in Nat
       /\ Cardinality(Before \cup {q.req}) \in Nat
  <2>1. Before \in SUBSET Requests /\ After \in SUBSET Requests
    BY <1>7, <1>8
  <2>2. IsFiniteSet(Before) /\ IsFiniteSet(Before \cup {q.req})
    BY <1>10, <2>1, HeldFinite
  <2> QED
    BY <1>10, <2>1, <2>2, HeldFinite, FS_Subset, FS_AddElement
<1>12. Cardinality(Before) <= usage
  BY <1>7 DEF IInv, Metered
<1>13. Metered'
  <2>1. Cardinality(After) <= usage'
    BY <1>2, <1>11, <1>12
  <2> QED
    BY <1>8, <2>1 DEF Metered
<1>14. \A r \in Requests : Coherent(r)'
  BY <1>1 DEF IInv, Coherent, storeVars
<1>15. [Promise!Next]_(Promise!avars)
  BY <1>1, NothingShows DEF storeVars
<1> QED
  BY <1>1, <1>3, <1>4, <1>6, <1>13, <1>14, <1>15 DEF Advance, IInv, storeVars, Store!svars

(* An admission: the receipt table had no receipt of the claim, so no      *)
(* other handler has won it.                                               *)
LEMMA ClaimAdmitted ==
  ASSUME IInv, NEW q, q = Head(storeIn), storeIn # <<>>, q.op = "claim",
         Store!Verdict(q.request, tai) = "ok", Store!Claim(q.request), Answer(q, TRUE),
         UNCHANGED usage
  PROVE  Advance
<1>1. /\ q \in Lines(storeIn) /\ q \in Asked /\ Speaks(q)
      /\ storeIn' \in Seq(Asked) /\ Lines(storeIn') \subseteq Lines(storeIn)
      /\ storeOut' \in Seq(Answered)
      /\ \A a : a \in Lines(storeOut') <=>
           a \in Lines(storeOut) \/ a = [req |-> q.req, op |-> q.op, ok |-> TRUE, now |-> tai]
      /\ Counted' /\ Pending' /\ \A r \in Requests : Moved(r)
      /\ UNCHANGED <<req, inflight, storeUp, storePending, storeFailed, verifierVars>>
  BY AnswerGiven
<1>2. PICK r \in Requests : r = q.req
  BY <1>1 DEF Asked
<1>3. PICK c \in Claims : c = req[r].claim
  BY <1>1, <1>2 DEF Speaks, IInv, Typed
<1>4. PICK now \in Store!Instants : now = req[r].now
  BY <1>2 DEF IInv, Typed, Handlers
<1>5. /\ req[r].pc \in {"claim", "done"} /\ c \in DOMAIN issued /\ Store!Fresh(issued[c], now)
      /\ q.request = Store!ClaimRequest(c, issued[c], now)
  BY <1>1, <1>2, <1>3, <1>4 DEF Speaks
<1>6. q.request.claim = c /\ q.request.admittedTai = now
  BY <1>5 DEF Store!ClaimRequest
<1>7. c \notin DOMAIN receipts
  BY <1>6 DEF Store!Verdict, Store!ReceiptConflict
<1>8. /\ receipts' = [e \in DOMAIN receipts \cup {c} |-> IF e = c THEN now ELSE receipts[e]]
      /\ UNCHANGED <<tai, issued>>
  BY <1>6 DEF Store!Claim, Store!Commit
<1>9. /\ DOMAIN receipts' = DOMAIN receipts \cup {c} /\ receipts'[c] = now
      /\ \A e \in DOMAIN receipts : receipts'[e] = receipts[e]
  BY <1>7, <1>8
<1>10. Typed'
  BY <1>1, <1>8, <1>9 DEF IInv, Typed, verifierVars
<1>11. Spoken'
  BY <1>1, <1>8 DEF IInv, Spoken, Speaks, Store!Fresh, Store!ClaimRequest, Store!ValidUntil,
                    Store!Expires, Store!RoundUp
<1>12. \A s : (Won(s)' <=> Won(s) \/ s = r) /\ (Paid(s)' <=> Paid(s))
  <2>1. PICK a : a = [req |-> q.req, op |-> q.op, ok |-> TRUE, now |-> tai]
    OBVIOUS
  <2>2. a.req = r /\ a.op = "claim" /\ a.ok
    BY <1>2, <2>1
  <2>3. \A x : x \in Lines(storeOut') <=> x \in Lines(storeOut) \/ x = a
    BY <1>1, <2>1
  <2>4. \A s, op : Granted(s, op)' <=> Granted(s, op) \/ (s = r /\ op = "claim")
    BY <2>2, <2>3 DEF Granted
  <2> QED
    BY <1>1, <2>4 DEF Won, Paid
<1>13. \A s \in Requests : Won(s) => req[s].claim \in DOMAIN receipts /\ req[s].claim # c
  BY <1>7 DEF IInv, Winners
<1>14. Winners'
  <2>1. ASSUME NEW s \in Requests, Won(s)'
        PROVE  /\ req[s].pc \in {"claim", "done"}
               /\ req[s].claim \in DOMAIN receipts' /\ receipts'[req[s].claim] = req[s].now
    <3>1. CASE s = r
      BY <1>3, <1>4, <1>5, <1>9, <3>1
    <3>2. CASE s # r
      BY <1>9, <1>12, <2>1, <3>2 DEF IInv, Winners
    <3> QED
      BY <3>1, <3>2
  <2>2. ASSUME NEW s \in Requests, NEW t \in Requests, Won(s)', Won(t)',
               req[s].claim = req[t].claim
        PROVE  s = t
    BY <1>3, <1>12, <1>13, <2>2 DEF IInv, Winners
  <2> QED
    BY <1>1, <2>1, <2>2 DEF Winners
<1>15. Metered'
  BY <1>12 DEF IInv, Metered
<1>16. \A s \in Requests : Coherent(s)'
  BY <1>1, <1>8 DEF IInv, Coherent
<1>17. Store!Next
  BY <1>3, <1>4, <1>5 DEF Store!Next, Store!Present
<1>18. Promise!Next
  <2>1. UNCHANGED [d \in Claims |-> Cardinality({s \in Requests :
                                      req[s].outcome = "ALLOW" /\ req[s].claim = d})]
    BY <1>1
  <2>2. Promise!Admit(c)
    BY <1>3, <1>7, <1>9, <2>1 DEF Promise!Admit
  <2> QED
    BY <2>2 DEF Promise!Next
<1> QED
  BY <1>1, <1>10, <1>11, <1>14, <1>15, <1>16, <1>17, <1>18 DEF Advance, IInv

LEMMA ServeAdvances ==
  ASSUME IInv, StoreServes
  PROVE  Advance
<1> DEFINE q == Head(storeIn)
<1>1. storeIn # <<>>
  BY DEF StoreServes
<1>2. CASE Answer(q, FALSE) /\ UNCHANGED <<storeVars, usage>>
  BY <1>1, <1>2, NothingGranted
<1>3. CASE q.op = "clock" /\ Answer(q, TRUE) /\ UNCHANGED <<storeVars, usage>>
  BY <1>1, <1>3, NothingGranted
<1>4. CASE /\ q.op = "seal_usage" /\ usage' = usage + 1
           /\ Answer(q, TRUE) /\ UNCHANGED storeVars
  BY <1>1, <1>4, UnitMetered
<1>5. CASE /\ q.op = "claim" /\ Store!Claim(q.request)
           /\ Answer(q, Store!Verdict(q.request, tai) = "ok") /\ UNCHANGED usage
  <2>1. CASE Store!Verdict(q.request, tai) = "ok"
    <3>1. (Store!Verdict(q.request, tai) = "ok") = TRUE
      BY <2>1
    <3>2. Answer(q, TRUE)
      BY <1>5, <3>1
    <3> QED
      BY <1>1, <1>5, <2>1, <3>2, ClaimAdmitted
  <2>2. CASE Store!Verdict(q.request, tai) # "ok"
    <3>1. (Store!Verdict(q.request, tai) = "ok") = FALSE
      BY <2>2
    <3>2. Answer(q, FALSE)
      BY <1>5, <3>1
    <3>3. UNCHANGED <<storeVars, usage>>
      BY <1>5, <2>2 DEF Store!Claim, Store!db, storeVars
    <3> QED
      BY <1>1, <3>2, <3>3, NothingGranted
  <2> QED
    BY <2>1, <2>2
<1> QED
  BY <1>2, <1>3, <1>4, <1>5 DEF StoreServes

----------------------------------------------------------------------------
(* The invariant.                                                          *)

LEMMA StepAdvances ==
  ASSUME IInv, [Next]_vars
  PROVE  Advance
<1>1. CASE UNCHANGED vars
  BY <1>1, StutterAdvances
<1>2. ASSUME NEW r \in Requests, NEW kind \in {"seal", "verify"}, NEW c \in Claims \cup {NoClaim},
             Arrive(r, kind, c)
      PROVE  Advance
  BY <1>2, ArriveAdvances
<1>3. ASSUME NEW r \in Requests, Health(r)
      PROVE  Advance
  BY <1>3, HealthAdvances
<1>4. ASSUME NEW r \in Requests, BodyEnds(r)
      PROVE  Advance
  BY <1>4, BodyEndsAdvances
<1>5. ASSUME NEW r \in Requests, BodyFails(r)
      PROVE  Advance
  <2>1. PICK status \in {"none", "REJECT"} : End(r, status)
    BY <1>5 DEF BodyFails
  <2>2. req[r].pc = "body" /\ UNCHANGED <<storeVars, usage, pipeVars, verifierVars>>
    BY <1>5 DEF BodyFails
  <2> QED
    BY <2>1, <2>2, BodyAdvances
<1>6. ASSUME NEW r \in Requests, ClientCloses(r)
      PROVE  Advance
  BY <1>6, CloseAdvances
<1>7. ASSUME NEW r \in Requests, VerifierAnswers(r)
      PROVE  Advance
  BY <1>7, VerifierAdvances
<1>8. ASSUME NEW r \in Requests, Timeout(r)
      PROVE  Advance
  BY <1>8, TimeoutAdvances
<1>9. CASE StoreServes
  BY <1>9, ServeAdvances
<1>10. CASE StoreDies
  BY <1>10, StoreDiesAdvances
<1>11. CASE StoreExit
  BY <1>11, StoreExitAdvances
<1>12. CASE VerifierExit
  BY <1>12, VerifierExitAdvances
<1>13. CASE ReadAnswer
  BY <1>13, ReadAdvances
<1>14. CASE Restart
  BY <1>14, RestartAdvances
<1>15. CASE ClockMoves
  BY <1>15, ClockAdvances
<1> QED
  BY <1>1, <1>2, <1>3, <1>4, <1>5, <1>6, <1>7, <1>8, <1>9, <1>10, <1>11, <1>12, <1>13, <1>14,
     <1>15 DEF Next

LEMMA InitHolds ==
  ASSUME Init
  PROVE  IInv /\ Store!Init /\ Promise!Init
<1>1. /\ Store!Init /\ issued = <<>> /\ usage = 0 /\ inflight = 0
      /\ req = [r \in Requests |-> Idle]
      /\ storeUp = TRUE /\ storeIn = <<>> /\ storeOut = <<>>
      /\ storePending = {} /\ verifierPending = {}
      /\ storeFailed = FALSE /\ verifierFailed = FALSE
  BY DEF Init
<1>2. tai \in Store!Instants /\ \E legacy \in SUBSET Claims : Store!Migrated(legacy)
  BY <1>1 DEF Store!Init
<1>3. DOMAIN issued = {}
  BY <1>1
<1>4. DOMAIN receipts = {}
  <2>1. PICK legacy \in SUBSET Claims : Store!Migrated(legacy)
    BY <1>2
  <2>2. DOMAIN issued = legacy /\ DOMAIN receipts = legacy
    BY <2>1 DEF Store!Migrated
  <2> QED
    BY <1>3, <2>2
<1>5. Idle \in Handlers
  BY GatewayAssumption DEF Idle, Handlers, Store!Instants
<1>6. /\ Idle.pc = "idle" /\ Idle.kind = "none" /\ Idle.released /\ Idle.outcome = "none"
  BY DEF Idle
<1>7. Typed
  <2>1. req \in [Requests -> Handlers]
    BY <1>1, <1>5
  <2>2. usage \in Nat /\ inflight \in 0 .. MaxInflight
    BY <1>1, GatewayAssumption
  <2>3. storeIn \in Seq(Asked) /\ storeOut \in Seq(Answered)
    BY <1>1, NoLines
  <2>4. \A c \in DOMAIN issued : issued[c] \in Store!Record
    BY <1>3
  <2>5. {storeUp, storeFailed, verifierFailed} \subseteq BOOLEAN
    BY <1>1
  <2>6. storePending \subseteq Requests /\ verifierPending \subseteq Requests
    BY <1>1
  <2> QED
    BY <1>2, <1>3, <1>4, <2>1, <2>2, <2>3, <2>4, <2>5, <2>6 DEF Typed
<1>8. Held = {}
  BY <1>1, <1>6 DEF Held
<1>9. Counted
  BY <1>1, <1>8, FS_EmptySet DEF Counted
<1>10. Pending /\ Spoken
  BY <1>1, NoLines DEF Pending, Spoken
<1>11. \A r \in Requests : ~Won(r) /\ ~Paid(r) /\ Coherent(r)
  BY <1>1, <1>6, NoLines DEF Won, Paid, Granted, Coherent
<1>12. {r \in Requests : Paid(r)} = {}
  BY <1>11
<1>13. Winners /\ Metered
  BY <1>1, <1>11, <1>12, FS_EmptySet DEF Winners, Metered
<1>14. Promise!Init
  <2>1. \A c \in Claims : {r \in Requests : req[r].outcome = "ALLOW" /\ req[r].claim = c} = {}
    BY <1>1, <1>6
  <2>2. \A c \in Claims :
          Cardinality({r \in Requests : req[r].outcome = "ALLOW" /\ req[r].claim = c}) = 0
    BY <2>1, FS_EmptySet
  <2> QED
    BY <1>4, <2>2 DEF Promise!Init
<1> QED
  BY <1>1, <1>7, <1>9, <1>10, <1>11, <1>13, <1>14 DEF IInv

THEOREM InvariantHolds == Spec => []IInv
<1>1. Init => IInv
  BY InitHolds
<1>2. IInv /\ [Next]_vars => IInv'
  BY StepAdvances DEF Advance
<1> QED
  BY <1>1, <1>2, PTL DEF Spec

----------------------------------------------------------------------------
(* Every variable keeps to its values: the handlers' states, the slots     *)
(* taken (never more than MaxInflight), the lines in both pipes and the    *)
(* calls that are pending (gateway.mjs).                                   *)
THEOREM TypeCorrect == Spec => []TypeOK
<1>1. IInv => TypeOK
  <2>1. ASSUME Typed
        PROVE  TypeOK
    <3>1. \A i \in DOMAIN storeIn : storeIn[i] \in Asked
      BY <2>1 DEF Typed
    <3>2. \A i \in DOMAIN storeOut : storeOut[i] \in Answered
      BY <2>1 DEF Typed
    <3>3. \A i \in DOMAIN storeIn : storeIn[i].req \in Requests /\ storeIn[i].op \in StoreOps
      BY <3>1 DEF Asked, StoreOps
    <3>4. \A i \in DOMAIN storeOut : storeOut[i].req \in Requests /\ storeOut[i].op \in StoreOps
      BY <3>2 DEF Answered
    <3>5. req \in [Requests -> Handlers]
      BY <2>1 DEF Typed
    <3> QED
      BY <2>1, <3>3, <3>4, <3>5 DEF TypeOK, Typed, Handlers
  <2> QED
    BY <2>1 DEF IInv
<1> QED
  BY <1>1, InvariantHolds, PTL

(* The slots taken are those of the handlers at work that have not given   *)
(* theirs back, whichever of the response, the body timer, a hang-up, a    *)
(* late or missing answer or a dead child ends them (release, gateway.mjs).*)
THEOREM SlotsCounted == Spec => []SlotsExact
<1>1. IInv => SlotsExact
  <2>1. IInv => {r \in Active : ~req[r].released} = Held
    BY DEF IInv, Coherent, Active, Held
  <2> QED
    BY <2>1 DEF IInv, Counted, SlotsExact
<1> QED
  BY <1>1, InvariantHolds, PTL

(* Every seal that a client was told of has its unit in the usage table,   *)
(* though calls time out and processes die (seal_usage, gateway.mjs).      *)
THEOREM MeteredFirst == Spec => []MeteredBeforeSealed
<1>1. ASSUME IInv
      PROVE  MeteredBeforeSealed
  <2>1. PICK Sealed : Sealed = {r \in Requests : req[r].outcome = "SEALED"}
    OBVIOUS
  <2>2. PICK Units : Units = {r \in Requests : Paid(r)}
    OBVIOUS
  <2>3. Sealed \subseteq Units /\ Sealed \in SUBSET Requests /\ Units \in SUBSET Requests
    BY <2>1, <2>2 DEF Paid
  <2>4. Cardinality(Sealed) <= Cardinality(Units) /\ Cardinality(Units) <= usage
    BY <1>1, <2>2, <2>3, HeldFinite, FS_Subset DEF IInv, Metered
  <2>5. Cardinality(Sealed) \in Nat /\ Cardinality(Units) \in Nat /\ usage \in Nat
    BY <1>1, <2>3, HeldFinite DEF IInv, Typed
  <2>6. Cardinality(Sealed) <= usage
    BY <2>4, <2>5
  <2> QED
    BY <2>1, <2>6 DEF MeteredBeforeSealed
<1> QED
  BY <1>1, InvariantHolds, PTL

(* The receipt in an ALLOW is the durable one of its claim, and never that *)
(* of another handler's admission of it (claim, replay-store.py).          *)
THEOREM ReceiptHeld == Spec => []ReceiptIsDurable
<1>1. IInv => ReceiptIsDurable
  BY DEF IInv, Winners, Won, ReceiptIsDurable
<1> QED
  BY <1>1, InvariantHolds, PTL

(* Whatever the service does between its pipes, timers and restarts, the   *)
(* store sees a behaviour of ReplayStore: what is proved of every such     *)
(* behaviour holds of the store inside the service.                        *)
THEOREM ServiceDrivesStore == Spec => StoreSpec
<1>1. Init => Store!Init
  BY InitHolds
<1>2. IInv /\ [Next]_vars => [Store!Next]_(Store!svars)
  BY StepAdvances DEF Advance
<1> QED
  BY <1>1, <1>2, InvariantHolds, PTL DEF Spec, StoreSpec, Store!Spec

(* The service admits a claim durably at most once and gives at most one   *)
(* ALLOW for it, after the admission.                                      *)
THEOREM PromiseKept == Spec => AdmitOnceSpec
<1>1. Init => Promise!Init
  BY InitHolds
<1>2. IInv /\ [Next]_vars => [Promise!Next]_(Promise!avars)
  BY StepAdvances DEF Advance
<1> QED
  BY <1>1, <1>2, InvariantHolds, PTL DEF Spec, AdmitOnceSpec, Promise!Spec
=============================================================================
