-------------------------- MODULE PotVerifyProofs --------------------------
(***************************************************************************)
(* What the verification tools guarantee for every number of concurrent    *)
(* calls, every configuration and whatever the records and their checks    *)
(* are: with the ledger a context and nonce of version 2 is accepted once, *)
(* and what passed the quorum gate rests on a recent sample.               *)
(***************************************************************************)
EXTENDS PotVerify, FiniteSetTheorems, WellFoundedInduction, TLAPS

(* The answer of a sequence of tests is the reason of a failing one, or    *)
(* "intact" when none fails.                                               *)
LEMMA FailureIs ==
  ASSUME NEW tests, NEW n \in Nat, DOMAIN tests = 1 .. n
  PROVE  \/ FirstFailure(tests) = "intact" /\ \A i \in 1 .. n : ~tests[i][1]
         \/ \E i \in 1 .. n : tests[i][1] /\ FirstFailure(tests) = tests[i][2]
<1> DEFINE T == {i \in 1 .. n : tests[i][1]}
           first == CHOOSE i \in DOMAIN tests : tests[i][1] /\ \A j \in 1 .. i - 1 : ~tests[j][1]
<1> SUFFICES ASSUME T # {} PROVE  \E i \in T : FirstFailure(tests) = tests[i][2]
  BY DEF FirstFailure
<1>1. T \subseteq Nat
  OBVIOUS
<1>2. PICK i \in T : \A j \in T : <<j, i>> \notin OpToRel(<, Nat)
  <2> HIDE DEF T
  <2> QED
    BY <1>1, NatLessThanWellFounded, WFMin, Zenon
<1>3. \A j \in 1 .. i - 1 : j \in 1 .. n /\ <<j, i>> \in OpToRel(<, Nat)
  BY DEF OpToRel
<1>4. first \in DOMAIN tests /\ tests[first][1]
  BY <1>2, <1>3
<1> QED
  BY <1>4 DEF FirstFailure

(* No failing test is passed over.                                         *)
LEMMA FailureShows ==
  ASSUME NEW tests, NEW n \in 1 .. 8, DOMAIN tests = 1 .. n,
         \A i \in 1 .. n : tests[i][1] => tests[i][2] # "intact",
         NEW k \in 1 .. n, tests[k][1]
  PROVE  FirstFailure(tests) # "intact"
BY FailureIs

Settled  == {"pc", "req", "verdict", "at", "sample", "sends", "answer"}
Past(c)  == call[c].pc \in {"claiming", "done"}
Claimed(c) == Past(c) /\ call[c].answer # NoPolicy /\ call[c].answer.ok
IsV2(c)  == Api(c) = "v2"

(* The shape of the calls' states.                                         *)
Shaped ==
  /\ DOMAIN call = Calls
  /\ \A c \in Calls : Past(c) => DOMAIN call[c] = Settled
  /\ \A c \in Calls : call[c].pc = "fetching" => DOMAIN call[c] = {"pc", "req", "since", "sample"}

(* A call that Redis answered OK has its key there for good, no other call *)
(* has this key, and with the ledger no call is accepted without it.       *)
Held == \A c \in Calls : Claimed(c) /\ IsV2(c) =>
          \E e \in keys : e.key = Key(Req(c)) /\ e.until = Never
Once == \A c, d \in Calls :
          Claimed(c) /\ Claimed(d) /\ IsV2(c) /\ IsV2(d) /\ Key(Req(c)) = Key(Req(d)) => c = d
NoneWithout == \A c \in Calls : Accepted(c) /\ IsV2(c) /\ Ledger("v2") => Claimed(c)

IInv == Shaped /\ Held /\ Once /\ NoneWithout

----------------------------------------------------------------------------
(* A key of version 08 is none of version 2.                               *)
LEMMA KeysApart ==
  ASSUME NEW p, NEW q, p.api = "v2", q.api # "v2"
  PROVE  Key(p) # Key(q)
<1>1. Key(p)[1] = "v2" /\ Key(q)[1] = "v08"
  BY DEF Key
<1> QED
  BY <1>1

(* What holds of a call that is decided: it has the shape, has claimed     *)
(* nothing yet, and is accepted only where no ledger is asked for.         *)
LEMMA DecidedParts ==
  ASSUME NEW n, NEW verdict, NEW sample
  PROVE  LET s == Decided(n, verdict, sample)
         IN /\ DOMAIN s = Settled
            /\ s.pc \in {"claiming", "done"}
            /\ s.req = n /\ s.answer = NoPolicy /\ s.verdict = verdict
            /\ s.at = clock /\ s.sample = sample
            /\ s.pc = "done" /\ s.verdict = "intact" => ~Ledger(Requests[n].api)
BY DEF Decided, Settled

(* A step that changes one call to one that has claimed nothing and is not *)
(* accepted where the ledger is asked for, and leaves the keys alone.      *)
LEMMA OneCallChanges ==
  ASSUME IInv, NEW c \in Calls, NEW s, Become(c, s), UNCHANGED <<conf, keys>>,
         s.pc \in {"claiming", "done"} => DOMAIN s = Settled,
         s.pc = "fetching" => DOMAIN s = {"pc", "req", "since", "sample"},
         s.pc \in {"claiming", "done"} /\ s.answer # NoPolicy /\ s.answer.ok
           => Claimed(c) /\ s.req = call[c].req,
         s.pc = "done" /\ s.verdict = "intact" /\ Requests[s.req].api = "v2" /\ Ledger("v2")
           => s.answer # NoPolicy /\ s.answer.ok
  PROVE  IInv'
<1>1. /\ call' = [call EXCEPT ![c] = s] /\ DOMAIN call = Calls
      /\ call'[c] = s /\ \A d \in Calls \ {c} : call'[d] = call[d]
  BY DEF Become, IInv, Shaped
<1>2. \A d \in Calls : Claimed(d)' => Claimed(d) /\ Req(d)' = Req(d)
  BY <1>1 DEF Claimed, Past, Req
<1>3. Shaped'
  BY <1>1 DEF IInv, Shaped, Past
<1>4. Held'
  BY <1>2 DEF IInv, Held, IsV2, Api, Key
<1>5. Once'
  BY <1>2 DEF IInv, Once, IsV2, Api, Key
<1>6. NoneWithout'
  <2> SUFFICES ASSUME NEW d \in Calls, Accepted(d)', IsV2(d)', Ledger("v2")'
               PROVE  Claimed(d)'
    BY DEF NoneWithout
  <2>1. Ledger("v2")
    BY DEF Ledger
  <2>2. CASE d = c
    BY <1>1, <2>1, <2>2 DEF Accepted, Done, IsV2, Api, Req, Claimed, Past
  <2>3. CASE d # c
    BY <1>1, <2>1, <2>3 DEF IInv, NoneWithout, Accepted, Done, IsV2, Api, Req, Claimed, Past
  <2> QED
    BY <2>2, <2>3
<1> QED
  BY <1>3, <1>4, <1>5, <1>6 DEF IInv

(* The run of a SET NX: it answers OK only when no live key is there, and  *)
(* then it puts one, which for version 2 lives for ever.                   *)
LEMMA ClaimPreserves ==
  ASSUME IInv, NEW c \in Calls, ClaimRuns(c)
  PROVE  IInv'
<1> DEFINE k   == Key(Req(c))
           ans == [ok |-> ~Live(k), at |-> clock]
           new == [key |-> k, until |-> Expiry(Req(c).api)]
<1>1. /\ call[c].pc = "claiming" /\ UNCHANGED <<conf, clock>>
      /\ call' = [call EXCEPT ![c] = [call[c] EXCEPT !.sends = @ + 1, !.answer = ans]]
      /\ keys' = IF Live(k) THEN keys ELSE {e \in keys : e.key # k} \cup {new}
  BY DEF ClaimRuns, Become
<1>2. DOMAIN call = Calls /\ DOMAIN call[c] = Settled
  BY <1>1 DEF IInv, Shaped, Past
<1>3. /\ call'[c].pc = "claiming" /\ call'[c].req = call[c].req /\ call'[c].answer = ans
      /\ DOMAIN call'[c] = Settled
      /\ DOMAIN call' = Calls /\ \A d \in Calls \ {c} : call'[d] = call[d]
  BY <1>1, <1>2 DEF Settled
<1>4. \A d \in Calls : Req(d)' = Req(d) /\ (IsV2(d)' <=> IsV2(d)) /\ Key(Req(d))' = Key(Req(d))
  BY <1>3 DEF Req, IsV2, Api, Key
<1>5. \A d \in Calls \ {c} : Claimed(d)' <=> Claimed(d)
  BY <1>3 DEF Claimed, Past
<1>6. Claimed(c)' => ~Live(k)
  <2>1. Live(k) => ans.ok = FALSE
    OBVIOUS
  <2> QED
    BY <1>3, <2>1 DEF Claimed
<1>7. Shaped'
  BY <1>3 DEF IInv, Shaped, Past
<1>8. ASSUME NEW d \in Calls \ {c}, Claimed(d), IsV2(d), ~Live(k) PROVE Key(Req(d)) # k
  BY <1>8 DEF IInv, Held, Live
<1>9. Held'
  <2> SUFFICES ASSUME NEW d \in Calls, Claimed(d)', IsV2(d)
               PROVE  \E e \in keys' : e.key = Key(Req(d)) /\ e.until = Never
    BY <1>4 DEF Held
  <2>1. CASE d = c
    <3>1. new \in keys' /\ new.key = k /\ new.until = Never
      BY <1>1, <1>6, <2>1 DEF IsV2, Api, Expiry
    <3> QED
      BY <2>1, <3>1
  <2>2. CASE d # c
    <3>1. PICK e \in keys : e.key = Key(Req(d)) /\ e.until = Never
      BY <1>5, <2>2 DEF IInv, Held
    <3>2. e \in keys'
      BY <1>1, <1>5, <1>8, <2>2, <3>1
    <3> QED
      BY <3>1, <3>2
  <2> QED
    BY <2>1, <2>2
<1>10. Once'
  <2> SUFFICES ASSUME NEW d \in Calls, NEW e \in Calls, Claimed(d)', Claimed(e)',
                      IsV2(d), IsV2(e), Key(Req(d)) = Key(Req(e)), d # e
               PROVE  FALSE
    BY <1>4 DEF Once
  <2>1. CASE d = c
    BY <1>5, <1>6, <1>8, <2>1
  <2>2. CASE e = c
    BY <1>5, <1>6, <1>8, <2>2
  <2>3. CASE d # c /\ e # c
    BY <1>5, <2>3 DEF IInv, Once
  <2> QED
    BY <2>1, <2>2, <2>3
<1>11. NoneWithout'
  <2> SUFFICES ASSUME NEW d \in Calls, Accepted(d)', IsV2(d)', Ledger("v2")'
               PROVE  Claimed(d)'
    BY DEF NoneWithout
  <2>1. d # c
    BY <1>3 DEF Accepted, Done
  <2>2. Accepted(d) /\ IsV2(d) /\ Ledger("v2")
    BY <1>1, <1>3, <2>1 DEF Accepted, Done, IsV2, Api, Req, Ledger
  <2> QED
    BY <1>5, <2>1, <2>2 DEF IInv, NoneWithout
<1> QED
  BY <1>7, <1>9, <1>10, <1>11 DEF IInv

(* A decision leaves a call that claimed nothing yet.                      *)
LEMMA DecisionPreserves ==
  ASSUME IInv, NEW c \in Calls, NEW n, NEW verdict, NEW sample,
         Become(c, Decided(n, verdict, sample)), UNCHANGED <<conf, keys>>
  PROVE  IInv'
<1> DEFINE s == Decided(n, verdict, sample)
<1>1. /\ DOMAIN s = Settled /\ s.pc \in {"claiming", "done"}
      /\ s.answer = NoPolicy /\ s.req = n
      /\ s.pc = "done" /\ s.verdict = "intact" => ~Ledger(Requests[n].api)
  BY DecidedParts
<1> HIDE DEF s
<1>2. s.pc = "done" /\ s.verdict = "intact" /\ Requests[s.req].api = "v2" => ~Ledger("v2")
  BY <1>1
<1>3. Become(c, s)
  BY DEF s
<1> QED
  BY <1>1, <1>2, <1>3, OneCallChanges

(* The end of a claim: accepted only on the answer OK.                     *)
LEMMA SettlePreserves ==
  ASSUME IInv, NEW c \in Calls, NEW verdict, call[c].pc = "claiming", Settle(c, verdict),
         verdict = "intact" => call[c].answer # NoPolicy /\ call[c].answer.ok
  PROVE  IInv'
<1> DEFINE s == [call[c] EXCEPT !.pc = "done", !.verdict = verdict]
<1>1. Become(c, s) /\ UNCHANGED <<conf, keys>>
  BY DEF Settle
<1>2. DOMAIN call[c] = Settled
  BY DEF IInv, Shaped, Past
<1>3. /\ DOMAIN s = Settled /\ s.pc = "done" /\ s.verdict = verdict
      /\ s.answer = call[c].answer /\ s.req = call[c].req
  BY <1>2 DEF Settled
<1> HIDE DEF s
<1>4. s.answer # NoPolicy /\ s.answer.ok => Claimed(c)
  BY <1>3 DEF Claimed, Past
<1> QED
  BY <1>1, <1>3, <1>4, OneCallChanges

(* Every step preserves the invariant.                                     *)
LEMMA StepPreserves == IInv /\ [Next]_vars => IInv'
<1> SUFFICES ASSUME IInv, [Next]_vars PROVE IInv'
  OBVIOUS
<1> USE DEF IInv
<1>1. ASSUME UNCHANGED <<conf, keys, call>> PROVE IInv'
  BY <1>1 DEF Shaped, Held, Once, NoneWithout, Past, Claimed, IsV2, Api, Req, Key, Accepted,
              Done, Ledger
<1>2. CASE UNCHANGED vars
  BY <1>1, <1>2 DEF vars
<1>3. CASE Tick \/ QuorumChanges
  BY <1>1, <1>3 DEF Tick, QuorumChanges
<1> HIDE DEF IInv
<1>4. CASE Restart
  <2>1. /\ UNCHANGED <<conf, keys>>
        /\ call' = [c \in Calls |-> IF call[c].pc \in {"fetching", "claiming"}
                                    THEN [pc |-> "lost"] ELSE call[c]]
    BY <1>4 DEF Restart
  <2>2. \A c \in Calls : Past(c)' => Past(c) /\ call'[c] = call[c]
    BY <2>1 DEF Past
  <2>3. \A c \in Calls : call'[c].pc # "fetching"
    BY <2>1
  <2>4. Shaped'
    BY <2>1, <2>2, <2>3 DEF IInv, Shaped
  <2> DEFINE Same(c) == Claimed(c) /\ (IsV2(c)' <=> IsV2(c)) /\ Key(Req(c))' = Key(Req(c))
  <2>5. \A c \in Calls : Claimed(c)' => Same(c)
    BY <2>2 DEF Claimed, IsV2, Api, Req, Key
  <2>6. Held'
    BY <2>1, <2>5 DEF IInv, Held
  <2>7. Once'
    BY <2>1, <2>5 DEF IInv, Once
  <2>8. \A c \in Calls : Accepted(c)' => Accepted(c) /\ call'[c] = call[c]
    BY <2>1 DEF Accepted, Done
  <2>9. NoneWithout'
    BY <2>1, <2>8 DEF IInv, NoneWithout, Claimed, Past, IsV2, Api, Req, Ledger
  <2> QED
    BY <2>4, <2>6, <2>7, <2>9 DEF IInv
<1>5. ASSUME NEW c \in Calls, NEW n, StartV2(c, n) PROVE IInv'
  <2>1. UNCHANGED <<conf, keys>>
    BY <1>5 DEF StartV2
  <2>2. CASE \E verdict, sample : Become(c, Decided(n, verdict, sample))
    BY <2>1, <2>2, DecisionPreserves
  <2>3. CASE Become(c, [pc |-> "fetching", req |-> n, since |-> clock, sample |-> NoPolicy])
    BY <2>1, <2>3, OneCallChanges
  <2> QED
    BY <1>5, <2>2, <2>3 DEF StartV2, Admit
<1>6. ASSUME NEW c \in Calls, NEW n, StartV08(c, n) PROVE IInv'
  BY <1>6, DecisionPreserves DEF StartV08
<1>7. ASSUME NEW c \in Calls, Sample(c) PROVE IInv'
  <2> DEFINE s == [call[c] EXCEPT !.sample = [ok |-> quorum, at |-> clock]]
  <2>1. DOMAIN call[c] = {"pc", "req", "since", "sample"} /\ call[c].pc = "fetching"
    BY <1>7 DEF Sample, IInv, Shaped
  <2>2. DOMAIN s = {"pc", "req", "since", "sample"} /\ s.pc = "fetching"
    BY <2>1
  <2>3. Become(c, s) /\ UNCHANGED <<conf, keys>>
    BY <1>7 DEF Sample
  <2> QED
    BY <2>2, <2>3, OneCallChanges
<1>8. ASSUME NEW c \in Calls, FetchAnswers(c) \/ FetchFails(c) PROVE IInv'
  BY <1>8, DecisionPreserves DEF FetchAnswers, FetchFails, Admit
<1>9. ASSUME NEW c \in Calls, ClaimRuns(c) PROVE IInv'
  BY <1>9, ClaimPreserves
<1>10. ASSUME NEW c \in Calls, ClaimAnswered(c) \/ ClaimFails(c) PROVE IInv'
  <2>1. CASE ClaimAnswered(c)
    BY <2>1, SettlePreserves DEF ClaimAnswered
  <2>2. CASE ClaimFails(c)
    BY <2>2, SettlePreserves DEF ClaimFails
  <2> QED
    BY <1>10, <2>1, <2>2
<1> QED
  BY <1>2, <1>3, <1>4, <1>5, <1>6, <1>7, <1>8, <1>9, <1>10 DEF Next

LEMMA InitEstablishes == Init => IInv
BY DEF Init, Idle, IInv, Shaped, Held, Once, NoneWithout, Past, Claimed, Accepted, Done

(* The same context and nonce of version 2 is never accepted by two calls  *)
(* while the ledger is asked for, however calls interleave, commands are   *)
(* resent and the process restarts.                                        *)
THEOREM NonceAcceptedOnce == Spec => []AcceptedOnce
<1>1. Init => IInv
  BY InitEstablishes
<1>2. IInv /\ [Next]_vars => IInv'
  BY StepPreserves
<1>3. IInv => AcceptedOnce
  BY DEF IInv, NoneWithout, Once, AcceptedOnce, IsV2
<1> QED
  BY <1>1, <1>2, <1>3, PTL DEF Spec

----------------------------------------------------------------------------
(* The quorum gate.  A fetch waits no longer than its timer, the cache     *)
(* holds a sample no older than that when it was written, and a call that  *)
(* passed the gate rests on one or the other.                              *)

InTime(s) == s.pc = "fetching" =>
  /\ s.since \in Int /\ s.since <= clock /\ clock - s.since <= FetchTimeout
  /\ s.sample # NoPolicy => s.sample.at \in Int /\ s.since <= s.sample.at
Recent(sample, at) == sample.ok /\ at - sample.at < AdmitTtl + FetchTimeout
Rests(s) ==
  s.pc \in {"claiming", "done"} /\ s.verdict = "intact" /\ Requests[s.req].api = "v2" /\ conf.quorum
    => Recent(s.sample, s.at)
CacheRecent ==
  cache # NoPolicy => /\ cache.at \in Int /\ cache.sampled \in Int
                      /\ cache.at - cache.sampled <= FetchTimeout
Timed ==
  /\ clock \in Nat /\ CacheRecent
  /\ \A c \in Calls : InTime(call[c]) /\ Rests(call[c])

(* A step that changes one call to one that is in time and rests on a      *)
(* recent sample, and leaves the cache recent.                             *)
LEMMA OneCallTimed ==
  ASSUME Shaped, Timed, NEW c \in Calls, NEW s, Become(c, s), UNCHANGED <<conf, clock>>,
         CacheRecent', InTime(s), Rests(s)
  PROVE  Timed'
<1>1. \A d \in Calls : call'[d] = IF d = c THEN s ELSE call[d]
  BY DEF Shaped, Become
<1>2. \A d \in Calls : InTime(call[d])' /\ Rests(call[d])'
  BY <1>1 DEF Timed, InTime, Rests
<1> QED
  BY <1>2 DEF Timed

(* Admission by a sample that is good for now.                             *)
LEMMA AdmitTimed ==
  ASSUME Shaped, Timed, NEW c \in Calls, NEW n, NEW sample, Admit(c, n, sample),
         UNCHANGED <<conf, clock>>, CacheRecent',
         conf.quorum => clock - sample.at < AdmitTtl + FetchTimeout
  PROVE  Timed'
<1> DEFINE verdict == IF sample.ok THEN CheckV2(Requests[n]) ELSE "roughtime chain quorum unavailable"
           s       == Decided(n, verdict, sample)
<1>1. verdict = "intact" => sample.ok
  OBVIOUS
<1>2. Become(c, s)
  BY DEF Admit
<1> HIDE DEF verdict
<1>3. /\ s.pc \in {"claiming", "done"} /\ s.verdict = verdict
      /\ s.at = clock /\ s.sample = sample
  BY DecidedParts
<1> HIDE DEF s
<1>4. InTime(s) /\ Rests(s)
  BY <1>1, <1>3 DEF InTime, Rests, Recent
<1> QED
  BY <1>2, <1>4, OneCallTimed

LEMMA StepTimed ==
  ASSUME AdmitTtl > 0, Shaped, Timed, [Next]_vars
  PROVE  Timed'
<1>0. AdmitTtl \in Nat /\ FetchTimeout \in Nat
  BY VerifyAssumption
<1> USE <1>0
<1>1. CASE UNCHANGED vars
  BY <1>1 DEF vars, Timed, CacheRecent, InTime, Rests
<1>2. CASE Tick
  BY <1>2 DEF Tick, Timed, CacheRecent, InTime, Rests
<1>3. CASE QuorumChanges
  BY <1>3 DEF QuorumChanges, Timed, CacheRecent, InTime, Rests
<1>4. CASE Restart
  <2>1. /\ clock' = clock /\ conf' = conf /\ cache' = NoPolicy
        /\ \A c \in Calls : call'[c].pc \notin {"fetching", "claiming"}
        /\ \A c \in Calls : call'[c].pc = "done" => call'[c] = call[c]
    BY <1>4 DEF Restart
  <2>2. \A c \in Calls : InTime(call[c])' /\ Rests(call[c])'
    BY <2>1 DEF Timed, InTime, Rests
  <2> QED
    BY <2>1, <2>2 DEF Timed, CacheRecent
<1>5. ASSUME NEW c \in Calls, NEW n, StartV2(c, n) PROVE Timed'
  <2>1. UNCHANGED <<conf, clock, cache>> /\ CacheRecent'
    BY <1>5 DEF StartV2, Timed, CacheRecent
  <2>2. CASE Early(Requests[n]) # "intact" /\ Become(c, Decided(n, Early(Requests[n]), NoSample))
    <3> DEFINE s == Decided(n, Early(Requests[n]), NoSample)
    <3>1. s.pc \in {"claiming", "done"} /\ s.verdict = Early(Requests[n])
      BY DecidedParts
    <3> HIDE DEF s
    <3>2. InTime(s) /\ Rests(s)
      BY <2>2, <3>1 DEF InTime, Rests
    <3>3. Become(c, s)
      BY <2>2 DEF s
    <3> QED
      BY <2>1, <3>2, <3>3, OneCallTimed
  <2>3. CASE ~conf.quorum /\ Admit(c, n, NoSample)
    BY <2>1, <2>3, AdmitTimed
  <2>4. CASE CacheHit /\ Admit(c, n, [ok |-> cache.ok, at |-> cache.sampled])
    <3> DEFINE sample == [ok |-> cache.ok, at |-> cache.sampled]
    <3>1. clock - sample.at < AdmitTtl + FetchTimeout
      BY <2>4 DEF CacheHit, Timed, CacheRecent
    <3> QED
      BY <2>1, <2>4, <3>1, AdmitTimed
  <2>5. CASE Become(c, [pc |-> "fetching", req |-> n, since |-> clock, sample |-> NoPolicy])
    <3> DEFINE s == [pc |-> "fetching", req |-> n, since |-> clock, sample |-> NoPolicy]
    <3>1. InTime(s) /\ Rests(s)
      BY DEF InTime, Rests, Timed
    <3> QED
      BY <2>1, <2>5, <3>1, OneCallTimed
  <2> QED
    BY <1>5, <2>2, <2>3, <2>4, <2>5 DEF StartV2
<1>6. ASSUME NEW c \in Calls, NEW n, StartV08(c, n) PROVE Timed'
  <2> DEFINE s == Decided(n, CheckV08(Requests[n]), NoSample)
  <2>1. s.pc \in {"claiming", "done"} /\ s.req = n
    BY DecidedParts
  <2>2. /\ Become(c, s) /\ UNCHANGED <<conf, clock, cache>> /\ Requests[n].api # "v2"
    BY <1>6 DEF StartV08
  <2> HIDE DEF s
  <2>3. InTime(s) /\ Rests(s)
    BY <2>1, <2>2 DEF InTime, Rests
  <2>4. CacheRecent'
    BY <2>2 DEF Timed, CacheRecent
  <2> QED
    BY <2>2, <2>3, <2>4, OneCallTimed
<1>7. ASSUME NEW c \in Calls, Sample(c) PROVE Timed'
  <2> DEFINE s == [call[c] EXCEPT !.sample = [ok |-> quorum, at |-> clock]]
  <2>1. /\ Become(c, s) /\ UNCHANGED <<conf, clock, cache>>
        /\ DOMAIN call[c] = {"pc", "req", "since", "sample"}
    BY <1>7 DEF Sample, Shaped
  <2>2. /\ s.pc = call[c].pc /\ s.since = call[c].since
        /\ s.sample.at = clock /\ s.pc = "fetching"
    BY <1>7, <2>1 DEF Sample
  <2> HIDE DEF s
  <2>3. InTime(call[c]) /\ clock \in Int
    BY DEF Timed
  <2>4. InTime(s) /\ Rests(s)
    BY <2>2, <2>3 DEF InTime, Rests
  <2>5. CacheRecent'
    BY <2>1 DEF Timed, CacheRecent
  <2> QED
    BY <2>1, <2>4, <2>5, OneCallTimed
<1>8. ASSUME NEW c \in Calls, FetchAnswers(c) PROVE Timed'
  <2>1. /\ UNCHANGED <<conf, clock>> /\ Admit(c, call[c].req, call[c].sample)
        /\ cache' = [ok |-> call[c].sample.ok, at |-> clock, sampled |-> call[c].sample.at]
    BY <1>8 DEF FetchAnswers
  <2>2. /\ clock \in Int /\ call[c].sample.at \in Int
        /\ clock - call[c].sample.at <= FetchTimeout
    <3>1. call[c].pc = "fetching" /\ call[c].sample # NoPolicy
      BY <1>8 DEF FetchAnswers
    <3>2. InTime(call[c]) /\ clock \in Int
      BY DEF Timed
    <3>3. /\ call[c].since \in Int /\ clock - call[c].since <= FetchTimeout
          /\ call[c].sample.at \in Int /\ call[c].since <= call[c].sample.at
      BY <3>1, <3>2 DEF InTime
    <3> QED
      BY <3>2, <3>3
  <2>3. CacheRecent'
    BY <2>1, <2>2 DEF CacheRecent
  <2> QED
    BY <2>1, <2>2, <2>3, AdmitTimed
<1>9. ASSUME NEW c \in Calls, FetchFails(c) PROVE Timed'
  <2> DEFINE sample == [ok |-> FALSE, at |-> clock]
  <2>1. /\ UNCHANGED <<conf, clock>> /\ Admit(c, call[c].req, sample)
        /\ cache' = [ok |-> FALSE, at |-> clock, sampled |-> clock] /\ clock \in Int
    BY <1>9 DEF FetchFails, Timed
  <2>2. CacheRecent' /\ clock - sample.at < AdmitTtl + FetchTimeout
    BY <2>1 DEF CacheRecent
  <2> QED
    BY <2>1, <2>2, AdmitTimed
<1>10. ASSUME NEW c \in Calls, ClaimRuns(c) \/ ClaimAnswered(c) \/ ClaimFails(c) PROVE Timed'
  <2>1. UNCHANGED <<conf, clock, cache>> /\ CacheRecent'
    BY <1>10 DEF ClaimRuns, ClaimAnswered, ClaimFails, Settle, Timed, CacheRecent
  <2>2. call[c].pc = "claiming" /\ DOMAIN call[c] = Settled
    BY <1>10 DEF ClaimRuns, ClaimAnswered, ClaimFails, Shaped, Past
  <2> DEFINE Keeps(s) == /\ Become(c, s) /\ s.pc \in {"claiming", "done"}
                         /\ s.verdict = "intact" => call[c].verdict = "intact"
                         /\ s.req = call[c].req /\ s.at = call[c].at
                         /\ s.sample = call[c].sample
  <2>3. ASSUME ClaimRuns(c) PROVE \E s : Keeps(s)
    <3> DEFINE ans == [ok |-> ~Live(Key(Req(c))), at |-> clock]
    <3>1. Become(c, [call[c] EXCEPT !.sends = @ + 1, !.answer = ans])
      BY <2>3 DEF ClaimRuns
    <3> HIDE DEF ans
    <3>2. Keeps([call[c] EXCEPT !.sends = @ + 1, !.answer = ans])
      BY <2>2, <3>1 DEF Settled
    <3> QED
      BY <3>2
  <2>4. ASSUME NEW v, Settle(c, v), v = "intact" => call[c].verdict = "intact"
        PROVE  \E s : Keeps(s)
    <3>1. Keeps([call[c] EXCEPT !.pc = "done", !.verdict = v])
      BY <2>2, <2>4 DEF Settle, Settled
    <3> QED
      BY <3>1
  <2>5. PICK s : Keeps(s)
    <3>1. CASE ClaimRuns(c)
      BY <2>3, <3>1
    <3>2. CASE ClaimAnswered(c)
      BY <2>4, <3>2 DEF ClaimAnswered
    <3>3. CASE ClaimFails(c)
      BY <2>4, <3>3 DEF ClaimFails
    <3> QED
      BY <1>10, <3>1, <3>2, <3>3
  <2>6. InTime(s) /\ Rests(s)
    BY <2>2, <2>5 DEF InTime, Rests, Timed
  <2> QED
    BY <2>1, <2>5, <2>6, OneCallTimed
<1> QED
  BY <1>1, <1>2, <1>3, <1>4, <1>5, <1>6, <1>7, <1>8, <1>9, <1>10 DEF Next

(* Whatever passed the quorum gate rests on a quorum that the status       *)
(* server saw less than the cache's life and one fetch ago, provided the   *)
(* cache has a life; fetches that overtake each other change nothing.      *)
THEOREM GateRestsOnRecentQuorum ==
  ASSUME AdmitTtl > 0
  PROVE  Spec => []QuorumRecent
<1>1. Init => IInv /\ Timed
  <2>1. Init => Timed
    BY DEF Init, Idle, Timed, CacheRecent, InTime, Rests
  <2> QED
    BY <2>1, InitEstablishes
<1>2. IInv /\ Timed /\ [Next]_vars => IInv' /\ Timed'
  BY StepPreserves, StepTimed DEF IInv
<1>3. Timed => QuorumRecent
  BY DEF Timed, Rests, Recent, QuorumRecent, Accepted, Done, Api, Req
<1> QED
  BY <1>1, <1>2, <1>3, PTL DEF Spec

----------------------------------------------------------------------------
(* What the checks leave: a request that passes them is genuine.           *)

InBounds == conf \in Confs /\ clock \in Nat /\ life \in Nat \ {0}

(* A record that verifies is its owner's, and in the window if one is set. *)
LEMMA VerifiedV2 ==
  ASSUME NEW r, NEW key, NEW fresh, VerifyV2(r, key, fresh) = "intact"
  PROVE  /\ r.len = 180 /\ r.sig = Sign(key, Fields(r, PrefixV2))
         /\ fresh # NoPolicy => WithinSkew(r.ts, r.disp, fresh)
<1> DEFINE tests == <<
    <<r.len # 180, "size">>,
    <<r.version # 2, "unknown version">>,
    <<r.holderType \notin HolderTypes, "unsupported holder_auth_type">>,
    <<r.alg # 1, "unsupported alg_id">>,
    <<r.tag # Fields(r, HeadV2), "integrity mismatch">>,
    <<fresh # NoPolicy /\ ~WithinSkew(r.ts, r.disp, fresh), "freshness window exceeded">>,
    <<ForgedV2(r, key), "issuer signature invalid">> >>
<1>1. DOMAIN tests = 1 .. 7 /\ \A i \in 1 .. 7 : tests[i][2] # "intact"
  OBVIOUS
<1>2. FirstFailure(tests) = "intact"
  BY DEF VerifyV2
<1>3. /\ tests[1][1] <=> r.len # 180
      /\ tests[6][1] <=> fresh # NoPolicy /\ ~WithinSkew(r.ts, r.disp, fresh)
      /\ tests[7][1] <=> ForgedV2(r, key)
  OBVIOUS
<1> HIDE DEF tests
<1>4. \A k \in 1 .. 7 : ~tests[k][1]
  BY <1>1, <1>2, FailureShows
<1> QED
  BY <1>3, <1>4 DEF ForgedV2

(* The proof that the tools accept is the holder's, on this channel.       *)
LEMMA ProofShown ==
  ASSUME NEW req, BindingVerdict(req) = "intact", req.proof # NoPolicy
  PROVE  ProvedHere(req)
<1> DEFINE r   == req.rec
           out == Export(req.channel, conf.rev, r)
           wrong == req.proof.over # BindingInput(conf.rev, r, out)
<1>1. VerifyBinding(conf.rev, r, req.proof, out, NoPolicy) = "intact"
  BY DEF BindingVerdict
<1>2. CASE r.holderType = Ed25519
  <2> DEFINE tests == <<
        <<req.proof.type # Ed25519, "binding proof must be 64 octets">>,
        <<req.proof.by # r.holder \/ wrong, "holder proof mismatch">> >>
  <2>1. DOMAIN tests = 1 .. 2 /\ \A i \in 1 .. 2 : tests[i][2] # "intact"
    OBVIOUS
  <2>2. FirstFailure(tests) = "intact"
    BY <1>1, <1>2 DEF VerifyBinding
  <2>3. tests[2][1] <=> req.proof.by # r.holder \/ wrong
    OBVIOUS
  <2> HIDE DEF tests
  <2>4. ~tests[2][1]
    BY <2>1, <2>2, FailureShows
  <2> QED
    BY <1>2, <2>3, <2>4 DEF ProvedHere
<1>3. CASE r.holderType # Ed25519
  <2> DEFINE tests == <<
        <<NoPolicy = NoPolicy, "shared-secret holder binding unavailable">>,
        <<req.proof.type # SharedSecret, "HMAC binding proof must be 32 octets">>,
        <<r.holder # NoPolicy, "shared-secret digest mismatch">>,
        <<req.proof.by # NoPolicy \/ wrong, "HMAC proof mismatch">> >>
  <2>1. DOMAIN tests = 1 .. 4 /\ \A i \in 1 .. 4 : tests[i][2] # "intact"
    OBVIOUS
  <2>2. FirstFailure(tests) = "intact"
    BY <1>1, <1>3 DEF VerifyBinding
  <2>3. tests[1][1]
    OBVIOUS
  <2> HIDE DEF tests
  <2> QED
    BY <2>1, <2>2, <2>3, FailureShows
<1> QED
  BY <1>2, <1>3

LEMMA CheckedV2 ==
  ASSUME InBounds, NEW n \in DOMAIN Requests, Requests[n].api = "v2",
         Early(Requests[n]) = "intact", CheckV2(Requests[n]) = "intact"
  PROVE  GenuineV2(Requests[n], clock)
<1> DEFINE req == Requests[n]
           r   == req.rec
<1>1. conf.binding => req.proof # NoPolicy
  <2> DEFINE tests == <<
        <<conf.rev \notin {"draft11", "draft13"}, "unsupported binding revision">>,
        <<conf.binding /\ req.proof = NoPolicy, "TLS exporter binding proof is required">>,
        <<req.rec.len # 180, "invalid record encoding">> >>
  <2>1. DOMAIN tests = 1 .. 3 /\ \A i \in 1 .. 3 : tests[i][2] # "intact"
    OBVIOUS
  <2>2. FirstFailure(tests) = "intact"
    BY DEF Early
  <2>3. tests[2][1] <=> conf.binding /\ req.proof = NoPolicy
    OBVIOUS
  <2> HIDE DEF tests
  <2>4. ~tests[2][1]
    BY <2>1, <2>2, FailureShows
  <2> QED
    BY <2>3, <2>4
<1>2. /\ RecordVerdict(req) = "intact" /\ BindingVerdict(req) = "intact"
      /\ conf.holders # {} => r.holder \in conf.holders
      /\ conf.rev = "draft13" => Draft13Freshness(r.ts, clock, r.disp, MaxSkew, MaxFutureSkew)
  <2> DEFINE tests == <<
        <<RecordVerdict(req) # "intact", RecordVerdict(req)>>,
        <<conf.holders # {} /\ r.holder \notin conf.holders, "holder not authorized">>,
        <<BindingVerdict(req) # "intact", BindingVerdict(req)>>,
        <<conf.rev = "draft13" /\ ~Draft13Freshness(r.ts, clock, r.disp, MaxSkew, MaxFutureSkew),
          "asymmetric freshness window exceeded">> >>
  <2>1. /\ tests[1][1] => tests[1][2] # "intact"
        /\ tests[2][2] # "intact"
        /\ tests[3][1] => tests[3][2] # "intact"
        /\ tests[4][2] # "intact"
    OBVIOUS
  <2>2. FirstFailure(tests) = "intact"
    BY DEF CheckV2
  <2>3. DOMAIN tests = 1 .. 4
    OBVIOUS
  <2>4. /\ tests[1][1] <=> RecordVerdict(req) # "intact"
        /\ tests[2][1] <=> conf.holders # {} /\ r.holder \notin conf.holders
        /\ tests[3][1] <=> BindingVerdict(req) # "intact"
        /\ tests[4][1] <=> conf.rev = "draft13"
                             /\ ~Draft13Freshness(r.ts, clock, r.disp, MaxSkew, MaxFutureSkew)
    OBVIOUS
  <2> HIDE DEF tests
  <2>5. \A i \in 1 .. 4 : tests[i][1] => tests[i][2] # "intact"
    BY <2>1
  <2>6. \A k \in 1 .. 4 : ~tests[k][1]
    BY <2>2, <2>3, <2>5, FailureShows
  <2> QED
    BY <2>4, <2>6
<1>3. PICK k \in Candidates(req) : VerifyV2(r, k, FreshnessV2(req)) = "intact"
  <2> DEFINE found == {VerifyV2(r, k, FreshnessV2(req)) : k \in Candidates(req)}
                        \ {"issuer signature invalid"}
  <2>1. found # {} /\ RecordVerdict(req) = (CHOOSE v \in found : TRUE)
    BY <1>2 DEF RecordVerdict
  <2>2. "intact" \in found
    BY <1>2, <2>1
  <2> QED
    BY <2>2
<1>4. /\ r.len = 180 /\ r.sig = Sign(k, Fields(r, PrefixV2))
      /\ FreshnessV2(req) # NoPolicy => WithinSkew(r.ts, r.disp, FreshnessV2(req))
  BY <1>3, VerifiedV2
<1>5. r.sig.by = k
  BY <1>4 DEF Sign
<1>6. {r.ts, r.disp} \subseteq Nat /\ r \in Issued
  BY <1>4, <1>5, RequestsAssumption
<1>7. /\ conf.trusted # {} => r.sig.by \in conf.trusted
      /\ conf.trusted = {} /\ conf.pinSelf => r.sig.by \in {SelfKeys[i] : i \in 1 .. life}
  <2>1. CASE conf.trusted # {}
    BY <1>5, <2>1 DEF Candidates
  <2>2. CASE conf.trusted = {} /\ conf.pinSelf
    <3>1. k = SelfKeys[life] /\ life \in 1 .. life
      BY <1>3, <2>2 DEF Candidates, InBounds
    <3> QED
      BY <1>5, <2>2, <3>1
  <2> QED
    BY <2>1, <2>2
<1>8. conf.binding \/ req.proof # NoPolicy => ProvedHere(req)
  BY <1>1, <1>2, ProofShown
<1>9. conf.enforce => clock - r.ts \in -(MaxSkew + r.disp) .. MaxSkew + r.disp
  <2> SUFFICES ASSUME conf.enforce
               PROVE  clock - r.ts \in -(MaxSkew + r.disp) .. MaxSkew + r.disp
    OBVIOUS
  <2>1. clock \in Nat /\ MaxSkew \in Nat
    BY VerifyAssumption DEF InBounds
  <2>2. FreshnessV2(req) = [now |-> clock, skew |-> MaxSkew] /\ FreshnessV2(req) # NoPolicy
    BY <2>1, RecordAssumption DEF FreshnessV2
  <2>3. Distance(r.ts, clock) <= MaxSkew + r.disp
    BY <1>4, <2>2 DEF WithinSkew
  <2> QED
    BY <1>6, <2>1, <2>3 DEF Distance
<1>10. conf.rev = "draft13" => clock - r.ts \in -MaxFutureSkew .. MaxSkew + r.disp
  <2>1. clock \in Nat /\ MaxSkew \in Nat /\ MaxFutureSkew \in Nat
    BY VerifyAssumption DEF InBounds
  <2> QED
    BY <1>2, <1>6, <2>1 DEF Draft13Freshness
<1> QED
  BY <1>2, <1>6, <1>7, <1>8, <1>9, <1>10 DEF GenuineV2

LEMMA CheckedV08 ==
  ASSUME InBounds, NEW n \in DOMAIN Requests, Requests[n].api # "v2",
         CheckV08(Requests[n]) = "intact"
  PROVE  GenuineV08(Requests[n], clock)
<1> DEFINE req   == Requests[n]
           r     == req.rec
           fresh == IF conf.skew08 = NoPolicy THEN NoPolicy
                    ELSE [now |-> clock, skew |-> conf.skew08]
           key   == IF req.issuer = NoPolicy THEN SelfKeys[life] ELSE req.issuer
<1> DEFINE tests == <<
    <<r.len # LengthV08(r), "size">>,
    <<r.version # 1, "unknown version">>,
    <<r.alg # 1, "unimplemented integrity algorithm">>,
    <<r.bound = Reserved, "reserved error bound">>,
    <<fresh # NoPolicy /\ ~WithinSkew(r.ts, r.bound, fresh), "freshness window exceeded">>,
    <<r.commitment # <<req.ctxId, Fields(r, PreV08)>>, "commitment mismatch">>,
    <<r.sig # Sign(key, <<Fields(r, PreV08), r.commitment>>), "Ed25519 signature invalid">>,
    <<req.content # NoPolicy /\ r.digest # req.content, "Payload Digest mismatch">> >>
<1>1. VerifyV08(r, req.ctxId, key, req.content, fresh) = "intact"
  BY DEF CheckV08
<1>2. FirstFailure(tests) = "intact"
  BY <1>1 DEF VerifyV08
<1>3. DOMAIN tests = 1 .. 8 /\ \A i \in 1 .. 8 : tests[i][2] # "intact"
  OBVIOUS
<1>4. /\ tests[1][1] <=> r.len # LengthV08(r)
      /\ tests[5][1] <=> fresh # NoPolicy /\ ~WithinSkew(r.ts, r.bound, fresh)
      /\ tests[6][1] <=> r.commitment # <<req.ctxId, Fields(r, PreV08)>>
      /\ tests[7][1] <=> r.sig # Sign(key, <<Fields(r, PreV08), r.commitment>>)
      /\ tests[8][1] <=> req.content # NoPolicy /\ r.digest # req.content
  OBVIOUS
<1> HIDE DEF tests
<1>5. \A k \in 1 .. 8 : ~tests[k][1]
  BY <1>2, <1>3, FailureShows
<1>6. r.sig.by = key
  BY <1>4, <1>5 DEF Sign
<1>7. {r.ts, r.bound} \subseteq Nat /\ r \in Issued
  BY <1>4, <1>5, <1>6, RequestsAssumption
<1>8. r.commitment[1] = req.ctxId
  BY <1>4, <1>5
<1>9. conf.skew08 # NoPolicy => Distance(r.ts, clock) <= conf.skew08 + r.bound
  <2> SUFFICES ASSUME conf.skew08 # NoPolicy
               PROVE  Distance(r.ts, clock) <= conf.skew08 + r.bound
    OBVIOUS
  <2>1. clock \in Nat /\ conf.skew08 \in Nat
    BY RequestsAssumption DEF InBounds
  <2>2. fresh = [now |-> clock, skew |-> conf.skew08] /\ fresh # NoPolicy
    BY <2>1, RecordAssumption
  <2>3. WithinSkew(r.ts, r.bound, fresh)
    BY <1>4, <1>5, <2>2
  <2> QED
    BY <2>2, <2>3 DEF WithinSkew
<1> QED
  BY <1>4, <1>5, <1>6, <1>7, <1>8, <1>9 DEF GenuineV08

(* What was genuine stays so: the configuration is fixed and the keys of   *)
(* earlier lives are remembered.                                           *)
LEMMA GenuineStays ==
  ASSUME NEW req, NEW at, Genuine(req, at), conf' = conf,
         life \in Nat, life' \in Nat, life <= life'
  PROVE  Genuine(req, at)'
<1>1. {SelfKeys[i] : i \in 1 .. life} \subseteq {SelfKeys[i] : i \in 1 .. life'}
  OBVIOUS
<1> QED
  BY <1>1 DEF Genuine, GenuineV2, GenuineV08, ProvedHere

----------------------------------------------------------------------------
(* A call that claims or that is accepted has passed its checks, and one   *)
(* that waits for the quorum has passed those before it.                   *)

Cleared(s) == s.pc \in {"claiming", "done"} =>
  /\ s.req \in DOMAIN Requests /\ s.at \in Nat /\ s.at <= clock /\ s.sends \in Nat
  /\ s.pc = "claiming" => s.verdict = "intact"
  /\ s.verdict = "intact" \/ s.sends > 0 => Genuine(Requests[s.req], s.at)
Waits(s) == s.pc = "fetching" =>
  s.req \in DOMAIN Requests /\ Requests[s.req].api = "v2" /\ Early(Requests[s.req]) = "intact"
Sound == InBounds /\ Shaped /\ \A c \in Calls : Cleared(call[c]) /\ Waits(call[c])

(* A step that changes one call to one that is cleared.                    *)
LEMMA OneCallSound ==
  ASSUME Sound, Shaped', NEW c \in Calls, NEW s, Become(c, s), UNCHANGED <<conf, clock, life>>,
         Cleared(s), Waits(s)
  PROVE  Sound'
<1>1. \A d \in Calls : call'[d] = IF d = c THEN s ELSE call[d]
  BY DEF Sound, Shaped, Become
<1>2. \A x, y : Genuine(x, y)' <=> Genuine(x, y)
  BY DEF Genuine, GenuineV2, GenuineV08, ProvedHere
<1>3. \A x : Early(x)' = Early(x)
  BY DEF Early
<1>4. \A d \in Calls : Cleared(call[d])' /\ Waits(call[d])'
  BY <1>1, <1>2, <1>3 DEF Sound, Cleared, Waits
<1> QED
  BY <1>4 DEF Sound, InBounds

(* A decision clears the call if the verdict is that of its checks.        *)
LEMMA DecisionSound ==
  ASSUME Sound, Shaped', NEW c \in Calls, NEW n \in DOMAIN Requests, NEW verdict, NEW sample,
         Become(c, Decided(n, verdict, sample)), UNCHANGED <<conf, clock, life>>,
         verdict = "intact" => Genuine(Requests[n], clock)
  PROVE  Sound'
<1> DEFINE s == Decided(n, verdict, sample)
<1>1. /\ s.pc \in {"claiming", "done"} /\ s.req = n /\ s.verdict = verdict
      /\ s.at = clock /\ s.sends = 0
      /\ s.pc = "claiming" => s.verdict = "intact"
  BY DEF Decided
<1>2. Become(c, s)
  OBVIOUS
<1> HIDE DEF s
<1>3. Cleared(s) /\ Waits(s)
  BY <1>1 DEF Cleared, Waits, Sound, InBounds
<1> QED
  BY <1>2, <1>3, OneCallSound

LEMMA AdmitSound ==
  ASSUME Sound, Shaped', NEW c \in Calls, NEW n \in DOMAIN Requests, NEW sample,
         Admit(c, n, sample), UNCHANGED <<conf, clock, life>>,
         Requests[n].api = "v2", Early(Requests[n]) = "intact"
  PROVE  Sound'
<1> DEFINE verdict == IF sample.ok THEN CheckV2(Requests[n]) ELSE "roughtime chain quorum unavailable"
<1>1. verdict = "intact" => CheckV2(Requests[n]) = "intact"
  OBVIOUS
<1>2. Become(c, Decided(n, verdict, sample))
  BY DEF Admit
<1> HIDE DEF verdict
<1>3. verdict = "intact" => Genuine(Requests[n], clock)
  BY <1>1, CheckedV2 DEF Sound, Genuine
<1> QED
  BY <1>2, <1>3, DecisionSound

(* Every step keeps the calls cleared: a claim's answer, or its failure,   *)
(* changes nothing of what was checked.                                    *)
LEMMA StepSound ==
  ASSUME Sound, Shaped', [Next]_vars
  PROVE  Sound'
<1>0. /\ clock \in Nat /\ life \in Nat \ {0} /\ conf \in Confs
      /\ conf.presented \subseteq DOMAIN Requests
  BY RequestsAssumption DEF Sound, InBounds
<1>1. ASSUME conf' = conf, clock' \in Nat, clock <= clock', life' \in Nat, life <= life',
             \A c \in Calls : call'[c] = call[c] \/ call'[c].pc = "lost"
      PROVE  Sound'
  <2>1. ASSUME NEW c \in Calls
        PROVE  Cleared(call[c])' /\ Waits(call[c])'
    <3>1. CASE call'[c].pc = "lost"
      BY <3>1 DEF Cleared, Waits
    <3>2. CASE call'[c] = call[c]
      <4>1. PICK s : s = call[c]
        OBVIOUS
      <4>2. Cleared(s) /\ Waits(s)
        BY <4>1 DEF Sound
      <4>3. Genuine(Requests[s.req], s.at) => Genuine(Requests[s.req], s.at)'
        BY <1>0, <1>1, GenuineStays
      <4>4. Early(Requests[s.req])' = Early(Requests[s.req])
        BY <1>1 DEF Early
      <4> QED
        BY <1>0, <1>1, <3>2, <4>1, <4>2, <4>3, <4>4 DEF Cleared, Waits
    <3> QED
      BY <1>1, <3>1, <3>2
  <2> QED
    BY <1>0, <1>1, <2>1 DEF Sound, InBounds
<1>2. CASE UNCHANGED vars
  BY <1>0, <1>1, <1>2 DEF vars
<1>3. CASE Tick \/ QuorumChanges
  BY <1>0, <1>1, <1>3 DEF Tick, QuorumChanges
<1>4. CASE Restart
  BY <1>0, <1>1, <1>4 DEF Restart
<1>5. ASSUME NEW c \in Calls, NEW n \in conf.presented, StartV2(c, n)
      PROVE  Sound'
  <2>1. UNCHANGED <<conf, clock, life>> /\ n \in DOMAIN Requests /\ Requests[n].api = "v2"
    BY <1>0, <1>5 DEF StartV2
  <2>2. CASE Early(Requests[n]) # "intact" /\ Become(c, Decided(n, Early(Requests[n]), NoSample))
    BY <2>1, <2>2, DecisionSound
  <2>3. CASE Early(Requests[n]) = "intact" /\ \E sample : Admit(c, n, sample)
    BY <2>1, <2>3, AdmitSound
  <2>4. CASE /\ Early(Requests[n]) = "intact"
             /\ Become(c, [pc |-> "fetching", req |-> n, since |-> clock, sample |-> NoPolicy])
    <3> DEFINE s == [pc |-> "fetching", req |-> n, since |-> clock, sample |-> NoPolicy]
    <3>1. Cleared(s) /\ Waits(s)
      BY <2>1, <2>4 DEF Cleared, Waits
    <3> QED
      BY <2>1, <2>4, <3>1, OneCallSound
  <2> QED
    BY <1>5, <2>2, <2>3, <2>4 DEF StartV2
<1>6. ASSUME NEW c \in Calls, NEW n \in conf.presented, StartV08(c, n)
      PROVE  Sound'
  <2>1. /\ UNCHANGED <<conf, clock, life>> /\ n \in DOMAIN Requests /\ Requests[n].api # "v2"
        /\ Become(c, Decided(n, CheckV08(Requests[n]), NoSample))
    BY <1>0, <1>6 DEF StartV08
  <2>2. CheckV08(Requests[n]) = "intact" => Genuine(Requests[n], clock)
    BY <2>1, CheckedV08 DEF Sound, Genuine
  <2> QED
    BY <2>1, <2>2, DecisionSound
<1>7. ASSUME NEW c \in Calls, Sample(c)
      PROVE  Sound'
  <2> DEFINE s == [call[c] EXCEPT !.sample = [ok |-> quorum, at |-> clock]]
  <2>1. /\ call[c].pc = "fetching" /\ Become(c, s) /\ UNCHANGED <<conf, clock, life>>
        /\ DOMAIN call[c] = {"pc", "req", "since", "sample"} /\ Waits(call[c])
    BY <1>7 DEF Sample, Sound, Shaped
  <2>2. s.pc = "fetching" /\ s.req = call[c].req
    BY <2>1
  <2> HIDE DEF s
  <2>3. Cleared(s) /\ Waits(s)
    BY <2>1, <2>2 DEF Cleared, Waits
  <2> QED
    BY <2>1, <2>3, OneCallSound
<1>8. ASSUME NEW c \in Calls, FetchAnswers(c) \/ FetchFails(c)
      PROVE  Sound'
  <2>1. /\ call[c].pc = "fetching" /\ UNCHANGED <<conf, clock, life>>
        /\ \E sample : Admit(c, call[c].req, sample)
    BY <1>8 DEF FetchAnswers, FetchFails
  <2>2. Waits(call[c])
    BY DEF Sound
  <2>3. PICK n \in DOMAIN Requests : n = call[c].req /\ Requests[n].api = "v2"
                                      /\ Early(Requests[n]) = "intact"
    BY <2>1, <2>2 DEF Waits
  <2> QED
    BY <2>1, <2>3, AdmitSound
<1>9. ASSUME NEW c \in Calls, ClaimRuns(c) \/ ClaimAnswered(c) \/ ClaimFails(c)
      PROVE  Sound'
  <2>1. /\ call[c].pc = "claiming" /\ DOMAIN call[c] = Settled /\ Cleared(call[c])
        /\ UNCHANGED <<conf, clock, life>>
    BY <1>9 DEF ClaimRuns, ClaimAnswered, ClaimFails, Settle, Sound, Shaped, Past
  <2> DEFINE Keeps(s) == /\ Become(c, s) /\ s.pc \in {"claiming", "done"}
                         /\ s.pc = "claiming" => s.verdict = call[c].verdict
                         /\ s.req = call[c].req /\ s.at = call[c].at
                         /\ s.sends \in {call[c].sends, call[c].sends + 1}
  <2>2. ASSUME ClaimRuns(c) PROVE \E s : Keeps(s)
    <3> DEFINE ans == [ok |-> ~Live(Key(Req(c))), at |-> clock]
    <3>1. Become(c, [call[c] EXCEPT !.sends = @ + 1, !.answer = ans])
      BY <2>2 DEF ClaimRuns
    <3> HIDE DEF ans
    <3>2. Keeps([call[c] EXCEPT !.sends = @ + 1, !.answer = ans])
      BY <2>1, <3>1 DEF Settled
    <3> QED
      BY <3>2
  <2>3. ASSUME NEW v, Settle(c, v) PROVE \E s : Keeps(s)
    <3>1. Keeps([call[c] EXCEPT !.pc = "done", !.verdict = v])
      BY <2>1, <2>3 DEF Settle, Settled
    <3> QED
      BY <3>1
  <2>4. PICK s : Keeps(s)
    BY <1>9, <2>2, <2>3 DEF ClaimAnswered, ClaimFails
  <2>5. Cleared(s) /\ Waits(s)
    BY <2>1, <2>4 DEF Cleared, Waits
  <2> QED
    BY <2>1, <2>4, <2>5, OneCallSound
<1> QED
  BY <1>2, <1>3, <1>4, <1>5, <1>6, <1>7, <1>8, <1>9 DEF Next

LEMMA SoundHolds == Spec => [](IInv /\ Sound)
<1>1. Init => IInv /\ Sound
  <2>1. Init => Sound
    BY InitEstablishes DEF Init, Idle, Sound, InBounds, Cleared, Waits, IInv
  <2> QED
    BY <2>1, InitEstablishes
<1>2. IInv /\ Sound /\ [Next]_vars => IInv' /\ Sound'
  BY StepPreserves, StepSound DEF IInv
<1> QED
  BY <1>1, <1>2, PTL DEF Spec

(* What is answered "intact" is a record that an accepted issuer made,     *)
(* unaltered and in its window, proved by its holder on the channel of the *)
(* call, however the fetches and claims of concurrent calls interleave.    *)
THEOREM OnlyGenuineAccepted == Spec => []AcceptedIsGenuine
<1>1. Sound => AcceptedIsGenuine
  BY DEF Sound, Cleared, AcceptedIsGenuine, Accepted, Done, Req
<1> QED
  BY <1>1, SoundHolds, PTL

(* No nonce is spent for a record that did not pass every check, also when *)
(* the claim then fails or is answered "replay detected".                  *)
THEOREM OnlyGenuineClaimed == Spec => []ClaimedWasChecked
<1>1. Sound => ClaimedWasChecked
  BY DEF Sound, Cleared, ClaimedWasChecked, Req
<1> QED
  BY <1>1, SoundHolds, PTL

----------------------------------------------------------------------------
(* Version 08: a key is held until its claim's instant and the time to     *)
(* live, so that two claims of one key that were answered OK are further   *)
(* apart than that.                                                        *)

Taken(c) == Claimed(c) /\ ~IsV2(c)
Kept == \A c \in Calls : Taken(c) =>
          /\ call[c].answer.at \in Nat /\ call[c].at <= call[c].answer.at
          /\ call[c].answer.at <= clock
          /\ \E e \in keys : /\ e.key = Key(Req(c)) /\ e.until \in Int
                             /\ e.until >= call[c].answer.at + ReplayTtl
Apart == \A c, d \in Calls :
           Taken(c) /\ Taken(d) /\ c # d /\ Key(Req(c)) = Key(Req(d))
             => \/ call[c].answer.at - call[d].answer.at > ReplayTtl
                \/ call[d].answer.at - call[c].answer.at > ReplayTtl
None08Without == \A c \in Calls : Accepted(c) /\ ~IsV2(c) /\ Ledger("v08") => Claimed(c)
Spaced == Kept /\ Apart /\ None08Without

(* A step on which nothing is claimed.                                     *)
LEMMA NothingTaken ==
  ASSUME Spaced, UNCHANGED <<conf, keys>>, clock \in Nat, clock' \in Nat, clock <= clock',
         \A c \in Calls : Claimed(c)' =>
           /\ Claimed(c) /\ call'[c].req = call[c].req
           /\ call'[c].answer = call[c].answer /\ call'[c].at = call[c].at,
         \A c \in Calls : Accepted(c)' /\ ~IsV2(c)' /\ Ledger("v08") => Claimed(c)'
  PROVE  Spaced'
<1>1. \A c \in Calls : Taken(c)' =>
        /\ Taken(c) /\ Req(c)' = Req(c) /\ Key(Req(c))' = Key(Req(c))
        /\ call'[c].answer = call[c].answer /\ call'[c].at = call[c].at
  BY DEF Taken, IsV2, Api, Req, Key
<1>2. Kept'
  BY <1>1 DEF Spaced, Kept
<1>3. Apart'
  BY <1>1 DEF Spaced, Apart
<1>4. None08Without'
  BY DEF None08Without, Ledger
<1> QED
  BY <1>2, <1>3, <1>4 DEF Spaced

(* A SET NX that takes a key finds every earlier one of it expired.        *)
LEMMA TakenApart ==
  ASSUME Sound, Spaced, NEW c \in Calls, ClaimRuns(c)
  PROVE  Spaced'
<1>0. ReplayTtl \in Nat /\ Never \notin Int /\ clock \in Nat
  BY VerifyAssumption DEF Sound, InBounds
<1> DEFINE k   == Key(Req(c))
           ans == [ok |-> ~Live(k), at |-> clock]
           new == [key |-> k, until |-> Expiry(Req(c).api)]
<1>1. /\ call[c].pc = "claiming" /\ UNCHANGED <<conf, clock>>
      /\ call' = [call EXCEPT ![c] = [call[c] EXCEPT !.sends = @ + 1, !.answer = ans]]
      /\ keys' = IF Live(k) THEN keys ELSE {e \in keys : e.key # k} \cup {new}
  BY DEF ClaimRuns, Become
<1>2. DOMAIN call = Calls /\ DOMAIN call[c] = Settled /\ Cleared(call[c])
  BY <1>1 DEF Sound, Shaped, Past
<1>3. /\ call'[c].pc = "claiming" /\ call'[c].req = call[c].req /\ call'[c].answer = ans
      /\ call'[c].at = call[c].at /\ call'[c].answer.at = clock
      /\ DOMAIN call' = Calls /\ \A d \in Calls \ {c} : call'[d] = call[d]
  BY <1>1, <1>2 DEF Settled
<1>4. \A d \in Calls : Req(d)' = Req(d) /\ (IsV2(d)' <=> IsV2(d)) /\ Key(Req(d))' = Key(Req(d))
  BY <1>3 DEF Req, IsV2, Api, Key
<1>5. \A d \in Calls \ {c} : Claimed(d)' <=> Claimed(d)
  BY <1>3 DEF Claimed, Past
<1>6. Claimed(c)' => ~Live(k)
  <2>1. Live(k) => ans.ok = FALSE
    OBVIOUS
  <2> QED
    BY <1>3, <2>1 DEF Claimed
<1>7. ASSUME NEW d \in Calls \ {c}, Taken(d), Key(Req(d)) = k, ~Live(k)
      PROVE  ~IsV2(c) /\ clock - call[d].answer.at > ReplayTtl
  <2>1. PICK e \in keys : /\ e.key = k /\ e.until \in Int
                          /\ e.until >= call[d].answer.at + ReplayTtl
    BY <1>7 DEF Spaced, Kept
  <2>2. call[d].answer.at \in Nat
    BY <1>7 DEF Spaced, Kept
  <2>3. ~(clock <= e.until)
    BY <1>7, <2>1 DEF Live
  <2>4. ~IsV2(c)
    BY <1>7, KeysApart DEF Taken, IsV2, Api
  <2> QED
    BY <1>0, <2>1, <2>2, <2>3, <2>4
<1>8. ~IsV2(c) => new.until = clock + ReplayTtl
  BY DEF IsV2, Api, Expiry
<1>9. Kept'
  <2> SUFFICES ASSUME NEW d \in Calls, Taken(d)'
               PROVE  /\ call'[d].answer.at \in Nat /\ call'[d].at <= call'[d].answer.at
                      /\ call'[d].answer.at <= clock
                      /\ \E e \in keys' : /\ e.key = Key(Req(d)) /\ e.until \in Int
                                          /\ e.until >= call'[d].answer.at + ReplayTtl
    BY <1>1, <1>4 DEF Kept
  <2>1. CASE d = c
    <3>1. ~Live(k) /\ ~IsV2(c)
      BY <1>4, <1>6, <2>1 DEF Taken
    <3>2. new \in keys' /\ new.key = k /\ new.until = clock + ReplayTtl
      BY <1>1, <1>8, <3>1
    <3>3. call[c].at <= clock
      BY <1>1, <1>2 DEF Cleared
    <3> HIDE DEF new
    <3> QED
      BY <1>0, <1>3, <2>1, <3>2, <3>3
  <2>2. CASE d # c
    <3>1. Taken(d) /\ call'[d] = call[d]
      BY <1>3, <1>4, <1>5, <2>2 DEF Taken
    <3>2. /\ call[d].answer.at \in Nat /\ call[d].at <= call[d].answer.at
          /\ call[d].answer.at <= clock
      BY <3>1 DEF Spaced, Kept
    <3>3. PICK e \in keys : /\ e.key = Key(Req(d)) /\ e.until \in Int
                            /\ e.until >= call[d].answer.at + ReplayTtl
      BY <3>1 DEF Spaced, Kept
    <3>4. CASE Live(k) \/ Key(Req(d)) # k
      <4>1. e \in keys'
        BY <1>1, <3>3, <3>4
      <4> QED
        BY <3>1, <3>2, <3>3, <4>1
    <3>5. CASE ~Live(k) /\ Key(Req(d)) = k
      <4>1. new \in keys' /\ new.key = k /\ new.until = clock + ReplayTtl
        BY <1>1, <1>7, <1>8, <2>2, <3>1, <3>5
      <4> HIDE DEF new
      <4> QED
        BY <1>0, <3>1, <3>2, <3>5, <4>1
    <3> QED
      BY <3>4, <3>5
  <2> QED
    BY <2>1, <2>2
<1>10. Apart'
  <2>1. ASSUME NEW d \in Calls \ {c}, Taken(d)', Taken(c)', Key(Req(d)) = k
        PROVE  call'[c].answer.at - call'[d].answer.at > ReplayTtl
    <3>1. Taken(d) /\ ~Live(k)
      BY <1>4, <1>5, <1>6, <2>1 DEF Taken
    <3> QED
      BY <1>3, <1>7, <2>1, <3>1
  <2>2. ASSUME NEW d \in Calls \ {c}, NEW e \in Calls \ {c}, Taken(d)', Taken(e)', d # e,
               Key(Req(d)) = Key(Req(e))
        PROVE  \/ call'[d].answer.at - call'[e].answer.at > ReplayTtl
               \/ call'[e].answer.at - call'[d].answer.at > ReplayTtl
    <3>1. Taken(d) /\ Taken(e)
      BY <1>4, <1>5, <2>2 DEF Taken
    <3> QED
      BY <1>3, <2>2, <3>1 DEF Spaced, Apart
  <2> SUFFICES ASSUME NEW d \in Calls, NEW e \in Calls, Taken(d)', Taken(e)', d # e,
                      Key(Req(d)) = Key(Req(e))
               PROVE  \/ call'[d].answer.at - call'[e].answer.at > ReplayTtl
                      \/ call'[e].answer.at - call'[d].answer.at > ReplayTtl
    BY <1>4 DEF Apart
  <2> QED
    BY <2>1, <2>2
<1>11. None08Without'
  <2> SUFFICES ASSUME NEW d \in Calls, Accepted(d)', ~IsV2(d)', Ledger("v08")'
               PROVE  Claimed(d)'
    BY DEF None08Without
  <2>1. d # c
    BY <1>3 DEF Accepted, Done
  <2>2. Accepted(d) /\ ~IsV2(d) /\ Ledger("v08")
    BY <1>1, <1>3, <2>1 DEF Accepted, Done, IsV2, Api, Req, Ledger
  <2> QED
    BY <1>5, <2>1, <2>2 DEF Spaced, None08Without
<1> QED
  BY <1>9, <1>10, <1>11 DEF Spaced

LEMMA OneCallSpaced ==
  ASSUME Sound, Spaced, NEW c \in Calls, NEW s, Become(c, s), UNCHANGED <<conf, clock, keys>>,
         s.pc \in {"claiming", "done"} /\ s.answer # NoPolicy /\ s.answer.ok
           => Claimed(c) /\ s.req = call[c].req /\ s.answer = call[c].answer /\ s.at = call[c].at,
         s.pc = "done" /\ s.verdict = "intact" /\ Requests[s.req].api # "v2" /\ Ledger("v08")
           => s.answer # NoPolicy /\ s.answer.ok
  PROVE  Spaced'
<1>1. call'[c] = s /\ \A d \in Calls \ {c} : call'[d] = call[d]
  BY DEF Become, Sound, Shaped
<1>2. ASSUME NEW d \in Calls, Claimed(d)'
      PROVE  /\ Claimed(d) /\ call'[d].req = call[d].req
             /\ call'[d].answer = call[d].answer /\ call'[d].at = call[d].at
  BY <1>1, <1>2 DEF Claimed, Past
<1>3. ASSUME NEW d \in Calls, Accepted(d)', ~IsV2(d)', Ledger("v08")
      PROVE  Claimed(d)'
  <2>1. CASE d = c
    BY <1>1, <1>3, <2>1 DEF Accepted, Done, IsV2, Api, Req, Claimed, Past
  <2>2. CASE d # c
    BY <1>1, <1>3, <2>2 DEF Spaced, None08Without, Accepted, Done, IsV2, Api, Req, Claimed, Past
  <2> QED
    BY <2>1, <2>2
<1> QED
  BY <1>2, <1>3, NothingTaken DEF Sound, InBounds

LEMMA DecisionSpaced ==
  ASSUME Sound, Spaced, NEW c \in Calls, NEW n, NEW verdict, NEW sample,
         Become(c, Decided(n, verdict, sample)), UNCHANGED <<conf, clock, keys>>
  PROVE  Spaced'
<1> DEFINE s == Decided(n, verdict, sample)
<1>1. /\ s.answer = NoPolicy /\ s.req = n
      /\ s.pc = "done" /\ s.verdict = "intact" => ~Ledger(Requests[n].api)
  BY DecidedParts
<1>2. Become(c, s)
  OBVIOUS
<1> HIDE DEF s
<1>3. s.pc = "done" /\ s.verdict = "intact" /\ Requests[s.req].api # "v2" => ~Ledger("v08")
  BY <1>1 DEF Ledger
<1> QED
  BY <1>1, <1>2, <1>3, OneCallSpaced

LEMMA SettleSpaced ==
  ASSUME Sound, Spaced, NEW c \in Calls, NEW verdict, call[c].pc = "claiming", Settle(c, verdict),
         verdict = "intact" => call[c].answer # NoPolicy /\ call[c].answer.ok
  PROVE  Spaced'
<1> DEFINE s == [call[c] EXCEPT !.pc = "done", !.verdict = verdict]
<1>1. Become(c, s) /\ UNCHANGED <<conf, clock, keys>>
  BY DEF Settle
<1>2. DOMAIN call[c] = Settled
  BY DEF Sound, Shaped, Past
<1>3. /\ s.pc = "done" /\ s.verdict = verdict
      /\ s.answer = call[c].answer /\ s.req = call[c].req /\ s.at = call[c].at
  BY <1>2 DEF Settled
<1> HIDE DEF s
<1>4. s.answer # NoPolicy /\ s.answer.ok => Claimed(c)
  BY <1>3 DEF Claimed, Past
<1> QED
  BY <1>1, <1>3, <1>4, OneCallSpaced

LEMMA StepSpaced ==
  ASSUME Sound, Spaced, [Next]_vars
  PROVE  Spaced'
<1>0. clock \in Nat
  BY DEF Sound, InBounds
<1>1. ASSUME UNCHANGED <<conf, keys, call>>, clock' \in Nat, clock <= clock'
      PROVE  Spaced'
  <2>1. \A c \in Calls : Claimed(c)' <=> Claimed(c)
    BY <1>1 DEF Claimed, Past
  <2>2. \A c \in Calls : Accepted(c)' /\ ~IsV2(c)' => Accepted(c) /\ ~IsV2(c)
    BY <1>1 DEF Accepted, Done, IsV2, Api, Req
  <2> QED
    BY <1>0, <1>1, <2>1, <2>2, NothingTaken DEF Spaced, None08Without
<1>2. CASE UNCHANGED vars
  BY <1>0, <1>1, <1>2 DEF vars
<1>3. CASE Tick \/ QuorumChanges
  BY <1>0, <1>1, <1>3 DEF Tick, QuorumChanges
<1>4. CASE Restart
  <2>1. /\ UNCHANGED <<conf, clock, keys>>
        /\ \A c \in Calls : call'[c] = call[c] \/ call'[c] = [pc |-> "lost"]
    BY <1>4 DEF Restart
  <2>2. ASSUME NEW c \in Calls, Claimed(c)'
        PROVE  /\ Claimed(c) /\ call'[c].req = call[c].req
               /\ call'[c].answer = call[c].answer /\ call'[c].at = call[c].at
    BY <2>1, <2>2 DEF Claimed, Past
  <2>3. ASSUME NEW c \in Calls, Accepted(c)', ~IsV2(c)', Ledger("v08")
        PROVE  Claimed(c)'
    <3>1. call'[c] = call[c]
      BY <2>1, <2>3 DEF Accepted, Done
    <3> QED
      BY <2>3, <3>1 DEF Spaced, None08Without, Accepted, Done, IsV2, Api, Req, Claimed, Past
  <2> QED
    BY <1>0, <2>1, <2>2, <2>3, NothingTaken
<1>5. ASSUME NEW c \in Calls, NEW n, StartV2(c, n)
      PROVE  Spaced'
  <2>1. UNCHANGED <<conf, clock, keys>>
    BY <1>5 DEF StartV2
  <2>2. CASE \E verdict, sample : Become(c, Decided(n, verdict, sample))
    BY <2>1, <2>2, DecisionSpaced
  <2>3. CASE Become(c, [pc |-> "fetching", req |-> n, since |-> clock, sample |-> NoPolicy])
    BY <2>1, <2>3, OneCallSpaced
  <2> QED
    BY <1>5, <2>2, <2>3 DEF StartV2, Admit
<1>6. ASSUME NEW c \in Calls, NEW n, StartV08(c, n)
      PROVE  Spaced'
  BY <1>6, DecisionSpaced DEF StartV08
<1>7. ASSUME NEW c \in Calls, Sample(c)
      PROVE  Spaced'
  <2> DEFINE s == [call[c] EXCEPT !.sample = [ok |-> quorum, at |-> clock]]
  <2>1. /\ Become(c, s) /\ UNCHANGED <<conf, clock, keys>>
        /\ DOMAIN call[c] = {"pc", "req", "since", "sample"} /\ call[c].pc = "fetching"
    BY <1>7 DEF Sample, Sound, Shaped
  <2>2. s.pc = "fetching"
    BY <2>1
  <2> HIDE DEF s
  <2> QED
    BY <2>1, <2>2, OneCallSpaced
<1>8. ASSUME NEW c \in Calls, FetchAnswers(c) \/ FetchFails(c)
      PROVE  Spaced'
  BY <1>8, DecisionSpaced DEF FetchAnswers, FetchFails, Admit
<1>9. ASSUME NEW c \in Calls, ClaimRuns(c)
      PROVE  Spaced'
  BY <1>9, TakenApart
<1>10. ASSUME NEW c \in Calls, ClaimAnswered(c) \/ ClaimFails(c)
       PROVE  Spaced'
  BY <1>10, SettleSpaced DEF ClaimAnswered, ClaimFails
<1> QED
  BY <1>2, <1>3, <1>4, <1>5, <1>6, <1>7, <1>8, <1>9, <1>10 DEF Next

(* A version 08 record is accepted twice within its freshness window only  *)
(* if one of the claims reached Redis later than its freshness check by    *)
(* more than the time to live exceeds the window.                          *)
THEOREM V08TwiceIsLate == Spec => []V08TwiceOnlyWhenLate
<1>1. Init => Spaced
  BY DEF Init, Idle, Spaced, Kept, Apart, None08Without, Taken, Claimed, Past, Accepted, Done
<1>2. Sound /\ Spaced /\ [Next]_vars => Spaced'
  BY StepSpaced
<1>3. ASSUME Sound, Spaced
      PROVE  V08TwiceOnlyWhenLate
  <2> SUFFICES ASSUME NEW c \in Calls, NEW d \in Calls,
                      Accepted(c), Accepted(d), c # d, Api(c) = "v08", Api(d) = "v08",
                      Ledger("v08"), conf.skew08 # NoPolicy,
                      Req(c).rec = Req(d).rec, Key(Req(c)) = Key(Req(d))
               PROVE  \E e \in {c, d} : call[e].answer.at - call[e].at
                                          > ReplayTtl - 2 * (conf.skew08 + Req(e).rec.bound)
    BY DEF V08TwiceOnlyWhenLate
  <2>1. PICK ts, bound : /\ Req(c).rec.ts = ts /\ Req(c).rec.bound = bound
                         /\ Req(d).rec.ts = ts /\ Req(d).rec.bound = bound
    OBVIOUS
  <2>2. ASSUME NEW e \in {c, d}
        PROVE  /\ Taken(e) /\ call[e].at \in Nat /\ call[e].answer.at \in Nat
               /\ call[e].at <= call[e].answer.at
               /\ ts \in Nat /\ bound \in Nat /\ conf.skew08 \in Nat
               /\ Distance(ts, call[e].at) <= conf.skew08 + bound
    <3>1. Taken(e)
      BY <1>3, <2>2 DEF Spaced, None08Without, Taken, IsV2
    <3>2. /\ call[e].req \in DOMAIN Requests /\ call[e].at \in Nat
          /\ Genuine(Req(e), call[e].at)
      BY <1>3, <2>2 DEF Sound, Cleared, Accepted, Done, Req
    <3>3. GenuineV08(Req(e), call[e].at)
      BY <2>2, <3>2 DEF Genuine, Api
    <3>4. Req(e).rec.ts \in Nat /\ Req(e).rec.bound \in Nat
      BY <2>2, <3>2, RequestsAssumption DEF Req, Api
    <3>5. conf.skew08 \in Nat
      BY <1>3, RequestsAssumption DEF Sound, InBounds
    <3> QED
      BY <1>3, <2>1, <2>2, <3>1, <3>2, <3>3, <3>4, <3>5 DEF GenuineV08, Spaced, Kept
  <2>3. ReplayTtl \in Nat
    BY VerifyAssumption
  <2>4. ASSUME NEW e \in {c, d}, NEW f \in {c, d},
               call[e].answer.at - call[f].answer.at > ReplayTtl
        PROVE  call[e].answer.at - call[e].at > ReplayTtl - 2 * (conf.skew08 + bound)
    BY <2>2, <2>3, <2>4 DEF Distance
  <2>5. \/ call[c].answer.at - call[d].answer.at > ReplayTtl
        \/ call[d].answer.at - call[c].answer.at > ReplayTtl
    BY <1>3, <2>2 DEF Spaced, Apart
  <2> QED
    BY <2>1, <2>4, <2>5
<1>4. Sound /\ Spaced => V08TwiceOnlyWhenLate
  BY <1>3
<1> QED
  BY <1>1, <1>2, <1>4, SoundHolds, PTL DEF Spec

----------------------------------------------------------------------------
(* The types, with that of what a fetch has seen.                          *)
CacheTyped ==
  cache = NoPolicy \/ (cache.ok \in BOOLEAN /\ {cache.at, cache.sampled} \subseteq 0 .. clock)
KeysTyped ==
  \A e \in keys : IF e.key[1] = "v2" THEN e.until = Never ELSE e.until \in 0 .. clock + ReplayTtl
CallTyped(s) ==
  /\ s.pc \in {"idle", "fetching", "claiming", "done", "lost"}
  /\ s.pc = "fetching" /\ s.sample # NoPolicy =>
       s.sample.ok \in BOOLEAN /\ s.sample.at \in 0 .. clock
Typed ==
  /\ conf \in Confs /\ clock \in 0 .. MaxTime /\ life \in 1 .. Len(SelfKeys) /\ quorum \in BOOLEAN
  /\ CacheTyped /\ KeysTyped /\ \A c \in Calls : CallTyped(call[c])

LEMMA OneCallTyped ==
  ASSUME Shaped, Typed, NEW c \in Calls, NEW s, Become(c, s), CallTyped(s),
         UNCHANGED <<conf, clock, life, quorum>>, CacheTyped', KeysTyped'
  PROVE  Typed'
<1>1. \A d \in Calls : call'[d] = IF d = c THEN s ELSE call[d]
  BY DEF Shaped, Become
<1>2. \A d \in Calls : CallTyped(call[d])'
  BY <1>1 DEF Typed, CallTyped
<1> QED
  BY <1>2 DEF Typed

LEMMA DecisionTyped ==
  ASSUME Shaped, Typed, NEW c \in Calls, NEW n, NEW verdict, NEW sample,
         Become(c, Decided(n, verdict, sample)),
         UNCHANGED <<conf, clock, life, quorum, keys>>, CacheTyped'
  PROVE  Typed'
<1> DEFINE s == Decided(n, verdict, sample)
<1>1. s.pc \in {"claiming", "done"} /\ Become(c, s)
  BY DecidedParts
<1> HIDE DEF s
<1>2. CallTyped(s) /\ KeysTyped'
  BY <1>1 DEF CallTyped, Typed, KeysTyped
<1> QED
  BY <1>1, <1>2, OneCallTyped

(* A key of version 2 has no expiry and one of version 08 has one.         *)
LEMMA ClaimTyped ==
  ASSUME Shaped, Typed, NEW c \in Calls, ClaimRuns(c)
  PROVE  Typed'
<1> DEFINE req == Req(c)
           k   == Key(req)
           new == [key |-> k, until |-> Expiry(req.api)]
           s   == [call[c] EXCEPT !.sends = @ + 1, !.answer = [ok |-> ~Live(k), at |-> clock]]
<1>1. /\ call[c].pc = "claiming" /\ UNCHANGED <<conf, clock, life, quorum, cache>>
      /\ Become(c, s)
      /\ keys' = IF Live(k) THEN keys ELSE {e \in keys : e.key # k} \cup {new}
  BY DEF ClaimRuns
<1>2. DOMAIN call[c] = Settled
  BY <1>1 DEF Shaped, Past
<1>3. s.pc = "claiming"
  BY <1>1, <1>2 DEF Settled
<1>4. IF new.key[1] = "v2" THEN new.until = Never ELSE new.until \in 0 .. clock + ReplayTtl
  <2>1. new.key[1] = "v2" <=> req.api = "v2"
    BY DEF Key
  <2>2. clock \in Nat /\ ReplayTtl \in Nat
    BY VerifyAssumption DEF Typed
  <2> QED
    BY <2>1, <2>2 DEF Expiry
<1> HIDE DEF new, s
<1>5. KeysTyped'
  BY <1>1, <1>4 DEF Typed, KeysTyped
<1>6. CallTyped(s) /\ CacheTyped'
  BY <1>1, <1>3 DEF CallTyped, Typed, CacheTyped
<1> QED
  BY <1>1, <1>5, <1>6, OneCallTyped

LEMMA StepTyped ==
  ASSUME Shaped, Typed, [Next]_vars
  PROVE  Typed'
<1>1. clock \in 0 .. MaxTime /\ MaxTime \in Nat /\ ReplayTtl \in Nat /\ clock \in Nat
  BY VerifyAssumption DEF Typed
<1>2. ASSUME UNCHANGED <<conf, keys, cache, call>>, clock' \in 0 .. MaxTime, clock <= clock',
             life' = life, quorum' \in BOOLEAN
      PROVE  Typed'
  <2>1. CacheTyped' /\ KeysTyped'
    BY <1>1, <1>2 DEF Typed, CacheTyped, KeysTyped
  <2>2. \A c \in Calls : CallTyped(call[c])'
    BY <1>1, <1>2 DEF Typed, CallTyped
  <2> QED
    BY <1>2, <2>1, <2>2 DEF Typed
<1>3. CASE UNCHANGED vars
  BY <1>1, <1>2, <1>3 DEF vars, Typed
<1>4. CASE Tick
  BY <1>1, <1>2, <1>4 DEF Tick, Typed
<1>5. CASE QuorumChanges
  BY <1>1, <1>2, <1>5 DEF QuorumChanges, Typed
<1>6. CASE Restart
  <2>1. /\ UNCHANGED <<conf, clock, quorum, keys>> /\ cache' = NoPolicy
        /\ \A c \in Calls : call'[c] = call[c] \/ call'[c].pc = "lost"
    BY <1>6 DEF Restart
  <2>2. life' \in 1 .. Len(SelfKeys)
    BY <1>6, VerifyAssumption DEF Restart, Typed
  <2>3. \A c \in Calls : CallTyped(call[c])'
    BY <2>1 DEF Typed, CallTyped
  <2> QED
    BY <2>1, <2>2, <2>3 DEF Typed, CacheTyped, KeysTyped
<1>7. ASSUME NEW c \in Calls, NEW n, StartV2(c, n) PROVE Typed'
  <2>1. UNCHANGED <<conf, clock, life, quorum, keys, cache>> /\ CacheTyped' /\ KeysTyped'
    BY <1>7 DEF StartV2, Typed, CacheTyped, KeysTyped
  <2>2. CASE \E verdict, sample : Become(c, Decided(n, verdict, sample))
    BY <2>1, <2>2, DecisionTyped
  <2>3. CASE Become(c, [pc |-> "fetching", req |-> n, since |-> clock, sample |-> NoPolicy])
    <3>1. CallTyped([pc |-> "fetching", req |-> n, since |-> clock, sample |-> NoPolicy])
      BY DEF CallTyped
    <3> QED
      BY <2>1, <2>3, <3>1, OneCallTyped
  <2> QED
    BY <1>7, <2>2, <2>3 DEF StartV2, Admit
<1>8. ASSUME NEW c \in Calls, NEW n, StartV08(c, n) PROVE Typed'
  <2>1. UNCHANGED <<conf, clock, life, quorum, keys, cache>> /\ CacheTyped'
    BY <1>8 DEF StartV08, Typed, CacheTyped
  <2> QED
    BY <1>8, <2>1, DecisionTyped DEF StartV08
<1>9. ASSUME NEW c \in Calls, Sample(c) PROVE Typed'
  <2> DEFINE s == [call[c] EXCEPT !.sample = [ok |-> quorum, at |-> clock]]
  <2>1. DOMAIN call[c] = {"pc", "req", "since", "sample"} /\ call[c].pc = "fetching"
    BY <1>9 DEF Sample, Shaped
  <2>2. s.pc = "fetching" /\ s.sample = [ok |-> quorum, at |-> clock]
    BY <2>1
  <2>3. /\ Become(c, s) /\ UNCHANGED <<conf, clock, life, quorum, keys, cache>>
        /\ CacheTyped' /\ KeysTyped' /\ quorum \in BOOLEAN
    BY <1>9 DEF Sample, Typed, CacheTyped, KeysTyped
  <2> HIDE DEF s
  <2>4. s.sample.ok = quorum /\ s.sample.at = clock
    BY <2>2
  <2>5. clock \in 0 .. clock
    BY <1>1
  <2>6. CallTyped(s)
    BY <2>2, <2>3, <2>4, <2>5 DEF CallTyped
  <2> QED
    BY <2>3, <2>6, OneCallTyped
<1>10. ASSUME NEW c \in Calls, FetchAnswers(c) PROVE Typed'
  <2> DEFINE x == call[c].sample
  <2>1. /\ UNCHANGED <<conf, clock, life, quorum, keys>>
        /\ cache' = [ok |-> x.ok, at |-> clock, sampled |-> x.at]
        /\ \E verdict, sample : Become(c, Decided(call[c].req, verdict, sample))
    BY <1>10 DEF FetchAnswers, Admit
  <2>2. x.ok \in BOOLEAN /\ x.at \in 0 .. clock
    BY <1>10 DEF FetchAnswers, Typed, CallTyped
  <2>3. CacheTyped'
    <3>1. cache'.ok = x.ok /\ cache'.at = clock /\ cache'.sampled = x.at
      BY <2>1
    <3> QED
      BY <1>1, <2>1, <2>2, <3>1 DEF CacheTyped
  <2> QED
    BY <2>1, <2>3, DecisionTyped
<1>11. ASSUME NEW c \in Calls, FetchFails(c) PROVE Typed'
  <2>1. /\ UNCHANGED <<conf, clock, life, quorum, keys>>
        /\ cache' = [ok |-> FALSE, at |-> clock, sampled |-> clock]
        /\ \E verdict, sample : Become(c, Decided(call[c].req, verdict, sample))
    BY <1>11 DEF FetchFails, Admit
  <2>2. CacheTyped'
    BY <1>1, <2>1 DEF CacheTyped
  <2> QED
    BY <2>1, <2>2, DecisionTyped
<1>12. ASSUME NEW c \in Calls, ClaimAnswered(c) \/ ClaimFails(c) PROVE Typed'
  <2>1. PICK verdict : Settle(c, verdict) /\ call[c].pc = "claiming"
    BY <1>12 DEF ClaimAnswered, ClaimFails
  <2> DEFINE s == [call[c] EXCEPT !.pc = "done", !.verdict = verdict]
  <2>2. DOMAIN call[c] = Settled
    BY <2>1 DEF Shaped, Past
  <2>3. s.pc = "done"
    BY <2>2 DEF Settled
  <2>4. /\ Become(c, s) /\ UNCHANGED <<conf, clock, life, quorum, keys, cache>>
        /\ CacheTyped' /\ KeysTyped'
    BY <2>1 DEF Settle, Typed, CacheTyped, KeysTyped
  <2> HIDE DEF s
  <2>5. CallTyped(s)
    BY <2>3 DEF CallTyped
  <2> QED
    BY <2>4, <2>5, OneCallTyped
<1> QED
  BY <1>3, <1>4, <1>5, <1>6, <1>7, <1>8, <1>9, <1>10, <1>11, <1>12, ClaimTyped DEF Next

LEMMA TypesHold == Spec => [](IInv /\ Typed)
<1>1. Init => Typed
  <2> SUFFICES ASSUME Init PROVE Typed
    OBVIOUS
  <2>1. 1 \in 1 .. Len(SelfKeys)
    BY VerifyAssumption
  <2>2. clock \in 0 .. MaxTime
    BY VerifyAssumption DEF Init
  <2>3. \A c \in Calls : CallTyped(call[c])
    BY DEF Init, Idle, CallTyped
  <2> QED
    BY <2>1, <2>2, <2>3 DEF Init, Typed, CacheTyped, KeysTyped
<1>2. IInv /\ Typed /\ [Next]_vars => Typed'
  BY StepTyped DEF IInv
<1> QED
  BY <1>1, <1>2, InitEstablishes, StepPreserves, PTL DEF Spec

(* Keys of version 2 have no expiry and those of version 08 have one, and  *)
(* the cache holds an answer of the past, through restarts as well.        *)
THEOREM TypeCorrect == Spec => []TypeOK
<1>1. Typed => TypeOK
  BY DEF Typed, CacheTyped, KeysTyped, CallTyped, TypeOK
<1> QED
  BY <1>1, TypesHold, PTL
----------------------------------------------------------------------------
(* The refinement of AdmitOnce.                                            *)
Spent          == NonceKeys \cap {e.key : e \in keys}
AcceptedFor(k) == {c \in Calls : Accepted(c) /\ Key(Req(c)) = k}

(* Only calls of version 2 have the key of a nonce.                        *)
LEMMA NonceKeyIsV2 ==
  ASSUME NEW k \in NonceKeys, NEW q, Key(q) = k
  PROVE  q.api = "v2"
BY KeysApart DEF NonceKeys

(* Where the ledger is asked for, a call that is accepted for a nonce is   *)
(* the only one, and the nonce is spent.                                   *)
SingleUse ==
  Ledger("v2") => \A k \in NonceKeys : \A c \in AcceptedFor(k) :
                    (\A d \in AcceptedFor(k) : d = c) /\ k \in Spent

LEMMA OneForNonce == IInv => SingleUse
<1> SUFFICES ASSUME IInv, Ledger("v2"), NEW k \in NonceKeys, NEW c \in AcceptedFor(k)
             PROVE  (\A d \in AcceptedFor(k) : d = c) /\ k \in Spent
  BY DEF SingleUse
<1>1. \A d \in AcceptedFor(k) : d \in Calls /\ Claimed(d) /\ IsV2(d) /\ Key(Req(d)) = k
  BY NonceKeyIsV2 DEF AcceptedFor, IInv, NoneWithout, IsV2, Api
<1>2. \A d \in AcceptedFor(k) : d = c
  BY <1>1 DEF IInv, Once
<1>3. PICK e \in keys : e.key = k
  BY <1>1 DEF IInv, Held
<1> QED
  BY <1>2, <1>3 DEF Spent

(* A step that spends no nonce and accepts no call for one is none of      *)
(* AdmitOnce.                                                              *)
LEMMA PromiseStutters ==
  ASSUME conf' = conf, Spent' = Spent,
         Ledger("v2") => \A k \in NonceKeys : AcceptedFor(k)' = AcceptedFor(k)
  PROVE  [Promise!Next]_(Promise!avars)
<1>1. Ledger("v2")' <=> Ledger("v2")
  BY DEF Ledger
<1>2. /\ (NonceKeys \cap {e.key : e \in keys})' = NonceKeys \cap {e.key : e \in keys}
      /\ Ledger("v2") => \A k \in NonceKeys :
           {c \in Calls : Accepted(c) /\ Key(Req(c)) = k}'
             = {c \in Calls : Accepted(c) /\ Key(Req(c)) = k}
  BY DEF Spent, AcceptedFor
<1>3. UNCHANGED Promise!avars
  BY <1>1, <1>2 DEF Promise!avars
<1> QED
  BY <1>3

LEMMA QuietCall ==
  ASSUME IInv, NEW c \in Calls, NEW s, Become(c, s), ~Done(c), UNCHANGED <<conf, keys>>,
         s.pc = "done" /\ s.verdict = "intact" /\ Requests[s.req].api = "v2" => ~Ledger("v2")
  PROVE  [Promise!Next]_(Promise!avars)
<1>1. \A d \in Calls : call'[d] = IF d = c THEN s ELSE call[d]
  BY DEF Become, IInv, Shaped
<1>2. ASSUME Ledger("v2"), NEW k \in NonceKeys, NEW d \in Calls
      PROVE  d \in AcceptedFor(k)' <=> d \in AcceptedFor(k)
  <2>1. CASE d # c
    BY <1>1, <2>1 DEF AcceptedFor, Accepted, Done, Req
  <2>2. CASE d = c
    <3>1. d \notin AcceptedFor(k)
      BY <2>2 DEF AcceptedFor, Accepted
    <3>2. ASSUME d \in AcceptedFor(k)' PROVE FALSE
      <4>1. s.pc = "done" /\ s.verdict = "intact" /\ Key(Requests[s.req]) = k
        BY <1>1, <2>2, <3>2 DEF AcceptedFor, Accepted, Done, Req
      <4> QED
        BY <4>1, <1>2, NonceKeyIsV2
    <3> QED
      BY <3>1, <3>2
  <2> QED
    BY <2>1, <2>2
<1>3. Ledger("v2") => \A k \in NonceKeys : AcceptedFor(k)' = AcceptedFor(k)
  BY <1>2 DEF AcceptedFor
<1>4. Spent' = Spent
  BY DEF Spent
<1> QED
  BY <1>3, <1>4, PromiseStutters

LEMMA QuietDecision ==
  ASSUME IInv, NEW c \in Calls, NEW n, NEW verdict, NEW sample, ~Done(c),
         Become(c, Decided(n, verdict, sample)), UNCHANGED <<conf, keys>>
  PROVE  [Promise!Next]_(Promise!avars)
<1> DEFINE s == Decided(n, verdict, sample)
<1>1. s.req = n /\ (s.pc = "done" /\ s.verdict = "intact" => ~Ledger(Requests[n].api))
  BY DecidedParts
<1>2. Become(c, s)
  OBVIOUS
<1> HIDE DEF s
<1> QED
  BY <1>1, <1>2, QuietCall

(* The run of a SET NX spends the nonce, if it was not spent.              *)
LEMMA ClaimAdmits ==
  ASSUME IInv, Typed, NEW c \in Calls, ClaimRuns(c)
  PROVE  [Promise!Next]_(Promise!avars)
<1> DEFINE k   == Key(Req(c))
           new == [key |-> k, until |-> Expiry(Req(c).api)]
           s   == [call[c] EXCEPT !.sends = @ + 1, !.answer = [ok |-> ~Live(k), at |-> clock]]
<1>1. /\ call[c].pc = "claiming" /\ conf' = conf /\ Become(c, s)
      /\ keys' = IF Live(k) THEN keys ELSE {e \in keys : e.key # k} \cup {new}
  BY DEF ClaimRuns
<1>2. DOMAIN call[c] = Settled
  BY <1>1 DEF IInv, Shaped, Past
<1>3. s.pc = "claiming"
  BY <1>1, <1>2 DEF Settled
<1> HIDE DEF s
<1>4. \A d \in Calls : call'[d] = IF d = c THEN s ELSE call[d]
  BY <1>1 DEF Become, IInv, Shaped
<1>5. \A j : AcceptedFor(j)' = AcceptedFor(j)
  BY <1>1, <1>3, <1>4 DEF AcceptedFor, Accepted, Done, Req
<1>6. new.key = k
  OBVIOUS
<1> HIDE DEF new
<1>7. \A j \in NonceKeys : j # k => (j \in Spent' <=> j \in Spent)
  BY <1>1, <1>6 DEF Spent
<1>8. CASE k \notin NonceKeys \/ k \in Spent
  <2>1. k \in Spent => k \in Spent'
    BY <1>1, <1>6 DEF Spent
  <2>2. Spent' = Spent
    BY <1>7, <1>8, <2>1 DEF Spent
  <2> QED
    BY <1>1, <1>5, <2>2, PromiseStutters
<1>9. CASE k \in NonceKeys /\ k \notin Spent
  <2>0. PICK j \in NonceKeys : j = k
    BY <1>9
  <2>1. ~Live(k)
    BY <1>9 DEF Live, Spent
  <2>2. j \in Spent'
    BY <1>1, <1>6, <2>0, <2>1 DEF Spent
  <2>3. Spent' = Spent \cup {j}
    BY <1>7, <2>0, <2>2 DEF Spent
  <2>4. Ledger("v2")' <=> Ledger("v2")
    BY <1>1 DEF Ledger
  <2>5. \A i : {d \in Calls : Accepted(d) /\ Key(Req(d)) = i}'
                 = {d \in Calls : Accepted(d) /\ Key(Req(d)) = i}
    BY <1>5 DEF AcceptedFor
  <2>6. Promise!Admit(j)
    BY <1>9, <2>0, <2>3, <2>4, <2>5 DEF Promise!Admit, Spent
  <2> QED
    BY <2>6 DEF Promise!Next
<1> QED
  BY <1>8, <1>9

(* The answer OK accepts a call, the first one for its nonce.              *)
LEMMA AnswerAllows ==
  ASSUME IInv, NEW c \in Calls, ClaimAnswered(c), IInv'
  PROVE  [Promise!Next]_(Promise!avars)
<1> DEFINE verdict == IF call[c].answer.ok THEN call[c].verdict ELSE "replay detected"
           s == [call[c] EXCEPT !.pc = "done", !.verdict = verdict]
           k == Key(Req(c))
<1>1. call[c].pc = "claiming" /\ Become(c, s) /\ UNCHANGED <<conf, keys>>
  BY DEF ClaimAnswered, Settle
<1>2. DOMAIN call[c] = Settled
  BY <1>1 DEF IInv, Shaped, Past
<1>3. s.pc = "done" /\ s.verdict = verdict /\ s.req = call[c].req
  BY <1>2 DEF Settled
<1>4. ~Done(c)
  BY <1>1 DEF Done
<1> HIDE DEF s, verdict
<1>5. CASE ~(verdict = "intact" /\ IsV2(c) /\ Ledger("v2") /\ k \in NonceKeys)
  <2>1. CASE k \in NonceKeys
    BY <1>1, <1>3, <1>4, <1>5, <2>1, QuietCall DEF IsV2, Api, Req
  <2>2. CASE k \notin NonceKeys
    <3>1. \A d \in Calls : call'[d] = IF d = c THEN s ELSE call[d]
      BY <1>1 DEF Become, IInv, Shaped
    <3>2. \A j \in NonceKeys : AcceptedFor(j)' = AcceptedFor(j)
      BY <2>2, <3>1, <1>3, <1>4 DEF AcceptedFor, Accepted, Done, Req
    <3>3. Spent' = Spent
      BY <1>1 DEF Spent
    <3> QED
      BY <1>1, <3>2, <3>3, PromiseStutters
  <2> QED
    BY <2>1, <2>2
<1>6. CASE verdict = "intact" /\ IsV2(c) /\ Ledger("v2") /\ k \in NonceKeys
  <2>0. PICK j \in NonceKeys : j = k
    BY <1>6
  <2>1. \A d \in Calls : call'[d] = IF d = c THEN s ELSE call[d]
    BY <1>1 DEF Become, IInv, Shaped
  <2>2. c \in AcceptedFor(j)'
    BY <1>3, <1>6, <2>0, <2>1 DEF AcceptedFor, Accepted, Done, Req
  <2>3. /\ Ledger("v2")' /\ Ledger("v2")
        /\ Spent' = Spent
    BY <1>1, <1>6 DEF Ledger, Spent
  <2>4. SingleUse'
    BY OneForNonce, PTL
  <2>5. (\A d \in AcceptedFor(j)' : d = c) /\ j \in Spent
    BY <2>2, <2>3, <2>4 DEF SingleUse
  <2>6. ASSUME NEW d \in AcceptedFor(j) PROVE FALSE
    <3>1. d # c
      BY <1>4, <2>6 DEF AcceptedFor, Accepted
    <3>2. d \in AcceptedFor(j)'
      BY <2>1, <2>6, <3>1 DEF AcceptedFor, Accepted, Done, Req
    <3> QED
      BY <2>5, <3>1, <3>2
  <2>7. /\ AcceptedFor(j)' = {c} /\ AcceptedFor(j) = {}
        /\ Cardinality({c}) = 1 /\ Cardinality({}) = 0
    BY <2>2, <2>5, <2>6, FS_Singleton, FS_EmptySet
  <2>8. ASSUME NEW i \in NonceKeys, i # j PROVE AcceptedFor(i)' = AcceptedFor(i)
    BY <1>3, <1>4, <2>0, <2>1, <2>8 DEF AcceptedFor, Accepted, Done, Req
  <2> DEFINE allowed == [i \in NonceKeys |->
                           IF Ledger("v2")
                           THEN Cardinality({d \in Calls : Accepted(d) /\ Key(Req(d)) = i})
                           ELSE 0]
  <2>9. allowed = [i \in NonceKeys |-> Cardinality(AcceptedFor(i))]
    BY <2>3 DEF AcceptedFor
  <2>10. allowed' = [i \in NonceKeys |-> Cardinality(AcceptedFor(i)')]
    BY <2>3 DEF AcceptedFor
  <2> HIDE DEF allowed
  <2>11. \A i \in NonceKeys :
           Cardinality(AcceptedFor(i)') = IF i = j THEN 1 ELSE allowed[i]
    BY <2>7, <2>8, <2>9
  <2>12. /\ allowed[j] = 0
         /\ allowed' = [i \in NonceKeys |-> IF i = j THEN 1 ELSE allowed[i]]
    BY <2>7, <2>9, <2>10, <2>11
  <2>13. [allowed EXCEPT ![j] = 1] = [i \in NonceKeys |-> IF i = j THEN 1 ELSE allowed[i]]
    BY <2>9
  <2>14. Promise!Allow(j)
    BY <2>3, <2>5, <2>12, <2>13 DEF Promise!Allow, Spent, allowed
  <2> QED
    BY <2>14 DEF Promise!Next
<1> QED
  BY <1>5, <1>6

LEMMA StepKeepsPromise ==
  ASSUME IInv, Typed, [Next]_vars, IInv'
  PROVE  [Promise!Next]_(Promise!avars)
<1>1. ASSUME UNCHANGED <<conf, keys>>,
             \A c \in Calls : (Accepted(c)' <=> Accepted(c)) /\ (Accepted(c) => call'[c] = call[c])
      PROVE  [Promise!Next]_(Promise!avars)
  <2>1. \A k \in NonceKeys : AcceptedFor(k)' = AcceptedFor(k)
    BY <1>1 DEF AcceptedFor, Req
  <2>2. Spent' = Spent
    BY <1>1 DEF Spent
  <2> QED
    BY <1>1, <2>1, <2>2, PromiseStutters
<1>2. CASE UNCHANGED vars \/ Tick \/ QuorumChanges
  BY <1>1, <1>2 DEF vars, Tick, QuorumChanges, Accepted, Done
<1>3. CASE Restart
  <2>1. /\ UNCHANGED <<conf, keys>>
        /\ \A c \in Calls : call'[c] = IF call[c].pc \in {"fetching", "claiming"}
                                       THEN [pc |-> "lost"] ELSE call[c]
    BY <1>3 DEF Restart
  <2>2. \A c \in Calls : (Accepted(c)' <=> Accepted(c)) /\ (Accepted(c) => call'[c] = call[c])
    BY <2>1 DEF Accepted, Done
  <2> QED
    BY <1>1, <2>1, <2>2
<1>4. ASSUME NEW c \in Calls, NEW n, StartV2(c, n) PROVE [Promise!Next]_(Promise!avars)
  <2>1. UNCHANGED <<conf, keys>> /\ ~Done(c)
    BY <1>4 DEF StartV2, Done, Idle
  <2>2. CASE \E verdict, sample : Become(c, Decided(n, verdict, sample))
    BY <2>1, <2>2, QuietDecision
  <2>3. CASE Become(c, [pc |-> "fetching", req |-> n, since |-> clock, sample |-> NoPolicy])
    BY <2>1, <2>3, QuietCall
  <2> QED
    BY <1>4, <2>2, <2>3 DEF StartV2, Admit
<1>5. ASSUME NEW c \in Calls, NEW n, StartV08(c, n) PROVE [Promise!Next]_(Promise!avars)
  BY <1>5, QuietDecision DEF StartV08, Done, Idle
<1>6. ASSUME NEW c \in Calls, Sample(c) PROVE [Promise!Next]_(Promise!avars)
  <2> DEFINE s == [call[c] EXCEPT !.sample = [ok |-> quorum, at |-> clock]]
  <2>1. DOMAIN call[c] = {"pc", "req", "since", "sample"} /\ call[c].pc = "fetching"
    BY <1>6 DEF Sample, IInv, Shaped
  <2>2. s.pc = "fetching"
    BY <2>1
  <2>3. Become(c, s) /\ UNCHANGED <<conf, keys>> /\ ~Done(c)
    BY <1>6, <2>1 DEF Sample, Done
  <2> HIDE DEF s
  <2> QED
    BY <2>2, <2>3, QuietCall
<1>7. ASSUME NEW c \in Calls, FetchAnswers(c) \/ FetchFails(c) PROVE [Promise!Next]_(Promise!avars)
  BY <1>7, QuietDecision DEF FetchAnswers, FetchFails, Admit, Done
<1>8. ASSUME NEW c \in Calls, ClaimFails(c) PROVE [Promise!Next]_(Promise!avars)
  <2> DEFINE s == [call[c] EXCEPT !.pc = "done", !.verdict = "replay ledger unavailable"]
  <2>1. Become(c, s) /\ UNCHANGED <<conf, keys>> /\ call[c].pc = "claiming"
    BY <1>8 DEF ClaimFails, Settle
  <2>2. DOMAIN call[c] = Settled
    BY <2>1 DEF IInv, Shaped, Past
  <2>3. s.verdict # "intact"
    BY <2>2 DEF Settled
  <2> HIDE DEF s
  <2> QED
    BY <2>1, <2>3, QuietCall DEF Done
<1> QED
  BY <1>2, <1>3, <1>4, <1>5, <1>6, <1>7, <1>8, ClaimAdmits, AnswerAllows DEF Next

(* With its ledger pot_verify_v2 implements AdmitOnce: a nonce is spent    *)
(* once and for good, and after that at most one call is accepted for it,  *)
(* whatever is resent, lost, fetched and restarted.                        *)
THEOREM PromiseKept == Spec => AdmitOnceSpec
<1>1. Init => Promise!Init
  <2> SUFFICES ASSUME Init PROVE Promise!Init
    OBVIOUS
  <2>1. \A c \in Calls : ~Accepted(c)
    BY DEF Init, Idle, Accepted, Done
  <2>2. \A k : {c \in Calls : Accepted(c) /\ Key(Req(c)) = k} = {}
    BY <2>1
  <2>3. Cardinality({}) = 0
    BY FS_EmptySet
  <2> QED
    BY <2>2, <2>3 DEF Promise!Init
<1>2. Spec => [](IInv /\ Typed)
  BY TypesHold
<1>3. IInv /\ Typed /\ IInv' /\ [Next]_vars => [Promise!Next]_(Promise!avars)
  BY StepKeepsPromise
<1> QED
  BY <1>1, <1>2, <1>3, PTL DEF Spec, AdmitOnceSpec, Promise!Spec
----------------------------------------------------------------------------
(* The other direction, of the records and their checks: what was made is  *)
(* accepted, and nothing else that bears the same signature.               *)

(* A version 2 record is intact if none of the seven tests fails, and one  *)
(* that only the last test fails is answered with that test's reason.      *)
SoundV2(r, fresh) ==
  /\ r.len = 180 /\ r.version = 2 /\ r.holderType \in HolderTypes /\ r.alg = 1
  /\ r.tag = Fields(r, HeadV2)
  /\ fresh = NoPolicy \/ WithinSkew(r.ts, r.disp, fresh)

LEMMA AnswerV2 ==
  ASSUME NEW r, NEW key, NEW fresh
  PROVE  /\ VerifyV2(r, key, fresh) = "intact" <=> SoundV2(r, fresh) /\ ~ForgedV2(r, key)
         /\ SoundV2(r, fresh) /\ ForgedV2(r, key)
              => VerifyV2(r, key, fresh) = "issuer signature invalid"
<1> DEFINE tests == <<
    <<r.len # 180, "size">>,
    <<r.version # 2, "unknown version">>,
    <<r.holderType \notin HolderTypes, "unsupported holder_auth_type">>,
    <<r.alg # 1, "unsupported alg_id">>,
    <<r.tag # Fields(r, HeadV2), "integrity mismatch">>,
    <<fresh # NoPolicy /\ ~WithinSkew(r.ts, r.disp, fresh), "freshness window exceeded">>,
    <<ForgedV2(r, key), "issuer signature invalid">> >>
<1>1. /\ DOMAIN tests = 1 .. 7 /\ \A i \in 1 .. 7 : tests[i][2] # "intact"
      /\ tests[7][2] = "issuer signature invalid"
  OBVIOUS
<1>2. VerifyV2(r, key, fresh) = FirstFailure(tests)
  BY DEF VerifyV2
<1>3. /\ tests[1][1] <=> r.len # 180
      /\ tests[2][1] <=> r.version # 2
      /\ tests[3][1] <=> r.holderType \notin HolderTypes
      /\ tests[4][1] <=> r.alg # 1
      /\ tests[5][1] <=> r.tag # Fields(r, HeadV2)
      /\ tests[6][1] <=> fresh # NoPolicy /\ ~WithinSkew(r.ts, r.disp, fresh)
      /\ tests[7][1] <=> ForgedV2(r, key)
  OBVIOUS
<1> HIDE DEF tests
<1>4. \/ FirstFailure(tests) = "intact" /\ \A i \in 1 .. 7 : ~tests[i][1]
      \/ \E i \in 1 .. 7 : tests[i][1] /\ FirstFailure(tests) = tests[i][2]
  BY <1>1, FailureIs
<1>5. SoundV2(r, fresh) <=> \A i \in 1 .. 6 : ~tests[i][1]
  <2>1. (\A i \in 1 .. 6 : ~tests[i][1]) <=>
           ~tests[1][1] /\ ~tests[2][1] /\ ~tests[3][1] /\ ~tests[4][1] /\ ~tests[5][1] /\ ~tests[6][1]
    OBVIOUS
  <2> QED
    BY <1>3, <2>1 DEF SoundV2
<1>6. (\A i \in 1 .. 7 : ~tests[i][1]) <=> SoundV2(r, fresh) /\ ~ForgedV2(r, key)
  BY <1>3, <1>5
<1>7. ASSUME SoundV2(r, fresh), NEW i \in 1 .. 7, tests[i][1] PROVE i = 7
  BY <1>5, <1>7
<1> QED
  BY <1>1, <1>2, <1>4, <1>6, <1>7

(* What EncodeV2 lays out is what the verifier reads back.                 *)
LEMMA EncodedV2 ==
  ASSUME NEW f, NEW key
  PROVE  LET r == EncodeV2(f, key)
         IN /\ r.len = 180 /\ r.version = 2 /\ r.tag = Fields(r, HeadV2) /\ ~ForgedV2(r, key)
            /\ \A n \in HeadV2 \ {"version"} : r[n] = f[n]
<1> DEFINE head   == [n \in HeadV2 |-> IF n = "version" THEN 2 ELSE f[n]]
           prefix == [n \in PrefixV2 |-> CASE n = "tag"   -> head
                                           [] n = "keyId" -> f.keyId
                                           [] OTHER       -> head[n]]
           r == EncodeV2(f, key)
<1>1. r = [n \in PrefixV2 \cup {"len", "sig"} |->
             CASE n = "len" -> 180 [] n = "sig" -> Sign(key, prefix) [] OTHER -> prefix[n]]
  BY DEF EncodeV2
<1>2. \A n \in PrefixV2 : n # "len" /\ n # "sig"
  BY DEF PrefixV2, HeadV2
<1>3. \A n \in HeadV2 : n \in PrefixV2 /\ n # "tag" /\ n # "keyId"
  BY DEF PrefixV2, HeadV2
<1>4. /\ r.len = 180 /\ r.sig = Sign(key, prefix)
      /\ \A n \in PrefixV2 : r[n] = prefix[n]
  BY <1>1, <1>2
<1>5. \A n \in HeadV2 : prefix[n] = head[n]
  BY <1>3
<1>6. prefix["tag"] = head
  BY DEF PrefixV2
<1>7. /\ head["version"] = 2
      /\ \A n \in HeadV2 \ {"version"} : head[n] = f[n]
  BY DEF HeadV2
<1> HIDE DEF r, prefix, head
<1>8. Fields(r, PrefixV2) = prefix
  BY <1>4 DEF Fields, prefix
<1>9. Fields(r, HeadV2) = head
  BY <1>3, <1>4, <1>5 DEF Fields, head
<1>10. "tag" \in PrefixV2 /\ "version" \in HeadV2
  BY DEF PrefixV2, HeadV2
<1>11. r.tag = head
  BY <1>4, <1>6, <1>10
<1>12. \A n \in HeadV2 : r[n] = head[n]
  BY <1>3, <1>4, <1>5
<1>13. r.len = 180 /\ r.version = 2 /\ r.tag = Fields(r, HeadV2) /\ ~ForgedV2(r, key)
  BY <1>4, <1>7, <1>8, <1>9, <1>10, <1>11, <1>12 DEF ForgedV2
<1>14. \A n \in HeadV2 \ {"version"} : r[n] = f[n]
  BY <1>7, <1>12
<1> QED
  BY <1>13, <1>14 DEF r

LEMMA PlainFieldsV2 ==
  ASSUME NEW f, NEW key, NEW r, r = EncodeV2(f, key)
  PROVE  /\ r.ts = f.ts /\ r.disp = f.disp /\ r.holder = f.holder
         /\ r.holderType = f.holderType /\ r.alg = f.alg
<1>1. {"ts", "disp", "holder", "holderType", "alg"} \subseteq HeadV2 \ {"version"}
  BY DEF HeadV2
<1>2. \A n \in HeadV2 \ {"version"} : r[n] = f[n]
  BY EncodedV2
<1> QED
  BY <1>1, <1>2

LEMMA MadeV2Sound ==
  ASSUME NEW holderType \in HolderTypes, NEW ts, NEW disp, NEW ctx, NEW holder, NEW nonce,
         NEW keyId, NEW key, NEW r,
         r = GenerateV2(holderType, ts, disp, ctx, holder, nonce, keyId, key),
         NEW fresh, fresh = NoPolicy \/ WithinSkew(ts, disp, fresh)
  PROVE  SoundV2(r, fresh) /\ ~ForgedV2(r, key)
<1> DEFINE f == [holderType |-> holderType, alg |-> 1, ts |-> ts, disp |-> disp, ctx |-> ctx,
                 nonce |-> nonce, holder |-> holder, keyId |-> keyId]
<1>1. f.holderType \in HolderTypes /\ f.alg = 1 /\ f.ts = ts /\ f.disp = disp
  OBVIOUS
<1>2. r = EncodeV2(f, key)
  BY DEF GenerateV2
<1> HIDE DEF f
<1>3. /\ r.len = 180 /\ r.version = 2 /\ r.tag = Fields(r, HeadV2) /\ ~ForgedV2(r, key)
      /\ r.ts = f.ts /\ r.disp = f.disp /\ r.holderType = f.holderType /\ r.alg = f.alg
  BY <1>2, EncodedV2, PlainFieldsV2
<1> QED
  BY <1>1, <1>3 DEF SoundV2

LEMMA OnlyItsKey ==
  ASSUME NEW r, NEW key, NEW fresh, SoundV2(r, fresh), ~ForgedV2(r, key), NEW k
  PROVE  VerifyV2(r, k, fresh) = IF k = key THEN "intact" ELSE "issuer signature invalid"
<1>1. CASE k = key
  BY <1>1, AnswerV2
<1>2. CASE k # key
  <2>1. r.sig = Sign(key, Fields(r, PrefixV2))
    BY DEF ForgedV2
  <2>2. \A x, value : Sign(x, value).by = x
    BY DEF Sign
  <2>3. r.sig.by = key /\ Sign(k, Fields(r, PrefixV2)).by = k
    BY <2>1, <2>2
  <2>4. ForgedV2(r, k)
    BY <1>2, <2>3 DEF ForgedV2
  <2> QED
    BY <1>2, <2>4, AnswerV2
<1> QED
  BY <1>1, <1>2

(* What pot_generate_v2 makes is intact under its key, without a policy    *)
(* and whenever its time is within the skew and its own dispersion; under  *)
(* any other key its signature, and nothing else, is wrong.                *)
THEOREM GeneratedV2Verifies ==
  ASSUME NEW holderType \in HolderTypes, NEW ts, NEW disp, NEW ctx, NEW holder, NEW nonce,
         NEW keyId, NEW key, NEW fresh, fresh = NoPolicy \/ WithinSkew(ts, disp, fresh), NEW k
  PROVE  VerifyV2(GenerateV2(holderType, ts, disp, ctx, holder, nonce, keyId, key), k, fresh)
           = IF k = key THEN "intact" ELSE "issuer signature invalid"
<1> DEFINE r == GenerateV2(holderType, ts, disp, ctx, holder, nonce, keyId, key)
<1>1. SoundV2(r, fresh) /\ ~ForgedV2(r, key)
  BY MadeV2Sound
<1> QED
  BY <1>1, OnlyItsKey

(* Two version 2 records with one signature that verify, each under some   *)
(* key and policy, are the same record: no octet is left uncovered.        *)
LEMMA SignedAlikeV2 ==
  ASSUME NEW r, NEW q, NEW k, NEW j, NEW fresh, NEW fresh2,
         VerifyV2(r, k, fresh) = "intact", VerifyV2(q, j, fresh2) = "intact", r.sig = q.sig
  PROVE  r.len = q.len /\ \A n \in PrefixV2 : r[n] = q[n]
<1>1. r.len = 180 /\ r.sig = Sign(k, Fields(r, PrefixV2))
  BY VerifiedV2
<1>2. q.len = 180 /\ q.sig = Sign(j, Fields(q, PrefixV2))
  BY VerifiedV2
<1>3. Fields(r, PrefixV2) = Fields(q, PrefixV2)
  <2>1. \A key, value : Sign(key, value).over = value
    BY DEF Sign
  <2>2. Sign(k, Fields(r, PrefixV2)) = Sign(j, Fields(q, PrefixV2))
    BY <1>1, <1>2
  <2>3. /\ Sign(k, Fields(r, PrefixV2)).over = Fields(r, PrefixV2)
        /\ Sign(j, Fields(q, PrefixV2)).over = Fields(q, PrefixV2)
    BY <2>1
  <2> QED
    BY <2>2, <2>3
<1>4. ASSUME NEW n \in PrefixV2 PROVE r[n] = q[n]
  <2>1. \A x : Fields(x, PrefixV2)[n] = x[n]
    BY DEF Fields
  <2> QED
    BY <1>3, <2>1
<1> QED
  BY <1>1, <1>2, <1>4

THEOREM SignatureCoversV2 ==
  ASSUME NEW Values, NEW r \in [PrefixV2 \cup {"len", "sig"} -> Values],
         NEW q \in [PrefixV2 \cup {"len", "sig"} -> Values],
         NEW k, NEW j, NEW fresh, NEW fresh2,
         VerifyV2(r, k, fresh) = "intact", VerifyV2(q, j, fresh2) = "intact", r.sig = q.sig
  PROVE  r = q
<1>1. r.len = q.len /\ \A n \in PrefixV2 : r[n] = q[n]
  <2>1. r.sig = q.sig /\ VerifyV2(r, k, fresh) = "intact" /\ VerifyV2(q, j, fresh2) = "intact"
    OBVIOUS
  <2> QED
    BY ONLY <2>1, SignedAlikeV2
<1>2. ASSUME NEW n \in PrefixV2 \cup {"len", "sig"} PROVE r[n] = q[n]
  <2>1. n \in PrefixV2 \/ n = "len" \/ n = "sig"
    BY <1>2
  <2> QED
    BY <1>1, <2>1, Zenon
<1> QED
  BY <1>2

(* Version 08 alike: the eight tests, what the encoder makes, and what one *)
(* signature covers.                                                       *)
LEMMA AnswerV08 ==
  ASSUME NEW r, NEW ctxId, NEW key, NEW content, NEW fresh
  PROVE  VerifyV08(r, ctxId, key, content, fresh) = "intact" <=>
           /\ r.len = LengthV08(r) /\ r.version = 1 /\ r.alg = 1 /\ r.bound # Reserved
           /\ fresh = NoPolicy \/ WithinSkew(r.ts, r.bound, fresh)
           /\ r.commitment = <<ctxId, Fields(r, PreV08)>>
           /\ r.sig = Sign(key, <<Fields(r, PreV08), r.commitment>>)
           /\ content = NoPolicy \/ r.digest = content
<1> DEFINE tests == <<
    <<r.len # LengthV08(r), "size">>,
    <<r.version # 1, "unknown version">>,
    <<r.alg # 1, "unimplemented integrity algorithm">>,
    <<r.bound = Reserved, "reserved error bound">>,
    <<fresh # NoPolicy /\ ~WithinSkew(r.ts, r.bound, fresh), "freshness window exceeded">>,
    <<r.commitment # <<ctxId, Fields(r, PreV08)>>, "commitment mismatch">>,
    <<r.sig # Sign(key, <<Fields(r, PreV08), r.commitment>>), "Ed25519 signature invalid">>,
    <<content # NoPolicy /\ r.digest # content, "Payload Digest mismatch">> >>
<1>1. DOMAIN tests = 1 .. 8 /\ \A i \in 1 .. 8 : tests[i][2] # "intact"
  OBVIOUS
<1>2. VerifyV08(r, ctxId, key, content, fresh) = FirstFailure(tests)
  BY DEF VerifyV08
<1>3. /\ tests[1][1] <=> r.len # LengthV08(r)
      /\ tests[2][1] <=> r.version # 1
      /\ tests[3][1] <=> r.alg # 1
      /\ tests[4][1] <=> r.bound = Reserved
      /\ tests[5][1] <=> fresh # NoPolicy /\ ~WithinSkew(r.ts, r.bound, fresh)
      /\ tests[6][1] <=> r.commitment # <<ctxId, Fields(r, PreV08)>>
      /\ tests[7][1] <=> r.sig # Sign(key, <<Fields(r, PreV08), r.commitment>>)
      /\ tests[8][1] <=> content # NoPolicy /\ r.digest # content
  OBVIOUS
<1> HIDE DEF tests
<1>4. FirstFailure(tests) = "intact" <=> \A i \in 1 .. 8 : ~tests[i][1]
  BY <1>1, FailureIs
<1>5. (\A i \in 1 .. 8 : ~tests[i][1]) <=>
         /\ ~tests[1][1] /\ ~tests[2][1] /\ ~tests[3][1] /\ ~tests[4][1]
         /\ ~tests[5][1] /\ ~tests[6][1] /\ ~tests[7][1] /\ ~tests[8][1]
  OBVIOUS
<1> QED
  BY <1>2, <1>3, <1>4, <1>5

SoundV08(r, ctxId, key) ==
  /\ r.len = LengthV08(r) /\ r.version = 1 /\ r.alg = 1 /\ r.bound # Reserved
  /\ r.commitment = <<ctxId, Fields(r, PreV08)>>
  /\ r.sig = Sign(key, <<Fields(r, PreV08), r.commitment>>)

LEMMA EncodedV08 ==
  ASSUME NEW f, NEW ctxId, NEW key, NEW r, r = EncodeV08(f, ctxId, key)
  PROVE  /\ f.version = 1 /\ f.alg = 1 /\ f.bound # Reserved => SoundV08(r, ctxId, key)
         /\ r.bound = f.bound /\ r.ts = f.ts /\ r.digest = f.digest
<1> DEFINE pre    == [n \in PreV08 |-> IF n = "hasHolder" THEN f.holder # NoPolicy ELSE f[n]]
           commit == <<ctxId, pre>>
<1>1. r = [n \in PreV08 \cup {"len", "commitment", "sig"} |->
             CASE n = "len"        -> LengthV08(pre)
               [] n = "commitment" -> commit
               [] n = "sig"        -> Sign(key, <<pre, commit>>)
               [] OTHER            -> pre[n]]
  BY DEF EncodeV08
<1>2. \A n \in PreV08 : n # "len" /\ n # "commitment" /\ n # "sig"
  BY DEF PreV08
<1>3. /\ r.len = LengthV08(pre) /\ r.commitment = commit /\ r.sig = Sign(key, <<pre, commit>>)
      /\ \A n \in PreV08 : r[n] = pre[n]
  BY <1>1, <1>2
<1>4. \A n \in PreV08 \ {"hasHolder"} : pre[n] = f[n]
  OBVIOUS
<1> HIDE DEF pre
<1>5. Fields(r, PreV08) = pre
  BY <1>3 DEF Fields, pre
<1>6. LengthV08(r) = LengthV08(pre)
  <2>1. "hasHolder" \in PreV08
    BY DEF PreV08
  <2> QED
    BY <1>3, <2>1 DEF LengthV08
<1>7. {"version", "alg", "bound", "ts", "digest"} \subseteq PreV08 \ {"hasHolder"}
  BY DEF PreV08
<1>8. \A n \in PreV08 \ {"hasHolder"} : r[n] = f[n]
  BY <1>3, <1>4
<1>9. /\ r.version = f.version /\ r.alg = f.alg
      /\ r.bound = f.bound /\ r.ts = f.ts /\ r.digest = f.digest
  BY <1>7, <1>8
<1>10. /\ r.len = LengthV08(r)
       /\ r.commitment = <<ctxId, Fields(r, PreV08)>>
       /\ r.sig = Sign(key, <<Fields(r, PreV08), r.commitment>>)
  BY <1>3, <1>5, <1>6
<1> QED
  BY <1>9, <1>10 DEF SoundV08

LEMMA SoundVerifies ==
  ASSUME NEW r, NEW ctxId, NEW key, NEW content, NEW fresh, SoundV08(r, ctxId, key),
         fresh = NoPolicy \/ WithinSkew(r.ts, r.bound, fresh), NEW ctx, NEW k
  PROVE  VerifyV08(r, ctx, k, content, fresh) = "intact"
           <=> ctx = ctxId /\ k = key /\ (content = NoPolicy \/ content = r.digest)
<1>1. r.sig = Sign(k, <<Fields(r, PreV08), r.commitment>>) <=> k = key
  <2>1. \A value : Sign(k, value).by = k /\ Sign(key, value).by = key
    BY DEF Sign
  <2> QED
    BY <2>1 DEF SoundV08
<1>2. r.commitment = <<ctx, Fields(r, PreV08)>> <=> ctx = ctxId
  BY DEF SoundV08
<1>3. VerifyV08(r, ctx, k, content, fresh) = "intact" <=>
        /\ r.len = LengthV08(r) /\ r.version = 1 /\ r.alg = 1 /\ r.bound # Reserved
        /\ fresh = NoPolicy \/ WithinSkew(r.ts, r.bound, fresh)
        /\ r.commitment = <<ctx, Fields(r, PreV08)>>
        /\ r.sig = Sign(k, <<Fields(r, PreV08), r.commitment>>)
        /\ content = NoPolicy \/ r.digest = content
  BY AnswerV08
<1> QED
  BY <1>1, <1>2, <1>3 DEF SoundV08

LEMMA MadeV08Sound ==
  ASSUME NEW ts, NEW bound, NEW sources, EncodableV08([srcCnt |-> sources, bound |-> bound]),
         NEW digest, NEW nonce, NEW keyId, NEW ctxId, NEW key, NEW r,
         r = GenerateV08(ts, bound, sources, FALSE, digest, nonce, keyId, ctxId, key)
  PROVE  SoundV08(r, ctxId, key)
<1> DEFINE f == [version |-> 1, tier |-> 1, alg |-> 1, srcCnt |-> sources, bound |-> bound,
                 ts |-> ts, keyId |-> keyId, nonce |-> nonce, digest |-> digest,
                 holder |-> NoPolicy]
<1>1. f.version = 1 /\ f.alg = 1 /\ f.bound = bound /\ f.ts = ts /\ f.digest = digest
  OBVIOUS
<1>2. r = EncodeV08(f, ctxId, key)
  BY DEF GenerateV08
<1> HIDE DEF f
<1>3. bound # Reserved
  <2>1. bound \in 0 .. Reserved - 1
    BY DEF EncodableV08
  <2> QED
    BY <2>1, RecordAssumption
<1> QED
  BY <1>1, <1>2, <1>3, EncodedV08

Carries(r, bound, ts, digest) == r.bound = bound /\ r.ts = ts /\ r.digest = digest

LEMMA MadeV08Fields ==
  ASSUME NEW ts, NEW bound, NEW sources, EncodableV08([srcCnt |-> sources, bound |-> bound]),
         NEW digest, NEW nonce, NEW keyId, NEW ctxId, NEW key, NEW r,
         r = GenerateV08(ts, bound, sources, FALSE, digest, nonce, keyId, ctxId, key)
  PROVE  Carries(r, bound, ts, digest)
<1> DEFINE f == [version |-> 1, tier |-> 1, alg |-> 1, srcCnt |-> sources, bound |-> bound,
                 ts |-> ts, keyId |-> keyId, nonce |-> nonce, digest |-> digest,
                 holder |-> NoPolicy]
<1>1. f.version = 1 /\ f.alg = 1 /\ f.bound = bound /\ f.ts = ts /\ f.digest = digest
  OBVIOUS
<1>2. r = EncodeV08(f, ctxId, key)
  BY DEF GenerateV08
<1> HIDE DEF f
<1>3. r.bound = f.bound /\ r.ts = f.ts /\ r.digest = f.digest
  BY ONLY <1>2, EncodedV08
<1> QED
  BY <1>1, <1>3 DEF Carries

(* What pot_generate signs in version 08, with enough sources and an error *)
(* bound that fits, is intact within the skew, for its own context, key    *)
(* and content only.                                                       *)
THEOREM GeneratedV08Verifies ==
  ASSUME NEW ts, NEW bound, NEW sources, EncodableV08([srcCnt |-> sources, bound |-> bound]),
         NEW digest, NEW nonce, NEW keyId, NEW ctxId, NEW key, NEW fresh,
         fresh = NoPolicy \/ WithinSkew(ts, bound, fresh), NEW ctx, NEW k, NEW content
  PROVE  VerifyV08(GenerateV08(ts, bound, sources, FALSE, digest, nonce, keyId, ctxId, key),
                   ctx, k, content, fresh) = "intact"
           <=> ctx = ctxId /\ k = key /\ (content = NoPolicy \/ content = digest)
<1> DEFINE r == GenerateV08(ts, bound, sources, FALSE, digest, nonce, keyId, ctxId, key)
<1>1. SoundV08(r, ctxId, key)
  BY MadeV08Sound
<1>3. Carries(r, bound, ts, digest)
  BY MadeV08Fields
<1> HIDE DEF r
<1>2. VerifyV08(r, ctx, k, content, fresh) = "intact"
        <=> ctx = ctxId /\ k = key /\ (content = NoPolicy \/ content = digest)
  BY <1>1, <1>3, SoundVerifies DEF Carries
<1> QED
  BY <1>2 DEF r

(* Two version 08 records with one signature that verify, each for some    *)
(* context, are the same record, of the same context.                      *)
LEMMA SignedAlikeV08 ==
  ASSUME NEW r, NEW q, NEW c, NEW d, NEW k, NEW j, NEW content, NEW content2, NEW fresh,
         NEW fresh2, VerifyV08(r, c, k, content, fresh) = "intact",
         VerifyV08(q, d, j, content2, fresh2) = "intact", r.sig = q.sig
  PROVE  /\ c = d /\ r.len = q.len /\ r.commitment = q.commitment
         /\ \A n \in PreV08 : r[n] = q[n]
<1>1. /\ r.len = LengthV08(r) /\ r.commitment = <<c, Fields(r, PreV08)>>
      /\ r.sig = Sign(k, <<Fields(r, PreV08), r.commitment>>)
  BY AnswerV08
<1>2. /\ q.len = LengthV08(q) /\ q.commitment = <<d, Fields(q, PreV08)>>
      /\ q.sig = Sign(j, <<Fields(q, PreV08), q.commitment>>)
  BY AnswerV08
<1>3. <<Fields(r, PreV08), r.commitment>> = <<Fields(q, PreV08), q.commitment>>
  <2>1. \A key, value : Sign(key, value).over = value
    BY DEF Sign
  <2>2. Sign(k, <<Fields(r, PreV08), r.commitment>>) = Sign(j, <<Fields(q, PreV08), q.commitment>>)
    BY <1>1, <1>2
  <2>3. /\ Sign(k, <<Fields(r, PreV08), r.commitment>>).over = <<Fields(r, PreV08), r.commitment>>
        /\ Sign(j, <<Fields(q, PreV08), q.commitment>>).over = <<Fields(q, PreV08), q.commitment>>
    BY <2>1
  <2> QED
    BY <2>2, <2>3
<1>4. Fields(r, PreV08) = Fields(q, PreV08) /\ r.commitment = q.commitment
  BY <1>3
<1>5. c = d
  BY <1>1, <1>2, <1>4
<1>6. ASSUME NEW n \in PreV08 PROVE r[n] = q[n]
  <2>1. \A x : Fields(x, PreV08)[n] = x[n]
    BY DEF Fields
  <2> QED
    BY <1>4, <2>1
<1>7. r.len = q.len
  <2>1. "hasHolder" \in PreV08
    BY DEF PreV08
  <2>2. r.hasHolder = q.hasHolder
    BY <1>6, <2>1
  <2> QED
    BY <1>1, <1>2, <2>2 DEF LengthV08
<1> QED
  BY <1>4, <1>5, <1>6, <1>7

THEOREM SignatureCoversV08 ==
  ASSUME NEW Values, NEW r \in [PreV08 \cup {"len", "commitment", "sig"} -> Values],
         NEW q \in [PreV08 \cup {"len", "commitment", "sig"} -> Values],
         NEW c, NEW d, NEW k, NEW j, NEW content, NEW content2, NEW fresh, NEW fresh2,
         VerifyV08(r, c, k, content, fresh) = "intact",
         VerifyV08(q, d, j, content2, fresh2) = "intact", r.sig = q.sig
  PROVE  r = q /\ c = d
<1>1. /\ c = d /\ r.len = q.len /\ r.commitment = q.commitment
      /\ \A n \in PreV08 : r[n] = q[n]
  <2>1. /\ r.sig = q.sig /\ VerifyV08(r, c, k, content, fresh) = "intact"
        /\ VerifyV08(q, d, j, content2, fresh2) = "intact"
    OBVIOUS
  <2> QED
    BY ONLY <2>1, SignedAlikeV08
<1>2. ASSUME NEW n \in PreV08 \cup {"len", "commitment", "sig"} PROVE r[n] = q[n]
  <2>1. n \in PreV08 \/ n = "len" \/ n = "commitment" \/ n = "sig"
    BY <1>2
  <2> QED
    BY <1>1, <2>1, Zenon
<1> QED
  BY <1>1, <1>2

LEMMA NoneFails ==
  ASSUME NEW tests, NEW n \in Nat, DOMAIN tests = 1 .. n, \A i \in 1 .. n : ~tests[i][1]
  PROVE  FirstFailure(tests) = "intact"
BY DEF FirstFailure

(* A record that one accepted key verifies and every other key fails only  *)
(* by the signature passes: the other trusted keys do no harm.             *)
LEMMA OneKeySuffices ==
  ASSUME NEW req, NEW key \in Candidates(req),
         SoundV2(req.rec, FreshnessV2(req)), ~ForgedV2(req.rec, key)
  PROVE  RecordVerdict(req) = "intact"
<1> DEFINE found == {VerifyV2(req.rec, k, FreshnessV2(req)) : k \in Candidates(req)}
                      \ {"issuer signature invalid"}
<1>1. "intact" \in found
  <2>1. VerifyV2(req.rec, key, FreshnessV2(req)) = "intact"
    BY OnlyItsKey
  <2> QED
    BY <2>1
<1>2. ASSUME NEW v \in found PROVE v = "intact"
  <2>1. PICK k \in Candidates(req) : v = VerifyV2(req.rec, k, FreshnessV2(req))
    BY <1>2
  <2>2. v = IF k = key THEN "intact" ELSE "issuer signature invalid"
    BY <2>1, OnlyItsKey
  <2> QED
    BY <1>2, <2>2
<1>3. RecordVerdict(req) = (CHOOSE v \in found : TRUE)
  BY <1>1 DEF RecordVerdict
<1> HIDE DEF found
<1> QED
  BY <1>1, <1>2, <1>3

(* The holder's own proof over the channel of the call passes.             *)
LEMMA HolderPasses ==
  ASSUME NEW req, req.rec.holderType = Ed25519,
         req.proof # NoPolicy =>
           req.channel # NoPolicy /\ req.proof.type = Ed25519 /\ ProvedHere(req)
  PROVE  BindingVerdict(req) = "intact"
<1> DEFINE r     == req.rec
           out   == Export(req.channel, conf.rev, r)
           wrong == req.proof.over # BindingInput(conf.rev, r, out)
<1>1. CASE req.proof = NoPolicy
  BY <1>1 DEF BindingVerdict
<1>2. CASE req.proof # NoPolicy
  <2> DEFINE tests == <<
        <<req.proof.type # Ed25519, "binding proof must be 64 octets">>,
        <<req.proof.by # r.holder \/ wrong, "holder proof mismatch">> >>
  <2>0. DOMAIN tests = 1 .. 2
    OBVIOUS
  <2>1. /\ tests[1][1] <=> req.proof.type # Ed25519
        /\ tests[2][1] <=> req.proof.by # r.holder \/ wrong
    OBVIOUS
  <2>2. BindingVerdict(req) = VerifyBinding(conf.rev, r, req.proof, out, NoPolicy)
    BY <1>2 DEF BindingVerdict
  <2>3. VerifyBinding(conf.rev, r, req.proof, out, NoPolicy) = FirstFailure(tests)
    BY DEF VerifyBinding
  <2>4. req.proof.type = Ed25519 /\ req.proof.by = r.holder /\ ~wrong
    BY <1>2 DEF ProvedHere
  <2> HIDE DEF tests, wrong
  <2>5. \A i \in 1 .. 2 : ~tests[i][1]
    BY <2>1, <2>4
  <2>6. FirstFailure(tests) = "intact"
    BY <2>0, <2>5, NoneFails
  <2> QED
    BY <2>2, <2>3, <2>6
<1> QED
  BY <1>1, <1>2

LEMMA ChecksPass ==
  ASSUME NEW req, RecordVerdict(req) = "intact", BindingVerdict(req) = "intact",
         conf.holders # {} => req.rec.holder \in conf.holders,
         conf.rev = "draft13"
           => Draft13Freshness(req.rec.ts, clock, req.rec.disp, MaxSkew, MaxFutureSkew)
  PROVE  CheckV2(req) = "intact"
<1> DEFINE r == req.rec
           tests == <<
    <<RecordVerdict(req) # "intact", RecordVerdict(req)>>,
    <<conf.holders # {} /\ r.holder \notin conf.holders, "holder not authorized">>,
    <<BindingVerdict(req) # "intact", BindingVerdict(req)>>,
    <<conf.rev = "draft13" /\ ~Draft13Freshness(r.ts, clock, r.disp, MaxSkew, MaxFutureSkew),
      "asymmetric freshness window exceeded">> >>
<1>0. DOMAIN tests = 1 .. 4
  OBVIOUS
<1>1. /\ tests[1][1] <=> RecordVerdict(req) # "intact"
      /\ tests[2][1] <=> conf.holders # {} /\ r.holder \notin conf.holders
      /\ tests[3][1] <=> BindingVerdict(req) # "intact"
      /\ tests[4][1] <=> conf.rev = "draft13"
                           /\ ~Draft13Freshness(r.ts, clock, r.disp, MaxSkew, MaxFutureSkew)
  OBVIOUS
<1>2. CheckV2(req) = FirstFailure(tests)
  BY DEF CheckV2
<1> HIDE DEF tests
<1>3. \A i \in 1 .. 4 : ~tests[i][1]
  BY <1>1
<1>4. FirstFailure(tests) = "intact"
  BY <1>0, <1>3, NoneFails
<1> QED
  BY <1>2, <1>4

(* pot_verify_v2 refuses no genuine request by its checks: a record that   *)
(* pot_generate_v2 made with an accepted key, in its window, of an         *)
(* authorised holder, without a proof where none is required or with the   *)
(* holder's own over the channel of the call, passes.                      *)
THEOREM GenuineV2Passes ==
  ASSUME NEW req, NEW ts, NEW disp, NEW ctx, NEW holder, NEW nonce, NEW keyId,
         NEW key \in Candidates(req),
         req.rec = GenerateV2(Ed25519, ts, disp, ctx, holder, nonce, keyId, key),
         FreshnessV2(req) = NoPolicy \/ WithinSkew(ts, disp, FreshnessV2(req)),
         conf.holders # {} => holder \in conf.holders,
         req.proof # NoPolicy =>
           req.channel # NoPolicy /\ req.proof.type = Ed25519 /\ ProvedHere(req),
         conf.rev = "draft13" => Draft13Freshness(ts, clock, disp, MaxSkew, MaxFutureSkew)
  PROVE  CheckV2(req) = "intact"
<1> DEFINE r == req.rec
<1>1. PICK fresh : fresh = FreshnessV2(req)
  OBVIOUS
<1>2. Ed25519 \in HolderTypes /\ (fresh = NoPolicy \/ WithinSkew(ts, disp, fresh))
  BY <1>1 DEF HolderTypes
<1>3. SoundV2(r, fresh) /\ ~ForgedV2(r, key)
  BY <1>2, MadeV2Sound
<1>4. RecordVerdict(req) = "intact"
  BY <1>1, <1>3, OneKeySuffices
<1>5. r.ts = ts /\ r.disp = disp /\ r.holder = holder /\ r.holderType = Ed25519
  <2> DEFINE f == [holderType |-> Ed25519, alg |-> 1, ts |-> ts, disp |-> disp, ctx |-> ctx,
                   nonce |-> nonce, holder |-> holder, keyId |-> keyId]
  <2>1. r = EncodeV2(f, key)
    BY DEF GenerateV2
  <2>2. f.holderType = Ed25519 /\ f.ts = ts /\ f.disp = disp /\ f.holder = holder
    OBVIOUS
  <2> HIDE DEF f
  <2>3. r.ts = f.ts /\ r.disp = f.disp /\ r.holder = f.holder /\ r.holderType = f.holderType
    BY <2>1, PlainFieldsV2
  <2> QED
    BY <2>2, <2>3
<1>6. BindingVerdict(req) = "intact"
  BY <1>5, HolderPasses
<1> QED
  BY <1>4, <1>5, <1>6, ChecksPass

(* Nor does pot_verify_v08: a record that pot_generate signed with the key *)
(* the call names, or the process's own, for the same context and content  *)
(* passes within the skew, where there is one, unless the server asks for  *)
(* a freshness policy and has none.                                        *)
THEOREM GenuineV08Passes ==
  ASSUME InBounds, NEW req, NEW ts, NEW bound, NEW sources,
         EncodableV08([srcCnt |-> sources, bound |-> bound]), NEW digest, NEW nonce, NEW keyId,
         NEW key, key = (IF req.issuer = NoPolicy THEN SelfKeys[life] ELSE req.issuer),
         req.rec = GenerateV08(ts, bound, sources, FALSE, digest, nonce, keyId, req.ctxId, key),
         req.content = NoPolicy \/ req.content = digest,
         IF conf.skew08 = NoPolicy THEN ~conf.fresh08
         ELSE WithinSkew(ts, bound, [now |-> clock, skew |-> conf.skew08])
  PROVE  CheckV08(req) = "intact"
<1>1. PICK fresh : fresh = IF conf.skew08 = NoPolicy THEN NoPolicy
                           ELSE [now |-> clock, skew |-> conf.skew08]
  OBVIOUS
<1>2. ~(conf.fresh08 /\ fresh = NoPolicy) /\ (fresh = NoPolicy \/ WithinSkew(ts, bound, fresh))
  <2>1. CASE conf.skew08 = NoPolicy
    BY <1>1, <2>1
  <2>2. CASE conf.skew08 # NoPolicy
    <3>1. fresh = [now |-> clock, skew |-> conf.skew08]
      BY <1>1, <2>2
    <3>2. WithinSkew(ts, bound, fresh)
      BY <2>2, <3>1
    <3>3. clock \in Nat /\ conf.skew08 \in Nat
      BY <2>2, RequestsAssumption DEF InBounds
    <3>4. fresh # NoPolicy
      BY <3>1, <3>3, RecordAssumption
    <3> QED
      BY <3>2, <3>4
  <2> QED
    BY <2>1, <2>2
<1>3. PICK r : r = req.rec
  OBVIOUS
<1>4. VerifyV08(r, req.ctxId, key, req.content, fresh) = "intact"
  <2>1. SoundV08(r, req.ctxId, key)
    BY <1>3, MadeV08Sound
  <2>2. Carries(r, bound, ts, digest)
    BY <1>3, MadeV08Fields
  <2>3. /\ fresh = NoPolicy \/ WithinSkew(r.ts, r.bound, fresh)
        /\ req.content = NoPolicy \/ req.content = r.digest
    BY <1>2, <2>2 DEF Carries
  <2> QED
    BY ONLY <2>1, <2>3, SoundVerifies
<1>5. CheckV08(req) = IF conf.fresh08 /\ fresh = NoPolicy
                      THEN "freshness policy is not configured"
                      ELSE VerifyV08(r, req.ctxId, key, req.content, fresh)
  BY <1>1, <1>3 DEF CheckV08
<1> QED
  BY <1>2, <1>4, <1>5
=============================================================================
