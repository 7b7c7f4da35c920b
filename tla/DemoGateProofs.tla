--------------------------- MODULE DemoGateProofs ---------------------------
(***************************************************************************)
(* What the demo gate guarantees for every set of requests, every lifetime *)
(* and every size of its map and queue: gates do not overlap, so that a    *)
(* rejection sees no other request's transfer, and a token moves the money *)
(* twice only after a verification as long as the safety margin or a step  *)
(* back of the wall clock.                                                 *)
(***************************************************************************)
EXTENDS DemoGate, SequenceTheorems, FiniteSetTheorems, WellFoundedInduction, TLAPS

(* The answer of a sequence of tests is the reason of a failing one, or    *)
(* "intact" when none fails.                                               *)
LEMMA FailureIs ==
  ASSUME NEW tests, NEW n \in Nat, DOMAIN tests = 1 .. n
  PROVE  \/ FirstFailure(tests) = "intact" /\ \A i \in 1 .. n : ~tests[i][1]
         \/ \E i \in 1 .. n : tests[i][1] /\ FirstFailure(tests) = tests[i][2]
<1> DEFINE T == {i \in 1 .. n : tests[i][1]}
           first == CHOOSE i \in DOMAIN tests : tests[i][1] /\ \A j \in 1 .. i - 1 : ~tests[j][1]
<1> SUFFICES ASSUME T # {} PROVE  \E i \in T : FirstFailure(tests) = tests[i][2]
  BY DEF FirstFailure
<1>1. T \subseteq Nat
  OBVIOUS
<1>2. PICK i \in T : \A j \in T : <<j, i>> \notin OpToRel(<, Nat)
  <2> HIDE DEF T
  <2> QED
    BY <1>1, NatLessThanWellFounded, WFMin, Zenon
<1>3. \A j \in 1 .. i - 1 : j \in 1 .. n /\ <<j, i>> \in OpToRel(<, Nat)
  BY DEF OpToRel
<1>4. first \in DOMAIN tests /\ tests[first][1]
  BY <1>2, <1>3
<1> QED
  BY <1>4 DEF FirstFailure

(* No failing test is passed over.                                         *)
LEMMA FailureShows ==
  ASSUME NEW tests, NEW n \in 1 .. 8, DOMAIN tests = 1 .. n,
         \A i \in 1 .. n : tests[i][1] => tests[i][2] # "intact",
         NEW k \in 1 .. n, tests[k][1]
  PROVE  FirstFailure(tests) # "intact"
BY FailureIs

(* The verifier accepts no record that is stale at the instant it was asked*)
(* for.                                                                    *)
LEMMA VerifiedIsFresh ==
  ASSUME NEW r, NEW action, NEW proof, NEW out, NEW at,
         RustVerify(r, action, proof, out, at) = "intact"
  PROVE  LifetimeOK(r, at)
<1> DEFINE tests == <<
      <<r.version # 2 \/ r.holderType \notin HolderTypes \/ r.alg # 1, "RECORD_REJECTED">>,
      <<r.tag # Fields(r, HeadV2), "DIGEST_MUTATION_FAIL">>,
      <<ForgedV2(r, life), "ISSUER_SIGNATURE_INVALID">>,
      <<~LifetimeOK(r, at), "STALE_TIMESTAMP">>,
      <<r.holder # "bob", "HOLDER_NOT_AUTHORIZED">>,
      <<action.amount <= 0, "INVALID_ACTION">>,
      <<r.ctx # action, "ARGUMENT_BINDING_FAIL">>,
      <<VerifyBinding("draft13", r, proof, out, NoPolicy) # "intact", "TLS_HOLDER_BINDING_FAIL">> >>
<1>1. RustVerify(r, action, proof, out, at) = FirstFailure(tests)
  BY DEF RustVerify
<1>2. DOMAIN tests = 1 .. 8 /\ \A i \in 1 .. 8 : tests[i][2] # "intact"
  OBVIOUS
<1>3. ~LifetimeOK(r, at) => tests[4][1] = TRUE
  OBVIOUS
<1> HIDE DEF tests
<1> QED
  BY <1>1, <1>2, <1>3, FailureShows

----------------------------------------------------------------------------
(* Gates do not overlap: at most one request is being verified, and the    *)
(* database is what it was when that one began.                            *)
Alone ==
  /\ DOMAIN post = Posts
  /\ \A q \in Posts : post[q].pc = "verifying" => post[q].before = db
  /\ \A p, q \in Posts : post[p].pc = "verifying" /\ post[q].pc = "verifying" => p = q

LEMMA AloneKept ==
  ASSUME Alone, RejectedLeavesDb, [Next]_vars
  PROVE  Alone' /\ RejectedLeavesDb'
<1> USE DEF Alone, RejectedLeavesDb
<1>1. ASSUME UNCHANGED <<post, db>> PROVE Alone' /\ RejectedLeavesDb'
  BY <1>1
<1>2. ASSUME NEW q \in Posts, NEW c \in Carries[q], Post(q, c)
      PROVE  Alone' /\ RejectedLeavesDb'
  BY <1>2 DEF Post
<1>3. ASSUME GateStarts PROVE Alone' /\ RejectedLeavesDb'
  BY <1>3 DEF GateStarts, Turn
<1>4. ASSUME NEW q \in Posts, VerifierAnswers(q) PROVE Alone' /\ RejectedLeavesDb'
  <2>1. post[q].pc = "verifying" /\ \A p \in Posts \ {q} : post[p].pc # "verifying"
    BY <1>4 DEF VerifierAnswers
  <2>2. \/ \E s : post' = [post EXCEPT ![q] = s] /\ s.pc = "allow"
        \/ UNCHANGED db /\ \E reason : Rejected(q, reason)
    BY <1>4 DEF VerifierAnswers
  <2>3. CASE \E s : post' = [post EXCEPT ![q] = s] /\ s.pc = "allow"
    BY <2>1, <2>3
  <2>4. CASE UNCHANGED db /\ \E reason : Rejected(q, reason)
    BY <2>1, <2>4 DEF Rejected
  <2> QED
    BY <2>2, <2>3, <2>4
<1>5. ASSUME NEW q \in Posts, VerifierTimesOut(q) PROVE Alone' /\ RejectedLeavesDb'
  BY <1>5 DEF VerifierTimesOut, Rejected
<1>6. ASSUME VerifierFails PROVE Alone' /\ RejectedLeavesDb'
  BY <1>6 DEF VerifierFails
<1>7. ASSUME Restart PROVE Alone' /\ RejectedLeavesDb'
  BY <1>7 DEF Restart, New
<1> QED
  BY <1>1, <1>2, <1>3, <1>4, <1>5, <1>6, <1>7 DEF Next, Mint, Tick, WallStepsBack, vars

(* A rejection reports the database as its gate found it, whatever other   *)
(* requests were allowed before and after, for any number of requests.     *)
THEOREM RejectionLeavesDatabase == Spec => []RejectedLeavesDb
<1>1. Init => Alone /\ RejectedLeavesDb
  BY DEF Init, New, Alone, RejectedLeavesDb
<1>2. Alone /\ RejectedLeavesDb /\ [Next]_vars => Alone' /\ RejectedLeavesDb'
  BY AloneKept
<1> QED
  BY <1>1, <1>2, PTL DEF Spec

----------------------------------------------------------------------------
(* The last instant at which token i is fresh, and the shapes of time.     *)
Until(i)  == minted[i].ts + MaxAge + Dispersion
Holds(q)  == post[q].pc \in {"queued", "verifying", "allow"}

Clocks ==
  /\ wall \in Int /\ mono \in Int /\ steps \in Nat
  /\ steps = 0 => wall = mono
  /\ minted \in Seq([ts : Int, life : Int]) /\ life \in Int

(* The queue holds queued requests, each once, of tokens that were minted. *)
Queue ==
  /\ DOMAIN post = Posts /\ tail \in Seq(Posts)
  /\ \A i \in DOMAIN tail : post[tail[i]].pc = "queued"
  /\ \A i, j \in DOMAIN tail : tail[i] = tail[j] => i = j
  /\ \A q \in Posts : Holds(q) => post[q].token \in DOMAIN minted

(* While the wall clock has not been set back, the monotonic and the wall  *)
(* clock agree, also in what a verification has noted of them.             *)
Noted ==
  \A q \in Posts : post[q].pc = "verifying" =>
    /\ post[q].since \in Int /\ post[q].asked \in Int /\ post[q].since <= mono
    /\ steps = 0 => post[q].asked = post[q].since

(* An allowed token's claim is kept until the margin after its last        *)
(* instant, unless that has passed.                                        *)
Kept(i) ==
  mono >= Until(i) + SafetyMargin \/
  \E e \in replay : e.token = i /\ e.until >= Until(i) + SafetyMargin
Claims ==
  /\ \A e \in replay : e.until \in Int
  /\ steps = 0 => \A q \in Posts : Allowed(q) => Kept(post[q].token)
Lates == \A q \in Posts : Allowed(q) => post[q].late \in Int

Timed == Clocks /\ Queue /\ Noted /\ Claims /\ Lates /\ TwiceOnlyWhenLate

LEMMA MintedTimes ==
  ASSUME Clocks, NEW i \in DOMAIN minted
  PROVE  minted[i].ts \in Int
<1>1. i \in 1 .. Len(minted) /\ minted \in Seq([ts : Int, life : Int])
  BY DEF Clocks
<1>2. minted[i] \in [ts : Int, life : Int]
  BY <1>1, ElementOfSeq
<1> QED
  BY <1>2

LEMMA RecordTimes ==
  ASSUME NEW i, minted[i].ts \in Int
  PROVE  Last(Record(i)) = Until(i)
<1>1. Record(i).ts = minted[i].ts /\ Record(i).disp = Dispersion
  BY DEF Record, EncodeV2, HeadV2, PrefixV2
<1> QED
  BY <1>1 DEF Last, Until

(* The gate passes only what the child accepts and the map does not claim. *)
LEMMA GateTests ==
  ASSUME NEW checked, NEW claimed \in BOOLEAN, NEW c \in BOOLEAN, NEW d \in BOOLEAN,
         NEW e \in BOOLEAN,
         FirstFailure(<< <<checked # "intact", checked>>, <<claimed, "REPLAY_LEDGER_CLAIMED">>,
                         <<c, "REPLAY_TTL_REQUIRED">>, <<d, "INSUFFICIENT_BALANCE">>,
                         <<e, "REPLAY_LEDGER_CAPACITY">> >>) = "intact"
  PROVE  checked = "intact" /\ ~claimed /\ ~d /\ ~e
<1> DEFINE tests == << <<checked # "intact", checked>>, <<claimed, "REPLAY_LEDGER_CLAIMED">>,
                       <<c, "REPLAY_TTL_REQUIRED">>, <<d, "INSUFFICIENT_BALANCE">>,
                       <<e, "REPLAY_LEDGER_CAPACITY">> >>
<1>1. DOMAIN tests = 1 .. 5
  OBVIOUS
<1>2. /\ tests[1][1] <=> checked # "intact"
      /\ tests[1][2] = checked
  OBVIOUS
<1>3. \A k \in 2 .. 5 : tests[k][2] # "intact"
  OBVIOUS
<1>4. tests[2][1] = claimed /\ tests[4][1] = d /\ tests[5][1] = e
  OBVIOUS
<1>5. FirstFailure(tests) = "intact"
  OBVIOUS
<1> HIDE DEF tests
<1>6. \A k \in 1 .. 5 : tests[k][1] => tests[k][2] # "intact"
  BY <1>2, <1>3
<1>7. ASSUME NEW k \in 1 .. 5 PROVE ~tests[k][1]
  <2>1. 5 \in 1 .. 8
    OBVIOUS
  <2> QED
    BY <1>1, <1>5, <1>6, <2>1, FailureShows
<1> QED
  BY <1>2, <1>4, <1>7

(* A gate that allows its request found no live claim of the token, and a  *)
(* record that was fresh when the child was asked; it leaves a claim that  *)
(* lives on past the record by the margin.                                 *)
LEMMA AllowedMeans ==
  ASSUME Timed, NEW q \in Posts, VerifierAnswers(q), post'[q].pc = "allow"
  PROVE  LET i == post[q].token
         IN /\ post' = [post EXCEPT ![q] = [pc |-> "allow", token |-> i,
                                            late |-> mono - post[q].since]]
            /\ \A e \in replay : e.token = i => ~(e.until > mono)
            /\ replay' = {e \in Swept : e.token # i} \cup
                  {[token |-> i, until |-> mono + (Until(i) - post[q].asked + SafetyMargin)]}
            /\ post[q].asked <= Until(i)
            /\ ~(db.bob < ActionOf(q).amount) /\ ~(Cardinality(Swept) >= MaxReplay)
            /\ db' = [bob |-> db.bob - ActionOf(q).amount, eve |-> db.eve + ActionOf(q).amount]
<1> DEFINE p       == post[q]
           r       == Presented(q)
           checked == RustVerify(r, ActionOf(q), ProofOf(q), Exported(q), p.asked)
           claimed == \E e \in replay : e.token = p.token /\ e.until > mono
           odd     == Ttl(q) < 1 \/ Ttl(q) > MaxFuture + MaxAge + MaxDispersion + SafetyMargin
           poor    == db.bob < ActionOf(q).amount
           full    == Cardinality(Swept) >= MaxReplay
<1>1. p.pc = "verifying" /\ DOMAIN post = Posts
  BY DEF VerifierAnswers, Timed, Queue
<1>2. IF Verdict(q) = "intact"
      THEN /\ replay' = {e \in Swept : e.token # p.token}
                          \cup {[token |-> p.token, until |-> mono + Ttl(q)]}
           /\ post' = [post EXCEPT ![q] = [pc |-> "allow", token |-> p.token,
                                           late |-> mono - p.since]]
           /\ db' = [bob |-> db.bob - ActionOf(q).amount, eve |-> db.eve + ActionOf(q).amount]
      ELSE Rejected(q, Verdict(q))
  BY DEF VerifierAnswers
<1>3. Verdict(q) = "intact"
  BY <1>1, <1>2 DEF Rejected
<1>4. checked = "intact" /\ ~claimed /\ ~poor /\ ~full
  <2>1. claimed \in BOOLEAN /\ odd \in BOOLEAN /\ poor \in BOOLEAN /\ full \in BOOLEAN
    OBVIOUS
  <2>2. Verdict(q) = FirstFailure(<<
          <<checked # "intact", checked>>, <<claimed, "REPLAY_LEDGER_CLAIMED">>,
          <<odd, "REPLAY_TTL_REQUIRED">>, <<poor, "INSUFFICIENT_BALANCE">>,
          <<full, "REPLAY_LEDGER_CAPACITY">> >>)
    BY DEF Verdict
  <2> HIDE DEF checked, claimed, odd, poor, full
  <2> QED
    BY <1>3, <2>1, <2>2, GateTests
<1>5. LifetimeOK(r, p.asked)
  BY <1>4, VerifiedIsFresh
<1>6. Last(r) = Until(p.token)
  <2>1. p.token \in DOMAIN minted
    BY <1>1 DEF Timed, Queue, Holds
  <2>2. minted[p.token].ts \in Int
    BY <2>1, MintedTimes DEF Timed
  <2> QED
    BY <2>2, RecordTimes DEF Presented
<1>7. Ttl(q) = Until(p.token) - p.asked + SafetyMargin /\ p.asked <= Until(p.token)
  BY <1>5, <1>6 DEF LifetimeOK, Ttl, ReplayTtl
<1>8. /\ \A e \in replay : e.token = p.token => ~(e.until > mono)
      /\ ~(db.bob < ActionOf(q).amount) /\ ~(Cardinality(Swept) >= MaxReplay)
  BY <1>4
<1>9. /\ post' = [post EXCEPT ![q] = [pc |-> "allow", token |-> p.token, late |-> mono - p.since]]
      /\ db' = [bob |-> db.bob - ActionOf(q).amount, eve |-> db.eve + ActionOf(q).amount]
  BY <1>2, <1>3
<1>10. replay' = {e \in Swept : e.token # p.token} \cup
         {[token |-> p.token, until |-> mono + (Until(p.token) - p.asked + SafetyMargin)]}
  BY <1>2, <1>3, <1>7
<1> QED
  BY <1>7, <1>8, <1>9, <1>10

LEMMA Numbers ==
  ASSUME Clocks
  PROVE  /\ \A i \in DOMAIN minted : Until(i) \in Int
         /\ SafetyMargin \in Nat /\ mono \in Int
<1>1. {MaxAge, Dispersion} \subseteq Nat /\ SafetyMargin \in Nat
  BY GateAssumption
<1> QED
  BY <1>1, MintedTimes DEF Until, Clocks

(* A sweep drops no claim that is still kept for its token.                *)
LEMMA SweptKeeps ==
  ASSUME Clocks, Claims, NEW i \in DOMAIN minted, Kept(i)
  PROVE  \/ mono >= Until(i) + SafetyMargin
         \/ \E e \in Swept : e.token = i /\ e.until >= Until(i) + SafetyMargin
<1>1. Until(i) \in Int /\ SafetyMargin \in Nat /\ mono \in Int
  BY Numbers
<1>2. ASSUME NEW e \in replay, e \notin Swept PROVE e.until \in Int /\ e.until <= mono
  BY <1>1, <1>2 DEF Swept, Claims
<1> QED
  BY <1>1, <1>2 DEF Kept

(* A request that is answered leaves the others as they are.               *)
LEMMA RequestEnds ==
  ASSUME Timed, NEW q \in Posts, post[q].pc = "verifying", NEW s,
         s.pc \notin {"new", "queued", "verifying"}, post' = [post EXCEPT ![q] = s],
         UNCHANGED <<wall, mono, steps, life, minted, tail>>,
         s.pc = "allow" => s.token = post[q].token /\ s.late \in Int
  PROVE  Clocks' /\ Queue' /\ Noted' /\ Lates'
<1>1. DOMAIN post = Posts /\ post'[q] = s /\ \A p \in Posts \ {q} : post'[p] = post[p]
  BY DEF Timed, Queue
<1>2. Clocks'
  BY DEF Timed, Clocks
<1>3. \A i \in DOMAIN tail : tail[i] \in Posts \ {q}
  <2> SUFFICES ASSUME NEW i \in DOMAIN tail PROVE tail[i] \in Posts \ {q}
    OBVIOUS
  <2>1. i \in 1 .. Len(tail) /\ tail \in Seq(Posts) /\ post[tail[i]].pc = "queued"
    BY DEF Timed, Queue
  <2> QED
    BY <2>1, ElementOfSeq
<1>4. Queue'
  BY <1>1, <1>3 DEF Timed, Queue, Holds
<1>5. Noted'
  BY <1>1 DEF Timed, Noted
<1>6. Lates'
  BY <1>1 DEF Timed, Lates, Allowed
<1> QED
  BY <1>2, <1>4, <1>5, <1>6

LEMMA RejectTimed ==
  ASSUME Timed, NEW q \in Posts, post[q].pc = "verifying", NEW reason, Rejected(q, reason),
         replay' = replay \/ replay' = Swept,
         UNCHANGED <<wall, mono, steps, life, minted, tail>>
  PROVE  Timed'
<1>1. DOMAIN post = Posts /\ post'[q].pc = "reject"
      /\ \A p \in Posts \ {q} : post'[p] = post[p]
  BY DEF Timed, Queue, Rejected
<1>2. Clocks' /\ Queue' /\ Noted' /\ Lates'
  BY RequestEnds DEF Rejected
<1>3. \A p \in Posts : Allowed(p)' => Allowed(p) /\ post'[p] = post[p]
  BY <1>1 DEF Allowed
<1>4. Claims'
  <2>1. \A e \in replay' : e.until \in Int
    BY DEF Timed, Claims, Swept
  <2>2. ASSUME NEW p \in Posts, Allowed(p), steps = 0 PROVE Kept(post[p].token)'
    <3>1. post[p].token \in DOMAIN minted /\ Kept(post[p].token)
      BY <2>2 DEF Timed, Queue, Holds, Claims, Allowed
    <3>2. post'[p] = post[p]
      BY <1>1, <2>2 DEF Allowed
    <3>3. CASE replay' = replay
      BY <3>1, <3>2, <3>3 DEF Kept, Until
    <3>4. CASE replay' = Swept
      BY <3>1, <3>2, <3>4, SweptKeeps DEF Timed, Kept, Until
    <3> QED
      BY <3>3, <3>4
  <2> QED
    BY <1>3, <2>1, <2>2 DEF Claims
<1>5. TwiceOnlyWhenLate'
  BY <1>3 DEF Timed, TwiceOnlyWhenLate
<1> QED
  BY <1>2, <1>4, <1>5 DEF Timed

LEMMA AnswerTimed ==
  ASSUME Timed, NEW q \in Posts, VerifierAnswers(q)
  PROVE  Timed'
<1>1. post[q].pc = "verifying" /\ UNCHANGED <<wall, mono, steps, life, minted, tail>>
      /\ DOMAIN post = Posts
  BY DEF VerifierAnswers, Timed, Queue
<1>2. \/ post'[q].pc = "allow"
      \/ /\ replay' = replay \/ replay' = Swept
         /\ Rejected(q, Verdict(q))
  BY <1>1 DEF VerifierAnswers
<1>3. ASSUME post'[q].pc = "allow" PROVE Timed'
  <2> DEFINE i     == post[q].token
             until == mono + (Until(i) - post[q].asked + SafetyMargin)
             late  == mono - post[q].since
             new   == [token |-> i, until |-> until]
             s     == [pc |-> "allow", token |-> i, late |-> late]
  <2>1. /\ post' = [post EXCEPT ![q] = s]
        /\ \A e \in replay : e.token = i => ~(e.until > mono)
        /\ replay' = {e \in Swept : e.token # i} \cup {new}
        /\ post[q].asked <= Until(i)
    BY <1>3, AllowedMeans
  <2>2. /\ i \in DOMAIN minted /\ Until(i) \in Int /\ SafetyMargin \in Nat /\ mono \in Int
        /\ post[q].asked \in Int /\ post[q].since \in Int /\ post[q].since <= mono
        /\ steps = 0 => post[q].asked = post[q].since
    BY <1>1, Numbers DEF Timed, Queue, Holds, Noted
  <2>3. late \in Int /\ until \in Int /\ (steps = 0 => until >= Until(i) + SafetyMargin)
    BY <2>2
  <2>4. Clocks' /\ Queue' /\ Noted' /\ Lates'
    BY <1>1, <2>1, <2>3, RequestEnds
  <2>5. post'[q] = s /\ \A p \in Posts \ {q} : post'[p] = post[p]
    BY <1>1, <2>1
  <2>6. \A j : Until(j)' = Until(j)
    BY <1>1 DEF Until
  <2> DEFINE KeptNext(j) ==
        mono' >= Until(j)' + SafetyMargin \/
        \E e \in replay' : e.token = j /\ e.until >= Until(j)' + SafetyMargin
  <2> HIDE DEF until, late
  <2>7. Claims'
    <3>1. \A e \in replay' : e.until \in Int
      BY <2>1, <2>3 DEF Timed, Claims, Swept
    <3> DEFINE NextKept(j) == \/ mono >= Until(j) + SafetyMargin
                              \/ \E e \in replay' : e.token = j /\ e.until >= Until(j) + SafetyMargin
    <3>2. ASSUME steps = 0 PROVE NextKept(i)
      <4>1. new \in replay' /\ new.token = i /\ new.until >= Until(i) + SafetyMargin
        BY <2>1, <2>3, <3>2
      <4> QED
        BY <4>1
    <3>3. ASSUME NEW p \in Posts \ {q}, Allowed(p), steps = 0, post[p].token # i
          PROVE  NextKept(post[p].token)
      <4> DEFINE j == post[p].token
      <4>1. j \in DOMAIN minted /\ Kept(j)
        BY <3>3 DEF Timed, Queue, Holds, Claims, Allowed
      <4>2. CASE \E e \in Swept : e.token = j /\ e.until >= Until(j) + SafetyMargin
        <5>1. PICK e \in Swept : e.token = j /\ e.until >= Until(j) + SafetyMargin
          BY <4>2
        <5>2. e \in replay'
          BY <2>1, <3>3, <5>1
        <5> QED
          BY <5>1, <5>2
      <4> QED
        BY <4>1, <4>2, SweptKeeps DEF Timed
    <3>4. ASSUME NEW p \in Posts, steps = 0, Allowed(p)' PROVE NextKept(post'[p].token)
      <4>1. CASE p = q
        BY <2>5, <3>2, <3>4, <4>1
      <4>2. CASE p # q
        BY <2>5, <3>2, <3>3, <3>4, <4>2 DEF Allowed
      <4> QED
        BY <4>1, <4>2
    <3>5. \A j : NextKept(j) =>
            \/ mono' >= minted'[j].ts + MaxAge + Dispersion + SafetyMargin
            \/ \E e \in replay' : e.token = j
                 /\ e.until >= minted'[j].ts + MaxAge + Dispersion + SafetyMargin
      BY <1>1 DEF Until
    <3> HIDE DEF NextKept
    <3> QED
      BY <1>1, <3>1, <3>4, <3>5 DEF Claims, Kept, Until
  <2>8. TwiceOnlyWhenLate'
    <3>1. ASSUME NEW p \in Posts \ {q}, Allowed(p), post[p].token = i, steps = 0
          PROVE  late >= SafetyMargin
      <4>1. Kept(i)
        BY <3>1 DEF Timed, Claims
      <4>2. \A e \in replay : e.token = i => e.until \in Int /\ e.until <= mono
        BY <2>1, <2>2 DEF Timed, Claims
      <4>3. mono >= Until(i) + SafetyMargin
        BY <2>2, <4>1, <4>2 DEF Kept
      <4> QED
        BY <2>1, <2>2, <3>1, <4>3 DEF late
    <3>2. steps \in Nat /\ steps' = steps
      BY <1>1 DEF Timed, Clocks
    <3> QED
      BY <2>5, <3>1, <3>2 DEF Timed, TwiceOnlyWhenLate, Allowed
  <2> QED
    BY <2>4, <2>7, <2>8 DEF Timed
<1> QED
  BY <1>1, <1>2, <1>3, RejectTimed

(* Steps that leave the requests and the tokens alone.                     *)
LEMMA ClocksTurn ==
  ASSUME Timed, UNCHANGED <<life, minted, post, tail, replay>>,
         wall' \in Int, mono' \in Int, steps' \in Nat, mono <= mono',
         steps' = 0 => steps = 0 /\ wall' = mono'
  PROVE  Timed'
<1>1. Clocks' /\ Queue' /\ Lates'
  BY DEF Timed, Clocks, Queue, Holds, Lates, Allowed
<1>2. Noted'
  BY DEF Timed, Clocks, Noted
<1>3. Claims'
  <2>1. ASSUME steps' = 0, NEW q \in Posts, Allowed(q) PROVE Kept(post[q].token)'
    <3>1. /\ post[q].token \in DOMAIN minted /\ Kept(post[q].token)
          /\ Until(post[q].token) \in Int /\ SafetyMargin \in Nat /\ mono \in Int
      BY <2>1, Numbers DEF Timed, Queue, Holds, Claims, Allowed
    <3> QED
      BY <3>1 DEF Kept, Until
  <2> QED
    BY <2>1 DEF Timed, Claims, Allowed
<1>4. TwiceOnlyWhenLate'
  BY DEF Timed, Clocks, TwiceOnlyWhenLate, Allowed
<1> QED
  BY <1>1, <1>2, <1>3, <1>4 DEF Timed

LEMMA MintTimed ==
  ASSUME Timed, Mint
  PROVE  Timed'
<1> DEFINE new == [ts |-> wall, life |-> life]
<1>1. /\ minted \in Seq([ts : Int, life : Int]) /\ new \in [ts : Int, life : Int]
      /\ minted' = Append(minted, new)
      /\ UNCHANGED <<wall, mono, steps, life, post, tail, replay>>
  BY DEF Mint, Timed, Clocks
<1> HIDE DEF new
<1>2. /\ minted' \in Seq([ts : Int, life : Int]) /\ DOMAIN minted \subseteq DOMAIN minted'
      /\ \A i \in DOMAIN minted : minted'[i] = minted[i]
  BY <1>1, AppendProperties
<1>3. Clocks' /\ Noted' /\ Lates'
  BY <1>1, <1>2 DEF Timed, Clocks, Noted, Lates, Allowed
<1>4. Queue'
  BY <1>1, <1>2 DEF Timed, Queue, Holds
<1>5. Claims'
  <2>1. ASSUME steps = 0, NEW q \in Posts, Allowed(q) PROVE Kept(post[q].token)'
    <3>1. post[q].token \in DOMAIN minted /\ Kept(post[q].token)
      BY <2>1 DEF Timed, Queue, Holds, Claims, Allowed
    <3> QED
      BY <1>1, <1>2, <3>1 DEF Kept, Until
  <2> QED
    BY <1>1, <2>1 DEF Timed, Claims, Allowed
<1>6. TwiceOnlyWhenLate'
  BY <1>1 DEF Timed, TwiceOnlyWhenLate, Allowed
<1> QED
  BY <1>3, <1>4, <1>5, <1>6 DEF Timed

(* Steps that allow nothing and move neither clock nor map keep the claims.*)
LEMMA NothingAllowed ==
  ASSUME Timed, UNCHANGED <<wall, mono, steps, life, minted, replay>>,
         \A q \in Posts : Allowed(q)' => Allowed(q) /\ post'[q] = post[q]
  PROVE  Clocks' /\ Claims' /\ Lates' /\ TwiceOnlyWhenLate'
<1>1. Clocks' /\ Lates' /\ TwiceOnlyWhenLate'
  BY DEF Timed, Clocks, Lates, TwiceOnlyWhenLate
<1>2. Claims'
  BY DEF Timed, Claims, Kept, Until
<1> QED
  BY <1>1, <1>2

LEMMA PostTimed ==
  ASSUME Timed, NEW q \in Posts, NEW c \in Carries[q], Post(q, c)
  PROVE  Timed'
<1>1. /\ post[q].pc = "new" /\ c.token \in DOMAIN minted /\ DOMAIN post = Posts
      /\ UNCHANGED <<wall, mono, steps, life, minted, replay>>
      /\ \A p \in Posts \ {q} : post'[p] = post[p]
      /\ DOMAIN post' = Posts
      /\ \/ post'[q].pc = "busy" /\ tail' = tail
         \/ /\ post'[q] = [pc |-> "queued", token |-> c.token, flaw |-> c.flaw]
            /\ tail' = Append(tail, q)
  BY DEF Post, New, Timed, Queue
<1>2. \A p \in Posts : Allowed(p)' => Allowed(p) /\ post'[p] = post[p]
  BY <1>1 DEF Allowed
<1>3. Noted'
  BY <1>1 DEF Timed, Noted
<1>4. \A i \in DOMAIN tail : tail[i] \in Posts \ {q}
  <2> SUFFICES ASSUME NEW i \in DOMAIN tail PROVE tail[i] \in Posts \ {q}
    OBVIOUS
  <2>1. i \in 1 .. Len(tail) /\ tail \in Seq(Posts) /\ post[tail[i]].pc = "queued"
    BY DEF Timed, Queue
  <2> QED
    BY <1>1, <2>1, ElementOfSeq
<1>5. Queue'
  <2>1. CASE tail' = tail /\ post'[q].pc = "busy"
    BY <1>1, <1>4, <2>1 DEF Timed, Queue, Holds
  <2>2. CASE /\ post'[q] = [pc |-> "queued", token |-> c.token, flaw |-> c.flaw]
             /\ tail' = Append(tail, q)
    <3>1. /\ tail \in Seq(Posts) /\ tail' \in Seq(Posts) /\ Len(tail') = Len(tail) + 1
          /\ Len(tail) \in Nat /\ DOMAIN tail = 1 .. Len(tail) /\ DOMAIN tail' = 1 .. Len(tail')
          /\ \A i \in 1 .. Len(tail) : tail'[i] = tail[i]
          /\ tail'[Len(tail) + 1] = q
      BY <2>2, AppendProperties DEF Timed, Queue
    <3>2. \A i \in DOMAIN tail' : post'[tail'[i]].pc = "queued"
      <4> SUFFICES ASSUME NEW i \in 1 .. Len(tail) + 1 PROVE post'[tail'[i]].pc = "queued"
        BY <3>1
      <4>1. CASE i = Len(tail) + 1
        BY <2>2, <3>1, <4>1
      <4>2. CASE i \in 1 .. Len(tail)
        BY <1>1, <1>4, <3>1, <4>2 DEF Timed, Queue
      <4> QED
        BY <3>1, <4>1, <4>2
    <3>3. \A i, j \in DOMAIN tail' : tail'[i] = tail'[j] => i = j
      <4> SUFFICES ASSUME NEW i \in 1 .. Len(tail) + 1, NEW j \in 1 .. Len(tail) + 1,
                          tail'[i] = tail'[j]
                   PROVE  i = j
        BY <3>1
      <4>1. CASE i \in 1 .. Len(tail) /\ j \in 1 .. Len(tail)
        BY <3>1, <4>1 DEF Timed, Queue
      <4>2. CASE i = Len(tail) + 1 \/ j = Len(tail) + 1
        BY <1>4, <3>1, <4>2
      <4> QED
        BY <3>1, <4>1, <4>2
    <3>4. \A p \in Posts : Holds(p)' => post'[p].token \in DOMAIN minted'
      BY <1>1, <2>2 DEF Timed, Queue, Holds
    <3> QED
      BY <1>1, <3>1, <3>2, <3>3, <3>4 DEF Queue
  <2> QED
    BY <1>1, <2>1, <2>2
<1> QED
  BY <1>1, <1>2, <1>3, <1>5, NothingAllowed DEF Timed

LEMMA StartTimed ==
  ASSUME Timed, GateStarts
  PROVE  Timed'
<1> DEFINE q == tail[1]
<1>1. /\ tail \in Seq(Posts) /\ tail # <<>> /\ DOMAIN post = Posts
      /\ DOMAIN tail = 1 .. Len(tail) /\ Len(tail) \in Nat \ {0}
  <2>1. tail \in Seq(Posts) /\ tail # <<>> /\ DOMAIN post = Posts
    BY DEF GateStarts, Timed, Queue
  <2> QED
    BY <2>1, EmptySeq
<1>2. /\ Head(tail) = q /\ q \in Posts /\ post[q].pc = "queued"
      /\ post[q].token \in DOMAIN minted
  <2>1. 1 \in DOMAIN tail /\ q \in Posts
    BY <1>1, ElementOfSeq
  <2> QED
    BY <1>1, <2>1 DEF Timed, Queue, Holds
<1>3. /\ UNCHANGED <<wall, mono, steps, life, minted, replay>> /\ tail' = Tail(tail)
      /\ DOMAIN post' = Posts /\ \A p \in Posts \ {q} : post'[p] = post[p]
      /\ \/ post'[q] = [pc |-> "verifying", token |-> post[q].token, flaw |-> post[q].flaw,
                         before |-> db, asked |-> wall, since |-> mono]
         \/ post'[q].pc = "reject"
  BY <1>1, <1>2 DEF GateStarts
<1>4. \A p \in Posts : Allowed(p)' => Allowed(p) /\ post'[p] = post[p]
  BY <1>3 DEF Allowed
<1>5. Noted'
  BY <1>3 DEF Timed, Clocks, Noted
<1>6. /\ tail' \in Seq(Posts) /\ DOMAIN tail' = 1 .. Len(tail')
      /\ Len(tail') = Len(tail) - 1 /\ \A i \in 1 .. Len(tail') : tail'[i] = tail[i + 1]
  BY <1>1, <1>3, HeadTailProperties
<1>7. \A i \in DOMAIN tail' : /\ i + 1 \in DOMAIN tail /\ tail'[i] = tail[i + 1]
                             /\ tail[i + 1] \in Posts \ {q}
  <2> SUFFICES ASSUME NEW i \in 1 .. Len(tail) - 1
               PROVE  /\ i + 1 \in DOMAIN tail /\ tail'[i] = tail[i + 1]
                      /\ tail[i + 1] \in Posts \ {q}
    BY <1>6
  <2>1. i + 1 \in 1 .. Len(tail) /\ 1 \in 1 .. Len(tail) /\ i + 1 # 1
    BY <1>1
  <2>2. tail[i + 1] \in Posts
    BY <1>1, <2>1, ElementOfSeq
  <2>3. tail[i + 1] # tail[1]
    BY <1>1, <2>1 DEF Timed, Queue
  <2> QED
    BY <1>1, <1>6, <2>1, <2>2, <2>3
<1>8. Queue'
  <2>1. \A i \in DOMAIN tail' : post'[tail'[i]].pc = "queued"
    BY <1>3, <1>7 DEF Timed, Queue
  <2>2. \A i, j \in DOMAIN tail' : tail'[i] = tail'[j] => i = j
    <3> SUFFICES ASSUME NEW i \in DOMAIN tail', NEW j \in DOMAIN tail', tail'[i] = tail'[j]
                 PROVE  i = j
      OBVIOUS
    <3>1. i + 1 = j + 1
      BY <1>7 DEF Timed, Queue
    <3> QED
      BY <1>6, <3>1
  <2>3. \A p \in Posts : Holds(p)' => post'[p].token \in DOMAIN minted'
    BY <1>2, <1>3 DEF Timed, Queue, Holds
  <2> QED
    BY <1>3, <1>6, <2>1, <2>2, <2>3 DEF Queue
<1> QED
  BY <1>3, <1>4, <1>5, <1>8, NothingAllowed DEF Timed

LEMMA FailureTimed ==
  ASSUME Timed, VerifierFails
  PROVE  Timed'
<1>1. /\ UNCHANGED <<wall, mono, steps, life, minted, tail, replay>> /\ DOMAIN post' = Posts
      /\ \A q \in Posts : \/ post[q].pc # "verifying" /\ post'[q] = post[q]
                          \/ post[q].pc = "verifying" /\ post'[q].pc = "reject"
  BY DEF VerifierFails
<1>2. \A q \in Posts : Allowed(q)' => Allowed(q) /\ post'[q] = post[q]
  BY <1>1 DEF Allowed
<1>3. Noted'
  BY <1>1
  DEF Timed, Noted
<1>4. Queue'
  <2>1. \A i \in DOMAIN tail : tail[i] \in Posts
    <3> SUFFICES ASSUME NEW i \in DOMAIN tail PROVE tail[i] \in Posts
      OBVIOUS
    <3>1. i \in 1 .. Len(tail) /\ tail \in Seq(Posts)
      BY DEF Timed, Queue
    <3> QED
      BY <3>1, ElementOfSeq
  <2> QED
    BY <1>1, <2>1 DEF Timed, Queue, Holds
<1> QED
  BY <1>1, <1>2, <1>3, <1>4, NothingAllowed DEF Timed

LEMMA RestartTimed ==
  ASSUME Timed, Restart
  PROVE  Timed'
<1>1. /\ UNCHANGED <<wall, mono, steps, minted>> /\ life' = life + 1 /\ tail' = <<>>
      /\ replay' = {} /\ DOMAIN post' = Posts
      /\ \A q \in Posts : post'[q].pc \in {"new", "lost"}
  BY DEF Restart, New
<1>2. Clocks' /\ Queue'
  BY <1>1, EmptySeq DEF Timed, Clocks, Queue, Holds
<1>3. Noted' /\ Claims' /\ Lates' /\ TwiceOnlyWhenLate'
  BY <1>1 DEF Noted, Claims, Lates, TwiceOnlyWhenLate, Allowed
<1> QED
  BY <1>2, <1>3 DEF Timed

LEMMA TimedKept ==
  ASSUME Timed, [Next]_vars
  PROVE  Timed'
<1>1. ASSUME NEW q \in Posts, VerifierTimesOut(q) PROVE Timed'
  BY <1>1, RejectTimed DEF VerifierTimesOut
<1>2. ASSUME Tick PROVE Timed'
  <2>1. mono' = mono + 1 /\ wall' = wall + 1 /\ steps' = steps
        /\ UNCHANGED <<life, minted, post, tail, replay>>
    BY <1>2 DEF Tick
  <2> QED
    BY <2>1, ClocksTurn DEF Timed, Clocks
<1>3. ASSUME WallStepsBack PROVE Timed'
  <2>1. mono' = mono /\ wall' = wall - 1 /\ steps' = steps + 1
        /\ UNCHANGED <<life, minted, post, tail, replay>>
    BY <1>3 DEF WallStepsBack
  <2> QED
    BY <2>1, ClocksTurn DEF Timed, Clocks
<1>4. ASSUME UNCHANGED vars PROVE Timed'
  BY <1>4, ClocksTurn DEF vars, Timed, Clocks
<1> QED
  BY <1>1, <1>2, <1>3, <1>4, MintTimed, StartTimed, FailureTimed, RestartTimed, AnswerTimed,
     PostTimed DEF Next

LEMMA TimedFirst == Init => Timed
<1> SUFFICES ASSUME Init PROVE Timed
  OBVIOUS
<1>1. \A q \in Posts : post[q].pc = "new"
  BY DEF Init, New
<1>2. Clocks
  BY EmptySeq DEF Init, Clocks
<1>3. Queue
  BY <1>1, EmptySeq DEF Init, Queue, Holds
<1>4. Noted /\ Claims /\ Lates /\ TwiceOnlyWhenLate
  BY <1>1 DEF Init, Noted, Claims, Lates, TwiceOnlyWhenLate, Allowed
<1> QED
  BY <1>2, <1>3, <1>4 DEF Timed

(* A token moves the money twice only after a step back of the wall clock  *)
(* or a verification that lasted as long as the safety margin, whatever    *)
(* the sizes of the map and the queue: a full map drops no live claim.     *)
THEOREM MoneyMovesOnce == Spec => []TwiceOnlyWhenLate
<1>1. Timed => TwiceOnlyWhenLate
  BY DEF Timed
<1> QED
  BY <1>1, TimedFirst, TimedKept, PTL DEF Spec

(* While the wall clock is not set back, the claim of an allowed token     *)
(* outlives the token, for every lifetime and every positive margin.       *)
THEOREM ClaimOutlivesToken == Spec => []RetainedWhileFresh
<1>1. Timed => RetainedWhileFresh
  <2> SUFFICES ASSUME Timed, steps = 0, NEW q \in Posts, Allowed(q),
                      wall <= Last(Record(post[q].token))
               PROVE  \E e \in replay : e.token = post[q].token /\ e.until > mono
    BY DEF RetainedWhileFresh
  <2> DEFINE i == post[q].token
  <2>1. i \in DOMAIN minted /\ Kept(i) /\ wall = mono
    BY DEF Timed, Queue, Holds, Claims, Clocks, Allowed
  <2>2. Last(Record(i)) = Until(i) /\ Until(i) \in Int
    BY <2>1, MintedTimes, RecordTimes, Numbers DEF Timed
  <2>3. mono \in Int /\ SafetyMargin \in Nat \ {0} /\ \A e \in replay : e.until \in Int
    BY GateAssumption DEF Timed, Clocks, Claims
  <2>4. PICK e \in replay : e.token = i /\ e.until >= Until(i) + SafetyMargin
    BY <2>1, <2>2, <2>3 DEF Kept
  <2> QED
    BY <2>1, <2>2, <2>3, <2>4
<1> QED
  BY <1>1, TimedFirst, TimedKept, PTL DEF Spec

----------------------------------------------------------------------------
(* The bounds: on the clocks, the map, the queue, and what Bob can lose.   *)
Bounded ==
  /\ mono \in 0 .. MaxTime /\ wall \in 0 .. mono /\ life \in 1 .. MaxLife /\ alive \in BOOLEAN
  /\ \A q \in Posts : post[q].pc \in {"new", "busy", "queued", "verifying", "allow", "reject",
                                       "lost"}
  /\ IsFiniteSet(replay) /\ Cardinality(replay) <= MaxReplay
  /\ Cardinality(Waiting) <= MaxQueued
  /\ db.bob \in Nat /\ db.eve \in Int /\ db.bob + db.eve = Balance

(* Steps that take no request into the queue and leave the rest alone.     *)
LEMMA QuietBounded ==
  ASSUME Bounded, UNCHANGED <<wall, mono, life, db>>, alive' \in BOOLEAN,
         \A q \in Posts : \/ post'[q] = post[q]
                          \/ post'[q].pc \in {"reject", "allow", "lost"}
                          \/ post'[q].pc = "verifying" /\ q \in Waiting,
         replay' \subseteq replay
  PROVE  Bounded'
<1>1. /\ IsFiniteSet(replay') /\ Cardinality(replay') <= Cardinality(replay)
      /\ Cardinality(replay') \in Nat /\ Cardinality(replay) \in Nat /\ MaxReplay \in Nat
  BY FS_Subset, FS_CardinalityType, GateAssumption DEF Bounded
<1>2. /\ IsFiniteSet(Waiting) /\ Waiting' \subseteq Waiting
  BY FS_Subset, GateAssumption DEF Posts, Waiting
<1>3. /\ Cardinality(Waiting') <= Cardinality(Waiting) /\ Cardinality(Waiting') \in Nat
      /\ Cardinality(Waiting) \in Nat /\ MaxQueued \in Nat
  BY <1>2, FS_Subset, FS_CardinalityType, GateAssumption
<1>4. \A q \in Posts : post'[q].pc \in {"new", "busy", "queued", "verifying", "allow", "reject",
                                         "lost"}
  BY DEF Bounded
<1> QED
  BY <1>1, <1>3, <1>4 DEF Bounded

LEMMA PostBounded ==
  ASSUME Timed, Bounded, NEW q \in Posts, NEW c \in Carries[q], Post(q, c)
  PROVE  Bounded'
<1>1. /\ DOMAIN post = Posts /\ UNCHANGED <<wall, mono, life, alive, replay, db>>
      /\ \A p \in Posts \ {q} : post'[p] = post[p]
      /\ \/ post'[q].pc = "busy"
         \/ post'[q].pc = "queued" /\ ~(Cardinality(Waiting) >= MaxQueued)
  BY DEF Post, Timed, Queue
<1>2. IsFiniteSet(Waiting) /\ Cardinality(Waiting) \in Nat /\ MaxQueued \in Nat
  BY FS_Subset, FS_CardinalityType, GateAssumption DEF Posts, Waiting
<1>3. Cardinality(Waiting') <= MaxQueued
  <2>1. CASE post'[q].pc = "busy"
    <3>1. Waiting' \subseteq Waiting
      BY <1>1, <2>1 DEF Waiting
    <3>2. Cardinality(Waiting') <= Cardinality(Waiting) /\ Cardinality(Waiting') \in Nat
      BY <1>2, <3>1, FS_Subset, FS_CardinalityType
    <3> QED
      BY <1>2, <3>2 DEF Bounded
  <2>2. CASE post'[q].pc = "queued" /\ ~(Cardinality(Waiting) >= MaxQueued)
    <3>1. Waiting' \subseteq Waiting \cup {q}
      BY <1>1 DEF Waiting
    <3>2. /\ IsFiniteSet(Waiting \cup {q})
          /\ Cardinality(Waiting \cup {q}) \in {Cardinality(Waiting), Cardinality(Waiting) + 1}
      BY <1>2, FS_AddElement
    <3>3. Cardinality(Waiting') <= Cardinality(Waiting \cup {q}) /\ Cardinality(Waiting') \in Nat
      BY <3>1, <3>2, FS_Subset, FS_CardinalityType
    <3> QED
      BY <1>2, <2>2, <3>2, <3>3
  <2> QED
    BY <1>1, <2>1, <2>2
<1>4. \A p \in Posts : post'[p].pc \in {"new", "busy", "queued", "verifying", "allow", "reject",
                                         "lost"}
  BY <1>1 DEF Bounded
<1> QED
  BY <1>1, <1>3, <1>4 DEF Bounded

(* An allowed request found room in the map and the money with Bob.        *)
LEMMA AnswerBounded ==
  ASSUME Timed, Bounded, NEW q \in Posts, VerifierAnswers(q)
  PROVE  Bounded'
<1>1. DOMAIN post = Posts /\ post[q].pc = "verifying" /\ UNCHANGED <<wall, mono, life, alive>>
  BY DEF VerifierAnswers, Timed, Queue
<1>2. Swept \subseteq replay
  BY DEF Swept
<1>3. CASE post'[q].pc # "allow"
  <2>1. /\ Rejected(q, Verdict(q)) /\ UNCHANGED db /\ replay' \subseteq replay
    BY <1>1, <1>2, <1>3 DEF VerifierAnswers
  <2>2. \A p \in Posts : post'[p] = post[p] \/ post'[p].pc = "reject"
    BY <1>1, <2>1 DEF Rejected
  <2>3. alive' \in BOOLEAN
    BY <1>1 DEF Bounded
  <2> QED
    BY <1>1, <2>1, <2>2, <2>3, QuietBounded
<1>4. CASE post'[q].pc = "allow"
  <2> DEFINE i   == post[q].token
             F   == {e \in Swept : e.token # i}
             new == [token |-> i, until |-> mono + (Until(i) - post[q].asked + SafetyMargin)]
             n   == ActionOf(q).amount
  <2>1. /\ post' = [post EXCEPT ![q] = [pc |-> "allow", token |-> i,
                                        late |-> mono - post[q].since]]
        /\ replay' = F \cup {new} /\ ~(db.bob < n) /\ ~(Cardinality(Swept) >= MaxReplay)
        /\ db' = [bob |-> db.bob - n, eve |-> db.eve + n]
    BY <1>4, AllowedMeans
  <2> HIDE DEF new
  <2>2. n \in {1, 2}
    BY DEF ActionOf, BobAction
  <2>3. db'.bob \in Nat /\ db'.eve \in Int /\ db'.bob + db'.eve = Balance
    BY <2>1, <2>2, GateAssumption DEF Bounded
  <2>4. F \subseteq Swept
    OBVIOUS
  <2> HIDE DEF F, n
  <2>5. /\ IsFiniteSet(Swept) /\ Cardinality(Swept) \in Nat /\ IsFiniteSet(F)
        /\ Cardinality(F) <= Cardinality(Swept) /\ Cardinality(F) \in Nat
    BY <1>2, <2>4, FS_Subset, FS_CardinalityType DEF Bounded
  <2>6. /\ IsFiniteSet(replay')
        /\ Cardinality(replay') \in {Cardinality(F), Cardinality(F) + 1}
    BY <2>1, <2>5, FS_AddElement
  <2>7. Cardinality(replay') <= MaxReplay
    <3>1. MaxReplay \in Nat
      BY GateAssumption
    <3> QED
      BY <2>1, <2>5, <2>6, <3>1
  <2>8. /\ post'[q].pc = "allow" /\ \A p \in Posts \ {q} : post'[p] = post[p]
    BY <1>1, <2>1
  <2>9. Cardinality(Waiting') <= MaxQueued
    <3>1. Waiting' \subseteq Waiting /\ IsFiniteSet(Waiting)
      BY <2>8, FS_Subset, GateAssumption DEF Waiting, Posts
    <3>2. /\ Cardinality(Waiting') <= Cardinality(Waiting) /\ Cardinality(Waiting') \in Nat
          /\ Cardinality(Waiting) \in Nat /\ MaxQueued \in Nat
      BY <3>1, FS_Subset, FS_CardinalityType, GateAssumption
    <3> QED
      BY <3>2 DEF Bounded
  <2>10. \A p \in Posts : post'[p].pc \in {"new", "busy", "queued", "verifying", "allow", "reject",
                                            "lost"}
    BY <2>8 DEF Bounded
  <2> QED
    BY <1>1, <2>3, <2>6, <2>7, <2>9, <2>10 DEF Bounded
<1> QED
  BY <1>3, <1>4

LEMMA BoundedKept ==
  ASSUME Timed, Bounded, [Next]_vars
  PROVE  Bounded'
<1>1. DOMAIN post = Posts /\ TRUE \in BOOLEAN /\ FALSE \in BOOLEAN /\ alive \in BOOLEAN
  BY DEF Timed, Queue, Bounded
<1>2. CASE Mint \/ UNCHANGED vars
  BY <1>1, <1>2, QuietBounded DEF Mint, vars
<1>3. CASE GateStarts
  <2>1. /\ UNCHANGED <<wall, mono, life, alive, replay, db>> /\ tail # <<>>
        /\ tail \in Seq(Posts)
    BY <1>3 DEF GateStarts, Timed, Queue
  <2>2. Head(tail) \in Posts /\ post[Head(tail)].pc = "queued"
    <3>1. Len(tail) \in Nat \ {0} /\ 1 \in DOMAIN tail /\ Head(tail) = tail[1]
      BY <2>1, EmptySeq
    <3>2. tail[1] \in Posts
      BY <2>1, <3>1, ElementOfSeq
    <3> QED
      BY <3>1, <3>2 DEF Timed, Queue
  <2>3. \A q \in Posts : \/ post'[q] = post[q] \/ post'[q].pc = "reject"
                         \/ post'[q].pc = "verifying" /\ q \in Waiting
    BY <1>1, <1>3, <2>2 DEF GateStarts, Waiting
  <2> QED
    BY <1>1, <2>1, <2>3, QuietBounded
<1>4. CASE VerifierFails
  <2>1. /\ \A q \in Posts : post'[q] = post[q] \/ post'[q].pc = "reject"
        /\ UNCHANGED <<wall, mono, life, replay, db>> /\ alive' = FALSE
    BY <1>4 DEF VerifierFails
  <2> QED
    BY <1>1, <2>1, QuietBounded
<1>5. ASSUME NEW q \in Posts, VerifierTimesOut(q) PROVE Bounded'
  <2>1. /\ \A p \in Posts : post'[p] = post[p] \/ post'[p].pc = "reject"
        /\ UNCHANGED <<wall, mono, life, alive, replay, db>>
    BY <1>1, <1>5 DEF VerifierTimesOut, Rejected
  <2> QED
    BY <1>1, <2>1, QuietBounded
<1>6. CASE Tick \/ WallStepsBack
  <2>1. mono' \in 0 .. MaxTime /\ wall' \in 0 .. mono'
    <3>1. CASE Tick
      BY <3>1, GateAssumption DEF Tick, Bounded
    <3>2. CASE WallStepsBack
      BY <3>2, GateAssumption DEF WallStepsBack, Bounded
    <3> QED
      BY <1>6, <3>1, <3>2
  <2>2. UNCHANGED <<life, alive, post, replay, db>>
    BY <1>6 DEF Tick, WallStepsBack
  <2> QED
    BY <2>1, <2>2 DEF Bounded, Waiting
<1>7. CASE Restart
  <2>1. /\ life' \in 1 .. MaxLife /\ alive' = TRUE /\ UNCHANGED <<wall, mono>>
        /\ replay' = {} /\ db' = [bob |-> Balance, eve |-> 0]
        /\ \A q \in Posts : post'[q].pc \in {"new", "lost"}
    BY <1>7, GateAssumption DEF Restart, New, Bounded
  <2>2. Waiting' = {} /\ Cardinality({}) = 0 /\ IsFiniteSet({})
    BY <2>1, FS_EmptySet DEF Waiting
  <2>3. 0 <= MaxReplay /\ 0 <= MaxQueued /\ Balance \in Nat
    BY GateAssumption
  <2>4. db'.bob \in Nat /\ db'.eve \in Int /\ db'.bob + db'.eve = Balance
    BY <2>1, <2>3
  <2>5. \A q \in Posts : post'[q].pc \in {"new", "busy", "queued", "verifying", "allow", "reject",
                                           "lost"}
    BY <2>1
  <2>6. Cardinality(replay') <= MaxReplay /\ IsFiniteSet(replay') /\ Cardinality(Waiting') <= MaxQueued
    BY <2>1, <2>2, <2>3
  <2> QED
    BY <2>1, <2>4, <2>5, <2>6 DEF Bounded
<1> QED
  BY <1>2, <1>3, <1>4, <1>5, <1>6, <1>7, PostBounded, AnswerBounded DEF Next

(* The map never outgrows its limit nor the queue its bound, and the       *)
(* transfers neither make money nor take what Bob does not have.           *)
THEOREM TypeCorrect == Spec => []TypeOK
<1>1. Init => Bounded
  <2> SUFFICES ASSUME Init PROVE Bounded
    OBVIOUS
  <2>1. /\ \A q \in Posts : post[q].pc = "new"
        /\ Cardinality(replay) = 0 /\ IsFiniteSet(replay)
    BY FS_EmptySet DEF Init, New
  <2>2. Waiting = {} /\ Cardinality(Waiting) = 0
    BY <2>1, FS_EmptySet DEF Waiting
  <2>3. 0 <= MaxReplay /\ 0 <= MaxQueued /\ Balance \in Nat /\ MaxTime \in Nat
        /\ MaxLife \in Nat \ {0}
    BY GateAssumption
  <2>4. mono \in 0 .. MaxTime /\ wall \in 0 .. mono /\ life \in 1 .. MaxLife /\ alive \in BOOLEAN
    BY <2>3 DEF Init
  <2>5. db.bob \in Nat /\ db.eve \in Int /\ db.bob + db.eve = Balance
    BY <2>3 DEF Init
  <2> QED
    BY <2>1, <2>2, <2>3, <2>4, <2>5 DEF Bounded
<1>2. Timed /\ Bounded => TypeOK
  BY GateAssumption DEF Timed, Queue, Bounded, TypeOK
<1> QED
  BY <1>1, <1>2, TimedFirst, TimedKept, BoundedKept, PTL DEF Spec
=============================================================================
