--------------------------- MODULE LedgersProofs ---------------------------
(***************************************************************************)
(* What the three ledgers guarantee for every number of attempts, every    *)
(* set of records and every capacity: the entry of an accepted record is   *)
(* not given up before it expires, so that only the edges the property     *)
(* names let a record in a second time, and what callers were told agrees  *)
(* with what the ledger holds.                                             *)
(***************************************************************************)
EXTENDS Ledgers, FiniteSetTheorems, WellFoundedInduction, TLAPS

(* The answer of a sequence of tests is the reason of a failing one, or    *)
(* "intact" when none fails.                                               *)
LEMMA FailureIs ==
  ASSUME NEW tests, NEW n \in Nat, DOMAIN tests = 1 .. n
  PROVE  \/ FirstFailure(tests) = "intact" /\ \A i \in 1 .. n : ~tests[i][1]
         \/ \E i \in 1 .. n : tests[i][1] /\ FirstFailure(tests) = tests[i][2]
<1> DEFINE T == {i \in 1 .. n : tests[i][1]}
           first == CHOOSE i \in DOMAIN tests : tests[i][1] /\ \A j \in 1 .. i - 1 : ~tests[j][1]
<1> SUFFICES ASSUME T # {} PROVE  \E i \in T : FirstFailure(tests) = tests[i][2]
  BY DEF FirstFailure
<1>1. T \subseteq Nat
  OBVIOUS
<1>2. PICK i \in T : \A j \in T : <<j, i>> \notin OpToRel(<, Nat)
  <2> HIDE DEF T
  <2> QED
    BY <1>1, NatLessThanWellFounded, WFMin, Zenon
<1>3. \A j \in 1 .. i - 1 : j \in 1 .. n /\ <<j, i>> \in OpToRel(<, Nat)
  BY DEF OpToRel
<1>4. first \in DOMAIN tests /\ tests[first][1]
  BY <1>2, <1>3
<1> QED
  BY <1>4 DEF FirstFailure

Rec(a) == Frames[att[a].frame].rec

(* What a claim is held for.                                               *)
Horizon(r) == IF site = "shadow" THEN r.ts + Allowed(r, CHOOSE p \in Policies : TRUE)
              ELSE Last(r) + SafetyMargin

(* A claim that succeeded, whether or not the caller has heard of it.      *)
Won(a) == \/ Accepted(a)
          \/ att[a].pc \in {"claiming", "unconfirmed"} /\ att[a].result = "OK"

(* The shapes of the attempts, and what a verification has established.    *)
Waiting(s) ==
  /\ site # "shadow" /\ s.frame \in DOMAIN Frames
  /\ LET r == Frames[s.frame].rec
     IN s.at \in Int /\ s.at <= now /\ s.at <= Last(r) /\ s.ttl = Last(r) - s.at + SafetyMargin
Shaped ==
  /\ DOMAIN att = Attempts /\ now \in Int
  /\ \A e \in entries : e.until \in Int
  /\ \A a \in Attempts :
       /\ att[a].pc = "verified" => Waiting(att[a])
       /\ att[a].pc \in {"claiming", "unconfirmed"} =>
            /\ DOMAIN att[a] = {"pc", "frame", "at", "ttl", "result", "late"}
            /\ att[a].result \in {"none", "null", "OK"} /\ att[a].late \in Int
            /\ Waiting(att[a])
       /\ Won(a) => att[a].frame \in DOMAIN Frames

(* What succeeded is held until its horizon.                               *)
Kept(r) == \/ now >= Horizon(r)
           \/ \E e \in entries : e.key = <<r.ctx, r.nonce>> /\ e.until >= Horizon(r)
Held == \A a \in Attempts : Won(a) => Kept(Rec(a))

(* A claim that is as late as only an edge allows.                         *)
Edge(a) == IF site = "shadow" THEN att[a].at = Horizon(Rec(a)) ELSE att[a].late >= SafetyMargin
Twice == \A a, b \in Attempts : a # b /\ Won(a) /\ Won(b) /\ Rec(a) = Rec(b) => Edge(a) \/ Edge(b)

IInv == Shaped /\ Held /\ Twice

OneWindow == Policies # {} /\ \A p, q \in Policies : p.window = q.window

----------------------------------------------------------------------------
LEMMA Horizons ==
  ASSUME OneWindow, NEW f \in DOMAIN Frames
  PROVE  /\ Horizon(Frames[f].rec) \in Int /\ Last(Frames[f].rec) \in Int
         /\ SafetyMargin \in Nat
         /\ \A p \in Policies : site = "shadow" =>
              Horizon(Frames[f].rec) = Frames[f].rec.ts + Allowed(Frames[f].rec, p)
<1> DEFINE r == Frames[f].rec
           p == CHOOSE q \in Policies : TRUE
<1>1. p \in Policies /\ p.window \in Int /\ \A q \in Policies : q.window = p.window
  BY LedgerAssumption DEF OneWindow
<1>2. r.ts \in Int /\ r.disp \in Int /\ MaxAge \in Int /\ SafetyMargin \in Nat
  BY LedgerAssumption
<1> HIDE DEF r, p
<1>3. \A q \in Policies : Allowed(r, q) = Allowed(r, p) /\ Allowed(r, p) \in Int
  BY <1>1, <1>2 DEF Allowed
<1> QED
  BY <1>1, <1>2, <1>3 DEF Horizon, Last, r, p

(* How one attempt may come to hold a claim: nothing of its key lives, its *)
(* entry is made, and it is at the edge if the horizon has passed.         *)
Wins(a, s) ==
  LET r == Frames[s.frame].rec
  IN /\ s.frame \in DOMAIN Frames
     /\ \A e \in entries : e.key = <<r.ctx, r.nonce>> => e.until <= now
     /\ \E e \in entries' : e.key = <<r.ctx, r.nonce>> /\ e.until >= Horizon(r)
     /\ now >= Horizon(r) =>
          IF site = "shadow" THEN s.at = Horizon(r) ELSE s.late >= SafetyMargin

Sound(s) ==
  /\ s.pc = "verified" => Waiting(s)
  /\ s.pc \in {"claiming", "unconfirmed"} =>
       /\ DOMAIN s = {"pc", "frame", "at", "ttl", "result", "late"}
       /\ s.result \in {"none", "null", "OK"} /\ s.late \in Int /\ Waiting(s)

IsWon(s) == \/ s.pc = "done" /\ s.answer \in {"ACCEPT", "New", "new"}
            \/ s.pc \in {"claiming", "unconfirmed"} /\ s.result = "OK"

(* A step of one attempt that gives up only expired entries and wins       *)
(* nothing, or keeps what it had won, or wins as described.                *)
LEMMA OneMoves ==
  ASSUME IInv, OneWindow, NEW a \in Attempts, NEW s, att' = [att EXCEPT ![a] = s],
         UNCHANGED <<site, now>>,
         \A e \in entries' : e.until \in Int,
         \A e \in entries : e \notin entries' => e.until <= now,
         Sound(s),
         IsWon(s) => \/ Wins(a, s)
                     \/ Won(a) /\ s.frame = att[a].frame /\ s.at = att[a].at
                        /\ s.late = att[a].late
  PROVE  IInv'
<1>1. /\ DOMAIN att = Attempts /\ DOMAIN att' = Attempts /\ att'[a] = s
      /\ \A b \in Attempts \ {a} : att'[b] = att[b]
  BY DEF IInv, Shaped
<1>2. \A b \in Attempts : Won(b)' <=> IsWon(att'[b])
  BY DEF Won, Accepted, Done, IsWon
<1>3. \A r : Horizon(r)' = Horizon(r)
  BY DEF Horizon
<1>4. ASSUME NEW b \in Attempts, Won(b)'
      PROVE  /\ att'[b].frame \in DOMAIN Frames
             /\ \/ b = a /\ Wins(a, s)
                \/ Won(b) /\ att'[b].frame = att[b].frame /\ att'[b].at = att[b].at
                   /\ att'[b].late = att[b].late
  BY <1>1, <1>2, <1>4 DEF Wins, IInv, Shaped, Won, Accepted, Done
<1>5. Shaped'
  BY <1>1, <1>4 DEF IInv, Shaped, Sound, Waiting
<1>6. Held'
  <2> SUFFICES ASSUME NEW b \in Attempts, Won(b)' PROVE Kept(Rec(b))'
    BY DEF Held
  <2> DEFINE r == Frames[att'[b].frame].rec
  <2>1. Horizon(r) \in Int /\ now \in Int
    BY <1>4, Horizons DEF IInv, Shaped
  <2>2. CASE b = a /\ Wins(a, s)
    BY <1>1, <1>3, <2>2 DEF Wins, Kept, Rec
  <2>3. CASE Won(b) /\ att'[b].frame = att[b].frame
    <3>1. Kept(r)
      BY <2>3 DEF IInv, Held, Rec
    <3>2. CASE now >= Horizon(r)
      BY <1>3, <3>2 DEF Kept, Rec
    <3>3. CASE now < Horizon(r)
      <4>1. PICK e \in entries : e.key = <<r.ctx, r.nonce>> /\ e.until >= Horizon(r)
        BY <2>1, <3>1, <3>3 DEF Kept
      <4>2. e.until \in Int /\ e \in entries'
        BY <2>1, <3>3, <4>1 DEF IInv, Shaped
      <4> QED
        BY <1>3, <4>1, <4>2 DEF Kept, Rec
    <3> QED
      BY <2>1, <3>2, <3>3
  <2> QED
    BY <1>4, <2>2, <2>3
<1>7. Twice'
  <2>1. ASSUME NEW b \in Attempts \ {a}, Won(b), Won(a)', Wins(a, s), Rec(b) = Rec(a)'
        PROVE  Edge(a)'
    <3> DEFINE r == Frames[s.frame].rec
    <3>1. Kept(r) /\ Rec(a)' = r /\ Horizon(r) \in Int /\ now \in Int
      BY <1>1, <2>1, Horizons DEF IInv, Held, Shaped, Rec, Wins
    <3>2. now >= Horizon(r)
      BY <2>1, <3>1 DEF Kept, Wins, IInv, Shaped
    <3> QED
      BY <1>1, <1>3, <2>1, <3>1, <3>2 DEF Wins, Edge
  <2>2. \A b \in Attempts : att'[b].frame = att[b].frame => Rec(b)' = Rec(b)
    BY DEF Rec
  <2>3. \A b \in Attempts : /\ att'[b].frame = att[b].frame /\ att'[b].at = att[b].at
                            /\ att'[b].late = att[b].late
                            => (Edge(b)' <=> Edge(b))
    BY <1>3 DEF Edge, Rec
  <2> SUFFICES ASSUME NEW b \in Attempts, NEW d \in Attempts, b # d, Won(b)', Won(d)',
                      Rec(b)' = Rec(d)'
               PROVE  Edge(b)' \/ Edge(d)'
    BY DEF Twice
  <2>4. CASE b = a /\ Wins(a, s)
    BY <1>4, <2>1, <2>2, <2>4
  <2>5. CASE d = a /\ Wins(a, s)
    BY <1>4, <2>1, <2>2, <2>5
  <2>6. CASE ~(b = a /\ Wins(a, s)) /\ ~(d = a /\ Wins(a, s))
    BY <1>4, <2>2, <2>3, <2>6 DEF IInv, Twice
  <2> QED
    BY <2>4, <2>5, <2>6
<1> QED
  BY <1>5, <1>6, <1>7 DEF IInv

----------------------------------------------------------------------------
(* Attempts that end without a claim.                                      *)
Successes == {"ACCEPT", "New", "new"}

LEMMA Loses ==
  ASSUME IInv, OneWindow, NEW a \in Attempts, NEW f, NEW answer, NEW at, NEW late,
         Finish(a, f, answer, at, late), answer \notin Successes,
         UNCHANGED <<site, now>>, entries' \subseteq entries,
         \A e \in entries : e \notin entries' => e.until <= now
  PROVE  IInv'
<1> DEFINE s == [pc |-> "done", frame |-> f, answer |-> answer, at |-> at, late |-> late]
<1>1. att' = [att EXCEPT ![a] = s] /\ Sound(s) /\ ~IsWon(s)
  BY DEF Finish, Sound, IsWon, Successes
<1>2. \A e \in entries' : e.until \in Int
  BY DEF IInv, Shaped
<1> HIDE DEF s
<1> QED
  BY <1>1, <1>2, OneMoves

(* No failure of the shadow verifier reads like a success, and a record it *)
(* lets pass lies within the window.                                       *)
LEMMA BeforeNames ==
  ASSUME NEW f, NEW policy
  PROVE  /\ ShadowBefore(f, policy) \notin Successes
         /\ ShadowBefore(f, policy) = "intact" =>
              ~ (Distance(Frames[f].rec.ts, now) > Allowed(Frames[f].rec, policy))
<1> DEFINE r == Frames[f].rec
           tests == <<
    <<~policy.authenticated \/ policy.window < 0, "UNVERIFIABLE: manifest">>,
    <<r.len # 180 \/ r.holderType \notin HolderTypes \/ Frames[f].proof.type # r.holderType,
      "REJECT: framing">>,
    <<r.version # 2 \/ r.alg # 1, "REJECT: version">>,
    <<r.tag # Fields(r, HeadV2), "REJECT: integrity">>,
    <<r.ctx # policy.ctx, "UNVERIFIABLE: context">>,
    <<Distance(r.ts, now) > Allowed(r, policy), "REJECT: freshness">> >>
<1>1. ShadowBefore(f, policy) = FirstFailure(tests)
  BY DEF ShadowBefore
<1>2. /\ DOMAIN tests = 1 .. 6 /\ 6 \in 1 .. 8
      /\ \A i \in 1 .. 6 : tests[i][2] \notin Successes \cup {"intact"}
  BY DEF Successes
<1>3. Distance(r.ts, now) > Allowed(r, policy) => tests[6][1]
  OBVIOUS
<1> HIDE DEF tests
<1>4. FirstFailure(tests) \notin Successes
  BY <1>2, FailureIs DEF Successes
<1>5. ASSUME tests[6][1] PROVE FirstFailure(tests) # "intact"
  <2>1. 6 \in 1 .. 6 /\ \A i \in 1 .. 6 : tests[i][1] => tests[i][2] # "intact"
    BY <1>2
  <2> QED
    BY <1>2, <1>5, <2>1, FailureIs
<1> QED
  BY <1>1, <1>3, <1>4, <1>5

LEMMA AfterNames ==
  ASSUME NEW f, NEW policy
  PROVE  ShadowAfter(f, policy) \notin Successes
<1> DEFINE r == Frames[f].rec
           tests == <<
    <<policy.issuer \in {"unresolved", "unknown", "expired", "nokey"}, "UNVERIFIABLE: issuer">>,
    <<policy.issuer = "revoked", "REJECT: issuer">>,
    <<ForgedV2(r, policy.key), "REJECT: issuer signature">>,
    <<policy.channel = NoPolicy, "UNVERIFIABLE: exporter">>,
    <<VerifyBinding("draft11", r, Frames[f].proof, Export(policy.channel, "draft11", r),
                    policy.secret) # "intact", "REJECT: binding">> >>
<1>1. ShadowAfter(f, policy) = FirstFailure(tests)
  BY DEF ShadowAfter
<1>2. /\ DOMAIN tests = 1 .. 5 /\ 5 \in 1 .. 8
      /\ \A i \in 1 .. 5 : tests[i][2] \notin Successes
  BY DEF Successes
<1> HIDE DEF tests
<1> QED
  BY <1>1, <1>2, FailureIs DEF Successes

LEMMA ShadowSteps ==
  ASSUME IInv, OneWindow, NEW a \in Attempts, NEW f \in DOMAIN Frames, NEW policy \in Policies,
         VerifyShadow(a, f, policy)
  PROVE  IInv'
<1> DEFINE r      == Frames[f].rec
           k      == Key(f)
           before == ShadowBefore(f, policy)
           claim  == ShadowClaim(k)
           after  == ShadowAfter(f, policy)
           until  == r.ts + Allowed(r, policy)
<1>1. /\ site = "shadow" /\ UNCHANGED <<site, now>> /\ now \in Int /\ k = <<r.ctx, r.nonce>>
      /\ until = Horizon(r) /\ until \in Int
  <2>1. site = "shadow" /\ UNCHANGED <<site, now>>
    BY DEF VerifyShadow
  <2>2. until = Horizon(r) /\ Horizon(r) \in Int
    BY <2>1, Horizons
  <2> QED
    BY <2>1, <2>2 DEF IInv, Shaped, Key
<1>2. CASE before # "intact"
  <2>1. Finish(a, f, before, now, 0) /\ UNCHANGED entries
    BY <1>2 DEF VerifyShadow
  <2> QED
    BY <1>1, <2>1, BeforeNames, Loses
<1>3. CASE before = "intact" /\ claim = "duplicate"
  <2>1. Finish(a, f, "REJECT: replay", now, 0) /\ UNCHANGED entries
    BY <1>3 DEF VerifyShadow
  <2> QED
    BY <1>1, <2>1, Loses DEF Successes
<1>4. ASSUME claim # "duplicate" PROVE \A e \in entries : e.key = k => e.until <= now
  BY <1>1, <1>4 DEF ShadowClaim, IInv, Shaped
<1>5. ASSUME claim # "duplicate" PROVE
        /\ Without(k) \subseteq entries
        /\ \A e \in entries : e \notin Without(k) => e.until <= now
  BY <1>4, <1>5 DEF Without
<1>6. CASE before = "intact" /\ claim = "full"
  <2>1. Finish(a, f, "HOLD", now, 0) /\ entries' = Without(k)
    BY <1>6 DEF VerifyShadow
  <2> QED
    BY <1>1, <1>5, <1>6, <2>1, Loses DEF Successes
<1>7. CASE before = "intact" /\ claim = "claimed" /\ after # "intact"
  <2>1. Finish(a, f, after, now, 0) /\ entries' = Without(k)
    BY <1>7 DEF VerifyShadow, ShadowEntries
  <2> QED
    BY <1>1, <1>5, <1>7, <2>1, AfterNames, Loses
<1>8. CASE before = "intact" /\ claim = "claimed" /\ after = "intact"
  <2> DEFINE s == [pc |-> "done", frame |-> f, answer |-> "ACCEPT", at |-> now, late |-> 0]
             new == [key |-> k, until |-> until, by |-> Nobody]
  <2>1. att' = [att EXCEPT ![a] = s] /\ entries' = Without(k) \cup {new}
    BY <1>8 DEF VerifyShadow, ShadowEntries, Put, Finish
  <2>2. now <= until
    <3>1. r.ts \in Int /\ Allowed(r, policy) \in Int
      BY LedgerAssumption DEF Allowed
    <3> QED
      BY <1>1, <1>8, <3>1, BeforeNames DEF Distance
  <2>3. new \in entries' /\ new.key = k /\ new.until = until
    BY <2>1
  <2>4. Wins(a, s)
    BY <1>1, <1>4, <1>8, <2>2, <2>3 DEF Wins
  <2>5. Sound(s)
    BY DEF Sound
  <2>6. /\ \A e \in entries' : e.until \in Int
        /\ \A e \in entries : e \notin entries' => e.until <= now
    BY <1>1, <1>5, <1>8, <2>1 DEF IInv, Shaped
  <2> HIDE DEF s
  <2> QED
    BY <1>1, <2>1, <2>4, <2>5, <2>6, OneMoves
<1> QED
  BY <1>2, <1>3, <1>6, <1>7, <1>8 DEF ShadowClaim

----------------------------------------------------------------------------
LEMMA VerifiedStep ==
  ASSUME IInv, OneWindow, NEW a \in Attempts, NEW f \in DOMAIN Frames, Verified(a, f)
  PROVE  IInv'
<1> DEFINE s == [pc |-> "verified", frame |-> f, at |-> now,
                 ttl |-> Last(Frames[f].rec) - now + SafetyMargin]
<1>1. /\ att' = [att EXCEPT ![a] = s] /\ site # "shadow" /\ now <= Last(Frames[f].rec)
      /\ UNCHANGED <<site, now, entries>>
  BY DEF Verified
<1>2. now \in Int /\ \A e \in entries : e.until \in Int
  BY DEF IInv, Shaped
<1>3. Sound(s) /\ ~IsWon(s)
  BY <1>1, <1>2 DEF Sound, Waiting, IsWon
<1> HIDE DEF s
<1> QED
  BY <1>1, <1>2, <1>3, OneMoves

(* What a claim of a verified record comes with: its entry, made now, is   *)
(* held to the horizon, and if that has passed the claim is late.          *)
LEMMA ClaimReaches ==
  ASSUME IInv, OneWindow, NEW s, Waiting(s)
  PROVE  LET r == Frames[s.frame].rec
         IN /\ s.frame \in DOMAIN Frames /\ now + s.ttl \in Int /\ now + s.ttl >= Horizon(r)
            /\ now - s.at \in Int
            /\ now >= Horizon(r) => now - s.at >= SafetyMargin
            /\ Key(s.frame) = <<r.ctx, r.nonce>>
<1> DEFINE r == Frames[s.frame].rec
<1>1. /\ s.frame \in DOMAIN Frames /\ s.at \in Int /\ s.at <= now /\ s.at <= Last(r)
      /\ s.ttl = Last(r) - s.at + SafetyMargin /\ site # "shadow" /\ now \in Int
  BY DEF Waiting, IInv, Shaped
<1>2. Last(r) \in Int /\ SafetyMargin \in Nat /\ Horizon(r) = Last(r) + SafetyMargin
  BY <1>1, Horizons DEF Horizon
<1> QED
  BY <1>1, <1>2 DEF Key

LEMMA LocalStep ==
  ASSUME IInv, OneWindow, NEW a \in Attempts, CheckAndSet(a)
  PROVE  IInv'
<1> DEFINE k    == Key(att[a].frame)
           r    == Frames[att[a].frame].rec
           done(answer) == Finish(a, att[a].frame, answer, att[a].at, now - att[a].at)
           new  == [key |-> k, until |-> now + att[a].ttl, by |-> a]
           s    == [pc |-> "done", frame |-> att[a].frame, answer |-> "New", at |-> att[a].at,
                    late |-> now - att[a].at]
<1>1. /\ site # "shadow" /\ UNCHANGED <<site, now>> /\ Waiting(att[a]) /\ now \in Int
      /\ \A e \in entries : e.until \in Int
  BY DEF CheckAndSet, IInv, Shaped
<1>2. \/ done("InvalidLifetime") /\ UNCHANGED entries
      \/ done("AlreadySeen") /\ UNCHANGED entries
      \/ done("Capacity") /\ entries' = Retained
      \/ /\ done("New") /\ ~ \E e \in entries : e.key = k /\ e.until > now
         /\ entries' = {e \in Retained : e.key # k} \cup {new}
  BY DEF CheckAndSet
<1>3. Retained \subseteq entries /\ \A e \in entries : e \notin Retained => e.until <= now
  BY <1>1 DEF Retained
<1>4. CASE \E answer \in {"InvalidLifetime", "AlreadySeen", "Capacity"} :
             done(answer) /\ (entries' = entries \/ entries' = Retained)
  <2>1. PICK answer \in {"InvalidLifetime", "AlreadySeen", "Capacity"} :
          done(answer) /\ (entries' = entries \/ entries' = Retained)
    BY <1>4
  <2>2. answer \notin Successes
    BY DEF Successes
  <2> QED
    BY <1>1, <1>3, <2>1, <2>2, Loses
<1>5. CASE /\ done("New") /\ ~ \E e \in entries : e.key = k /\ e.until > now
           /\ entries' = {e \in Retained : e.key # k} \cup {new}
  <2>1. att' = [att EXCEPT ![a] = s]
    BY <1>5 DEF Finish
  <2>2. \A e \in entries : e.key = k => e.until <= now
    BY <1>1, <1>5
  <2>3. /\ k = <<r.ctx, r.nonce>> /\ new.until \in Int /\ new.until >= Horizon(r)
        /\ now >= Horizon(r) => s.late >= SafetyMargin
        /\ s.frame \in DOMAIN Frames
    BY <1>1, ClaimReaches
  <2>4. new \in entries' /\ new.key = k
    BY <1>5
  <2> HIDE DEF new
  <2>5. Wins(a, s)
    BY <1>1, <2>2, <2>3, <2>4 DEF Wins
  <2>6. /\ \A e \in entries' : e.until \in Int
        /\ \A e \in entries : e \notin entries' => e.until <= now
    BY <1>1, <1>3, <1>5, <2>2, <2>3
  <2>7. Sound(s)
    BY DEF Sound
  <2> HIDE DEF s
  <2> QED
    BY <1>1, <2>1, <2>5, <2>6, <2>7, OneMoves
<1> QED
  BY <1>2, <1>4, <1>5

LEMMA ClaimStep ==
  ASSUME IInv, OneWindow, NEW a \in Attempts, Claim(a)
  PROVE  IInv'
<1>1. UNCHANGED <<site, now, entries>> /\ Waiting(att[a])
  BY DEF Claim, IInv, Shaped
<1>2. CASE ~connected
  <2>1. Finish(a, att[a].frame, "NOT_CONNECTED", att[a].at, 0)
    BY <1>2 DEF Claim
  <2> QED
    BY <1>1, <2>1, Loses DEF Successes
<1>3. CASE connected
  <2> DEFINE s == [pc |-> "claiming", frame |-> att[a].frame, at |-> att[a].at,
                   ttl |-> att[a].ttl, result |-> "none", late |-> 0]
  <2>1. att' = [att EXCEPT ![a] = s]
    BY <1>3 DEF Claim
  <2>2. Sound(s) /\ ~IsWon(s)
    BY <1>1 DEF Sound, Waiting, IsWon
  <2>3. \A e \in entries : e.until \in Int
    BY DEF IInv, Shaped
  <2> HIDE DEF s
  <2> QED
    BY <1>1, <2>1, <2>2, <2>3, OneMoves
<1> QED
  BY <1>2, <1>3

LEMMA SetStep ==
  ASSUME IInv, OneWindow, NEW a \in Attempts, SetRuns(a)
  PROVE  IInv'
<1> DEFINE k   == Key(att[a].frame)
           r   == Frames[att[a].frame].rec
           ok  == IF Taken(k) THEN "null" ELSE "OK"
           new == [key |-> k, until |-> now + att[a].ttl, by |-> a]
           s   == [att[a] EXCEPT !.result = ok, !.late = now - att[a].at]
<1>1. /\ UNCHANGED <<site, now>> /\ Waiting(att[a]) /\ now \in Int /\ site # "shadow"
      /\ \A e \in entries : e.until \in Int
      /\ att[a].pc \in {"claiming", "unconfirmed"} /\ att[a].result = "none"
      /\ DOMAIN att[a] = {"pc", "frame", "at", "ttl", "result", "late"}
  BY DEF SetRuns, IInv, Shaped, Waiting
<1>2. /\ att' = [att EXCEPT ![a] = s]
      /\ Taken(k) => entries' = entries
      /\ ~Taken(k) => entries' = Without(k) \cup {new}
  BY DEF SetRuns, Put
<1>3. /\ k = <<r.ctx, r.nonce>> /\ new.until \in Int /\ new.until >= Horizon(r)
      /\ now - att[a].at \in Int
      /\ now >= Horizon(r) => now - att[a].at >= SafetyMargin
      /\ att[a].frame \in DOMAIN Frames
  BY <1>1, ClaimReaches
<1>4. /\ DOMAIN s = DOMAIN att[a] /\ s.pc = att[a].pc /\ s.frame = att[a].frame
      /\ s.at = att[a].at /\ s.ttl = att[a].ttl /\ s.result = ok /\ s.late = now - att[a].at
  BY <1>1
<1>5. ASSUME ~Taken(k) PROVE \A e \in entries : e.key = k => e.until <= now
  BY <1>1, <1>5 DEF Taken
<1>6. /\ \A e \in entries' : e.until \in Int
      /\ \A e \in entries : e \notin entries' => e.until <= now
  BY <1>1, <1>2, <1>3, <1>5 DEF Without
<1> HIDE DEF s
<1>7. Sound(s)
  BY <1>1, <1>3, <1>4 DEF Sound, Waiting
<1>8. IsWon(s) => Wins(a, s)
  <2> SUFFICES ASSUME IsWon(s) PROVE Wins(a, s)
    OBVIOUS
  <2>1. ~Taken(k)
    BY <1>1, <1>4 DEF IsWon
  <2>2. new \in entries' /\ new.key = k
    BY <1>2, <2>1
  <2> HIDE DEF new
  <2> QED
    BY <1>1, <1>3, <1>4, <1>5, <2>1, <2>2 DEF Wins
<1> QED
  BY <1>1, <1>2, <1>6, <1>7, <1>8, OneMoves

LEMMA AnswerStep ==
  ASSUME IInv, OneWindow, NEW a \in Attempts, Answered(a)
  PROVE  IInv'
<1> DEFINE s == [pc |-> "done", frame |-> att[a].frame,
                 answer |-> IF att[a].result = "OK" THEN "new" ELSE "already_seen",
                 at |-> att[a].at, late |-> att[a].late]
<1>1. /\ att' = [att EXCEPT ![a] = s] /\ UNCHANGED <<site, now, entries>>
      /\ att[a].pc = "claiming" /\ \A e \in entries : e.until \in Int
  BY DEF Answered, Finish, IInv, Shaped
<1>2. Sound(s) /\ (IsWon(s) => Won(a))
  BY <1>1 DEF Sound, IsWon, Won
<1>3. s.frame = att[a].frame /\ s.at = att[a].at /\ s.late = att[a].late
  OBVIOUS
<1> HIDE DEF s
<1> QED
  BY <1>1, <1>2, <1>3, OneMoves

LEMMA UnconfirmedStep ==
  ASSUME IInv, OneWindow, NEW a \in Attempts, Unconfirmed(a)
  PROVE  IInv'
<1> DEFINE s == [att[a] EXCEPT !.pc = "unconfirmed"]
<1>1. /\ att' = [att EXCEPT ![a] = s] /\ UNCHANGED <<site, now, entries>>
      /\ att[a].pc = "claiming" /\ \A e \in entries : e.until \in Int
      /\ DOMAIN att[a] = {"pc", "frame", "at", "ttl", "result", "late"}
      /\ att[a].result \in {"none", "null", "OK"} /\ att[a].late \in Int /\ Waiting(att[a])
  BY DEF Unconfirmed, IInv, Shaped
<1>2. /\ DOMAIN s = DOMAIN att[a] /\ s.pc = "unconfirmed" /\ s.frame = att[a].frame
      /\ s.at = att[a].at /\ s.ttl = att[a].ttl /\ s.result = att[a].result
      /\ s.late = att[a].late
  BY <1>1
<1> HIDE DEF s
<1>3. Sound(s) /\ (IsWon(s) => Won(a))
  BY <1>1, <1>2 DEF Sound, Waiting, IsWon, Won
<1> QED
  BY <1>1, <1>2, <1>3, OneMoves

LEMMA TimePasses ==
  ASSUME IInv, OneWindow, UNCHANGED <<site, entries, att>>, now' \in Int, now <= now'
  PROVE  IInv'
<1>1. /\ \A r : Horizon(r)' = Horizon(r)
      /\ \A a \in Attempts : Rec(a)' = Rec(a) /\ (Won(a)' <=> Won(a))
  BY DEF Horizon, Rec, Won, Accepted, Done
<1>2. Shaped'
  BY <1>1 DEF IInv, Shaped, Waiting
<1>3. Held'
  <2> SUFFICES ASSUME NEW a \in Attempts, Won(a) PROVE Kept(Rec(a))'
    BY <1>1 DEF Held
  <2>1. Horizon(Rec(a)) \in Int /\ now \in Int /\ Kept(Rec(a))
    BY Horizons DEF IInv, Shaped, Held, Rec
  <2> QED
    BY <1>1, <2>1 DEF Kept
<1>4. Twice'
  BY <1>1 DEF IInv, Twice, Edge
<1> QED
  BY <1>2, <1>3, <1>4 DEF IInv

(* No ledger takes a record twice but at the edge the property names: the  *)
(* shadow ledger at the last instant of the window, provided a context has *)
(* one window for all callers, the others in a claim as late as the margin.*)
THEOREM TakenOnceButAtTheEdge ==
  ASSUME OneWindow
  PROVE  Spec => []TwiceOnlyAtTheEdge
<1>1. Init => IInv
  BY DEF Init, New, IInv, Shaped, Held, Twice, Won, Accepted, Done
<1>2. IInv /\ [Next]_vars => IInv'
  <2> SUFFICES ASSUME IInv, [Next]_vars PROVE IInv'
    OBVIOUS
  <2>1. ASSUME Tick \/ Connection \/ UNCHANGED vars PROVE IInv'
    <3>1. UNCHANGED <<site, entries, att>> /\ now' \in Int /\ now <= now'
      BY <2>1 DEF Tick, Connection, vars, IInv, Shaped
    <3> QED
      BY <3>1, TimePasses
  <2> QED
    BY <2>1, VerifiedStep, ShadowSteps, LocalStep, ClaimStep, SetStep, AnswerStep,
       UnconfirmedStep DEF Next
<1>3. IInv => TwiceOnlyAtTheEdge
  <2> SUFFICES ASSUME IInv, NEW a \in Attempts, NEW b \in Attempts, a # b, Accepted(a),
                      Accepted(b), Rec(a) = Rec(b)
               PROVE  LET r == Rec(a)
                      IN IF site = "shadow"
                         THEN \E p \in Policies :
                                r.ts + Allowed(r, p) \in {att[a].at, att[b].at}
                         ELSE att[a].late >= SafetyMargin \/ att[b].late >= SafetyMargin
    BY DEF TwiceOnlyAtTheEdge, Rec
  <2>1. Edge(a) \/ Edge(b)
    BY DEF IInv, Twice, Won
  <2>2. CASE site # "shadow"
    BY <2>1, <2>2 DEF Edge
  <2>3. CASE site = "shadow"
    <3>1. Horizon(Rec(a)) \in {att[a].at, att[b].at}
      BY <2>1, <2>3 DEF Edge
    <3>2. PICK p \in Policies : TRUE
      BY DEF OneWindow
    <3>3. Horizon(Rec(a)) = Rec(a).ts + Allowed(Rec(a), p)
      BY <2>3, Horizons DEF IInv, Shaped, Won, Rec
    <3> QED
      BY <2>3, <3>1, <3>3
  <2> QED
    BY <2>2, <2>3
<1> QED
  BY <1>1, <1>2, <1>3, PTL DEF Spec

----------------------------------------------------------------------------
(* Answers and ledger.  Every entry has a claimant that won; one that is   *)
(* named keeps its entry for as long as its claim lives.  Nothing here     *)
(* needs the policies to have one window.                                  *)

Bound(s)     == Last(Frames[s.frame].rec) + SafetyMargin + s.late
Claimant(e)  == \E a \in Attempts : /\ Won(a) /\ Key(att[a].frame) = e.key
                                    /\ site # "shadow" => e.by = a
HeldFor(a)   == att[a].late \in Int /\
                (now < Bound(att[a]) => \E e \in entries : /\ e.key = Key(att[a].frame) /\ e.by = a
                                                           /\ e.until >= Bound(att[a]))
Named == /\ Shaped
         /\ \A e \in entries : Claimant(e)
         /\ site # "shadow" => \A a \in Attempts : Won(a) => HeldFor(a)

LEMMA LastIs ==
  ASSUME NEW f \in DOMAIN Frames
  PROVE  Last(Frames[f].rec) \in Int /\ SafetyMargin \in Nat
BY LedgerAssumption DEF Last

(* A step of one attempt that makes at most its own entry and gives up     *)
(* only expired ones.                                                      *)
LEMMA OneNames ==
  ASSUME Named, NEW a \in Attempts, NEW s, att' = [att EXCEPT ![a] = s],
         UNCHANGED <<site, now>>, Sound(s),
         IsWon(s) => s.frame \in DOMAIN Frames /\ (site # "shadow" => s.late \in Int),
         \A e \in entries' : /\ e.until \in Int
                             /\ \/ e \in entries
                                \/ /\ IsWon(s) /\ e.key = Key(s.frame)
                                   /\ site # "shadow" => e.by = a,
         site # "shadow" => \A e \in entries : e \notin entries' => e.until <= now,
         Won(a) => IsWon(s) /\ s.frame = att[a].frame /\ s.late = att[a].late,
         site # "shadow" /\ IsWon(s) =>
           Won(a) \/ \E e \in entries' : e.key = Key(s.frame) /\ e.by = a /\ e.until >= Bound(s)
  PROVE  Named'
<1>1. /\ DOMAIN att = Attempts /\ DOMAIN att' = Attempts /\ att'[a] = s /\ now \in Int
      /\ \A b \in Attempts \ {a} : att'[b] = att[b]
  BY DEF Named, Shaped
<1>2. \A b \in Attempts : Won(b)' <=> IsWon(att'[b])
  BY DEF Won, Accepted, Done, IsWon
<1>3. \A b \in Attempts : Won(b) => Won(b)' /\ att'[b].frame = att[b].frame
                                    /\ att'[b].late = att[b].late
  <2>1. \A b \in Attempts : Won(b) <=> IsWon(att[b])
    BY DEF Won, Accepted, Done, IsWon
  <2> QED
    BY <1>1, <1>2, <2>1
<1>4. Shaped'
  <2>1. \A b \in Attempts : Won(b)' => att'[b].frame \in DOMAIN Frames
    BY <1>1, <1>2 DEF Named, Shaped, Won, Accepted, Done, IsWon
  <2> QED
    BY <1>1, <2>1 DEF Named, Shaped, Sound, Waiting
<1>5. ASSUME NEW e \in entries' PROVE Claimant(e)'
  <2>1. CASE e \in entries
    <3>1. PICK b \in Attempts : /\ Won(b) /\ Key(att[b].frame) = e.key
                                /\ site # "shadow" => e.by = b
      BY <2>1 DEF Named, Claimant
    <3> QED
      BY <1>3, <3>1 DEF Claimant, Key
  <2>2. CASE e \notin entries
    BY <1>1, <1>2, <2>2 DEF Claimant, Key
  <2> QED
    BY <2>1, <2>2
<1>6. ASSUME site # "shadow", NEW b \in Attempts, Won(b)' PROVE HeldFor(b)'
  <2> DEFINE u == Bound(att'[b])
  <2>1. att'[b].frame \in DOMAIN Frames /\ att'[b].late \in Int
    BY <1>1, <1>2, <1>4, <1>6 DEF Shaped, Named, HeldFor, Won, Accepted, Done, IsWon
  <2>2. u \in Int
    BY <2>1, LastIs DEF Bound
  <2>3. CASE Won(b)
    <3>1. Bound(att[b]) = u /\ HeldFor(b) /\ Key(att'[b].frame) = Key(att[b].frame)
      BY <1>3, <1>6, <2>3 DEF Named, Bound
    <3>2. ASSUME now < u
          PROVE  \E e \in entries' : e.key = Key(att'[b].frame) /\ e.by = b /\ e.until >= u
      <4>1. PICK e \in entries : e.key = Key(att[b].frame) /\ e.by = b /\ e.until >= u
        BY <3>1, <3>2 DEF HeldFor
      <4>2. e.until \in Int
        BY DEF Named, Shaped
      <4>3. e \in entries'
        BY <1>1, <1>6, <2>2, <3>2, <4>1, <4>2
      <4> QED
        BY <3>1, <4>1, <4>3
    <3> QED
      BY <2>1, <3>2 DEF HeldFor, Bound, Key, Last
  <2>4. CASE ~Won(b)
    <3>1. b = a
      BY <1>1, <1>2, <1>6, <2>4 DEF Won, Accepted, Done, IsWon
    <3>2. \E e \in entries' : e.key = Key(att'[b].frame) /\ e.by = b /\ e.until >= u
      BY <1>1, <1>2, <1>6, <2>4, <3>1
    <3> QED
      BY <2>1, <3>2 DEF HeldFor, Bound, Key, Last
  <2> QED
    BY <2>3, <2>4
<1> QED
  BY <1>4, <1>5, <1>6 DEF Named

LEMMA NamesNothing ==
  ASSUME Named, NEW a \in Attempts, ~Won(a), NEW f, NEW answer, NEW at, NEW late,
         Finish(a, f, answer, at, late), answer \notin Successes,
         UNCHANGED <<site, now>>, entries' \subseteq entries,
         site # "shadow" => \A e \in entries : e \notin entries' => e.until <= now
  PROVE  Named'
<1> DEFINE s == [pc |-> "done", frame |-> f, answer |-> answer, at |-> at, late |-> late]
<1>1. att' = [att EXCEPT ![a] = s] /\ Sound(s) /\ ~IsWon(s)
  BY DEF Finish, Sound, IsWon, Successes
<1>2. \A e \in entries' : e.until \in Int /\ e \in entries
  BY DEF Named, Shaped
<1> HIDE DEF s
<1> QED
  BY <1>1, <1>2, OneNames

LEMMA ShadowNames ==
  ASSUME Named, NEW a \in Attempts, NEW f \in DOMAIN Frames, NEW policy \in Policies,
         VerifyShadow(a, f, policy)
  PROVE  Named'
<1> DEFINE r      == Frames[f].rec
           k      == Key(f)
           before == ShadowBefore(f, policy)
           claim  == ShadowClaim(k)
           after  == ShadowAfter(f, policy)
           until  == r.ts + Allowed(r, policy)
<1>1. site = "shadow" /\ UNCHANGED <<site, now>> /\ ~Won(a)
  <2>1. att[a] = New /\ site = "shadow" /\ UNCHANGED <<site, now>>
    BY DEF VerifyShadow
  <2> QED
    BY <2>1 DEF New, Won, Accepted, Done
<1>2. before \notin Successes /\ after \notin Successes
  BY BeforeNames, AfterNames
<1>3. Without(k) \subseteq entries
  BY DEF Without
<1>4. until \in Int
  <2>1. r.ts \in Int /\ r.disp \in Int /\ policy.window \in Int
    BY LedgerAssumption
  <2> QED
    BY <2>1 DEF Allowed
<1>5. \/ Finish(a, f, before, now, 0) /\ entries' = entries
      \/ Finish(a, f, "REJECT: replay", now, 0) /\ entries' = entries
      \/ Finish(a, f, "HOLD", now, 0) /\ entries' = Without(k)
      \/ Finish(a, f, after, now, 0) /\ entries' = Without(k)
      \/ /\ Finish(a, f, "ACCEPT", now, 0)
         /\ entries' = Without(k) \cup {[key |-> k, until |-> until, by |-> Nobody]}
  BY DEF VerifyShadow, ShadowEntries, Put
<1>6. CASE \E answer : /\ Finish(a, f, answer, now, 0) /\ answer \notin Successes
                       /\ entries' \subseteq entries
  BY <1>1, <1>6, NamesNothing
<1>7. CASE /\ Finish(a, f, "ACCEPT", now, 0)
           /\ entries' = Without(k) \cup {[key |-> k, until |-> until, by |-> Nobody]}
  <2> DEFINE s == [pc |-> "done", frame |-> f, answer |-> "ACCEPT", at |-> now, late |-> 0]
  <2>1. att' = [att EXCEPT ![a] = s] /\ Sound(s) /\ IsWon(s) /\ s.frame = f
    BY <1>7 DEF Finish, Sound, IsWon
  <2> HIDE DEF s
  <2>2. \A e \in entries' : e.until \in Int /\ (e \in entries \/ e.key = Key(s.frame))
    BY <1>3, <1>4, <1>7, <2>1 DEF Named, Shaped
  <2> QED
    BY <1>1, <2>1, <2>2, OneNames
<1>8. "REJECT: replay" \notin Successes /\ "HOLD" \notin Successes
  BY DEF Successes
<1> QED
  BY <1>2, <1>3, <1>5, <1>6, <1>7, <1>8

LEMMA VerifiedNames ==
  ASSUME Named, NEW a \in Attempts, NEW f \in DOMAIN Frames, Verified(a, f)
  PROVE  Named'
<1> DEFINE s == [pc |-> "verified", frame |-> f, at |-> now,
                 ttl |-> Last(Frames[f].rec) - now + SafetyMargin]
<1>1. /\ att' = [att EXCEPT ![a] = s] /\ site # "shadow" /\ now <= Last(Frames[f].rec)
      /\ UNCHANGED <<site, now, entries>> /\ att[a] = New
  BY DEF Verified
<1>2. now \in Int /\ \A e \in entries : e.until \in Int
  BY DEF Named, Shaped
<1>3. Sound(s) /\ ~IsWon(s)
  BY <1>1, <1>2 DEF Sound, Waiting, IsWon
<1>4. ~Won(a)
  BY <1>1 DEF New, Won, Accepted, Done
<1> HIDE DEF s
<1> QED
  BY <1>1, <1>2, <1>3, <1>4, OneNames

(* A claim made now lives until its bound.                                 *)
LEMMA ClaimLives ==
  ASSUME Named, NEW s, Waiting(s)
  PROVE  /\ s.frame \in DOMAIN Frames /\ now - s.at \in Int
         /\ now + s.ttl = Last(Frames[s.frame].rec) + SafetyMargin + (now - s.at)
         /\ now + s.ttl \in Int
BY LastIs DEF Waiting, Named, Shaped

LEMMA LocalNames ==
  ASSUME Named, NEW a \in Attempts, CheckAndSet(a)
  PROVE  Named'
<1> DEFINE k    == Key(att[a].frame)
           done(answer) == Finish(a, att[a].frame, answer, att[a].at, now - att[a].at)
           new  == [key |-> k, until |-> now + att[a].ttl, by |-> a]
           s    == [pc |-> "done", frame |-> att[a].frame, answer |-> "New", at |-> att[a].at,
                    late |-> now - att[a].at]
<1>1. /\ site # "shadow" /\ UNCHANGED <<site, now>> /\ Waiting(att[a]) /\ now \in Int
      /\ att[a].pc = "verified" /\ ~Won(a) /\ \A e \in entries : e.until \in Int
  BY DEF CheckAndSet, Named, Shaped, Won, Accepted, Done
<1>2. \/ done("InvalidLifetime") /\ UNCHANGED entries
      \/ done("AlreadySeen") /\ UNCHANGED entries
      \/ done("Capacity") /\ entries' = Retained
      \/ /\ done("New") /\ ~ \E e \in entries : e.key = k /\ e.until > now
         /\ entries' = {e \in Retained : e.key # k} \cup {new}
  BY DEF CheckAndSet
<1>3. Retained \subseteq entries /\ \A e \in entries : e \notin Retained => e.until <= now
  BY <1>1 DEF Retained
<1>4. CASE \E answer \in {"InvalidLifetime", "AlreadySeen", "Capacity"} :
             done(answer) /\ (entries' = entries \/ entries' = Retained)
  <2>1. PICK answer \in {"InvalidLifetime", "AlreadySeen", "Capacity"} :
          done(answer) /\ (entries' = entries \/ entries' = Retained)
    BY <1>4
  <2>2. answer \notin Successes
    BY DEF Successes
  <2> QED
    BY <1>1, <1>3, <2>1, <2>2, NamesNothing
<1>5. CASE /\ done("New") /\ ~ \E e \in entries : e.key = k /\ e.until > now
           /\ entries' = {e \in Retained : e.key # k} \cup {new}
  <2>1. /\ att' = [att EXCEPT ![a] = s] /\ s.frame = att[a].frame /\ s.late = now - att[a].at
        /\ Sound(s) /\ IsWon(s)
    BY <1>5 DEF Finish, Sound, IsWon
  <2>2. \A e \in entries : e.key = k => e.until <= now
    BY <1>1, <1>5
  <2> HIDE DEF s
  <2>3. /\ s.frame \in DOMAIN Frames /\ s.late \in Int
        /\ new.key = Key(s.frame) /\ new.by = a /\ new.until \in Int /\ new.until = Bound(s)
    BY <1>1, <2>1, ClaimLives DEF Bound
  <2>4. Bound(s) >= Bound(s)
    BY <2>3
  <2>5. new \in entries'
    BY <1>5
  <2> HIDE DEF new
  <2>6. \A e \in entries' : e.until \in Int /\ (e \in entries \/ (e.key = Key(s.frame) /\ e.by = a))
    BY <1>1, <1>3, <1>5, <2>3
  <2>7. \A e \in entries : e \notin entries' => e.until <= now
    BY <1>3, <1>5, <2>2
  <2>8. \E e \in entries' : e.key = Key(s.frame) /\ e.by = a /\ e.until >= Bound(s)
    BY <2>3, <2>4, <2>5
  <2> QED
    BY <1>1, <2>1, <2>3, <2>6, <2>7, <2>8, OneNames
<1> QED
  BY <1>2, <1>4, <1>5

LEMMA ClaimNames ==
  ASSUME Named, NEW a \in Attempts, Claim(a)
  PROVE  Named'
<1>1. UNCHANGED <<site, now, entries>> /\ Waiting(att[a]) /\ ~Won(a)
  BY DEF Claim, Named, Shaped, Won, Accepted, Done
<1>2. CASE ~connected
  <2>1. Finish(a, att[a].frame, "NOT_CONNECTED", att[a].at, 0)
    BY <1>2 DEF Claim
  <2> QED
    BY <1>1, <2>1, NamesNothing DEF Successes
<1>3. CASE connected
  <2> DEFINE s == [pc |-> "claiming", frame |-> att[a].frame, at |-> att[a].at,
                   ttl |-> att[a].ttl, result |-> "none", late |-> 0]
  <2>1. att' = [att EXCEPT ![a] = s]
    BY <1>3 DEF Claim
  <2>2. Sound(s) /\ ~IsWon(s)
    BY <1>1 DEF Sound, Waiting, IsWon
  <2>3. \A e \in entries : e.until \in Int
    BY DEF Named, Shaped
  <2> HIDE DEF s
  <2> QED
    BY <1>1, <2>1, <2>2, <2>3, OneNames
<1> QED
  BY <1>2, <1>3

LEMMA SetNames ==
  ASSUME Named, NEW a \in Attempts, SetRuns(a)
  PROVE  Named'
<1> DEFINE k   == Key(att[a].frame)
           ok  == IF Taken(k) THEN "null" ELSE "OK"
           new == [key |-> k, until |-> now + att[a].ttl, by |-> a]
           s   == [att[a] EXCEPT !.result = ok, !.late = now - att[a].at]
<1>1. /\ UNCHANGED <<site, now>> /\ Waiting(att[a]) /\ now \in Int /\ site # "shadow"
      /\ \A e \in entries : e.until \in Int
      /\ att[a].pc \in {"claiming", "unconfirmed"} /\ att[a].result = "none"
      /\ DOMAIN att[a] = {"pc", "frame", "at", "ttl", "result", "late"} /\ ~Won(a)
  BY DEF SetRuns, Named, Shaped, Waiting, Won, Accepted, Done
<1>2. /\ att' = [att EXCEPT ![a] = s]
      /\ Taken(k) => entries' = entries
      /\ ~Taken(k) => entries' = Without(k) \cup {new}
  BY DEF SetRuns, Put
<1>3. /\ DOMAIN s = DOMAIN att[a] /\ s.pc = att[a].pc /\ s.frame = att[a].frame
      /\ s.at = att[a].at /\ s.ttl = att[a].ttl /\ s.result = ok /\ s.late = now - att[a].at
  BY <1>1
<1> HIDE DEF s
<1>4. /\ s.frame \in DOMAIN Frames /\ s.late \in Int
      /\ new.key = Key(s.frame) /\ new.by = a /\ new.until \in Int /\ new.until = Bound(s)
  BY <1>1, <1>3, ClaimLives DEF Bound
<1>5. Bound(s) >= Bound(s)
  BY <1>4
<1>6. Sound(s)
  BY <1>1, <1>3, <1>4 DEF Sound, Waiting
<1>7. IsWon(s) <=> ~Taken(k)
  BY <1>1, <1>3 DEF IsWon
<1>8. ASSUME ~Taken(k) PROVE \A e \in entries : e.key = k => e.until <= now
  BY <1>1, <1>8 DEF Taken
<1>9. ~Taken(k) => new \in entries'
  BY <1>2
<1> HIDE DEF new
<1>10. /\ \A e \in entries' : e.until \in Int /\
             (e \in entries \/ (~Taken(k) /\ e.key = Key(s.frame) /\ e.by = a))
       /\ \A e \in entries : e \notin entries' => e.until <= now
  BY <1>1, <1>2, <1>4, <1>8 DEF Without
<1>11. ~Taken(k) => \E e \in entries' : e.key = Key(s.frame) /\ e.by = a /\ e.until >= Bound(s)
  BY <1>4, <1>5, <1>9
<1> QED
  BY <1>1, <1>2, <1>4, <1>6, <1>7, <1>10, <1>11, OneNames

LEMMA AnswerNames ==
  ASSUME Named, NEW a \in Attempts, Answered(a)
  PROVE  Named'
<1> DEFINE s == [pc |-> "done", frame |-> att[a].frame,
                 answer |-> IF att[a].result = "OK" THEN "new" ELSE "already_seen",
                 at |-> att[a].at, late |-> att[a].late]
<1>1. /\ att' = [att EXCEPT ![a] = s] /\ UNCHANGED <<site, now, entries>>
      /\ att[a].pc = "claiming" /\ \A e \in entries : e.until \in Int
      /\ att[a].late \in Int /\ att[a].frame \in DOMAIN Frames
  BY DEF Answered, Finish, Named, Shaped, Waiting
<1>2. Sound(s) /\ (IsWon(s) <=> Won(a))
  BY <1>1 DEF Sound, IsWon, Won, Accepted, Done
<1>3. s.frame = att[a].frame /\ s.at = att[a].at /\ s.late = att[a].late
  OBVIOUS
<1> HIDE DEF s
<1> QED
  BY <1>1, <1>2, <1>3, OneNames

LEMMA UnconfirmedNames ==
  ASSUME Named, NEW a \in Attempts, Unconfirmed(a)
  PROVE  Named'
<1> DEFINE s == [att[a] EXCEPT !.pc = "unconfirmed"]
<1>1. /\ att' = [att EXCEPT ![a] = s] /\ UNCHANGED <<site, now, entries>>
      /\ att[a].pc = "claiming" /\ \A e \in entries : e.until \in Int
      /\ DOMAIN att[a] = {"pc", "frame", "at", "ttl", "result", "late"}
      /\ att[a].result \in {"none", "null", "OK"} /\ att[a].late \in Int /\ Waiting(att[a])
  BY DEF Unconfirmed, Named, Shaped
<1>2. /\ DOMAIN s = DOMAIN att[a] /\ s.pc = "unconfirmed" /\ s.frame = att[a].frame
      /\ s.at = att[a].at /\ s.ttl = att[a].ttl /\ s.result = att[a].result
      /\ s.late = att[a].late
  BY <1>1
<1> HIDE DEF s
<1>3. Sound(s) /\ (IsWon(s) <=> Won(a)) /\ s.frame \in DOMAIN Frames
  BY <1>1, <1>2 DEF Sound, Waiting, IsWon, Won, Accepted, Done
<1> QED
  BY <1>1, <1>2, <1>3, OneNames

LEMMA NamedHolds == Spec => []Named
<1>1. Init => Named
  BY DEF Init, New, Named, Shaped, Won, Accepted, Done
<1>2. Named /\ [Next]_vars => Named'
  <2> SUFFICES ASSUME Named, [Next]_vars PROVE Named'
    OBVIOUS
  <2>1. ASSUME Tick \/ Connection \/ UNCHANGED vars PROVE Named'
    <3>1. UNCHANGED <<site, entries, att>> /\ now' \in Int /\ now <= now' /\ now \in Int
      BY <2>1 DEF Tick, Connection, vars, Named, Shaped
    <3>2. Shaped' /\ \A a \in Attempts : Won(a)' <=> Won(a)
      BY <3>1 DEF Named, Shaped, Waiting, Won, Accepted, Done
    <3>3. \A e \in entries' : Claimant(e)'
      BY <3>1, <3>2 DEF Named, Claimant, Key
    <3>4. ASSUME site # "shadow", NEW a \in Attempts, Won(a) PROVE HeldFor(a)'
      <4>1. HeldFor(a) /\ att[a].frame \in DOMAIN Frames
        BY <3>4 DEF Named, Shaped
      <4>2. Bound(att[a]) \in Int
        BY <4>1, LastIs DEF HeldFor, Bound
      <4> QED
        BY <3>1, <4>1, <4>2 DEF HeldFor, Bound, Last, Key
    <3> QED
      BY <3>1, <3>2, <3>3, <3>4 DEF Named
  <2> QED
    BY <2>1, VerifiedNames, ShadowNames, LocalNames, ClaimNames, SetNames, AnswerNames,
       UnconfirmedNames DEF Next
<1> QED
  BY <1>1, <1>2, PTL DEF Spec

(* A rejected frame spends nothing, and a claim answered "new" is held in  *)
(* the name of the call that was told so, while it lives.                  *)
THEOREM AnswersMatchLedger == Spec => []ClaimsMatchAnswers
<1>1. Named => ClaimsMatchAnswers
  <2> SUFFICES ASSUME Named PROVE HeldByItsClaimant /\ NewIsHeld
    BY DEF ClaimsMatchAnswers
  <2>1. ASSUME NEW e \in entries
        PROVE  IF site = "shadow"
               THEN \E a \in Attempts : Accepted(a) /\ Key(att[a].frame) = e.key
               ELSE /\ Key(att[e.by].frame) = e.key
                    /\ Accepted(e.by) \/ att[e.by].pc \in {"claiming", "unconfirmed"}
    <3>1. PICK a \in Attempts : /\ Won(a) /\ Key(att[a].frame) = e.key
                                /\ site # "shadow" => e.by = a
      BY DEF Named, Claimant
    <3>2. site = "shadow" => Accepted(a)
      BY <3>1 DEF Named, Shaped, Won, Waiting
    <3> QED
      BY <3>1, <3>2 DEF Won
  <2>2. ASSUME site # "shadow", NEW a \in Attempts, Accepted(a),
               now < Last(Frames[att[a].frame].rec) + SafetyMargin + att[a].late
        PROVE  \E e \in entries : e.key = Key(att[a].frame) /\ e.by = a
    BY <2>2 DEF Named, HeldFor, Won, Bound
  <2> QED
    BY <2>1, <2>2 DEF HeldByItsClaimant, NewIsHeld
<1> QED
  BY <1>1, NamedHolds, PTL
----------------------------------------------------------------------------
(* The ledgers' bounds: a key has one entry, and the bounded ones hold no  *)
(* more than their capacity.                                               *)
Tidy ==
  /\ IsFiniteSet(entries)
  /\ \A e \in entries : e.until \in Nat /\ e.by \in Attempts \cup {Nobody}
  /\ \A d, e \in entries : d.key = e.key => d = e
  /\ site # "memorydb" => Cardinality(entries) <= Capacity

Typed ==
  /\ now \in 0 .. MaxTime /\ connected \in BOOLEAN
  /\ \A a \in Attempts :
       /\ att[a].pc \in {"new", "verified", "claiming", "unconfirmed", "done"}
       /\ att[a].pc \in {"claiming", "unconfirmed"} => site = "memorydb"

LEMMA FewerTidy ==
  ASSUME Tidy, UNCHANGED site, entries' \subseteq entries
  PROVE  Tidy'
<1>1. IsFiniteSet(entries') /\ Cardinality(entries') <= Cardinality(entries)
      /\ Cardinality(entries') \in Nat /\ Cardinality(entries) \in Nat
  BY FS_Subset, FS_CardinalityType DEF Tidy
<1> QED
  BY <1>1, LedgerAssumption DEF Tidy

(* An entry of a key takes the place of the others of this key.            *)
LEMMA OneMoreTidy ==
  ASSUME Tidy, UNCHANGED site, NEW F, F \subseteq entries, NEW new, entries' = F \cup {new},
         \A e \in F : e.key # new.key, new.until \in Nat, new.by \in Attempts \cup {Nobody},
         site # "memorydb" => Cardinality(F) < Capacity
  PROVE  Tidy'
<1>1. IsFiniteSet(F) /\ Cardinality(F) \in Nat
  BY FS_Subset, FS_CardinalityType DEF Tidy
<1>2. new \notin F
  OBVIOUS
<1>3. IsFiniteSet(entries') /\ Cardinality(entries') = Cardinality(F) + 1
  BY <1>1, <1>2, FS_AddElement
<1>4. site # "memorydb" => Cardinality(entries') <= Capacity
  BY <1>1, <1>3, LedgerAssumption
<1>5. \A d, e \in entries' : d.key = e.key => d = e
  BY DEF Tidy
<1> QED
  BY <1>3, <1>4, <1>5 DEF Tidy

LEMMA ShadowTidy ==
  ASSUME Named, Typed, Tidy, NEW a \in Attempts, NEW f \in DOMAIN Frames,
         NEW policy \in Policies, VerifyShadow(a, f, policy)
  PROVE  Tidy'
<1> DEFINE r     == Frames[f].rec
           k     == Key(f)
           until == r.ts + Allowed(r, policy)
           new   == [key |-> k, until |-> until, by |-> Nobody]
<1>1. UNCHANGED site /\ Without(k) \subseteq entries
  BY DEF VerifyShadow, Without
<1>2. \/ entries' = entries \/ entries' = Without(k)
      \/ /\ ShadowBefore(f, policy) = "intact" /\ ShadowClaim(k) = "claimed"
         /\ entries' = Without(k) \cup {new}
  BY DEF VerifyShadow, ShadowEntries, Put
<1>3. CASE /\ ShadowBefore(f, policy) = "intact" /\ ShadowClaim(k) = "claimed"
           /\ entries' = Without(k) \cup {new}
  <2>1. ~(Distance(r.ts, now) > Allowed(r, policy))
    BY <1>3, BeforeNames
  <2>2. /\ r.ts \in Nat /\ r.disp \in Nat /\ policy.window \in Int /\ MaxTime \in Nat
        /\ Capacity \in Nat
    BY LedgerAssumption
  <2>3. Allowed(r, policy) \in Int
    BY <2>2 DEF Allowed
  <2>4. Distance(r.ts, now) \in Int /\ Distance(r.ts, now) >= 0
    BY <2>2 DEF Distance, Typed
  <2>5. until \in Nat
    BY <2>1, <2>2, <2>3, <2>4
  <2>6. ~(Cardinality(Without(k)) >= Capacity)
    BY <1>3 DEF ShadowClaim
  <2>7. Cardinality(Without(k)) \in Nat
    BY <1>1, FS_Subset, FS_CardinalityType DEF Tidy
  <2>8. \A e \in Without(k) : e.key # k
    BY DEF Without
  <2>9. new.key = k /\ new.until = until /\ new.by = Nobody
    OBVIOUS
  <2> HIDE DEF new
  <2> QED
    BY <1>1, <1>3, <2>2, <2>5, <2>6, <2>7, <2>8, <2>9, OneMoreTidy
<1> QED
  BY <1>1, <1>2, <1>3, FewerTidy

LEMMA ClaimIsNat ==
  ASSUME Typed, NEW s, Waiting(s)
  PROVE  now + s.ttl \in Nat
<1>1. Last(Frames[s.frame].rec) \in Int /\ SafetyMargin \in Nat /\ now \in Nat
  BY LastIs, LedgerAssumption DEF Waiting, Typed
<1> QED
  BY <1>1 DEF Waiting

LEMMA LocalTidy ==
  ASSUME Named, Typed, Tidy, NEW a \in Attempts, CheckAndSet(a)
  PROVE  Tidy'
<1> DEFINE k   == Key(att[a].frame)
           F   == {e \in Retained : e.key # k}
           new == [key |-> k, until |-> now + att[a].ttl, by |-> a]
<1>1. UNCHANGED site /\ Retained \subseteq entries /\ F \subseteq Retained /\ site = "local"
  BY DEF CheckAndSet, Retained
<1>2. \/ entries' = entries \/ entries' = Retained
      \/ /\ entries' = F \cup {new}
         /\ Cardinality(Retained) < Capacity \/ \E e \in Retained : e.key = k
  BY DEF CheckAndSet
<1>3. CASE /\ entries' = F \cup {new}
           /\ Cardinality(Retained) < Capacity \/ \E e \in Retained : e.key = k
  <2>1. new.key = k /\ new.until = now + att[a].ttl /\ new.by = a
    OBVIOUS
  <2>2. now + att[a].ttl \in Nat
    BY ClaimIsNat DEF CheckAndSet, Named, Shaped
  <2>3. /\ IsFiniteSet(Retained) /\ Cardinality(Retained) \in Nat /\ Capacity \in Nat
        /\ Cardinality(Retained) <= Capacity
    <3>1. /\ IsFiniteSet(Retained) /\ Cardinality(Retained) \in Nat /\ Cardinality(entries) \in Nat
          /\ Cardinality(Retained) <= Cardinality(entries)
      BY <1>1, FS_Subset, FS_CardinalityType DEF Tidy
    <3> QED
      BY <1>1, <3>1, LedgerAssumption DEF Tidy
  <2>4. /\ IsFiniteSet(F) /\ Cardinality(F) \in Nat /\ Cardinality(F) <= Cardinality(Retained)
    BY <1>1, <2>3, FS_Subset, FS_CardinalityType
  <2>5. Cardinality(F) < Capacity
    <3>1. CASE Cardinality(Retained) < Capacity
      BY <2>3, <2>4, <3>1
    <3>2. CASE \E e \in Retained : e.key = k
      <4>1. PICK e \in Retained : e.key = k
        BY <3>2
      <4>2. F \subseteq Retained \ {e}
        BY <4>1
      <4>3. /\ IsFiniteSet(Retained \ {e})
            /\ Cardinality(Retained \ {e}) = Cardinality(Retained) - 1
        BY <2>3, <4>1, FS_RemoveElement
      <4> HIDE DEF F
      <4>4. Cardinality(F) <= Cardinality(Retained \ {e})
        BY <4>2, <4>3, FS_Subset
      <4> QED
        BY <2>3, <2>4, <4>3, <4>4
    <3> QED
      BY <1>3, <3>1, <3>2
  <2>6. \A e \in F : e.key # k
    OBVIOUS
  <2> HIDE DEF F, new
  <2> QED
    BY <1>1, <1>3, <2>1, <2>2, <2>5, <2>6, OneMoreTidy
<1> QED
  BY <1>1, <1>2, <1>3, FewerTidy

LEMMA SetTidy ==
  ASSUME Named, Typed, Tidy, NEW a \in Attempts, SetRuns(a)
  PROVE  Tidy'
<1> DEFINE k   == Key(att[a].frame)
           new == [key |-> k, until |-> now + att[a].ttl, by |-> a]
<1>1. /\ UNCHANGED site /\ Waiting(att[a]) /\ site = "memorydb"
      /\ entries' = entries \/ entries' = Without(k) \cup {new}
      /\ Without(k) \subseteq entries
  BY DEF SetRuns, Put, Named, Shaped, Typed, Without
<1>2. CASE entries' = Without(k) \cup {new}
  <2>1. new.key = k /\ new.until = now + att[a].ttl /\ new.by = a
    OBVIOUS
  <2>2. now + att[a].ttl \in Nat
    BY <1>1, ClaimIsNat
  <2>3. \A e \in Without(k) : e.key # k
    BY DEF Without
  <2> HIDE DEF new
  <2> QED
    BY <1>1, <1>2, <2>1, <2>2, <2>3, OneMoreTidy
<1> QED
  BY <1>1, <1>2, FewerTidy

LEMMA StepTyped ==
  ASSUME Named, Typed, [Next]_vars
  PROVE  Typed'
<1>1. DOMAIN att = Attempts /\ MaxTime \in Nat
  BY LedgerAssumption DEF Named, Shaped
<1>2. now' \in 0 .. MaxTime /\ connected' \in BOOLEAN /\ site' = site
  <2>1. ASSUME Tick \/ Connection \/ UNCHANGED vars
        PROVE  now' \in 0 .. MaxTime /\ connected' \in BOOLEAN /\ site' = site
    <3>1. now' \in 0 .. MaxTime /\ site' = site
      <4>1. CASE Tick
        BY <1>1, <4>1 DEF Tick, Typed
      <4>2. CASE Connection
        BY <4>2 DEF Connection, Typed
      <4>3. CASE UNCHANGED vars
        BY <4>3 DEF vars, Typed
      <4> QED
        BY <2>1, <4>1, <4>2, <4>3
    <3>2. connected' = TRUE \/ connected' = FALSE \/ connected' = connected
      BY <2>1 DEF vars, Tick, Connection, Connects, Closes
    <3>3. connected' \in BOOLEAN
      BY <3>2 DEF Typed
    <3> QED
      BY <3>1, <3>3
  <2>2. \A a \in Attempts :
          \/ \E f \in DOMAIN Frames : Verified(a, f)
          \/ \E f \in DOMAIN Frames, p \in Policies : VerifyShadow(a, f, p)
          \/ CheckAndSet(a) \/ Claim(a) \/ SetRuns(a) \/ Answered(a) \/ Unconfirmed(a)
          => UNCHANGED <<now, connected, site>>
    BY DEF Verified, VerifyShadow, CheckAndSet, Claim, SetRuns, Answered, Unconfirmed
  <2>3. UNCHANGED <<now, connected, site>>
        => now' \in 0 .. MaxTime /\ connected' \in BOOLEAN /\ site' = site
    BY DEF Typed
  <2> QED
    BY <2>1, <2>2, <2>3 DEF Next
<1>3. ASSUME NEW a \in Attempts, NEW s, att' = [att EXCEPT ![a] = s],
             s.pc \in {"verified", "claiming", "unconfirmed", "done"},
             s.pc \in {"claiming", "unconfirmed"} => site = "memorydb"
      PROVE  Typed'
  BY <1>1, <1>2, <1>3 DEF Typed
<1>4. ASSUME Tick \/ Connection \/ UNCHANGED vars PROVE Typed'
  BY <1>2, <1>4 DEF Tick, Connection, vars, Typed
<1>5. ASSUME NEW a \in Attempts, NEW f \in DOMAIN Frames, Verified(a, f) PROVE Typed'
  BY <1>3, <1>5 DEF Verified
<1>6. ASSUME NEW a \in Attempts, NEW f \in DOMAIN Frames, NEW p \in Policies,
             VerifyShadow(a, f, p)
      PROVE  Typed'
  BY <1>3, <1>6 DEF VerifyShadow, Finish
<1>7. ASSUME NEW a \in Attempts, CheckAndSet(a) PROVE Typed'
  BY <1>3, <1>7 DEF CheckAndSet, Finish
<1>8. ASSUME NEW a \in Attempts, Claim(a) PROVE Typed'
  BY <1>3, <1>8 DEF Claim, Finish
<1>9. ASSUME NEW a \in Attempts, SetRuns(a) \/ Unconfirmed(a) PROVE Typed'
  <2>1. /\ att[a].pc \in {"claiming", "unconfirmed"} /\ "pc" \in DOMAIN att[a]
        /\ site = "memorydb"
    BY <1>9 DEF SetRuns, Unconfirmed, Named, Shaped, Typed
  <2>2. /\ att' = [att EXCEPT ![a] = att'[a]] /\ att'[a].pc \in {"claiming", "unconfirmed"}
    BY <1>1, <1>9, <2>1 DEF SetRuns, Unconfirmed
  <2> QED
    BY <1>3, <2>1, <2>2
<1>10. ASSUME NEW a \in Attempts, Answered(a) PROVE Typed'
  <2> DEFINE answer == IF att[a].result = "OK" THEN "new" ELSE "already_seen"
             s      == [pc |-> "done", frame |-> att[a].frame, answer |-> answer,
                        at |-> att[a].at, late |-> att[a].late]
  <2>1. att' = [att EXCEPT ![a] = s]
    BY <1>10 DEF Answered, Finish
  <2>2. s.pc = "done"
    OBVIOUS
  <2> HIDE DEF s
  <2> QED
    BY <1>3, <2>1, <2>2
<1> QED
  BY <1>4, <1>5, <1>6, <1>7, <1>8, <1>9, <1>10 DEF Next

LEMMA StepTidy ==
  ASSUME Named, Typed, Tidy, [Next]_vars
  PROVE  Tidy'
<1>1. ASSUME UNCHANGED <<site, entries>> PROVE Tidy'
  BY <1>1 DEF Tidy
<1>2. ASSUME Tick \/ Connection \/ UNCHANGED vars PROVE Tidy'
  BY <1>1, <1>2 DEF Tick, Connection, vars
<1>3. ASSUME NEW a \in Attempts, NEW f \in DOMAIN Frames, Verified(a, f) PROVE Tidy'
  BY <1>1, <1>3 DEF Verified
<1>4. ASSUME NEW a \in Attempts, Claim(a) \/ Answered(a) \/ Unconfirmed(a) PROVE Tidy'
  BY <1>1, <1>4 DEF Claim, Answered, Unconfirmed
<1> QED
  BY <1>2, <1>3, <1>4, ShadowTidy, LocalTidy, SetTidy DEF Next

(* The ledgers keep their bounds: a key has one entry, and neither the     *)
(* shadow verifier's nor the Rust cache's outgrows its capacity.           *)
THEOREM TypeCorrect == Spec => []TypeOK
<1>1. Init => Typed /\ Tidy
  <2>1. Init => IsFiniteSet(entries) /\ Cardinality(entries) = 0
    BY FS_EmptySet DEF Init
  <2>2. Init => Tidy
    <3>1. 0 <= Capacity
      BY LedgerAssumption
    <3> QED
      BY <2>1, <3>1 DEF Init, Tidy
  <2>3. Init => Typed
    <3> SUFFICES ASSUME Init PROVE Typed
      OBVIOUS
    <3>1. now \in 0 .. MaxTime
      BY LedgerAssumption DEF Init
    <3>2. connected \in BOOLEAN
      BY DEF Init
    <3>3. \A a \in Attempts : att[a].pc = "new"
      BY DEF Init, New
    <3> QED
      BY <3>1, <3>2, <3>3 DEF Typed
  <2> QED
    BY <2>2, <2>3
<1>2. Named /\ Typed /\ Tidy /\ [Next]_vars => (Typed /\ Tidy)'
  BY StepTyped, StepTidy
<1>3. Typed /\ Tidy => TypeOK
  BY DEF Typed, Tidy, TypeOK
<1> QED
  BY <1>1, <1>2, <1>3, NamedHolds, PTL DEF Spec
=============================================================================
