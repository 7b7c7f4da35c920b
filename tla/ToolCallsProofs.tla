-------------------------- MODULE ToolCallsProofs --------------------------
(***************************************************************************)
(* What a tool call's key is good for, for every number of concurrent      *)
(* calls, every limit and every quota: openttt-server records a call for   *)
(* the key its own request presented, and a call with a key is answered    *)
(* from that record or not at all.  Then what the freshness seal may show, *)
(* and how much the fixed windows of the rate limits let through.          *)
(***************************************************************************)
EXTENDS ToolCalls, FiniteSetTheorems, TLAPS

Fields == {"pc", "want", "key", "asked", "at", "reply", "sentAs", "from", "end", "ts", "out"}

(* What a call is in any of its states after its key was resolved.         *)
Sound(s) ==
  LET paid == IF mode = "http" THEN s.key ELSE EnvKey
  IN /\ DOMAIN s = Fields
     /\ s.key = s.want.key
     /\ s.sentAs \in {NoKey, paid}
     /\ s.from = "local" \/ s.pc = "synth" => paid = NoKey \/ s.want.tool = "digest"

CallsSound ==
  /\ DOMAIN call = Calls
  /\ \A c \in Calls : Known(c) => Sound(call[c])
  /\ \A c \in Calls : call[c].pc = "lookup" => DOMAIN call[c] = {"pc", "want"}

(* The server's record names a call whose key it is.                       *)
ServedSound == \A s \in served : s.call \in Calls /\ Known(s.call) /\ s.key = PaidApiKey(s.call)

IInv == CallsSound /\ ServedSound

(* What a call may present is among what callers present.                  *)
LEMMA MayBeWanted == \A c \in Calls : \A w \in MayPresent[c] : w \in Wants
BY DEF Wants

----------------------------------------------------------------------------
(* A call that was not resolved before changes, others and server do not.  *)
LEMMA Resolved ==
  ASSUME IInv, NEW c \in Calls, ~Known(c), NEW s, call' = [call EXCEPT ![c] = s],
         UNCHANGED <<mode, served>>,
         \/ Sound(s) /\ s.pc \in {"body", "tool", "done"}
         \/ s.pc = "forbidden"
         \/ s.pc = "lookup" /\ DOMAIN s = {"pc", "want"}
  PROVE  IInv'
<1>1. DOMAIN call = Calls /\ call'[c] = s /\ \A d \in Calls \ {c} : call'[d] = call[d]
  BY DEF IInv, CallsSound
<1>2. CallsSound'
  BY <1>1 DEF IInv, CallsSound, Known, Sound
<1>3. ServedSound'
  BY <1>1 DEF IInv, ServedSound, Known, PaidApiKey
<1> QED
  BY <1>2, <1>3 DEF IInv

(* A resolved call moves on, keeping what it presented.                    *)
LEMMA Moves ==
  ASSUME IInv, NEW c \in Calls, Known(c), NEW s, call' = [call EXCEPT ![c] = s],
         UNCHANGED mode, served' \subseteq served \cup {[call |-> c, key |-> PaidApiKey(c)]},
         DOMAIN s = Fields, s.pc \notin {"new", "lookup", "forbidden"},
         s.want = call[c].want, s.key = call[c].key,
         s.sentAs \in {call[c].sentAs, PaidApiKey(c)},
         s.from = "local" \/ s.pc = "synth" =>
           \/ call[c].from = "local" \/ call[c].pc = "synth"
           \/ PaidApiKey(c) = NoKey \/ call[c].want.tool = "digest"
  PROVE  IInv'
<1>1. DOMAIN call = Calls /\ call'[c] = s /\ \A d \in Calls \ {c} : call'[d] = call[d]
  BY DEF IInv, CallsSound
<1>2. Sound(s)'
  BY DEF IInv, CallsSound, Sound, PaidApiKey
<1>3. CallsSound'
  BY <1>1, <1>2 DEF IInv, CallsSound, Known, Sound
<1>4. ServedSound'
  BY <1>1 DEF IInv, ServedSound, Known, PaidApiKey
<1> QED
  BY <1>3, <1>4 DEF IInv

LEMMA KnownIs ==
  ASSUME IInv, NEW c \in Calls, Known(c)
  PROVE  DOMAIN call[c] = Fields /\ Sound(call[c])
BY DEF IInv, CallsSound, Sound

LEMMA LimitSound ==
  ASSUME IInv, NEW c \in Calls, ~Known(c), NEW w, CheckRateLimit(c, w, w.key),
         UNCHANGED <<mode, served>>
  PROVE  IInv'
<1> DEFINE m       == Counted(Bucket(minute[w.ip], MinuteEnd))
           d       == Bucket(day[w.ip], NextMidnight)
           burst   == m.count > PerMinute
           refused == burst \/ (~burst /\ w.key = NoKey /\ DayFull(d))
           s       == [pc |-> IF refused THEN "done" ELSE "body", want |-> w, key |-> w.key,
                       asked |-> now, at |-> 0, reply |-> "none", sentAs |-> NoKey,
                       from |-> "nowhere", end |-> 0, ts |-> -1,
                       out |-> IF refused THEN "429" ELSE "none"]
<1>1. call' = [call EXCEPT ![c] = s]
  BY DEF CheckRateLimit
<1> HIDE DEF refused
<1>2. Sound(s) /\ s.pc \in {"done", "body"}
  BY DEF Sound, Fields
<1> HIDE DEF s
<1> QED
  BY <1>1, <1>2, Resolved

LEMMA StepKeeps ==
  ASSUME IInv, [Next]_vars
  PROVE  IInv'
<1>1. ASSUME NEW c \in Calls, NEW w \in Wants, Arrive(c, w) PROVE IInv'
  <2>1. ~Known(c) /\ UNCHANGED <<mode, served>>
    BY <1>1 DEF Arrive, Known, New
  <2>2. CASE w.key = NoKey
    BY <1>1, <2>1, <2>2, LimitSound DEF Arrive
  <2>3. CASE w.key # NoKey
    <3>1. call' = [call EXCEPT ![c] = [pc |-> "lookup", want |-> w]]
      BY <1>1, <2>3 DEF Arrive
    <3> QED
      BY <2>1, <3>1, Resolved
  <2> QED
    BY <2>2, <2>3
<1>2. ASSUME NEW c \in Calls, NEW w \in Wants, StdioCall(c, w) PROVE IInv'
  <2> DEFINE s == [pc |-> "tool", want |-> w, key |-> NoKey, asked |-> now, at |-> 0,
                   reply |-> "none", sentAs |-> NoKey, from |-> "nowhere", end |-> 0,
                   ts |-> -1, out |-> "none"]
  <2>1. call' = [call EXCEPT ![c] = s] /\ ~Known(c) /\ UNCHANGED <<mode, served>>
    BY <1>2 DEF StdioCall, Known, New
  <2>2. Sound(s) /\ s.pc = "tool"
    BY <1>2 DEF StdioCall, Sound, Fields
  <2> QED
    BY <2>1, <2>2, Resolved
<1>3. ASSUME NEW c \in Calls, KeyFound(c) PROVE IInv'
  <2>1. /\ ~Known(c) /\ UNCHANGED <<mode, served>>
        /\ CheckRateLimit(c, call[c].want, call[c].want.key)
    BY <1>3 DEF KeyFound, Known, IInv, CallsSound
  <2> QED
    BY <2>1, LimitSound
<1>4. ASSUME NEW c \in Calls, KeyRefused(c) PROVE IInv'
  <2>1. ~Known(c) /\ UNCHANGED <<mode, served>>
        /\ call' = [call EXCEPT ![c] = [pc |-> "forbidden", want |-> call[c].want]]
    BY <1>4 DEF KeyRefused, Known
  <2> QED
    BY <2>1, Resolved
<1>5. ASSUME NEW c \in Calls, BodyFails(c) \/ BodyRead(c) \/ HeadersArrive(c) \/ FetchFails(c)
      PROVE  IInv'
  <2>1. Known(c) /\ UNCHANGED <<mode, served>> /\ DOMAIN call[c] = Fields
    BY <1>5, KnownIs DEF BodyFails, BodyRead, HeadersArrive, FetchFails, Known
  <2> DEFINE Keeps(s) == /\ call' = [call EXCEPT ![c] = s] /\ DOMAIN s = Fields
                        /\ s.pc \in {"tool", "reading", "done"}
                        /\ \A f \in Fields \ {"pc", "out"} : s[f] = call[c][f]
  <2>2. ASSUME NEW pc \in {"tool", "reading", "done"}, Goes(c, pc) PROVE \E s : Keeps(s)
    <3>1. Keeps([call[c] EXCEPT !.pc = pc])
      BY <2>1, <2>2 DEF Goes, Fields
    <3> QED
      BY <3>1
  <2>3. ASSUME NEW out, Fails(c, out) PROVE \E s : Keeps(s)
    <3>1. Keeps([call[c] EXCEPT !.pc = "done", !.out = out])
      BY <2>1, <2>3 DEF Fails, Fields
    <3> QED
      BY <3>1
  <2>4. PICK s : Keeps(s)
    BY <1>5, <2>2, <2>3 DEF BodyFails, BodyRead, HeadersArrive, FetchFails
  <2> QED
    BY <2>1, <2>4, Moves DEF Fields
<1>6. ASSUME NEW c \in Calls, StartTool(c) PROVE IInv'
  <2>1. Known(c) /\ UNCHANGED <<mode, served>> /\ DOMAIN call[c] = Fields
    BY <1>6, KnownIs DEF StartTool, Known
  <2>2. CASE call' = [call EXCEPT ![c].pc = "delegating", ![c].at = now,
                                  ![c].sentAs = PaidApiKey(c)]
    <3> DEFINE s == [call[c] EXCEPT !.pc = "delegating", !.at = now, !.sentAs = PaidApiKey(c)]
    <3>1. call' = [call EXCEPT ![c] = s]
      BY <2>2
    <3>2. /\ DOMAIN s = Fields /\ s.pc = "delegating" /\ s.want = call[c].want
          /\ s.key = call[c].key /\ s.sentAs = PaidApiKey(c) /\ s.from = call[c].from
      BY <2>1 DEF Fields
    <3> HIDE DEF s
    <3> QED
      BY <2>1, <3>1, <3>2, Moves
  <2>3. CASE ~Delegates(c) /\ call' = [call EXCEPT ![c].pc = "synth", ![c].at = now]
    <3> DEFINE s == [call[c] EXCEPT !.pc = "synth", !.at = now]
    <3>1. call' = [call EXCEPT ![c] = s]
      BY <2>3
    <3>2. /\ DOMAIN s = Fields /\ s.pc = "synth" /\ s.want = call[c].want
          /\ s.key = call[c].key /\ s.sentAs = call[c].sentAs
      BY <2>1 DEF Fields
    <3>3. PaidApiKey(c) = NoKey \/ call[c].want.tool = "digest"
      BY <2>3 DEF Delegates
    <3> HIDE DEF s
    <3> QED
      BY <2>1, <3>1, <3>2, <3>3, Moves
  <2>4. CASE ~Delegates(c) /\ Ends(c, "local", "ok")
    <3> DEFINE s == [call[c] EXCEPT !.pc = "done", !.from = "local", !.out = "ok", !.end = now]
    <3>1. call' = [call EXCEPT ![c] = s]
      BY <2>4 DEF Ends
    <3>2. /\ DOMAIN s = Fields /\ s.pc = "done" /\ s.want = call[c].want
          /\ s.key = call[c].key /\ s.sentAs = call[c].sentAs
      BY <2>1 DEF Fields
    <3>3. PaidApiKey(c) = NoKey \/ call[c].want.tool = "digest"
      BY <2>4 DEF Delegates
    <3> HIDE DEF s
    <3> QED
      BY <2>1, <3>1, <3>2, <3>3, Moves
  <2> QED
    BY <1>6, <2>2, <2>3, <2>4 DEF StartTool
<1>7. ASSUME NEW c \in Calls, Synthesized(c) PROVE IInv'
  <2>1. /\ Known(c) /\ UNCHANGED <<mode, served>> /\ DOMAIN call[c] = Fields
        /\ call[c].pc = "synth"
    BY <1>7, KnownIs DEF Synthesized, Known
  <2>2. PICK ts : call' = [call EXCEPT ![c].pc = "done", ![c].from = "local", ![c].out = "ok",
                                       ![c].end = now, ![c].ts = ts]
    BY <1>7 DEF Synthesized
  <2> DEFINE s == [call[c] EXCEPT !.pc = "done", !.from = "local", !.out = "ok", !.end = now,
                                  !.ts = ts]
  <2>3. call' = [call EXCEPT ![c] = s]
    BY <2>2
  <2>4. /\ DOMAIN s = Fields /\ s.pc = "done" /\ s.want = call[c].want
        /\ s.key = call[c].key /\ s.sentAs = call[c].sentAs
    BY <2>1 DEF Fields
  <2> HIDE DEF s
  <2> QED
    BY <2>1, <2>3, <2>4, Moves
<1>8. ASSUME NEW c \in Calls, ServerServes(c) PROVE IInv'
  <2>1. /\ Known(c) /\ mode' = mode /\ DOMAIN call[c] = Fields /\ Sound(call[c])
        /\ call[c].sentAs = PaidApiKey(c)
        /\ call[c].pc \notin {"new", "lookup", "forbidden"}
    BY <1>8, KnownIs DEF ServerServes, Known, Sound, PaidApiKey
  <2>2. served' \subseteq served \cup {[call |-> c, key |-> PaidApiKey(c)]}
    BY <1>8, <2>1 DEF ServerServes
  <2>3. \E r, ts : call' = [call EXCEPT ![c] = [call[c] EXCEPT !.reply = r, !.ts = ts]]
    <3>1. ASSUME NEW r, call' = [call EXCEPT ![c].reply = r]
          PROVE  call' = [call EXCEPT ![c] = [call[c] EXCEPT !.reply = r, !.ts = call[c].ts]]
      BY <2>1, <3>1 DEF Fields
    <3>2. ASSUME NEW r, call' = [call EXCEPT ![c].reply = r, ![c].ts = now]
          PROVE  call' = [call EXCEPT ![c] = [call[c] EXCEPT !.reply = r, !.ts = now]]
      BY <3>2
    <3>3. \/ call' = [call EXCEPT ![c].reply = "429"]
          \/ call' = [call EXCEPT ![c].reply = "error"]
          \/ \E r : call' = [call EXCEPT ![c].reply = r, ![c].ts = now]
      BY <1>8 DEF ServerServes
    <3> QED
      BY <3>1, <3>2, <3>3
  <2>4. PICK r, ts : call' = [call EXCEPT ![c] = [call[c] EXCEPT !.reply = r, !.ts = ts]]
    BY <2>3
  <2> DEFINE s == [call[c] EXCEPT !.reply = r, !.ts = ts]
  <2>5. /\ call' = [call EXCEPT ![c] = s]
        /\ DOMAIN s = Fields /\ s.pc = call[c].pc /\ s.want = call[c].want
        /\ s.key = call[c].key /\ s.sentAs = call[c].sentAs /\ s.from = call[c].from
    BY <2>1, <2>4 DEF Fields
  <2> HIDE DEF s
  <2> QED
    BY <2>1, <2>2, <2>5, Moves
<1>9. ASSUME NEW c \in Calls, BodyArrives(c) PROVE IInv'
  <2>1. Known(c) /\ UNCHANGED <<mode, served>> /\ DOMAIN call[c] = Fields
    BY <1>9, KnownIs DEF BodyArrives, Known
  <2> DEFINE Keeps(s) == /\ call' = [call EXCEPT ![c] = s] /\ DOMAIN s = Fields
                         /\ s.pc = "done" /\ s.want = call[c].want /\ s.key = call[c].key
                         /\ s.sentAs = call[c].sentAs
                         /\ s.from \in {call[c].from, "server"}
  <2>2. ASSUME NEW out, Fails(c, out) PROVE \E s : Keeps(s)
    <3>1. Keeps([call[c] EXCEPT !.pc = "done", !.out = out])
      BY <2>1, <2>2 DEF Fails, Fields
    <3> QED
      BY <3>1
  <2>3. ASSUME NEW r, call' = [call EXCEPT ![c].pc = "done", ![c].from = "server",
                                           ![c].out = "ok", ![c].end = now, ![c].reply = r]
        PROVE  \E s : Keeps(s)
    <3>1. Keeps([call[c] EXCEPT !.pc = "done", !.from = "server", !.out = "ok", !.end = now,
                                !.reply = r])
      BY <2>1, <2>3 DEF Fields
    <3> QED
      BY <3>1
  <2>4. PICK s : Keeps(s)
    BY <1>9, <2>2, <2>3 DEF BodyArrives
  <2> QED
    BY <2>1, <2>4, Moves
<1>10. ASSUME UNCHANGED <<mode, call, served>> PROVE IInv'
  BY <1>10 DEF IInv, CallsSound, ServedSound, Known, Sound, PaidApiKey
<1> QED
  BY <1>1, <1>2, <1>3, <1>4, <1>5, <1>6, <1>7, <1>8, <1>9, <1>10, MayBeWanted DEF Next, Tick, vars

(* Whoever asks with a key pays with that key and no other, and is served  *)
(* from the record of openttt-server, never from the free local log.       *)
THEOREM AskerPays == Spec => []PaidThroughServer
<1>1. Init => IInv
  BY DEF Init, New, IInv, CallsSound, ServedSound, Known
<1>2. IInv /\ [Next]_vars => IInv'
  BY StepKeeps
<1>3. IInv => PaidThroughServer
  <2> SUFFICES ASSUME IInv PROVE PaidThroughServer
    OBVIOUS
  <2>1. \A c \in Calls : Known(c) => Sound(call[c])
    BY DEF IInv, CallsSound
  <2>2. ASSUME NEW s \in served
        PROVE  s.key = IF mode = "http" THEN call[s.call].want.key ELSE EnvKey
    BY <2>1 DEF IInv, ServedSound, PaidApiKey, Sound
  <2>3. ASSUME NEW c \in Calls, Served(c), call[c].from = "local", call[c].want.tool # "digest"
        PROVE  NoKey = IF mode = "http" THEN call[c].want.key ELSE EnvKey
    BY <2>1, <2>3 DEF Served, Sound
  <2> QED
    BY <2>2, <2>3 DEF PaidThroughServer
<1> QED
  BY <1>1, <1>2, <1>3, PTL DEF Spec

----------------------------------------------------------------------------
(* The freshness seal.  A call that was sealed never changes again, its    *)
(* instant lies between its start and its end, and whoever holds the seal  *)
(* ended last.                                                             *)

SealedAs(s) == /\ s.pc = "done" /\ s.out = "ok" /\ s.want.tool \in {"generate", "digest"}
               /\ s.from = "local" \/ s.reply = "full"
Clocked(s) ==
  /\ s.at \in 0 .. now /\ s.end \in 0 .. now
  /\ s.pc \in {"body", "tool", "synth"} \/ s.from = "local" => s.sentAs = NoKey
  /\ s.sentAs = NoKey => s.reply = "none"
  /\ s.pc = "synth" => s.want.tool \in {"generate", "digest"}
  /\ s.pc = "reading" \/ s.from = "server" => s.reply # "none"
  /\ s.from \in {"nowhere", "local", "server"} /\ (s.from # "nowhere" => s.pc = "done")
  /\ s.out = "ok" => s.from # "nowhere"
  /\ s.reply = "full" => s.ts \in s.at .. now
  /\ SealedAs(s) => s.ts \in s.at .. s.end

Holder == /\ seal.by \in Calls /\ Known(seal.by) /\ SealedAs(call[seal.by])
          /\ seal.ts = call[seal.by].ts
          /\ \A c \in Calls : Known(c) /\ SealedAs(call[c]) => call[c].end <= call[seal.by].end
SealHeld ==
  /\ now \in Nat
  /\ \A c \in Calls : Known(c) => Clocked(call[c])
  /\ Holder \/ (seal = NoSeal /\ \A c \in Calls : Known(c) => ~SealedAs(call[c]))

LEMMA SealedIs == \A c : Sealed(c) <=> Known(c) /\ SealedAs(call[c])
BY DEF Sealed, Served, Generates, SealedAs

(* A call changes that was not sealed and is not now.                      *)
LEMMA NotSealed ==
  ASSUME IInv, SealHeld, NEW c \in Calls, NEW s, call' = [call EXCEPT ![c] = s],
         UNCHANGED <<now, seal>>,
         Known(c) => ~SealedAs(call[c]),
         s.pc \in {"lookup", "forbidden"} \/ (Clocked(s) /\ ~SealedAs(s))
  PROVE  SealHeld'
<1>1. DOMAIN call = Calls /\ call'[c] = s /\ \A d \in Calls \ {c} : call'[d] = call[d]
  BY DEF IInv, CallsSound
<1>2. \A x : Clocked(x)' <=> Clocked(x)
  BY DEF Clocked, SealedAs
<1>3. \A d \in Calls : Known(d)' => Clocked(call[d])'
  BY <1>1, <1>2 DEF SealHeld, Known
<1>4. \A d \in Calls : Known(d)' /\ SealedAs(call'[d]) => Known(d) /\ SealedAs(call[d]) /\ d # c
  BY <1>1 DEF Known
<1>5. CASE Holder
  <2>1. seal.by # c
    BY <1>5 DEF Holder
  <2>2. seal'.by \in Calls /\ call'[seal'.by] = call[seal.by] /\ Known(seal.by)'
    BY <1>1, <1>5, <2>1 DEF Holder, Known
  <2>3. Holder'
    BY <1>1, <1>4, <1>5, <2>2 DEF Holder, SealedAs
  <2> QED
    BY <1>3, <2>3 DEF SealHeld
<1>6. CASE seal = NoSeal /\ \A d \in Calls : Known(d) => ~SealedAs(call[d])
  <2>1. \A d \in Calls : Known(d)' => ~SealedAs(call[d])'
    BY <1>4, <1>6 DEF SealedAs
  <2> QED
    BY <1>3, <1>6, <2>1 DEF SealHeld, NoSeal
<1> QED
  BY <1>5, <1>6 DEF SealHeld

(* A call ends and sets the seal.                                          *)
LEMMA SetsSeal ==
  ASSUME IInv, SealHeld, NEW c \in Calls, NEW s, call' = [call EXCEPT ![c] = s],
         UNCHANGED now, UpdateLastPot(c, s.ts), s.pc = "done",
         Clocked(s), SealedAs(s), s.end = now
  PROVE  SealHeld'
<1>1. DOMAIN call = Calls /\ call'[c] = s /\ \A d \in Calls \ {c} : call'[d] = call[d]
  BY DEF IInv, CallsSound
<1>2. \A x : Clocked(x)' <=> Clocked(x)
  BY DEF Clocked, SealedAs
<1>3. \A d \in Calls : Known(d)' => Clocked(call[d])'
  BY <1>1, <1>2 DEF SealHeld, Known
<1>4. seal'.by = c /\ seal'.ts = s.ts
  BY DEF UpdateLastPot
<1>5. \A d \in Calls : Known(d)' => call'[d].end <= now
  BY <1>3 DEF Clocked, SealHeld
<1>6. Holder'
  BY <1>1, <1>4, <1>5 DEF Holder, Known, SealedAs
<1> QED
  BY <1>3, <1>6 DEF SealHeld

LEMMA LimitSeals ==
  ASSUME IInv, SealHeld, NEW c \in Calls, ~Known(c), NEW w, NEW key, CheckRateLimit(c, w, key),
         UNCHANGED <<now, seal>>
  PROVE  SealHeld'
<1> DEFINE m       == Counted(Bucket(minute[w.ip], MinuteEnd))
           d       == Bucket(day[w.ip], NextMidnight)
           burst   == m.count > PerMinute
           refused == burst \/ (~burst /\ key = NoKey /\ DayFull(d))
           s       == [pc |-> IF refused THEN "done" ELSE "body", want |-> w, key |-> key,
                       asked |-> now, at |-> 0, reply |-> "none", sentAs |-> NoKey,
                       from |-> "nowhere", end |-> 0, ts |-> -1,
                       out |-> IF refused THEN "429" ELSE "none"]
<1>1. call' = [call EXCEPT ![c] = s]
  BY DEF CheckRateLimit
<1> HIDE DEF refused
<1>2. Clocked(s) /\ ~SealedAs(s)
  BY DEF SealHeld, Clocked, SealedAs
<1> HIDE DEF s
<1> QED
  BY <1>1, <1>2, NotSealed

LEMMA StepSeals ==
  ASSUME IInv, SealHeld, [Next]_vars
  PROVE  SealHeld'
<1>0. now \in Nat /\ \A c \in Calls : Known(c) => DOMAIN call[c] = Fields /\ Clocked(call[c])
  BY KnownIs DEF SealHeld
<1>1. ASSUME NEW c \in Calls, NEW w \in Wants, Arrive(c, w) PROVE SealHeld'
  <2>1. ~Known(c) /\ UNCHANGED <<now, seal>>
    BY <1>1 DEF Arrive, Known, New
  <2>2. CASE w.key = NoKey
    BY <1>1, <2>1, <2>2, LimitSeals DEF Arrive
  <2>3. CASE w.key # NoKey
    <3>1. call' = [call EXCEPT ![c] = [pc |-> "lookup", want |-> w]]
      BY <1>1, <2>3 DEF Arrive
    <3> QED
      BY <2>1, <3>1, NotSealed
  <2> QED
    BY <2>2, <2>3
<1>2. ASSUME NEW c \in Calls, NEW w \in Wants, StdioCall(c, w) PROVE SealHeld'
  <2> DEFINE s == [pc |-> "tool", want |-> w, key |-> NoKey, asked |-> now, at |-> 0,
                   reply |-> "none", sentAs |-> NoKey, from |-> "nowhere", end |-> 0,
                   ts |-> -1, out |-> "none"]
  <2>1. call' = [call EXCEPT ![c] = s] /\ ~Known(c) /\ UNCHANGED <<now, seal>>
    BY <1>2 DEF StdioCall, Known, New
  <2>2. Clocked(s) /\ ~SealedAs(s)
    BY <1>0 DEF Clocked, SealedAs
  <2> HIDE DEF s
  <2> QED
    BY <2>1, <2>2, NotSealed
<1>3. ASSUME NEW c \in Calls, KeyFound(c) PROVE SealHeld'
  <2>1. /\ ~Known(c) /\ UNCHANGED <<now, seal>>
        /\ CheckRateLimit(c, call[c].want, call[c].want.key)
    BY <1>3 DEF KeyFound, Known
  <2> QED
    BY <2>1, LimitSeals
<1>4. ASSUME NEW c \in Calls, KeyRefused(c) PROVE SealHeld'
  <2>1. ~Known(c) /\ UNCHANGED <<now, seal>>
        /\ call' = [call EXCEPT ![c] = [pc |-> "forbidden", want |-> call[c].want]]
    BY <1>4 DEF KeyRefused, Known
  <2> QED
    BY <2>1, NotSealed
<1>5. ASSUME NEW c \in Calls, BodyFails(c) \/ BodyRead(c) \/ HeadersArrive(c) \/ FetchFails(c)
      PROVE  SealHeld'
  <2>1. Known(c) /\ UNCHANGED <<now, seal>> /\ DOMAIN call[c] = Fields /\ Clocked(call[c])
        /\ call[c].pc # "done"
    BY <1>0, <1>5 DEF BodyFails, BodyRead, HeadersArrive, FetchFails, Known
  <2> DEFINE Keeps(s) == /\ call' = [call EXCEPT ![c] = s]
                         /\ \/ s.pc = "tool" /\ call[c].pc = "body" /\ s.out = call[c].out
                            \/ s.pc = "reading" /\ call[c].reply # "none" /\ s.out = call[c].out
                            \/ s.pc = "done" /\ s.out # "ok"
                         /\ \A f \in Fields \ {"pc", "out"} : s[f] = call[c][f]
  <2>2. ASSUME NEW pc, Goes(c, pc), \/ pc = "tool" /\ call[c].pc = "body"
                                    \/ pc = "reading" /\ call[c].reply # "none"
        PROVE \E s : Keeps(s)
    <3>1. Keeps([call[c] EXCEPT !.pc = pc])
      BY <2>1, <2>2 DEF Goes, Fields
    <3> QED
      BY <3>1
  <2>3. ASSUME NEW out, Fails(c, out), out # "ok" PROVE \E s : Keeps(s)
    <3>1. Keeps([call[c] EXCEPT !.pc = "done", !.out = out])
      BY <2>1, <2>3 DEF Fails, Fields
    <3> QED
      BY <3>1
  <2>4. PICK s : Keeps(s)
    BY <1>5, <2>2, <2>3 DEF BodyFails, BodyRead, HeadersArrive, FetchFails
  <2>5. Clocked(s) /\ ~SealedAs(s) /\ ~SealedAs(call[c])
    BY <2>1, <2>4 DEF Clocked, SealedAs, Fields
  <2> QED
    BY <2>1, <2>4, <2>5, NotSealed
<1>6. ASSUME NEW c \in Calls, StartTool(c) PROVE SealHeld'
  <2>1. /\ Known(c) /\ UNCHANGED <<now, seal>> /\ DOMAIN call[c] = Fields /\ Clocked(call[c])
        /\ call[c].pc = "tool"
    BY <1>0, <1>6 DEF StartTool, Known
  <2> DEFINE Sends(s) == s = [call[c] EXCEPT !.pc = "delegating", !.at = now, !.sentAs = PaidApiKey(c)]
             Synths(s) == Generates(c) /\ s = [call[c] EXCEPT !.pc = "synth", !.at = now]
             Reads(s) == /\ ~Generates(c)
                         /\ s = [call[c] EXCEPT !.pc = "done", !.from = "local", !.out = "ok",
                                                !.end = now]
  <2>2. call[c].reply = "none" /\ call[c].from = "nowhere" /\ ~SealedAs(call[c])
    BY <2>1 DEF Clocked, SealedAs
  <2>3. ASSUME NEW s, call' = [call EXCEPT ![c] = s], Sends(s) \/ Synths(s) \/ Reads(s)
        PROVE  SealHeld'
    <3>1. CASE Sends(s)
      <4>1. /\ s.pc = "delegating" /\ s.at = now
            /\ \A f \in Fields \ {"pc", "at", "sentAs"} : s[f] = call[c][f]
        BY <2>1, <3>1 DEF Fields
      <4> HIDE DEF Sends
      <4>2. Clocked(s) /\ ~SealedAs(s)
        BY <1>0, <2>1, <2>2, <4>1 DEF Clocked, SealedAs, Fields
      <4> QED
        BY <2>1, <2>2, <2>3, <4>2, NotSealed
    <3>2. CASE Synths(s)
      <4>1. /\ s.pc = "synth" /\ s.at = now /\ s.want.tool \in {"generate", "digest"}
            /\ \A f \in Fields \ {"pc", "at"} : s[f] = call[c][f]
        BY <2>1, <3>2 DEF Fields, Generates
      <4> HIDE DEF Synths
      <4>2. Clocked(s) /\ ~SealedAs(s)
        BY <1>0, <2>1, <2>2, <4>1 DEF Clocked, SealedAs, Fields
      <4> QED
        BY <2>1, <2>2, <2>3, <4>2, NotSealed
    <3>3. CASE Reads(s)
      <4>1. /\ s.pc = "done" /\ s.from = "local" /\ s.out = "ok" /\ s.end = now
            /\ s.want.tool \notin {"generate", "digest"}
            /\ \A f \in Fields \ {"pc", "from", "out", "end"} : s[f] = call[c][f]
        BY <2>1, <3>3 DEF Fields, Generates
      <4> HIDE DEF Reads
      <4>2. Clocked(s) /\ ~SealedAs(s)
        BY <1>0, <2>1, <2>2, <4>1 DEF Clocked, SealedAs, Fields
      <4> QED
        BY <2>1, <2>2, <2>3, <4>2, NotSealed
    <3> QED
      BY <2>3, <3>1, <3>2, <3>3
  <2>4. CASE call' = [call EXCEPT ![c].pc = "delegating", ![c].at = now, ![c].sentAs = PaidApiKey(c)]
    <3>1. Sends([call[c] EXCEPT !.pc = "delegating", !.at = now, !.sentAs = PaidApiKey(c)])
      OBVIOUS
    <3> HIDE DEF Sends, Synths, Reads
    <3> QED
      BY <2>3, <2>4, <3>1
  <2>5. CASE Generates(c) /\ call' = [call EXCEPT ![c].pc = "synth", ![c].at = now]
    <3>1. Synths([call[c] EXCEPT !.pc = "synth", !.at = now])
      BY <2>5
    <3> HIDE DEF Sends, Synths, Reads
    <3> QED
      BY <2>3, <2>5, <3>1
  <2>6. CASE ~Generates(c) /\ Ends(c, "local", "ok")
    <3>1. Reads([call[c] EXCEPT !.pc = "done", !.from = "local", !.out = "ok", !.end = now])
      BY <2>6
    <3> HIDE DEF Sends, Synths, Reads
    <3> QED
      BY <2>3, <2>6, <3>1 DEF Ends
  <2> QED
    BY <1>6, <2>4, <2>5, <2>6 DEF StartTool
<1>7. ASSUME NEW c \in Calls, Synthesized(c) PROVE SealHeld'
  <2>1. /\ Known(c) /\ UNCHANGED now /\ DOMAIN call[c] = Fields /\ Clocked(call[c])
        /\ call[c].pc = "synth"
    BY <1>0, <1>7 DEF Synthesized, Known
  <2>2. PICK ts \in call[c].at .. now :
          /\ UpdateLastPot(c, ts)
          /\ call' = [call EXCEPT ![c].pc = "done", ![c].from = "local", ![c].out = "ok",
                                  ![c].end = now, ![c].ts = ts]
    BY <1>7 DEF Synthesized
  <2> DEFINE s == [call[c] EXCEPT !.pc = "done", !.from = "local", !.out = "ok", !.end = now,
                                  !.ts = ts]
  <2>3. call' = [call EXCEPT ![c] = s]
    BY <2>2
  <2>4. /\ s.pc = "done" /\ s.from = "local" /\ s.out = "ok" /\ s.end = now /\ s.ts = ts
        /\ s.at = call[c].at /\ s.sentAs = call[c].sentAs /\ s.reply = call[c].reply
        /\ s.want = call[c].want
    BY <2>1 DEF Fields
  <2> HIDE DEF s
  <2>5. Clocked(s)
    BY <1>0, <2>1, <2>4 DEF Clocked
  <2>6. SealedAs(s)
    BY <2>1, <2>4 DEF SealedAs, Clocked
  <2> QED
    BY <2>1, <2>2, <2>3, <2>4, <2>5, <2>6, SetsSeal
<1>8. ASSUME NEW c \in Calls, ServerServes(c) PROVE SealHeld'
  <2>1. /\ Known(c) /\ UNCHANGED <<now, seal>> /\ DOMAIN call[c] = Fields /\ Clocked(call[c])
        /\ call[c].sentAs # NoKey /\ call[c].reply = "none"
    BY <1>0, <1>8 DEF ServerServes, Known
  <2> DEFINE Replies(s) == /\ call' = [call EXCEPT ![c] = s]
                           /\ s.reply # "none"
                           /\ s.reply = "full" => s.ts = now
                           /\ \A f \in Fields \ {"reply", "ts"} : s[f] = call[c][f]
  <2>2. ASSUME NEW r, r \notin {"none", "full"}, call' = [call EXCEPT ![c].reply = r]
        PROVE  \E s : Replies(s)
    <3>1. Replies([call[c] EXCEPT !.reply = r])
      BY <2>1, <2>2 DEF Fields
    <3> QED
      BY <3>1
  <2>3. ASSUME NEW r, r # "none", call' = [call EXCEPT ![c].reply = r, ![c].ts = now]
        PROVE  \E s : Replies(s)
    <3>1. Replies([call[c] EXCEPT !.reply = r, !.ts = now])
      BY <2>1, <2>3 DEF Fields
    <3> QED
      BY <3>1
  <2>4. PICK s : Replies(s)
    BY <1>8, <2>2, <2>3 DEF ServerServes
  <2>5. Clocked(s) /\ ~SealedAs(s) /\ ~SealedAs(call[c])
    BY <1>0, <2>1, <2>4 DEF Clocked, SealedAs, Fields
  <2> QED
    BY <2>1, <2>4, <2>5, NotSealed
<1>9. ASSUME NEW c \in Calls, BodyArrives(c) PROVE SealHeld'
  <2>1. /\ Known(c) /\ UNCHANGED now /\ DOMAIN call[c] = Fields /\ Clocked(call[c])
        /\ call[c].pc = "reading" /\ call[c].reply # "none"
    BY <1>0, <1>9 DEF BodyArrives, Known, Clocked
  <2>2. PICK r \in IF call[c].reply \in {"full", "malformed"} THEN {call[c].reply, "bare"}
                   ELSE {call[c].reply} :
          LET seals  == r = "full" /\ Generates(c)
              raises == r \in {"429", "error"} \/ (r = "malformed" /\ Generates(c))
          IN /\ IF seals THEN UpdateLastPot(c, call[c].ts) ELSE UNCHANGED seal
             /\ IF raises THEN Fails(c, IF r = "429" THEN "quota_exceeded" ELSE "error")
                ELSE call' = [call EXCEPT ![c].pc = "done", ![c].from = "server", ![c].out = "ok",
                                          ![c].end = now, ![c].reply = r]
    BY <1>9 DEF BodyArrives
  <2>3. /\ r = "full" => call[c].reply = "full"
        /\ r # "none"
    BY <2>1, <2>2
  <2>4. CASE r \in {"429", "error"} \/ (r = "malformed" /\ Generates(c))
    <3> DEFINE out == IF r = "429" THEN "quota_exceeded" ELSE "error"
               s   == [call[c] EXCEPT !.pc = "done", !.out = out]
    <3>1. call' = [call EXCEPT ![c] = s] /\ UNCHANGED seal
      BY <2>2, <2>4 DEF Fails
    <3>2. s.pc = "done" /\ s.out # "ok" /\ \A f \in Fields \ {"pc", "out"} : s[f] = call[c][f]
      BY <2>1 DEF Fields
    <3> HIDE DEF s
    <3>3. Clocked(s) /\ ~SealedAs(s) /\ ~SealedAs(call[c])
      BY <2>1, <3>2 DEF Clocked, SealedAs, Fields
    <3> QED
      BY <2>1, <3>1, <3>3, NotSealed
  <2>5. CASE ~(r \in {"429", "error"} \/ (r = "malformed" /\ Generates(c)))
    <3> DEFINE s == [call[c] EXCEPT !.pc = "done", !.from = "server", !.out = "ok", !.end = now,
                                    !.reply = r]
    <3>1. call' = [call EXCEPT ![c] = s]
      BY <2>2, <2>5
    <3>2. /\ s.pc = "done" /\ s.from = "server" /\ s.out = "ok" /\ s.end = now /\ s.reply = r
          /\ \A f \in {"at", "ts", "sentAs", "want"} : s[f] = call[c][f]
      BY <2>1 DEF Fields
    <3> HIDE DEF s
    <3>3. Clocked(s) /\ ~SealedAs(call[c])
      BY <1>0, <2>1, <2>3, <3>2 DEF Clocked, SealedAs
    <3>4. CASE r = "full" /\ Generates(c)
      <4>1. SealedAs(s) /\ UpdateLastPot(c, s.ts)
        BY <2>2, <3>2, <3>4 DEF SealedAs, Generates
      <4> QED
        BY <2>1, <3>1, <3>2, <3>3, <4>1, SetsSeal
    <3>5. CASE ~(r = "full" /\ Generates(c))
      <4>1. ~SealedAs(s) /\ UNCHANGED seal
        BY <2>2, <3>2, <3>5 DEF SealedAs, Generates
      <4> QED
        BY <2>1, <3>1, <3>3, <4>1, NotSealed
    <3> QED
      BY <3>4, <3>5
  <2> QED
    BY <2>4, <2>5
<1>10. ASSUME UNCHANGED <<call, seal>>, now' \in Nat, now <= now' PROVE SealHeld'
  BY <1>0, <1>10 DEF SealHeld, Holder, Known, Clocked, SealedAs
<1>11. Tick => UNCHANGED <<call, seal>> /\ now' \in Nat /\ now <= now'
  BY <1>0 DEF Tick
<1> QED
  BY <1>0, <1>1, <1>2, <1>3, <1>4, <1>5, <1>6, <1>7, <1>8, <1>9, <1>10, <1>11, MayBeWanted
  DEF Next, vars

(* The seal falls back only by calls that overlap: whatever proof of time  *)
(* was given out and is newer than the seal, its call and the one that     *)
(* holds the seal ran at the same time.                                    *)
THEOREM SealFallsByOverlap == Spec => []SealLagsByOverlap
<1>1. Init => IInv /\ SealHeld
  <2>1. Init => IInv
    BY DEF Init, New, IInv, CallsSound, ServedSound, Known
  <2>2. Init => SealHeld
    BY DEF Init, New, SealHeld, Known
  <2> QED
    BY <2>1, <2>2
<1>2. IInv /\ SealHeld /\ [Next]_vars => IInv' /\ SealHeld'
  BY StepKeeps, StepSeals
<1>3. SealHeld => SealLagsByOverlap
  <2> SUFFICES ASSUME SealHeld, NEW c \in Calls, Sealed(c), ~(seal.ts >= call[c].ts)
               PROVE  call[seal.by].at <= call[c].end /\ call[c].at <= call[seal.by].end
    BY DEF SealLagsByOverlap
  <2>1. Known(c) /\ SealedAs(call[c]) /\ Clocked(call[c])
    BY SealedIs DEF SealHeld
  <2>2. Holder /\ Clocked(call[seal.by]) /\ SealedAs(call[seal.by])
    BY <2>1 DEF SealHeld, Holder
  <2> QED
    BY <2>1, <2>2 DEF Holder, Clocked
<1> QED
  BY <1>1, <1>2, <1>3, PTL DEF Spec

----------------------------------------------------------------------------
(* The burst bucket.  S is the calls of one address that have passed, at   *)
(* the instants they asked, b the bucket.  Its window opens with a request *)
(* at b.resetAt - Minute.  What passes in it fits its quota, and with one  *)
(* to spare when the opener is left out; the same holds of a window that   *)
(* ended less than a minute before.                                        *)

Since(S, at, t)     == {c \in S : at[c] >= t}
Within(S, at, t, u) == {c \in S : at[c] >= t /\ at[c] <= u}
Burst(S, at, b) ==
  LET opened == b.resetAt - Minute
  IN /\ b.count \in Nat /\ b.resetAt \in Nat
     /\ b.count = 0 => b.resetAt = 0
     /\ Since(S, at, b.resetAt) = {}
     /\ Cardinality(Since(S, at, opened)) <= b.count
     /\ Cardinality(Since(S, at, opened)) <= PerMinute
     /\ Cardinality(Since(S, at, opened + 1)) < PerMinute
     /\ b.count > 0 => Cardinality(Since(S, at, opened + 1)) < b.count
     /\ \A t \in Int : t > opened - Minute /\ t <= opened =>
          Cardinality(Within(S, at, t, opened - 1)) < PerMinute
     /\ \A t \in Int : t <= opened - Minute =>
          Cardinality(Within(S, at, t, t + Minute - 1)) <= 2 * PerMinute - 1

LEMMA CountSubset ==
  ASSUME NEW T, IsFiniteSet(T), NEW S, S \subseteq T
  PROVE  IsFiniteSet(S) /\ Cardinality(S) \in Nat /\ Cardinality(S) <= Cardinality(T)
         /\ Cardinality(T) \in Nat
BY FS_Subset, FS_CardinalityType

(* Whatever passes within any minute.                                      *)
LEMMA BurstLimit ==
  ASSUME NEW S, IsFiniteSet(S), NEW at, \A c \in S : at[c] \in Nat, NEW b, Burst(S, at, b),
         NEW t \in Int
  PROVE  Cardinality(Within(S, at, t, t + Minute - 1)) <= 2 * PerMinute - 1
<1> DEFINE opened == b.resetAt - Minute
           W      == Within(S, at, t, t + Minute - 1)
<1>1. Minute \in Nat \ {0} /\ PerMinute \in Nat \ {0} /\ opened \in Int
  BY CallAssumption DEF Burst
<1>2. \A u \in Int : IsFiniteSet(Since(S, at, u)) /\ Cardinality(Since(S, at, u)) \in Nat
  BY CountSubset DEF Since
<1>3. \A u, v \in Int : IsFiniteSet(Within(S, at, u, v)) /\ Cardinality(Within(S, at, u, v)) \in Nat
  BY CountSubset DEF Within
<1>4. IsFiniteSet(W) /\ Cardinality(W) \in Nat
  BY CountSubset DEF Within
<1>5. CASE t > opened
  <2>1. W \subseteq Since(S, at, opened + 1)
    BY <1>1, <1>5 DEF Since, Within
  <2>2. Cardinality(W) <= Cardinality(Since(S, at, opened + 1))
    BY <1>1, <1>2, <2>1, CountSubset
  <2>3. Cardinality(Since(S, at, opened + 1)) < PerMinute
    BY DEF Burst
  <2> HIDE DEF W, opened
  <2> QED
    BY <1>1, <1>2, <1>4, <2>2, <2>3 DEF W
<1>6. CASE t <= opened /\ t > opened - Minute
  <2> DEFINE A == Within(S, at, t, opened - 1)
             B == Since(S, at, opened)
  <2>1. W \subseteq A \cup B
    BY <1>1, <1>6 DEF Since, Within
  <2>2. Cardinality(A) < PerMinute /\ Cardinality(B) <= PerMinute
    BY <1>6 DEF Burst
  <2>3. /\ IsFiniteSet(A) /\ Cardinality(A) \in Nat
        /\ IsFiniteSet(B) /\ Cardinality(B) \in Nat
    BY CountSubset DEF Within, Since
  <2> HIDE DEF A, B, W, opened
  <2>4. IsFiniteSet(A \cup B) /\ Cardinality(A \cup B) <= Cardinality(A) + Cardinality(B)
    <3>1. Cardinality(A \cap B) \in Nat
      BY <2>3, CountSubset
    <3>2. /\ IsFiniteSet(A \cup B)
          /\ Cardinality(A \cup B) = Cardinality(A) + Cardinality(B) - Cardinality(A \cap B)
      BY <2>3, FS_Union
    <3> QED
      BY <2>3, <3>1, <3>2
  <2>5. Cardinality(W) <= Cardinality(A \cup B) /\ Cardinality(A \cup B) \in Nat
    BY <2>1, <2>4, CountSubset
  <2>6. Cardinality(W) <= 2 * PerMinute - 1
    BY <1>1, <1>4, <2>2, <2>3, <2>4, <2>5
  <2> QED
    BY <2>6 DEF W
<1>7. CASE t <= opened - Minute
  BY <1>7 DEF Burst
<1> QED
  BY <1>1, <1>5, <1>6, <1>7

(* A request at the instant n is counted, in the open window or a new one, *)
(* and passes (x) or does not.                                             *)
LEMMA BurstCounts ==
  ASSUME NEW S, IsFiniteSet(S), NEW n \in Nat, NEW at, \A c \in S : at[c] \in Nat /\ at[c] <= n,
         NEW b, Burst(S, at, b), b.resetAt <= n + Minute,
         NEW d, d.count = (IF n >= b.resetAt THEN 1 ELSE b.count + 1),
         d.resetAt = (IF n >= b.resetAt THEN n + Minute ELSE b.resetAt),
         NEW x, x \notin S, NEW T, T = S \/ (T = S \cup {x} /\ d.count <= PerMinute),
         NEW g, \A c \in S : g[c] = at[c], g[x] = n
  PROVE  Burst(T, g, d) /\ d.resetAt <= n + Minute
<1>1. Minute \in Nat \ {0} /\ PerMinute \in Nat \ {0} /\ b.resetAt \in Nat /\ b.count \in Nat
  BY CallAssumption DEF Burst
<1>2. \A u \in Int : /\ IsFiniteSet(Since(S, at, u)) /\ Cardinality(Since(S, at, u)) \in Nat
                     /\ x \notin Since(S, at, u)
  BY CountSubset DEF Since
<1>3. \A u, v \in Int : IsFiniteSet(Within(S, at, u, v)) /\ Cardinality(Within(S, at, u, v)) \in Nat
  BY CountSubset DEF Within
<1>4. \A u \in Int : u > n => Since(T, g, u) = {}
  BY <1>1 DEF Since
<1>5. \A u \in Int : Since(T, g, u) = Since(S, at, u) \/
                     (Since(T, g, u) = Since(S, at, u) \cup {x} /\ u <= n /\ d.count <= PerMinute)
  BY DEF Since
<1>6. \A u, v \in Int : v < n => Within(T, g, u, v) = Within(S, at, u, v)
  BY DEF Within
<1>7. \A u \in Int : /\ Cardinality(Since(T, g, u)) \in Nat
                     /\ \/ Cardinality(Since(T, g, u)) = Cardinality(Since(S, at, u))
                        \/ /\ Cardinality(Since(T, g, u)) = Cardinality(Since(S, at, u)) + 1
                           /\ u <= n /\ d.count <= PerMinute
  <2> SUFFICES ASSUME NEW u \in Int, Since(T, g, u) = Since(S, at, u) \cup {x}
               PROVE  Cardinality(Since(T, g, u)) = Cardinality(Since(S, at, u)) + 1
    BY <1>2, <1>5
  <2> QED
    BY <1>2, FS_AddElement
<1>8. Cardinality({}) = 0
  BY FS_EmptySet
<1>9. CASE n < b.resetAt
  <2> DEFINE opened == b.resetAt - Minute
  <2>1. d.resetAt = b.resetAt /\ d.count = b.count + 1 /\ opened \in Int /\ opened <= n
        /\ b.count > 0
    BY <1>1, <1>9 DEF Burst
  <2>2. /\ Cardinality(Since(T, g, opened)) <= d.count
        /\ Cardinality(Since(T, g, opened)) <= PerMinute
    <3>1. /\ Cardinality(Since(S, at, opened)) <= b.count
          /\ Cardinality(Since(S, at, opened)) <= PerMinute
      BY DEF Burst
    <3> HIDE DEF opened
    <3> QED
      BY <1>1, <1>2, <1>7, <2>1, <3>1
  <2>3. /\ Cardinality(Since(T, g, opened + 1)) < PerMinute
        /\ Cardinality(Since(T, g, opened + 1)) < d.count
    <3>1. /\ Cardinality(Since(S, at, opened + 1)) < PerMinute
          /\ Cardinality(Since(S, at, opened + 1)) < b.count
      BY <2>1 DEF Burst
    <3>2. opened + 1 \in Int
      BY <2>1
    <3> HIDE DEF opened
    <3> QED
      BY <1>1, <1>2, <1>7, <2>1, <3>1, <3>2
  <2>4. Since(T, g, b.resetAt) = {}
    BY <1>1, <1>4, <1>9
  <2>5. \A t \in Int : Within(T, g, t, opened - 1) = Within(S, at, t, opened - 1)
    BY <1>6, <2>1
  <2>6. \A t \in Int : t <= opened - Minute =>
          Within(T, g, t, t + Minute - 1) = Within(S, at, t, t + Minute - 1)
    BY <1>1, <1>6, <2>1
  <2> QED
    BY <1>1, <2>1, <2>2, <2>3, <2>4, <2>5, <2>6 DEF Burst
<1>10. CASE n >= b.resetAt
  <2>1. d.resetAt = n + Minute /\ d.count = 1 /\ d.resetAt - Minute = n
    BY <1>1, <1>10
  <2>2. Since(S, at, n) = {}
    BY <1>1, <1>10 DEF Burst, Since
  <2>3. Cardinality(Since(T, g, n)) <= 1
    BY <1>7, <1>8, <2>2
  <2>4. Since(T, g, n + 1) = {} /\ Since(T, g, n + Minute) = {}
    BY <1>1, <1>4
  <2>5. ASSUME NEW t \in Int, t > n - Minute, t <= n
        PROVE  Cardinality(Within(T, g, t, n - 1)) < PerMinute
    <3> DEFINE late == Since(S, at, b.resetAt - Minute + 1)
    <3>1. Within(T, g, t, n - 1) = Within(S, at, t, n - 1)
      BY <1>6
    <3>2. Within(S, at, t, n - 1) \subseteq late
      BY <1>1, <1>10, <2>5 DEF Within, Since
    <3>3. Cardinality(late) < PerMinute
      BY DEF Burst
    <3>4. IsFiniteSet(late) /\ Cardinality(late) \in Nat
      BY <1>1, <1>2
    <3> HIDE DEF late
    <3>5. /\ Cardinality(Within(S, at, t, n - 1)) <= Cardinality(late)
          /\ Cardinality(Within(S, at, t, n - 1)) \in Nat
      BY <3>2, <3>4, CountSubset
    <3> QED
      BY <1>1, <3>1, <3>3, <3>4, <3>5
  <2>6. ASSUME NEW t \in Int, t <= n - Minute
        PROVE  Cardinality(Within(T, g, t, t + Minute - 1)) <= 2 * PerMinute - 1
    <3>1. Within(T, g, t, t + Minute - 1) = Within(S, at, t, t + Minute - 1)
      BY <1>1, <1>6, <2>6
    <3> QED
      BY <3>1, BurstLimit
  <2>7. /\ Cardinality(Since(T, g, n)) <= PerMinute
        /\ Cardinality(Since(T, g, n + 1)) < PerMinute /\ Cardinality(Since(T, g, n + 1)) < 1
    BY <1>1, <1>7, <1>8, <2>3, <2>4
  <2>8. Burst(T, g, d) <=>
          /\ 1 \in Nat /\ n + Minute \in Nat /\ (1 = 0 => n + Minute = 0)
          /\ Since(T, g, n + Minute) = {}
          /\ Cardinality(Since(T, g, n)) <= 1
          /\ Cardinality(Since(T, g, n)) <= PerMinute
          /\ Cardinality(Since(T, g, n + 1)) < PerMinute
          /\ 1 > 0 => Cardinality(Since(T, g, n + 1)) < 1
          /\ \A t \in Int : t > n - Minute /\ t <= n =>
               Cardinality(Within(T, g, t, n - 1)) < PerMinute
          /\ \A t \in Int : t <= n - Minute =>
               Cardinality(Within(T, g, t, t + Minute - 1)) <= 2 * PerMinute - 1
    BY <2>1, Zenon DEF Burst
  <2> QED
    BY <1>1, <2>1, <2>3, <2>4, <2>5, <2>6, <2>7, <2>8
<1> QED
  BY <1>1, <1>9, <1>10

----------------------------------------------------------------------------
(* The daily bucket: S is the free calls of one address.  The bucket is    *)
(* that of the last day D with a free request, and counts at least what    *)
(* passed on it.                                                           *)

On(S, at, e) == {c \in S : at[c] \div Day = e}
DayBucket(S, at, b, D) ==
  /\ b.resetAt = (D + 1) * Day /\ b.count \in 0 .. PerDay
  /\ Cardinality(On(S, at, D)) <= b.count
  /\ \A e \in Int : e > D => On(S, at, e) = {}
  /\ \A e \in Int : Cardinality(On(S, at, e)) <= PerDay
Daily(S, at, b, n) == \E D \in Int : D <= n \div Day /\ DayBucket(S, at, b, D)

LEMMA DayIs ==
  ASSUME NEW n \in Nat
  PROVE  /\ n \div Day \in Int
         /\ n >= (n \div Day) * Day /\ n < (n \div Day + 1) * Day
         /\ (n + 1) \div Day \in Int /\ n \div Day <= (n + 1) \div Day
<1>1. Day \in Nat \ {0}
  BY CallAssumption
<1> DEFINE a == n \div Day
           b == (n + 1) \div Day
<1>2. a \in Int /\ b \in Int
  BY <1>1
<1>3. n >= Day * a /\ n < Day * (a + 1) /\ n + 1 < Day * (b + 1)
  BY <1>1
<1>4. a > b => Day * a >= Day * (b + 1)
  BY <1>1, <1>2
<1> QED
  BY <1>1, <1>2, <1>3, <1>4

(* The bucket that a request at n finds is the one of n's day.             *)
LEMMA DayRolls ==
  ASSUME NEW S, NEW n \in Nat, NEW at, NEW b, Daily(S, at, b, n),
         NEW d, IF n >= b.resetAt THEN d.count = 0 /\ d.resetAt = (n \div Day + 1) * Day
                ELSE d = b
  PROVE  DayBucket(S, at, d, n \div Day)
<1> DEFINE today == n \div Day
<1>1. Day \in Nat \ {0} /\ PerDay \in Nat
  BY CallAssumption
<1>2. today \in Int /\ n >= today * Day /\ n < (today + 1) * Day
  BY DayIs
<1>3. PICK D \in Int : D <= today /\ DayBucket(S, at, b, D)
  BY DEF Daily
<1> HIDE DEF today
<1>4. CASE n < b.resetAt
  <2>1. D < today => (D + 1) * Day <= today * Day
    BY <1>1, <1>2, <1>3
  <2>2. b.resetAt = (D + 1) * Day
    BY <1>3 DEF DayBucket
  <2>3. (D + 1) * Day \in Int /\ today * Day \in Int
    BY <1>1, <1>2
  <2>4. D = today
    BY <1>2, <1>3, <1>4, <2>1, <2>2, <2>3
  <2>5. b.resetAt \in Int
    BY <2>2, <2>3
  <2> QED
    BY <1>3, <1>4, <2>4, <2>5 DEF today
<1>5. CASE n >= b.resetAt
  <2>1. today <= D => (today + 1) * Day <= (D + 1) * Day
    BY <1>1, <1>2, <1>3
  <2>2. b.resetAt = (D + 1) * Day
    BY <1>3 DEF DayBucket
  <2>3. (D + 1) * Day \in Int /\ (today + 1) * Day \in Int
    BY <1>1, <1>2
  <2>4. D < today
    BY <1>2, <1>3, <1>5, <2>1, <2>2, <2>3
  <2>5. On(S, at, today) = {} /\ \A e \in Int : e > today => On(S, at, e) = {}
    BY <1>2, <1>3, <2>4 DEF DayBucket
  <2>6. d.count = 0 /\ d.resetAt = (today + 1) * Day
    BY <1>5 DEF today
  <2>7. \A e \in Int : Cardinality(On(S, at, e)) <= PerDay
    BY <1>3 DEF DayBucket
  <2>8. DayBucket(S, at, d, today)
    BY <1>1, <2>5, <2>6, <2>7, FS_EmptySet DEF DayBucket
  <2> QED
    BY <2>8 DEF today
<1>6. b.resetAt \in Int
  BY <1>1, <1>3 DEF DayBucket
<1> QED
  BY <1>4, <1>5, <1>6

(* A free request at n that passes is counted on n's day.                  *)
LEMMA DayCounts ==
  ASSUME NEW S, IsFiniteSet(S), NEW n \in Nat, NEW at, NEW b, DayBucket(S, at, b, n \div Day),
         b.count < PerDay, NEW d, d.count = b.count + 1, d.resetAt = b.resetAt,
         NEW x, x \notin S, NEW g, \A c \in S : g[c] = at[c], g[x] = n
  PROVE  DayBucket(S \cup {x}, g, d, n \div Day)
<1> DEFINE today == n \div Day
           T     == S \cup {x}
<1>1. PerDay \in Nat /\ today \in Int /\ b.count \in 0 .. PerDay
  BY CallAssumption, DayIs DEF DayBucket
<1>2. \A e \in Int : e # today => On(T, g, e) = On(S, at, e)
  BY DEF On
<1>3. On(T, g, today) = On(S, at, today) \cup {x}
  BY DEF On
<1>4. IsFiniteSet(On(S, at, today)) /\ Cardinality(On(S, at, today)) \in Nat
  BY CountSubset DEF On
<1>5. x \notin On(S, at, today)
  BY DEF On
<1> HIDE DEF T
<1>6. Cardinality(On(T, g, today)) = Cardinality(On(S, at, today)) + 1
  BY <1>3, <1>4, <1>5, FS_AddElement
<1>7. Cardinality(On(S, at, today)) <= b.count
  BY DEF DayBucket
<1>8. \A e \in Int : e > today => On(T, g, e) = {}
  BY <1>1, <1>2 DEF DayBucket
<1>9. Cardinality(On(T, g, today)) <= d.count /\ d.count \in 0 .. PerDay /\ d.count <= PerDay
      /\ Cardinality(On(T, g, today)) \in Nat
  BY <1>1, <1>4, <1>6, <1>7
<1>10. \A e \in Int : Cardinality(On(T, g, e)) <= PerDay
  <2> SUFFICES ASSUME NEW e \in Int PROVE Cardinality(On(T, g, e)) <= PerDay
    OBVIOUS
  <2>1. CASE e = today
    BY <1>1, <1>9, <2>1
  <2>2. CASE e # today
    BY <1>2, <2>2 DEF DayBucket
  <2> QED
    BY <2>1, <2>2
<1> QED
  BY <1>8, <1>9, <1>10 DEF DayBucket, T

----------------------------------------------------------------------------
(* The buckets of every address against the calls it was let through with. *)

Buckets     == [count : Nat, resetAt : Nat]
Passed(i)   == {c \in Calls : Admitted(c) /\ call[c].want.ip = i}
FreeOnes(i) == {c \in Calls : Free(c) /\ call[c].want.ip = i}
Asked       == [c \in Calls |-> call[c].asked]

Limits ==
  /\ now \in Nat /\ minute \in [Ips -> Buckets] /\ day \in [Ips -> Buckets]
  /\ \A c \in Calls : /\ call[c].pc = "lookup" => call[c].want \in Wants /\ mode = "http"
                      /\ Known(c) => /\ call[c].asked \in 0 .. now
                                     /\ call[c].out = "429" => call[c].pc = "done"
  /\ \A i \in Ips : /\ Burst(Passed(i), Asked, minute[i])
                    /\ minute[i].resetAt <= now + Minute
                    /\ Daily(FreeOnes(i), Asked, day[i], now)

LEMMA SameInstants ==
  ASSUME NEW S, NEW f, NEW g, \A c \in S : g[c] = f[c], NEW b
  PROVE  /\ Burst(S, f, b) => Burst(S, g, b)
         /\ \A D : DayBucket(S, f, b, D) => DayBucket(S, g, b, D)
<1>1. \A t : Since(S, g, t) = Since(S, f, t)
  BY DEF Since
<1>2. \A t, u : Within(S, g, t, u) = Within(S, f, t, u)
  BY DEF Within
<1>3. \A e : On(S, g, e) = On(S, f, e)
  BY DEF On
<1>4. Burst(S, f, b) => Burst(S, g, b)
  BY <1>1, <1>2, Zenon DEF Burst
<1>5. \A D : DayBucket(S, f, b, D) => DayBucket(S, g, b, D)
  BY <1>3, Zenon DEF DayBucket
<1> QED
  BY <1>4, <1>5

(* A step that lets nobody in.                                             *)
LEMMA NobodyAdmitted ==
  ASSUME Limits, UNCHANGED <<mode, minute, day>>, now' = now \/ now' = now + 1,
         \A c \in Calls :
           /\ Admitted(c)' <=> Admitted(c)
           /\ Admitted(c) => /\ call'[c].want = call[c].want /\ call'[c].key = call[c].key
                             /\ call'[c].asked = call[c].asked
           /\ call'[c].pc = "lookup" => call'[c].want \in Wants /\ mode = "http"
           /\ Known(c)' => /\ call'[c].asked \in 0 .. now
                           /\ call'[c].out = "429" => call'[c].pc = "done"
  PROVE  Limits'
<1>1. now \in Nat /\ now' \in Nat /\ now <= now' /\ Minute \in Nat
  BY CallAssumption DEF Limits
<1>2. \A c \in Calls : /\ call'[c].pc = "lookup" => call'[c].want \in Wants /\ mode' = "http"
                       /\ Known(c)' => /\ call'[c].asked \in 0 .. now'
                                       /\ call'[c].out = "429" => call'[c].pc = "done"
  BY <1>1
<1>3. ASSUME NEW i \in Ips
      PROVE  /\ Burst(Passed(i), Asked, minute[i])'
             /\ minute'[i].resetAt <= now' + Minute
             /\ Daily(FreeOnes(i), Asked, day[i], now)'
  <2>1. Passed(i)' = Passed(i) /\ \A c \in Passed(i) : Asked'[c] = Asked[c]
    BY DEF Passed, Asked
  <2>2. FreeOnes(i)' = FreeOnes(i) /\ \A c \in FreeOnes(i) : Asked'[c] = Asked[c]
    BY DEF FreeOnes, Free, Asked
  <2>3. Burst(Passed(i), Asked', minute[i])
    BY <2>1, SameInstants DEF Limits
  <2>4. PICK D \in Int : D <= now \div Day /\ DayBucket(FreeOnes(i), Asked, day[i], D)
    BY DEF Limits, Daily
  <2>5. D <= now' \div Day
    BY <1>1, <2>4, DayIs
  <2>6. DayBucket(FreeOnes(i), Asked', day[i], D)
    BY <2>2, <2>4, SameInstants
  <2>7. minute[i].resetAt \in Nat /\ minute[i].resetAt <= now + Minute
    BY DEF Limits, Buckets
  <2>8. Daily(FreeOnes(i), Asked', day[i], now')
    BY <2>4, <2>5, <2>6 DEF Daily
  <2>9. Burst(Passed(i), Asked, minute[i])'
    BY <2>1, <2>3 DEF Burst, Since, Within
  <2>10. Daily(FreeOnes(i), Asked, day[i], now)'
    BY <2>2, <2>8 DEF Daily, DayBucket, On
  <2> QED
    BY <1>1, <2>7, <2>9, <2>10
<1> QED
  BY <1>1, <1>2, <1>3 DEF Limits, Ips, Buckets

(* checkRateLimit keeps the books of the address it is asked about.        *)
LEMMA LimitCounts ==
  ASSUME IInv, Limits, NEW c \in Calls, ~Known(c), NEW w \in Wants, NEW key,
         CheckRateLimit(c, w, key), UNCHANGED <<mode, now>>, mode = "http"
  PROVE  Limits'
<1> DEFINE ip      == w.ip
           b       == Bucket(minute[ip], MinuteEnd)
           m       == Counted(b)
           d       == Bucket(day[ip], NextMidnight)
           burst   == m.count > PerMinute
           counts  == ~burst /\ key = NoKey
           refused == burst \/ (counts /\ DayFull(d))
           s       == [pc |-> IF refused THEN "done" ELSE "body", want |-> w, key |-> key,
                       asked |-> now, at |-> 0, reply |-> "none", sentAs |-> NoKey,
                       from |-> "nowhere", end |-> 0, ts |-> -1,
                       out |-> IF refused THEN "429" ELSE "none"]
<1>1. /\ Minute \in Nat \ {0} /\ PerMinute \in Nat \ {0} /\ PerDay \in Nat \ {0} /\ Day \in Nat \ {0}
      /\ IsFiniteSet(Calls)
  BY CallAssumption
<1>2. /\ now \in Nat /\ minute \in [Ips -> Buckets] /\ day \in [Ips -> Buckets] /\ ip \in Ips
      /\ DOMAIN call = Calls
  BY DEF Limits, Ips, IInv, CallsSound
<1>3. /\ minute' = [minute EXCEPT ![ip] = m]
      /\ day' = IF ~counts THEN day
                ELSE [day EXCEPT ![ip] = IF DayFull(d) THEN d ELSE Counted(d)]
      /\ call' = [call EXCEPT ![c] = s]
  BY DEF CheckRateLimit
<1>4. /\ m \in Buckets
      /\ m.count = (IF now >= minute[ip].resetAt THEN 1 ELSE minute[ip].count + 1)
      /\ m.resetAt = (IF now >= minute[ip].resetAt THEN now + Minute ELSE minute[ip].resetAt)
  BY <1>1, <1>2 DEF Bucket, Counted, Buckets, MinuteEnd
<1>5. /\ d \in Buckets /\ Counted(d) \in Buckets
      /\ Counted(d).count = d.count + 1 /\ Counted(d).resetAt = d.resetAt
      /\ IF now >= day[ip].resetAt THEN d.count = 0 /\ d.resetAt = (now \div Day + 1) * Day
         ELSE d = day[ip]
  <2>1. (now \div Day + 1) * Day \in Nat
    <3>1. now < (now \div Day + 1) * Day /\ now \div Day \in Int
      BY <1>2, DayIs
    <3>2. (now \div Day + 1) * Day \in Int
      BY <1>1, <3>1
    <3> QED
      BY <1>2, <3>1, <3>2
  <2>2. d \in Buckets /\ IF now >= day[ip].resetAt
                         THEN d.count = 0 /\ d.resetAt = (now \div Day + 1) * Day
                         ELSE d = day[ip]
    BY <1>2, <2>1 DEF Bucket, Buckets, NextMidnight
  <2> HIDE DEF d
  <2> QED
    BY <2>2 DEF Counted, Buckets
<1>6. /\ call'[c] = s /\ \A e \in Calls \ {c} : call'[e] = call[e]
      /\ s.want = w /\ s.key = key /\ s.asked = now /\ s.pc \in {"done", "body"}
      /\ s.out # "429" <=> ~refused
      /\ s.out = "429" => s.pc = "done"
  BY <1>2, <1>3
<1> HIDE DEF s
<1>7. /\ \A e \in Calls \ {c} : (Admitted(e)' <=> Admitted(e)) /\ (Free(e)' <=> Free(e))
      /\ Admitted(c)' <=> ~refused
      /\ Free(c)' <=> ~refused /\ key = NoKey
      /\ ~Admitted(c) /\ ~Free(c)
      /\ Asked'[c] = now /\ \A e \in Calls \ {c} : Asked'[e] = Asked[e]
  <2>1. s.pc \notin {"new", "lookup", "forbidden"}
    BY <1>6
  <2> HIDE DEF refused
  <2> QED
    BY <1>6, <2>1 DEF Admitted, Free, Known, Asked
<1> HIDE DEF m, d
<1>8. \A e \in Calls : /\ call'[e].pc = "lookup" => call'[e].want \in Wants /\ mode' = "http"
                       /\ Known(e)' => /\ call'[e].asked \in 0 .. now'
                                       /\ call'[e].out = "429" => call'[e].pc = "done"
  BY <1>2, <1>6 DEF Limits, Known
<1>9. /\ minute' \in [Ips -> Buckets] /\ day' \in [Ips -> Buckets]
      /\ minute'[ip] = m /\ \A i \in Ips \ {ip} : minute'[i] = minute[i] /\ day'[i] = day[i]
      /\ day'[ip] = IF ~counts THEN day[ip] ELSE IF DayFull(d) THEN d ELSE Counted(d)
  BY <1>2, <1>3, <1>4, <1>5
<1>10. \A i \in Ips : /\ IsFiniteSet(Passed(i)) /\ c \notin Passed(i)
                      /\ IsFiniteSet(FreeOnes(i)) /\ c \notin FreeOnes(i)
                      /\ \A e \in Passed(i) \cup FreeOnes(i) :
                           Asked[e] \in Nat /\ Asked[e] <= now /\ Asked'[e] = Asked[e]
  <2> SUFFICES ASSUME NEW i \in Ips
               PROVE  /\ IsFiniteSet(Passed(i)) /\ c \notin Passed(i)
                      /\ IsFiniteSet(FreeOnes(i)) /\ c \notin FreeOnes(i)
                      /\ \A e \in Passed(i) \cup FreeOnes(i) :
                           Asked[e] \in Nat /\ Asked[e] <= now /\ Asked'[e] = Asked[e]
    OBVIOUS
  <2>1. Passed(i) \subseteq Calls \ {c} /\ FreeOnes(i) \subseteq Calls \ {c}
    BY <1>7 DEF Passed, FreeOnes
  <2>2. \A e \in Passed(i) \cup FreeOnes(i) : Known(e)
    BY DEF Passed, FreeOnes, Free, Admitted
  <2>3. \A e \in Passed(i) \cup FreeOnes(i) : Asked[e] \in Nat /\ Asked[e] <= now
    BY <1>2, <2>1, <2>2 DEF Limits, Asked
  <2>4. IsFiniteSet(Passed(i)) /\ IsFiniteSet(FreeOnes(i))
    BY <1>1, <2>1, FS_Subset
  <2> QED
    BY <1>7, <2>1, <2>3, <2>4
<1>11. \A i \in Ips \ {ip} : Passed(i)' = Passed(i) /\ FreeOnes(i)' = FreeOnes(i)
  BY <1>6, <1>7 DEF Passed, FreeOnes
<1>12. Passed(ip)' = IF refused THEN Passed(ip) ELSE Passed(ip) \cup {c}
  BY <1>6, <1>7 DEF Passed
<1>13. FreeOnes(ip)' = IF ~refused /\ key = NoKey THEN FreeOnes(ip) \cup {c} ELSE FreeOnes(ip)
  BY <1>6, <1>7 DEF FreeOnes
<1>14. ASSUME NEW i \in Ips
       PROVE  Burst(Passed(i)', Asked', minute'[i]) /\ minute'[i].resetAt <= now + Minute
  <2>1. Burst(Passed(i), Asked, minute[i]) /\ minute[i].resetAt <= now + Minute
    BY DEF Limits
  <2>2. CASE i # ip
    BY <1>9, <1>10, <1>11, <2>1, <2>2, SameInstants
  <2>3. CASE i = ip
    <3>1. Passed(ip)' = Passed(ip) \/ (Passed(ip)' = Passed(ip) \cup {c} /\ m.count <= PerMinute)
      BY <1>1, <1>4, <1>12 DEF Buckets
    <3> DEFINE S == Passed(ip)
               f == Asked
    <3>2. /\ IsFiniteSet(S) /\ c \notin S
          /\ \A e \in S : f[e] \in Nat /\ f[e] <= now
          /\ \A e \in S : Asked'[e] = f[e]
          /\ Asked'[c] = now
      BY <1>2, <1>7, <1>10
    <3>3. Burst(S, f, minute[ip]) /\ minute[ip].resetAt <= now + Minute
      BY <2>1, <2>3
    <3>4. Passed(ip)' = S \/ (Passed(ip)' = S \cup {c} /\ m.count <= PerMinute)
      BY <3>1
    <3>5. minute'[i] = m /\ now \in Nat /\ i = ip
      BY <1>2, <1>9, <2>3
    <3> HIDE DEF S, f, ip
    <3>6. Burst(Passed(ip)', Asked', m) /\ m.resetAt <= now + Minute
      BY <1>4, <3>2, <3>3, <3>4, <3>5, BurstCounts
    <3> QED
      BY <3>5, <3>6
  <2> QED
    BY <2>2, <2>3
<1>15. ASSUME NEW i \in Ips
       PROVE  Daily(FreeOnes(i)', Asked', day'[i], now)
  <2>1. Daily(FreeOnes(i), Asked, day[i], now)
    BY DEF Limits
  <2>2. CASE day'[i] = day[i] /\ FreeOnes(i)' = FreeOnes(i)
    BY <1>10, <2>1, <2>2, SameInstants DEF Daily
  <2>3. CASE i = ip /\ counts
    <3>1. DayBucket(FreeOnes(ip), Asked, d, now \div Day)
      BY <1>2, <1>5, <2>1, <2>3, DayRolls
    <3>2. now \div Day \in Int
      BY <1>2, DayIs
    <3>3. CASE DayFull(d)
      <4>1. FreeOnes(ip)' = FreeOnes(ip) /\ day'[ip] = d
        BY <1>9, <1>13, <2>3, <3>3
      <4>2. DayBucket(FreeOnes(ip), Asked', d, now \div Day)
        BY <1>2, <1>10, <3>1, SameInstants
      <4> QED
        BY <2>3, <3>2, <4>1, <4>2 DEF Daily
    <3>4. CASE ~DayFull(d)
      <4>1. FreeOnes(ip)' = FreeOnes(ip) \cup {c} /\ day'[ip] = Counted(d)
        BY <1>9, <1>13, <2>3, <3>4
      <4>2. d.count < PerDay
        BY <1>1, <1>5, <3>4 DEF DayFull, Buckets
      <4>3. DayBucket(FreeOnes(ip) \cup {c}, Asked', Counted(d), now \div Day)
        BY <1>2, <1>5, <1>7, <1>10, <3>1, <4>2, DayCounts
      <4> QED
        BY <2>3, <3>2, <4>1, <4>3 DEF Daily
    <3> QED
      BY <3>3, <3>4
  <2> QED
    BY <1>9, <1>11, <1>13, <2>2, <2>3
<1>16. ASSUME NEW i \in Ips
       PROVE  /\ Burst(Passed(i), Asked, minute[i])'
              /\ Daily(FreeOnes(i), Asked, day[i], now)'
  BY <1>14, <1>15 DEF Burst, Since, Within, Daily, DayBucket, On
<1> QED
  BY <1>2, <1>8, <1>9, <1>14, <1>16 DEF Limits, Ips, Buckets

(* A call moves that is not, or was already, let through.                  *)
LEMMA MovesOn ==
  ASSUME IInv, Limits, NEW c \in Calls, NEW s, call' = [call EXCEPT ![c] = s],
         UNCHANGED <<mode, now, minute, day>>,
         \/ /\ Known(c) /\ s.pc \notin {"new", "lookup", "forbidden"}
            /\ s.want = call[c].want /\ s.key = call[c].key /\ s.asked = call[c].asked
            /\ s.out = "429" <=> call[c].out = "429"
            /\ s.out = "429" => s.pc = "done"
         \/ ~Known(c) /\ s.pc = "forbidden"
         \/ ~Known(c) /\ s.pc = "lookup" /\ s.want \in Wants /\ mode = "http"
         \/ ~Known(c) /\ mode = "stdio" /\ s.pc = "tool" /\ s.asked = now /\ s.out # "429"
  PROVE  Limits'
<1>1. DOMAIN call = Calls /\ call'[c] = s /\ \A d \in Calls \ {c} : call'[d] = call[d]
  BY DEF IInv, CallsSound
<1>2. /\ now \in Nat
      /\ \A d \in Calls : /\ call[d].pc = "lookup" => call[d].want \in Wants /\ mode = "http"
                          /\ Known(d) => /\ call[d].asked \in 0 .. now
                                         /\ call[d].out = "429" => call[d].pc = "done"
  BY DEF Limits
<1>3. ASSUME NEW d \in Calls
      PROVE  /\ Admitted(d)' <=> Admitted(d)
             /\ Admitted(d) => /\ call'[d].want = call[d].want /\ call'[d].key = call[d].key
                               /\ call'[d].asked = call[d].asked
             /\ call'[d].pc = "lookup" => call'[d].want \in Wants /\ mode = "http"
             /\ Known(d)' => /\ call'[d].asked \in 0 .. now
                             /\ call'[d].out = "429" => call'[d].pc = "done"
  <2>1. CASE d # c
    BY <1>1, <1>2, <2>1 DEF Admitted, Known
  <2>2. CASE d = c
    BY <1>1, <1>2, <2>2 DEF Admitted, Known
  <2> QED
    BY <2>1, <2>2
<1> QED
  BY <1>3, NobodyAdmitted

LEMMA StepLimits ==
  ASSUME IInv, Limits, [Next]_vars
  PROVE  Limits'
<1>0. \A c \in Calls : Known(c) => DOMAIN call[c] = Fields
  BY KnownIs
<1>1. ASSUME NEW c \in Calls, NEW w \in Wants, Arrive(c, w) PROVE Limits'
  <2>1. ~Known(c) /\ UNCHANGED <<mode, now>> /\ mode = "http"
    BY <1>1 DEF Arrive, Known, New
  <2>2. CASE w.key = NoKey
    BY <1>1, <2>1, <2>2, LimitCounts DEF Arrive
  <2>3. CASE w.key # NoKey
    <3>1. call' = [call EXCEPT ![c] = [pc |-> "lookup", want |-> w]] /\ UNCHANGED <<minute, day>>
      BY <1>1, <2>3 DEF Arrive
    <3> QED
      BY <2>1, <3>1, MovesOn
  <2> QED
    BY <2>2, <2>3
<1>2. ASSUME NEW c \in Calls, NEW w \in Wants, StdioCall(c, w) PROVE Limits'
  <2> DEFINE s == [pc |-> "tool", want |-> w, key |-> NoKey, asked |-> now, at |-> 0,
                   reply |-> "none", sentAs |-> NoKey, from |-> "nowhere", end |-> 0,
                   ts |-> -1, out |-> "none"]
  <2>1. /\ call' = [call EXCEPT ![c] = s] /\ ~Known(c) /\ mode = "stdio"
        /\ UNCHANGED <<mode, now, minute, day>>
    BY <1>2 DEF StdioCall, Known, New
  <2>2. s.pc = "tool" /\ s.asked = now /\ s.out # "429"
    OBVIOUS
  <2> HIDE DEF s
  <2> QED
    BY <2>1, <2>2, MovesOn
<1>3. ASSUME NEW c \in Calls, KeyFound(c) PROVE Limits'
  <2>1. /\ ~Known(c) /\ UNCHANGED <<mode, now>> /\ mode = "http" /\ call[c].want \in Wants
        /\ CheckRateLimit(c, call[c].want, call[c].want.key)
    BY <1>3 DEF KeyFound, Known, Limits
  <2> QED
    BY <2>1, LimitCounts
<1>4. ASSUME NEW c \in Calls, KeyRefused(c) PROVE Limits'
  <2>1. ~Known(c) /\ UNCHANGED <<mode, now, minute, day>>
        /\ call' = [call EXCEPT ![c] = [pc |-> "forbidden", want |-> call[c].want]]
    BY <1>4 DEF KeyRefused, Known
  <2> QED
    BY <2>1, MovesOn
<1>5. ASSUME NEW c \in Calls, Known(c), call[c].pc # "done", UNCHANGED <<mode, now, minute, day>>,
             NEW s, call' = [call EXCEPT ![c] = s], s.pc \notin {"new", "lookup", "forbidden"},
             s.out # "429" \/ s.out = call[c].out,
             \A f \in {"want", "key", "asked"} : s[f] = call[c][f]
      PROVE  Limits'
  <2>1. call[c].out # "429"
    BY <1>5 DEF Limits
  <2>2. /\ s.want = call[c].want /\ s.key = call[c].key /\ s.asked = call[c].asked
        /\ s.out # "429"
    BY <1>5, <2>1
  <2> QED
    BY <1>5, <2>1, <2>2, MovesOn
<1>6. ASSUME NEW c \in Calls, NEW out, Fails(c, out), out # "429", Known(c), call[c].pc # "done",
             UNCHANGED <<mode, now, minute, day>>
      PROVE  Limits'
  <2> DEFINE s == [call[c] EXCEPT !.pc = "done", !.out = out]
  <2>1. /\ call' = [call EXCEPT ![c] = s] /\ s.pc = "done" /\ s.out = out
        /\ \A f \in {"want", "key", "asked"} : s[f] = call[c][f]
    BY <1>0, <1>6 DEF Fails, Fields
  <2> HIDE DEF s
  <2> QED
    BY <1>5, <1>6, <2>1
<1>7. ASSUME NEW c \in Calls, NEW pc \in {"tool", "reading"}, Goes(c, pc), Known(c),
             call[c].pc # "done", UNCHANGED <<mode, now, minute, day>>
      PROVE  Limits'
  <2> DEFINE s == [call[c] EXCEPT !.pc = pc]
  <2>1. /\ call' = [call EXCEPT ![c] = s] /\ s.pc = pc /\ s.out = call[c].out
        /\ \A f \in {"want", "key", "asked"} : s[f] = call[c][f]
    BY <1>0, <1>7 DEF Goes, Fields
  <2> HIDE DEF s
  <2> QED
    BY <1>5, <1>7, <2>1
<1>8. ASSUME NEW c \in Calls, BodyFails(c) \/ BodyRead(c) \/ HeadersArrive(c) \/ FetchFails(c)
      PROVE  Limits'
  <2>1. Known(c) /\ call[c].pc # "done" /\ UNCHANGED <<mode, now, minute, day>>
    BY <1>8 DEF BodyFails, BodyRead, HeadersArrive, FetchFails, Known
  <2> QED
    BY <1>6, <1>7, <1>8, <2>1 DEF BodyFails, BodyRead, HeadersArrive, FetchFails
<1>9. ASSUME NEW c \in Calls, StartTool(c) PROVE Limits'
  <2>1. Known(c) /\ call[c].pc # "done" /\ UNCHANGED <<mode, now, minute, day>>
        /\ DOMAIN call[c] = Fields
    BY <1>0, <1>9 DEF StartTool, Known
  <2>2. CASE call' = [call EXCEPT ![c].pc = "delegating", ![c].at = now, ![c].sentAs = PaidApiKey(c)]
    <3> DEFINE s == [call[c] EXCEPT !.pc = "delegating", !.at = now, !.sentAs = PaidApiKey(c)]
    <3>1. /\ call' = [call EXCEPT ![c] = s] /\ s.pc = "delegating" /\ s.out = call[c].out
          /\ \A f \in {"want", "key", "asked"} : s[f] = call[c][f]
      BY <2>1, <2>2 DEF Fields
    <3> HIDE DEF s
    <3> QED
      BY <1>5, <2>1, <3>1
  <2>3. CASE call' = [call EXCEPT ![c].pc = "synth", ![c].at = now]
    <3> DEFINE s == [call[c] EXCEPT !.pc = "synth", !.at = now]
    <3>1. /\ call' = [call EXCEPT ![c] = s] /\ s.pc = "synth" /\ s.out = call[c].out
          /\ \A f \in {"want", "key", "asked"} : s[f] = call[c][f]
      BY <2>1, <2>3 DEF Fields
    <3> HIDE DEF s
    <3> QED
      BY <1>5, <2>1, <3>1
  <2>4. CASE Ends(c, "local", "ok")
    <3> DEFINE s == [call[c] EXCEPT !.pc = "done", !.from = "local", !.out = "ok", !.end = now]
    <3>1. /\ call' = [call EXCEPT ![c] = s] /\ s.pc = "done" /\ s.out = "ok"
          /\ \A f \in {"want", "key", "asked"} : s[f] = call[c][f]
      BY <2>1, <2>4 DEF Fields, Ends
    <3> HIDE DEF s
    <3> QED
      BY <1>5, <2>1, <3>1
  <2> QED
    BY <1>9, <2>2, <2>3, <2>4 DEF StartTool
<1>10. ASSUME NEW c \in Calls, Synthesized(c) PROVE Limits'
  <2>1. Known(c) /\ call[c].pc # "done" /\ UNCHANGED <<mode, now, minute, day>>
        /\ DOMAIN call[c] = Fields
    BY <1>0, <1>10 DEF Synthesized, Known
  <2>2. PICK ts : call' = [call EXCEPT ![c].pc = "done", ![c].from = "local", ![c].out = "ok",
                                       ![c].end = now, ![c].ts = ts]
    BY <1>10 DEF Synthesized
  <2> DEFINE s == [call[c] EXCEPT !.pc = "done", !.from = "local", !.out = "ok", !.end = now,
                                  !.ts = ts]
  <2>3. /\ call' = [call EXCEPT ![c] = s] /\ s.pc = "done" /\ s.out = "ok"
        /\ \A f \in {"want", "key", "asked"} : s[f] = call[c][f]
    BY <2>1, <2>2 DEF Fields
  <2> HIDE DEF s
  <2> QED
    BY <1>5, <2>1, <2>3
<1>11. ASSUME NEW c \in Calls, ServerServes(c) PROVE Limits'
  <2>1. Known(c) /\ UNCHANGED <<mode, now, minute, day>> /\ DOMAIN call[c] = Fields
    BY <1>0, <1>11 DEF ServerServes, Known
  <2> DEFINE Replies(s) == /\ call' = [call EXCEPT ![c] = s]
                           /\ \A f \in {"pc", "out", "want", "key", "asked"} : s[f] = call[c][f]
  <2>2. ASSUME NEW r, call' = [call EXCEPT ![c].reply = r] PROVE \E s : Replies(s)
    <3>1. Replies([call[c] EXCEPT !.reply = r])
      BY <2>1, <2>2 DEF Fields
    <3> QED
      BY <3>1
  <2>3. ASSUME NEW r, call' = [call EXCEPT ![c].reply = r, ![c].ts = now] PROVE \E s : Replies(s)
    <3>1. Replies([call[c] EXCEPT !.reply = r, !.ts = now])
      BY <2>1, <2>3 DEF Fields
    <3> QED
      BY <3>1
  <2>4. PICK s : Replies(s)
    BY <1>11, <2>2, <2>3 DEF ServerServes
  <2>5. /\ s.pc = call[c].pc /\ s.out = call[c].out /\ s.want = call[c].want
        /\ s.key = call[c].key /\ s.asked = call[c].asked
        /\ call[c].out = "429" => call[c].pc = "done"
    BY <2>1, <2>4 DEF Limits
  <2> QED
    BY <2>1, <2>4, <2>5, MovesOn DEF Known
<1>12. ASSUME NEW c \in Calls, BodyArrives(c) PROVE Limits'
  <2>1. Known(c) /\ call[c].pc # "done" /\ UNCHANGED <<mode, now, minute, day>>
        /\ DOMAIN call[c] = Fields
    BY <1>0, <1>12 DEF BodyArrives, Known
  <2>2. \/ \E out \in {"quota_exceeded", "error"} : Fails(c, out)
        \/ \E r : call' = [call EXCEPT ![c].pc = "done", ![c].from = "server", ![c].out = "ok",
                                       ![c].end = now, ![c].reply = r]
    BY <1>12 DEF BodyArrives
  <2>3. ASSUME NEW r, call' = [call EXCEPT ![c].pc = "done", ![c].from = "server", ![c].out = "ok",
                                           ![c].end = now, ![c].reply = r]
        PROVE  Limits'
    <3> DEFINE s == [call[c] EXCEPT !.pc = "done", !.from = "server", !.out = "ok", !.end = now,
                                    !.reply = r]
    <3>1. /\ call' = [call EXCEPT ![c] = s] /\ s.pc = "done" /\ s.out = "ok"
          /\ \A f \in {"want", "key", "asked"} : s[f] = call[c][f]
      BY <2>1, <2>3 DEF Fields
    <3> HIDE DEF s
    <3> QED
      BY <1>5, <2>1, <3>1
  <2> QED
    BY <1>6, <2>1, <2>2, <2>3
<1>13. ASSUME UNCHANGED <<mode, call, minute, day>>, now' = now \/ now' = now + 1 PROVE Limits'
  <2>1. \A c \in Calls :
          /\ Admitted(c)' <=> Admitted(c)
          /\ call'[c] = call[c]
          /\ call'[c].pc = "lookup" => call'[c].want \in Wants /\ mode = "http"
          /\ Known(c)' => /\ call'[c].asked \in 0 .. now
                          /\ call'[c].out = "429" => call'[c].pc = "done"
    BY <1>13 DEF Limits, Admitted, Known
  <2> QED
    BY <1>13, <2>1, NobodyAdmitted
<1> QED
  BY <1>1, <1>2, <1>3, <1>4, <1>8, <1>9, <1>10, <1>11, <1>12, <1>13, MayBeWanted
  DEF Next, Tick, vars

LEMMA LimitsHold == Spec => [](IInv /\ Limits)
<1>1. Init => IInv /\ Limits
  <2> SUFFICES ASSUME Init PROVE IInv /\ Limits
    OBVIOUS
  <2>1. IInv
    BY DEF Init, New, IInv, CallsSound, ServedSound, Known
  <2>2. /\ Minute \in Nat \ {0} /\ Day \in Nat \ {0} /\ PerMinute \in Nat \ {0}
        /\ PerDay \in Nat \ {0}
    BY CallAssumption
  <2>3. \A c \in Calls : call[c].pc = "new" /\ ~Known(c) /\ ~Admitted(c)
    BY DEF Init, New, Known, Admitted
  <2>4. ASSUME NEW i \in Ips
        PROVE  /\ Passed(i) = {} /\ FreeOnes(i) = {}
               /\ minute[i] \in Buckets /\ minute[i].count = 0 /\ minute[i].resetAt = 0
               /\ day[i] \in Buckets /\ day[i].count = 0 /\ day[i].resetAt = 0
    BY <2>3, <2>4 DEF Init, Passed, FreeOnes, Free, Buckets
  <2>5. /\ \A t : Since({}, Asked, t) = {}
        /\ \A t, u : Within({}, Asked, t, u) = {}
        /\ \A e : On({}, Asked, e) = {}
    BY DEF Since, Within, On
  <2>6. Cardinality({}) = 0
    BY FS_EmptySet
  <2>7. ASSUME NEW i \in Ips PROVE Burst(Passed(i), Asked, minute[i])
    <3>1. /\ Passed(i) = {} /\ minute[i].count = 0 /\ minute[i].resetAt = 0
      BY <2>4
    <3> DEFINE b == minute[i]
    <3> HIDE DEF b
    <3>2. b.count = 0 /\ b.resetAt = 0
      BY <3>1 DEF b
    <3>3. Cardinality(Since({}, Asked, b.resetAt - Minute)) = 0
          /\ Cardinality(Since({}, Asked, b.resetAt - Minute + 1)) = 0
          /\ \A t, u : Cardinality(Within({}, Asked, t, u)) = 0
      BY <2>5, <2>6
    <3>4. 0 <= 2 * PerMinute - 1
      BY <2>2
    <3>5. Burst({}, Asked, b)
      BY <2>2, <2>5, <3>2, <3>3, <3>4 DEF Burst
    <3> QED
      BY <3>1, <3>5 DEF b
  <2>8. ASSUME NEW i \in Ips PROVE Daily(FreeOnes(i), Asked, day[i], now)
    <3>1. now = 0 /\ 0 < (0 \div Day + 1) * Day /\ 0 \div Day \in Int
      BY DayIs DEF Init
    <3>2. -1 <= 0 \div Day
      <4>1. 0 \div Day + 1 <= 0 => (0 \div Day + 1) * Day <= 0
        BY <2>2, <3>1
      <4>2. (0 \div Day + 1) * Day \in Int
        BY <2>2, <3>1
      <4> QED
        BY <3>1, <4>1, <4>2
    <3>3. DayBucket(FreeOnes(i), Asked, day[i], -1)
      <4>1. FreeOnes(i) = {} /\ day[i].count = 0 /\ day[i].resetAt = 0
        BY <2>4
      <4>2. /\ (-1 + 1) * Day = 0
            /\ \A e : Cardinality(On({}, Asked, e)) = 0
            /\ 0 \in 0 .. PerDay /\ 0 <= PerDay
        BY <2>2, <2>5, <2>6
      <4>3. /\ day[i].resetAt = (-1 + 1) * Day /\ day[i].count \in 0 .. PerDay
            /\ Cardinality(On(FreeOnes(i), Asked, -1)) <= day[i].count
            /\ \A e \in Int : On(FreeOnes(i), Asked, e) = {}
            /\ \A e \in Int : Cardinality(On(FreeOnes(i), Asked, e)) <= PerDay
        BY <2>5, <4>1, <4>2
      <4> QED
        BY <4>3 DEF DayBucket
    <3> QED
      BY <3>1, <3>2, <3>3 DEF Daily
  <2>9. now \in Nat /\ minute \in [Ips -> Buckets] /\ day \in [Ips -> Buckets]
        /\ \A i \in Ips : minute[i].resetAt <= now + Minute
    BY <2>2, <2>4 DEF Init, Buckets
  <2> QED
    BY <2>1, <2>3, <2>7, <2>8, <2>9 DEF Limits
<1>2. IInv /\ Limits /\ [Next]_vars => IInv' /\ Limits'
  BY StepKeeps, StepLimits
<1> QED
  BY <1>1, <1>2, PTL DEF Spec

(* An address is given at most its daily limit of free calls in a day, and *)
(* at most one less than two burst limits within any minute, wherever the  *)
(* minute lies, however the key lookups of its calls overtake each other.  *)
(* This bound is the one the code keeps; the one limit that auth.ts:12     *)
(* speaks of (RollingMinute) it does not.                                  *)
THEOREM QuotasHold == Spec => []AdmittedWithinLimits
<1>1. Limits => AdmittedWithinLimits
  <2> SUFFICES ASSUME Limits PROVE AdmittedWithinLimits
    OBVIOUS
  <2>1. ASSUME NEW i \in Ips, NEW d \in 0 .. MaxTime \div Day
        PROVE  Cardinality(FreeOn(i, d)) <= PerDay
    <3>1. On(FreeOnes(i), Asked, d) = FreeOn(i, d)
      BY DEF On, FreeOnes, Asked, FreeOn
    <3>2. Cardinality(On(FreeOnes(i), Asked, d)) <= PerDay
      <4>1. d \in Int
        BY CallAssumption, DayIs
      <4> QED
        BY <4>1 DEF Limits, Daily, DayBucket
    <3> QED
      BY <3>1, <3>2
  <2>2. ASSUME NEW i \in Ips, NEW t \in 0 .. MaxTime
        PROVE  Cardinality(InMinute(i, t)) <= 2 * PerMinute - 1
    <3>1. IsFiniteSet(Passed(i)) /\ Minute \in Nat /\ t \in Int
      BY CallAssumption, FS_Subset DEF Passed
    <3>2. \A c \in Passed(i) : Asked[c] \in Nat /\ Asked[c] = call[c].asked
      BY DEF Passed, Admitted, Limits, Asked
    <3>3. Cardinality(Within(Passed(i), Asked, t, t + Minute - 1)) <= 2 * PerMinute - 1
      BY <3>1, <3>2, BurstLimit DEF Limits
    <3>4. Within(Passed(i), Asked, t, t + Minute - 1) = InMinute(i, t)
      BY <3>1, <3>2 DEF Within, Passed, InMinute
    <3> QED
      BY <3>3, <3>4
  <2> QED
    BY <2>1, <2>2 DEF AdmittedWithinLimits
<1> QED
  BY <1>1, LimitsHold, PTL

----------------------------------------------------------------------------
(* A burst bucket counts calls that were resolved, each of them once.      *)
Places    == {"new", "lookup", "forbidden", "body", "tool", "synth", "delegating", "reading",
              "done"}
KnownOnes == {c \in Calls : Known(c)}
Typed ==
  /\ mode \in {"http", "stdio"} /\ now \in 0 .. MaxTime
  /\ \A i \in Ips : minute[i].count <= Cardinality(KnownOnes)
  /\ quota \in [Keys -> 0 .. Quota]
  /\ \A c \in Calls : call[c].pc \in Places

LEMMA KnownCount ==
  IsFiniteSet(KnownOnes) /\ Cardinality(KnownOnes) \in Nat
  /\ Cardinality(KnownOnes) <= Cardinality(Calls) /\ Cardinality(Calls) \in Nat
BY CountSubset, CallAssumption DEF KnownOnes

(* A call moves, and a resolved one stays resolved.                        *)
LEMMA CallTyped ==
  ASSUME Limits, Typed, NEW c \in Calls, \A d \in Calls \ {c} : call'[d] = call[d],
         call'[c].pc \in Places, Known(c) => Known(c)',
         UNCHANGED <<mode, now, minute>>, quota' \in [Keys -> 0 .. Quota]
  PROVE  Typed'
<1>1. KnownOnes \subseteq KnownOnes' /\ KnownOnes' \subseteq Calls
  BY DEF KnownOnes, Known
<1>2. IsFiniteSet(KnownOnes')
  BY <1>1, FS_Subset, CallAssumption
<1>3. /\ Cardinality(KnownOnes) <= Cardinality(KnownOnes') /\ Cardinality(KnownOnes') \in Nat
      /\ Cardinality(KnownOnes) \in Nat
  BY <1>1, <1>2, CountSubset
<1>4. ASSUME NEW i \in Ips PROVE minute'[i].count <= Cardinality(KnownOnes')
  <2>1. minute[i].count \in Nat /\ minute'[i] = minute[i]
    BY DEF Limits, Buckets
  <2> QED
    BY <1>3, <2>1 DEF Typed
<1>5. \A d \in Calls : call'[d].pc \in Places
  BY DEF Typed
<1> QED
  BY <1>4, <1>5 DEF Typed

LEMMA LimitTyped ==
  ASSUME IInv, Limits, Typed, NEW c \in Calls, ~Known(c), NEW w, CheckRateLimit(c, w, w.key),
         UNCHANGED <<mode, now, quota>>
  PROVE  Typed'
<1> DEFINE m == Counted(Bucket(minute[w.ip], MinuteEnd))
<1>1. /\ minute' = [minute EXCEPT ![w.ip] = m] /\ DOMAIN call = Calls
      /\ \A d \in Calls \ {c} : call'[d] = call[d]
      /\ call'[c].pc \in {"done", "body"}
  BY DEF CheckRateLimit, IInv, CallsSound
<1>2. KnownOnes' = KnownOnes \cup {c} /\ c \notin KnownOnes
  BY <1>1 DEF KnownOnes, Known
<1>3. /\ Cardinality(KnownOnes') = Cardinality(KnownOnes) + 1 /\ Cardinality(KnownOnes) \in Nat
  BY <1>2, KnownCount, FS_AddElement
<1>4. ASSUME NEW i \in Ips PROVE minute'[i].count <= Cardinality(KnownOnes')
  <2>1. minute \in [Ips -> Buckets] /\ minute[i] \in Buckets
    BY DEF Limits
  <2>2. CASE i # w.ip
    BY <1>1, <1>3, <2>1, <2>2 DEF Typed, Buckets
  <2>3. CASE i = w.ip
    <3>1. minute'[i] = m
      BY <1>1, <2>1, <2>3
    <3>2. m.count = 1 \/ m.count = minute[i].count + 1
      BY <2>1, <2>3 DEF Counted, Bucket, Buckets
    <3> QED
      BY <1>3, <2>1, <3>1, <3>2 DEF Typed, Buckets
  <2> QED
    BY <2>2, <2>3
<1>5. \A d \in Calls : call'[d].pc \in Places
  BY <1>1 DEF Typed, Places
<1> QED
  BY <1>4, <1>5 DEF Typed

LEMMA StepTyped ==
  ASSUME IInv, Limits, Typed, [Next]_vars
  PROVE  Typed'
<1>1. /\ DOMAIN call = Calls /\ quota \in [Keys -> 0 .. Quota]
      /\ \A c \in Calls : Known(c) => DOMAIN call[c] = Fields
  BY KnownIs DEF IInv, CallsSound, Typed
<1>2. ASSUME NEW c \in Calls, NEW w \in Wants, Arrive(c, w) PROVE Typed'
  <2>1. ~Known(c) /\ UNCHANGED <<mode, now, quota>>
    BY <1>2 DEF Arrive, Known, New
  <2>2. CASE w.key = NoKey
    BY <1>2, <2>1, <2>2, LimitTyped DEF Arrive
  <2>3. CASE w.key # NoKey
    <3>1. /\ \A d \in Calls \ {c} : call'[d] = call[d]
          /\ UNCHANGED minute
      BY <1>1, <1>2, <2>3 DEF Arrive, Places
    <3>2. call'[c].pc \in Places
      BY <1>1, <1>2, <2>3 DEF Arrive, Places
    <3> QED
      BY <1>1, <2>1, <3>1, <3>2, CallTyped
  <2> QED
    BY <2>2, <2>3
<1>3. ASSUME NEW c \in Calls, KeyFound(c) PROVE Typed'
  <2>1. ~Known(c) /\ UNCHANGED <<mode, now, quota>>
    BY <1>3 DEF KeyFound, Known
  <2> QED
    BY <1>3, <2>1, LimitTyped DEF KeyFound
<1>4. ASSUME NEW c \in Calls, \/ \E w \in Wants : StdioCall(c, w)
                              \/ KeyRefused(c)
      PROVE  Typed'
  <2>1. /\ ~Known(c) /\ UNCHANGED <<mode, now, minute, quota>>
        /\ \A d \in Calls \ {c} : call'[d] = call[d]
        /\ call'[c].pc \in Places
    BY <1>1, <1>4 DEF StdioCall, KeyRefused, Known, New, Places
  <2> QED
    BY <1>1, <2>1, CallTyped
<1>5. ASSUME NEW c \in Calls, \/ BodyFails(c) \/ BodyRead(c) \/ HeadersArrive(c) \/ FetchFails(c)
      PROVE  Typed'
  <2>1. Known(c) /\ DOMAIN call[c] = Fields /\ UNCHANGED <<mode, now, minute, quota>>
    BY <1>1, <1>5 DEF BodyFails, BodyRead, HeadersArrive, FetchFails, Known
  <2>2. /\ \A d \in Calls \ {c} : call'[d] = call[d]
        /\ call'[c].pc \in {"done", "tool", "reading"}
    BY <1>1, <1>5, <2>1
    DEF BodyFails, BodyRead, HeadersArrive, FetchFails, Goes, Fails, Fields
  <2>3. call'[c].pc \in Places /\ Known(c)'
    BY <2>2 DEF Places, Known
  <2> QED
    BY <1>1, <2>1, <2>2, <2>3, CallTyped
<1>6. ASSUME NEW c \in Calls, StartTool(c) \/ Synthesized(c) PROVE Typed'
  <2>1. Known(c) /\ DOMAIN call[c] = Fields /\ UNCHANGED <<mode, now, minute, quota>>
    BY <1>1, <1>6 DEF StartTool, Synthesized, Known
  <2>2. /\ \A d \in Calls \ {c} : call'[d] = call[d]
        /\ call'[c].pc \in {"done", "synth", "delegating"}
    BY <1>1, <1>6, <2>1 DEF StartTool, Synthesized, Ends, Fields
  <2>3. call'[c].pc \in Places /\ Known(c)'
    BY <2>2 DEF Places, Known
  <2> QED
    BY <1>1, <2>1, <2>2, <2>3, CallTyped
<1>7. ASSUME NEW c \in Calls, BodyArrives(c) PROVE Typed'
  <2>1. Known(c) /\ DOMAIN call[c] = Fields /\ UNCHANGED <<mode, now, minute, quota>>
    BY <1>1, <1>7 DEF BodyArrives, Known
  <2>2. PICK r : \/ \E out : Fails(c, out)
                 \/ call' = [call EXCEPT ![c].pc = "done", ![c].from = "server", ![c].out = "ok",
                                         ![c].end = now, ![c].reply = r]
    BY <1>7 DEF BodyArrives
  <2>3. /\ \A d \in Calls \ {c} : call'[d] = call[d]
        /\ call'[c].pc = "done"
    BY <1>1, <2>1, <2>2 DEF Fails, Fields
  <2>4. call'[c].pc \in Places /\ Known(c)'
    BY <2>3 DEF Places, Known
  <2> QED
    BY <1>1, <2>1, <2>3, <2>4, CallTyped
<1>8. ASSUME NEW c \in Calls, ServerServes(c) PROVE Typed'
  <2> DEFINE key == call[c].sentAs
  <2>1. Known(c) /\ DOMAIN call[c] = Fields /\ UNCHANGED <<mode, now, minute>>
    BY <1>1, <1>8 DEF ServerServes, Known
  <2>2. /\ \A d \in Calls \ {c} : call'[d] = call[d]
        /\ call'[c].pc = call[c].pc
    BY <1>1, <1>8, <2>1 DEF ServerServes, Fields
  <2>3. call'[c].pc \in Places /\ Known(c)'
    BY <2>1, <2>2 DEF Known, Typed
  <2>4. quota' = quota \/ (quota[key] > 0 /\ quota' = [quota EXCEPT ![key] = @ - 1])
    BY <1>8 DEF ServerServes
  <2>5. quota' \in [Keys -> 0 .. Quota]
    BY <1>1, <2>4, CallAssumption
  <2> QED
    BY <1>1, <2>1, <2>2, <2>3, <2>5, CallTyped
<1>9. ASSUME Tick \/ UNCHANGED vars PROVE Typed'
  <2>1. UNCHANGED <<mode, minute, call, quota>> /\ KnownOnes' = KnownOnes
    BY <1>9 DEF Tick, vars, KnownOnes, Known
  <2>2. now' \in 0 .. MaxTime
    BY <1>9, CallAssumption DEF Tick, vars, Typed
  <2> QED
    BY <2>1, <2>2 DEF Typed
<1> QED
  BY <1>2, <1>3, <1>4, <1>5, <1>6, <1>7, <1>8, <1>9, MayBeWanted DEF Next

(* No bucket counts more than its limit or than the calls there were, and  *)
(* no quota is overdrawn, however the calls overtake each other.           *)
THEOREM TypeCorrect == Spec => []TypeOK
<1>1. Init => Typed
  <2> SUFFICES ASSUME Init PROVE Typed
    OBVIOUS
  <2>1. now \in 0 .. MaxTime /\ quota \in [Keys -> 0 .. Quota]
    BY CallAssumption DEF Init
  <2>2. \A i \in Ips : minute[i].count = 0
    BY DEF Init
  <2>3. \A c \in Calls : call[c].pc = "new"
    BY DEF Init, New
  <2>4. 0 <= Cardinality(KnownOnes)
    BY KnownCount
  <2> QED
    BY <2>1, <2>2, <2>3, <2>4 DEF Init, Typed, Places
<1>2. Limits /\ Typed => TypeOK
  <2> SUFFICES ASSUME Limits, Typed PROVE TypeOK
    OBVIOUS
  <2>1. ASSUME NEW i \in Ips
        PROVE  day[i].count \in 0 .. PerDay /\ minute[i].count \in 0 .. Cardinality(Calls)
    <3>1. day[i].count \in 0 .. PerDay
      BY DEF Limits, Daily, DayBucket
    <3>2. minute[i].count \in Nat /\ minute[i].count <= Cardinality(KnownOnes)
      BY DEF Limits, Typed, Buckets
    <3> QED
      BY <3>1, <3>2, KnownCount
  <2> QED
    BY <2>1 DEF Typed, TypeOK, Places
<1> QED
  BY <1>1, <1>2, StepTyped, LimitsHold, PTL DEF Spec
=============================================================================
