----------------------------- MODULE ToolCalls -----------------------------
(***************************************************************************)
(* A tool call through the MCP server: the HTTP handler of index.ts, which *)
(* looks an API key up in Redis and counts the address in the buckets of   *)
(* auth.ts, and the tools of tools.ts that a paying caller's call delegates*)
(* to openttt-server (server.ts).  Calls are concurrent; each "await" of   *)
(* the code is a place where a call rests: "lookup", "body", "delegating", *)
(* "reading" and "synth".  A process serves HTTP or stdio, never both.     *)
(***************************************************************************)
EXTENDS Integers, FiniteSets

CONSTANTS
  Calls,       \* identities of the calls
  MayPresent,  \* what each of them may present: sets of [ip, key, tool]
  Registered,  \* API keys in the registry, with a plan
  NoKey,       \* no API key
  EnvKey,      \* TTT_API_KEY of the process
  PerMinute, PerDay,      \* FREE_TIER_PER_MIN (more than 0), FREE_TIER_LIMIT
  Minute, Day,            \* 60 seconds; the UTC day
  DelegateTimeout,        \* timeoutMs of delegateToServer
  Quota,       \* of each key, at openttt-server
  MaxTime      \* bound on the clock

ASSUME CallAssumption ==
  /\ {PerMinute, PerDay, Minute, Day} \subseteq Nat \ {0}
  /\ {DelegateTimeout, Quota, MaxTime} \subseteq Nat
  /\ NoKey \notin Registered
  /\ IsFiniteSet(Calls)

VARIABLES
  mode,    \* "http" or "stdio"
  now,     \* Date.now
  minute,  \* perMinBuckets, for every address
  day,     \* buckets
  call,    \* the state of every call
  seal,    \* _lastPotTimestampNs, with the call that set it
  quota,   \* openttt-server: what is left of each key's plan
  served   \* openttt-server: the calls it has recorded, and for which key
vars == <<mode, now, minute, day, call, seal, quota, served>>

Wants  == UNION {MayPresent[c] : c \in Calls}
Ips    == {w.ip : w \in Wants}
Keys   == Registered \cup {EnvKey}
NoSeal == [ts |-> -1, by |-> NoKey]
New    == [pc |-> "new"]

(* tool: pot_generate of an event, with a contentDigest or without an event*)
(* ("digest"), or one of the readers pot_query, _graph, _stats, _checkpoint*)
Generates(c) == call[c].want.tool \in {"generate", "digest"}

Goes(c, pc)        == call' = [call EXCEPT ![c].pc = pc]
Ends(c, from, out) == call' = [call EXCEPT ![c].pc = "done", ![c].from = from,
                                           ![c].out = out, ![c].end = now]
Fails(c, out)      == call' = [call EXCEPT ![c].pc = "done", ![c].out = out]

----------------------------------------------------------------------------
(* checkRateLimit: the burst bucket counts every request, the daily one    *)
(* those without a verified key.                                           *)

Bucket(b, reset) == IF now >= b.resetAt THEN [count |-> 0, resetAt |-> reset] ELSE b

NextMidnight == (now \div Day + 1) * Day

(* Mutant of MinuteEnd: the minute of the wall clock.                      *)
MinuteEndAligned == (now \div Minute + 1) * Minute

(* The burst bucket's minute begins with its first request.                *)
MinuteEnd == now + Minute

(* Mutant of DayFull: an off-by-one.                                       *)
DayFullLate(b) == b.count > PerDay

DayFull(b) == b.count >= PerDay

Counted(b) == [b EXCEPT !.count = @ + 1]

(* The call w, whose verified key is key, goes on to its body or gets 429. *)
CheckRateLimit(c, w, key) ==
  LET m       == Counted(Bucket(minute[w.ip], MinuteEnd))
      d       == Bucket(day[w.ip], NextMidnight)
      burst   == m.count > PerMinute
      counts  == ~burst /\ key = NoKey
      refused == burst \/ (counts /\ DayFull(d))
  IN /\ minute' = [minute EXCEPT ![w.ip] = m]
     /\ day' = IF ~counts THEN day
               ELSE [day EXCEPT ![w.ip] = IF DayFull(d) THEN d ELSE Counted(d)]
     /\ call' = [call EXCEPT ![c] =
          [pc |-> IF refused THEN "done" ELSE "body", want |-> w, key |-> key, asked |-> now,
           at |-> 0, reply |-> "none", sentAs |-> NoKey, from |-> "nowhere", end |-> 0,
           ts |-> -1, out |-> IF refused THEN "429" ELSE "none"]]

(* A POST, without a key, or with one to look up.                          *)
Arrive(c, w) ==
  /\ mode = "http" /\ call[c] = New
  /\ IF w.key = NoKey THEN CheckRateLimit(c, w, NoKey)
     ELSE /\ call' = [call EXCEPT ![c] = [pc |-> "lookup", want |-> w]]
          /\ UNCHANGED <<minute, day>>
  /\ UNCHANGED <<mode, now, seal, quota, served>>

KeyFound(c) ==
  /\ call[c].pc = "lookup" /\ call[c].want.key \in Registered
  /\ CheckRateLimit(c, call[c].want, call[c].want.key)
  /\ UNCHANGED <<mode, now, seal, quota, served>>

(* 403: no record of this key, or no answer from the registry.             *)
KeyRefused(c) ==
  /\ call[c].pc = "lookup"
  /\ call' = [call EXCEPT ![c] = [pc |-> "forbidden", want |-> @.want]]
  /\ UNCHANGED <<mode, now, minute, day, seal, quota, served>>

(* Too large, not JSON, or not complete within the deadline.               *)
BodyFails(c) ==
  /\ call[c].pc = "body"
  /\ Fails(c, "bad body")
  /\ UNCHANGED <<mode, now, minute, day, seal, quota, served>>

BodyRead(c) ==
  /\ call[c].pc = "body" /\ Goes(c, "tool")
  /\ UNCHANGED <<mode, now, minute, day, seal, quota, served>>

(* On stdio there is neither a context nor a limit.                        *)
StdioCall(c, w) ==
  /\ mode = "stdio" /\ call[c] = New /\ w.key = NoKey
  /\ call' = [call EXCEPT ![c] =
       [pc |-> "tool", want |-> w, key |-> NoKey, asked |-> now, at |-> 0, reply |-> "none",
        sentAs |-> NoKey, from |-> "nowhere", end |-> 0, ts |-> -1, out |-> "none"]]
  /\ UNCHANGED <<mode, now, minute, day, seal, quota, served>>

----------------------------------------------------------------------------
(* The tools.                                                              *)

(* Mutant of PaidApiKey: without a key of its own a call uses the server's.*)
PaidApiKeyAny(c) == IF mode = "http" /\ call[c].key # NoKey THEN call[c].key ELSE EnvKey

(* resolvePaidApiKey: over HTTP the verified key of this very request.     *)
PaidApiKey(c) == IF mode = "http" THEN call[c].key ELSE EnvKey

Delegates(c) == PaidApiKey(c) # NoKey /\ call[c].want.tool # "digest"

StartTool(c) ==
  /\ call[c].pc = "tool"
  /\ \/ /\ Delegates(c)
        /\ call' = [call EXCEPT ![c].pc = "delegating", ![c].at = now, ![c].sentAs = PaidApiKey(c)]
     \/ /\ ~Delegates(c) /\ Generates(c)
        /\ call' = [call EXCEPT ![c].pc = "synth", ![c].at = now]
     \/ /\ ~Delegates(c) /\ ~Generates(c)
        /\ Ends(c, "local", "ok")
  /\ UNCHANGED <<mode, now, minute, day, seal, quota, served>>

(* Mutant of UpdateLastPot: the freshness seal is set once.                *)
UpdateLastPotOnce(c, ts) == seal' = IF seal = NoSeal THEN [ts |-> ts, by |-> c] ELSE seal

UpdateLastPot(c, ts) == seal' = [ts |-> ts, by |-> c]

(* The time synthesis gives an instant within its run, or fails, and then  *)
(* the local clock is read.                                                *)
Synthesized(c) ==
  /\ call[c].pc = "synth"
  /\ \E ts \in call[c].at .. now :
       /\ UpdateLastPot(c, ts)
       /\ call' = [call EXCEPT ![c].pc = "done", ![c].from = "local", ![c].out = "ok",
                               ![c].end = now, ![c].ts = ts]
  /\ UNCHANGED <<mode, now, minute, day, quota, served>>

----------------------------------------------------------------------------
(* openttt-server.  It may get a request whose caller has given up.        *)

ServerServes(c) ==
  /\ call[c].pc \notin {"new", "lookup", "forbidden"}
  /\ call[c].sentAs # NoKey /\ call[c].reply = "none"
  /\ LET key == call[c].sentAs
     IN \/ /\ quota[key] = 0
           /\ call' = [call EXCEPT ![c].reply = "429"]
           /\ UNCHANGED <<quota, served>>
        \/ /\ quota[key] > 0
           /\ quota' = [quota EXCEPT ![key] = @ - 1]
           /\ served' = served \cup {[call |-> c, key |-> key]}
           /\ \E r \in {"full", "bare", "malformed"} :
                call' = [call EXCEPT ![c].reply = r, ![c].ts = now]
        \/ /\ call' = [call EXCEPT ![c].reply = "error"]
           /\ UNCHANGED <<quota, served>>
  /\ UNCHANGED <<mode, now, minute, day, seal>>

(* delegateToServer.  The timer is stopped when the headers have arrived.  *)
HeadersArrive(c) ==
  /\ call[c].pc = "delegating" /\ call[c].reply # "none" /\ Goes(c, "reading")
  /\ UNCHANGED <<mode, now, minute, day, seal, quota, served>>

FetchFails(c) ==
  /\ call[c].pc = "delegating"
  /\ Fails(c, "error")
  /\ UNCHANGED <<mode, now, minute, day, seal, quota, served>>

(* The body: a refusal raises; an answer is passed on, and that of a       *)
(* generate sets the seal when it has the fields for it.  A timestamp that *)
(* is no integer raises, though the server has recorded the event.  A body *)
(* that breaks off is passed on as an empty answer.                        *)
BodyArrives(c) ==
  /\ call[c].pc = "reading"
  /\ \E r \in IF call[c].reply \in {"full", "malformed"} THEN {call[c].reply, "bare"}
               ELSE {call[c].reply} :
       LET seals  == r = "full" /\ Generates(c)
           raises == r \in {"429", "error"} \/ (r = "malformed" /\ Generates(c))
       IN /\ IF seals THEN UpdateLastPot(c, call[c].ts) ELSE UNCHANGED seal
          /\ IF raises THEN Fails(c, IF r = "429" THEN "quota_exceeded" ELSE "error")
             ELSE call' = [call EXCEPT ![c].pc = "done", ![c].from = "server", ![c].out = "ok",
                                       ![c].end = now, ![c].reply = r]
  /\ UNCHANGED <<mode, now, minute, day, quota, served>>

----------------------------------------------------------------------------

Tick ==
  /\ now < MaxTime
  /\ \A c \in Calls : call[c].pc = "delegating" => now - call[c].at < DelegateTimeout
  /\ now' = now + 1
  /\ UNCHANGED <<mode, minute, day, call, seal, quota, served>>

Init ==
  /\ mode \in {"http", "stdio"} /\ now = 0
  /\ minute = [i \in Ips |-> [count |-> 0, resetAt |-> 0]]
  /\ day = [i \in Ips |-> [count |-> 0, resetAt |-> 0]]
  /\ call = [c \in Calls |-> New] /\ seal = NoSeal
  /\ quota = [k \in Keys |-> Quota] /\ served = {}

Next ==
  \/ Tick
  \/ \E c \in Calls :
       \/ \E w \in MayPresent[c] : Arrive(c, w) \/ StdioCall(c, w)
       \/ KeyFound(c) \/ KeyRefused(c) \/ BodyFails(c) \/ BodyRead(c) \/ StartTool(c)
       \/ Synthesized(c) \/ ServerServes(c) \/ HeadersArrive(c) \/ FetchFails(c)
       \/ BodyArrives(c)

Spec == Init /\ [][Next]_vars

----------------------------------------------------------------------------

Known(c)  == call[c].pc \notin {"new", "lookup", "forbidden"}
Served(c) == Known(c) /\ call[c].pc = "done" /\ call[c].out = "ok"

(* The state has its type; a bucket never counts more than its limit.      *)
TypeOK ==
  /\ mode \in {"http", "stdio"} /\ now \in 0 .. MaxTime
  /\ \A i \in Ips : day[i].count \in 0 .. PerDay /\ minute[i].count \in 0 .. Cardinality(Calls)
  /\ \A k \in Keys : quota[k] \in 0 .. Quota
  /\ \A c \in Calls : call[c].pc \in {"new", "lookup", "forbidden", "body", "tool", "synth",
                                       "delegating", "reading", "done"}

Admitted(c) == mode = "http" /\ Known(c) /\ call[c].out # "429"
Free(c)     == Admitted(c) /\ call[c].key = NoKey

FreeOn(i, d)   == {c \in Calls : /\ Free(c) /\ call[c].want.ip = i
                                 /\ call[c].asked \div Day = d}
InMinute(i, t) == {c \in Calls : /\ Admitted(c) /\ call[c].want.ip = i
                                 /\ call[c].asked \in t .. t + Minute - 1}

(* What the buckets do keep.  An address is never given more free calls in *)
(* a UTC day than its limit, however its key lookups and its requests      *)
(* overtake each other; and whatever it presents, a minute that lies       *)
(* across the edge of a bucket's window admits one less than two limits:   *)
(* the window starts with its first request (auth.ts:88-89), so that one   *)
(* at least lies a whole minute before what passes after the edge.         *)
AdmittedWithinLimits ==
  \A i \in Ips :
    /\ \A d \in 0 .. MaxTime \div Day : Cardinality(FreeOn(i, d)) <= PerDay
    /\ \A t \in 0 .. MaxTime : Cardinality(InMinute(i, t)) <= 2 * PerMinute - 1

(* What auth.ts:12 says of FREE_TIER_PER_MIN, and the code does not do:    *)
(* "max requests per rolling minute per IP (HTTP mode)".                   *)
RollingMinute ==
  \A i \in Ips, t \in 0 .. MaxTime : Cardinality(InMinute(i, t)) <= PerMinute

(* Whoever pays is the one who asked: over HTTP the server records a call  *)
(* for the registered key that very request presented and never for the    *)
(* process's own.  And a paying caller is answered from the server's       *)
(* record or not at all, never from the free local log, whatever fails.    *)
PaidThroughServer ==
  /\ \A s \in served :
       s.key = IF mode = "http" THEN call[s.call].want.key ELSE EnvKey
  /\ \A c \in Calls : Served(c) /\ call[c].from = "local" /\ call[c].want.tool # "digest" =>
       NoKey = IF mode = "http" THEN call[c].want.key ELSE EnvKey

Sealed(c) == Served(c) /\ Generates(c) /\ (call[c].from = "local" \/ call[c].reply = "full")

(* The freshness seal on every answer is at least as recent as any proof   *)
(* of time given out, but for one: a call that ran at the same time as the *)
(* newer one and ended after it sets the seal back.                        *)
SealLagsByOverlap ==
  \A c \in Calls : Sealed(c) =>
    \/ seal.ts >= call[c].ts
    \/ call[seal.by].at <= call[c].end /\ call[c].at <= call[seal.by].end
=============================================================================
