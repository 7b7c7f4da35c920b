# Formal models of openttt-mcp

TLA+ models of the parts of this repository that carry its own logic, the TLC runs that
check them and the theorems TLAPS proves about them. Paths are relative to `src/` of the
repository; `production/gateway.mjs:28` is line 28 of that file.

## 1. Inventory

| component | code | state | operations | what is hard | correct when |
|---|---|---|---|---|---|
| replay store | `production/replay-store.py` | tables `claims`, `receipts`, `clock_state`, `usage` | `clock`, `claim`, `seal_usage`, start-up migration | the nonce index forgets by a clock that may be stepped; capacity | a claim is admitted at most once; nothing durable is lost |
| production gateway | `production/gateway.mjs` | `inflight`, two pipes with `pending` and `failed`, rate buckets | `/v2/seal`, `/v2/verify`, `/health` | async handlers, timers, late answers, dead children, hang-ups, restarts | at most one ALLOW per claim, only with a durable receipt; slots exact; every handler ends |
| metering | `production/metering.py`, op `seal_usage` | table `usage`, AWS's record of ClientTokens | seal, flush | two processes on one table, lost answers, crashes | each unit billed once |
| causal event log | `tools.ts`, `index.ts` | `potLog`, `potByEventId`, `potByPrevEventId`, `evictedEventIds`, Redis keys `dag:*` | `pot_generate`, restore, `pot_graph`, `pot_checkpoint` | ring eviction, calls that commit out of order, fire-and-forget persistence, restart | indexes follow the ring; gaps are reported, and only gaps |
| record codecs | `pot_record_v2.ts`, `pot_record_v08.ts`, `rust-reference/src/draft13.rs` | none | encode, decode, verify, binding proofs | which octets each digest and signature covers; order of the tests; skew at the ends of the integers | an altered record is refused |
| record verification | `tools.ts` (`potVerifyV2*`, `potVerifyV08`) | replay keys in Redis, cached quorum status | verify v2 / v08 | two awaits between check and use, concurrent fetches of one cache, resent commands, restarts, many configurations | what is accepted is genuine, once, behind a recent quorum |
| rate limits | `auth.ts` | per-minute and daily buckets | `checkRateLimit` | window edges, key lookup before the count | quota per window |
| MCP server, ingress | `index.ts`, `server.ts`, `transport_context.ts` | delegation client, freshness seal | tool calls over HTTP or stdio | a call's key in a shared process; lost and malformed answers; calls that end out of order | the asker pays; delegated or local, never both |
| demo gate | `demo/gate_challenge.mjs`, `demo/rust_verifier.mjs`, `rust-reference/src/main.rs` | chain of requests, replay map, canary database, the child | `GET /bob`, `POST /v2/verify` | claim and transfer after an await, two clocks, a child that hangs or dies, restart | one transfer per token; a rejection leaves the database alone |
| verifier lifetimes | `rust-reference/src/replay.rs` | `LocalNonceCache` | `replay_ttl`, `check_and_set` | rounding, inclusive bounds, capacity | a claim outlives its record |
| MemoryDB client | `demo/memorydb_replay.mjs` | connection flag | `connect`, `claim`, `close` | an answer that is lost while the command runs | never "new" twice |
| shadow ledger | `shadow/draft12_shadow.ts` | expiries | verification, `claim`, `release` | inclusive freshness, exclusive expiry; full ledger | never accepted twice while fresh |
| XDP limiter, tuner | `infra/tttps-xdp` | per-port and per-source windows | packet, tune | unsynchronised counters | limit per window |

Interactions. The gateway starts the store and the verifier as child processes and talks
to each over a pipe, one JSON line per call, matched to its call by an id. The store and
the metering service share the SQLite file. The MCP tools share one in-process log; Redis is
a best-effort copy of it read at start-up only, and the only copy of the replay keys. A paying
caller's tool call goes to openttt-server over HTTP. The demo gate runs its own child verifier.

## 2. Modules

| module | models | composed of |
|---|---|---|
| `AdmitOnce` | abstract: what an admission service promises | |
| `ReplayStore` | the claim transaction, its clock and its migration | |
| `Gateway` | handlers, slots, pipes, timers, children | `INSTANCE ReplayStore`, refines `ReplayStore` and `AdmitOnce` |
| `Metering` | seal and flush over the table `usage` | |
| `CausalLog` | the log, its indexes, Redis, restore and the queries | |
| `PotRecord` | records, their makers and verifiers, as operators | |
| `PotVerify` | the verification tools as concurrent calls | `PotRecord`, refines `AdmitOnce` |
| `DemoGate` | gate, child, replay map and database of the demo | `PotRecord` |
| `Ledgers` | shadow ledger, nonce cache, MemoryDB client | `PotRecord` |
| `ToolCalls` | an HTTP or stdio tool call: key, limits, delegation, seal | |
| `*Proofs` | theorems about the module they extend | |
| `MC*` | instances for TLC | |

Each module keeps next to a definition the mutated forms of it, named *Mutant of ...* in
the comment, that the properties are tested against.

### ReplayStore

A request of the store is one SQLite transaction in a single-threaded process, so it is
one step. `tai` is CLOCK_TAI, which the environment steps in either direction between any
two requests. `Verdict` follows the branches of op `claim` in their order, with the raise
of an expired or rolled-back clock before the DELETE; every verdict but `ok` rolls back,
the DELETE included. A request is any one that the gateway could send: `Present(c)` takes a
sealed record that some instant found `Fresh` and lets it arrive at any later or, after a
step of the clock, earlier one. `Init` is a database that the migration may leave:
receipts for a set of claims, expiries derived from their records.

`RetainedWhileValid` is the heart: an admitted claim is either indexed beyond its record's
validity or the high-water mark has passed it. `PrimaryKeyNeverFires` says what follows:
the receipts' primary key never has to stop a replay, which would be answered as an outage.

### Gateway

A handler is `req[r]`, whose `pc` is the await it is in (`clock`, `seal_usage`, `claim` are
store calls, `verify` the verifier's). `storeIn` and `storeOut` are the pipe to the store,
`storePending` the pending map. The correspondences that are easily got wrong:

* a timer removes the call from the pending map, ends the handler with 503 and leaves the
  line in `storeIn`: the store executes it and its answer is dropped (`Awaited`);
* the death of the child and the exit event are two steps; between them calls are still
  accepted and wait for the event or for their timer;
* a slot is released by the close of the response or by the end of the handler, whichever
  is first, once;
* `failed` is never reset but by `Restart`, which keeps only the database;
* a store killed in the middle of a request has either committed or not, which is the
  same as before or after the request, with its answer lost.

The answer of the verifier is nondeterministic but for freshness, which is tested with the
instant that the clock op returned. The per-address bucket, routing and authorization are a
refusal that may happen. Requests are used once: a retry is another request for the same record.

### Metering

`SealReadsHour` and `SealCommits` are one line each of `seal_usage`, because `int(time.time())//3600`
is read before the transaction. `FlushBegins` is the SELECT with its `fetchall`, `FlushSends`
or `FlushSendRaises` the AWS call, `FlushMarks` the UPDATE; `FlushStops` a crash between any
two of them. The fetched rows are a set, and `First` says by ORDER BY which of them is next.
AWS keeps the first quantity of a ClientToken.

### CausalLog

One `pot_generate` call is one step: after the await of the time synthesis it never awaits
again, and before it reads nothing of the log. So the order of steps is the order in which
syntheses end, and `createdAt` may tie or, if the wall clock is stepped, fall. `dag` bundles
the four structures that every insertion changes together. Redis answers `setex` commands in
order, or they fail unnoticed; keys expire; a restart loses the commands under way and either
rebuilds the ring (`Restore`, SCAN order arbitrary, stable sort by `createdAt`) or starts empty.
`Restored(s)` is the dag after each entry of the order `s`, `Ancestor` and `Descendant` are the cursors of the two
walks after each step: recursive functions, so that theorems can speak of them. The queries are evaluated in
every state. The history variable `reused` remembers that an
event id was used while the index or the evicted set still knew it: the API does not forbid
that, and `FoundUnlessReused`, `NoFalseBreak` and `UnforkedCheckpointReaches` hold until it happens.
The last of them is limited to logs without forks because a checkpoint follows the first child of
every entry only (tools.ts:1182).

### PotRecord

A record is a function from field names to values, a digest is the value it digests and a
signature the key with the value signed. So `HeadV2` and `PrefixV2` are the octets 0-79 and
0-115 of a version 2 record, and a verifier is what it compares with what. Verifiers are
sequences of tests in the order of the code, of which `FirstFailure` answers the first that
fails: the order is observable, because later steps (the nonce claim) run only after all of them.
Offsets, lengths of fields and hexadecimal are not modelled. Integers keep their maxima
(`MaxU64`, `MaxU32`, `Reserved`), which `Draft13Freshness` and the encoders test.

### PotVerify

A call is `call[c]` with the await it is in: `fetching` (the status server) or `claiming`
(SET NX). `StartV2` runs the early returns (`Early`), and either rests in the fetch or goes on to
`Decided`: all checks at one instant, then the claim's command. `Sample` is the server
reading the quorum, `FetchAnswers` the answer that overwrites `roughtimeAdmitCache` whoever
else wrote it meanwhile, `FetchFails` the abort timer. `ClaimRuns` is Redis executing the command, as
often as the client resends it (`MaxSends`); only the answer of the last run is seen, so a resent
claim may tell its own first caller "replay detected". `Restart` keeps Redis and gives the
process a new self-made issuer key. The environment variables are one record `conf`, chosen
at the start from `Confs`, and the opposite defaults of `TTTPS_REQUIRE_REPLAY_LEDGER` in the
two versions are in `Ledger`. Seen through `Promise`, `pot_verify_v2` is `AdmitOnce` with the nonces as
claims: a nonce is admitted when its key is in Redis, and ALLOWs are counted by the calls accepted for it. Without
its ledger the tool promises nothing, and none is counted.

### DemoGate

`Post` is the end of the body's parsing, where the request joins the chain of promises `tail`.
`GateStarts` is `gate` up to its await, with the wall clock read for the child; `VerifierAnswers`
is everything after, which never awaits: the tests (`Verdict`), the sweep of a full map, the
claim and the transfer. `VerifierTimesOut` and `VerifierFails` are the two ways in which the child does not
answer, and after the second it is never started again. The child's own tests are
`RustVerify`, its answer `ReplayTtl`, in the same units as the clocks. The wall clock may be
stepped back, the monotonic clock may not. A restart makes a new issuer key, so that no token
survives it.

### Ledgers

Each behaviour is one of three sites. At `shadow` a whole verification is one step, since
`verifyDraft12ShadowFrame` is synchronous: `ShadowBefore`, `claim`, `ShadowAfter`, and the `release` of a
claim that a later test refused. At `local` and `memorydb` a verification and the claim that
follows it are separate steps, with the time to live of the first. At `memorydb` the answer
may time out (`Unconfirmed`) before or after the SET ran. `late` records how long after
its verification a claim was made.

### ToolCalls

A call is `call[c]`, whose `pc` is its await: `lookup` (the key in Redis), `body`, `synth`
(local time synthesis), `delegating` and `reading` (headers and body of openttt-server's answer). The
server's own work is `ServerServes`: it records the call for the key that was sent and may do so
although the answer never arrives. `seal` is `_lastPotTimestampNs` with the call that set it.
The server's clock is taken to be the local one. `CheckRateLimit` counts a request in both buckets when its
key is resolved; a burst window begins with its first request (`MinuteEnd`), a day at midnight UTC.

## 3. Runs

| run | question | bounds | why they are enough |
|---|---|---|---|
| `replay_store` | can a claim be let in twice? | 3 claims, capacity 2, instants 0..4, age 1, future 1, margin 1, 2 instants per ms | one claim more than capacity, clock steps across a whole lifetime in both directions, rounding matters |
| `gateway` | does the service implement the store's protocol and AdmitOnce, are slots and metering exact, does every handler end? | one seal (or health check) and two verifications of its record, 2 slots, 2 calls, instants 0..2, age 1, margin 1 | the shortest race: late claim, retry, restart, a record fresh at two instants and stale at the third; every kind of await with both children dying. Three requests never find the slots or a pipe full: a call that finds its pipe full takes the branch of a dead child, which is reached, and a request that finds no slot that of a refusal, which is free; `SlotsCounted` and `MeteredFirst` are proved for all limits |
| `metering` | is every unit billed once? | 2 ticks per hour, window 2 hours, 8 ticks, 4 units | a bucket can close, be retried and grow too old |
| `causal_log` | do indexes, queries and restore agree? | 3 ids, ring of 2, 1 remembered eviction, 4 calls, 1 restart | the ring overflows twice, an id is twice in it, children precede parents, writes are lost, Redis holds more keys than the ring with equal times |
| `pot_verify` | what is accepted, and does version 2 implement AdmitOnce? | 2 calls, 7 configurations with the 19 requests that tell them apart, instants 0..5, cache life 2, fetch 1, key life 3, 2 sends, 2 lives | two calls are a race for a nonce and for the cache; the cache expires and is refetched; a v08 key expires while its record is fresh; every field is altered, pasted or relayed once |
| `demo_gate` | does the money move once, and is everyone answered? | 3 requests with 2 tokens, a map of 1, a queue of 2, instants 0..3, timer 2, one step back, 2 processes | a full map and a full queue; a repeat before and after expiry; the child may die before, during and after each request |
| `tool_calls` | what passes a bucket's edge, who pays, how old is the seal? | 4 calls of one address, 2 free, 2 of a customer (one with a mistyped key); 2 per minute of 2 instants, 1 free per day of 2, quota 1, instants 0..2 | both sides of a window's edge can be filled: 3 calls pass in a minute, so the bound of 3 is reached; midnight is a window's edge or falls into a window; two paid calls race for the last unit; a delegated and a local seal overlap |
| `ledgers` | is a claim taken once at each of the other sites? | 3 attempts, 2 records in 4 frames, capacity 1, instants 0..4, age 1, margin 1 | one claim more than capacity; expiry with attempts before, at and after it |
| `metering_late_seal`, `causal_log_*`, `tool_calls_rolling_minute` (violations) | the findings below | small | |

Deadlock is checked where the system cannot stop (`ReplayStore`, `Gateway`: the clock always
moves, the service can always be restarted) and not where bounded counters run out.

Named bounds: `MaxTai`, `MaxTicks`, `MaxUnits`, `MaxEntries`, `MaxTime`, `MaxQueue`,
`MaxRestarts`, `MaxSends`, `MaxTokens`, `MaxSteps`, `MaxLife` and the sets `Requests`, `Calls`,
`Attempts`, `Carries`. Bounds of the code itself (`Capacity`, `MaxReplay`, `MaxQueued`, `LogMax`, ...) are
small so that they are reached.

Symmetry is used for claims, event ids, attempts and interchangeable calls, and in no run
that checks liveness. `pot_verify` chooses the configuration in `Init` and lets each present
only the requests that it treats differently from another one.

### Fairness

`Gateway` assumes weak fairness of `BodyFails` and `Timeout` only: both are timers of
Node's event loop (`setTimeout` at gateway.mjs:28 and :46) that are armed while the action is enabled.
Neither the client, the children nor the exit event are assumed to do anything.
`DemoGate` assumes weak fairness of `GateStarts` (a settled promise runs its continuation), `Tick` and
`VerifierTimesOut` (the timer of rust_verifier.mjs:25). The child is assumed to do nothing.
`Metering` assumes that the service's loop comes round and gets past the instance metadata and
the dry run (weak fairness of `FlushBegins`; metering.py:31-38, restarted by systemd) and that an endpoint and a database that are
reached again and again at last work (strong fairness of `FlushSends` and `FlushMarks`).
The other specifications state safety only and assume none. In particular no delegated call is
claimed to end: the timer is stopped when the headers arrive (server.ts:160), and the key lookup
in Redis has no timer of its own.

### Findings

1. *Late seals* (`metering_late_seal`): a seal that reads the hour at its end and commits
   after it changes a closed bucket. If flush is between its SELECT and its UPDATE the unit
   is marked reported and not billed; if AWS already took the bucket but the mark was lost,
   the retry carries another quantity under the same token and is refused for ever.
   `OnlyLateSealsAreLost` shows this is the only way to lose a unit of a reported bucket. A bucket
   that grows older than the report window is another matter: it is not billed, not marked and kept.
2. *Event id reuse* (`causal_log_reuse_lost`): evicting the older entry removes the index
   of the newer (tools.ts:410, :274).
3. *Broken chains are not shown* (`causal_log_evicted_ancestor`): `chainBroken` is false
   when the parent was evicted or lost in a restart (tools.ts:989). It can only be true when
   the walk is cut by `depth`, one entry before the gap, or for an id that was evicted and
   generated again.
4. *The minute does not roll* (`tool_calls_rolling_minute`): auth.ts:12 calls `FREE_TIER_PER_MIN`
   "max requests per rolling minute per IP (HTTP mode)". The bucket is a fixed window that
   begins with an address's first request and is emptied at its end (auth.ts:88-89). With a limit of
   2, one request opens a window, a second comes just before its end and two more just
   after: three pass within a minute. `AdmittedWithinLimits` shows what does hold: never more than
   `2 * FREE_TIER_PER_MIN - 1`. The bound is reached, and it rests on the window's start: with
   windows aligned to the clock's minute, its mutant, twice the limit would pass.

### What the properties had to allow for

The exceptions in some properties are behaviours of the code that a reader should know:

* a checkpoint from an evicted event selects no entry and calls the chain intact (README.md:250
  speaks of a tamper-evident root);
* the demo gate can move the money twice for a token if a verification lasts as long as the
  margin of one second, or the wall clock is stepped back: the lifetime is counted from before the child was
  asked and starts after it answered (`TwiceOnlyWhenLate`; gate_challenge.mjs:135-139);
* the shadow verifier accepts a claim twice at the last instant of its window, which its freshness test
  includes and its ledger excludes (`TwiceOnlyAtTheEdge`; draft12_shadow.ts:90);
* the MemoryDB client's and the nonce cache's claims are sound while they follow their
  verification within the margin; nothing in the code bounds that time;
* a v08 replay key lives for a fixed time which nothing compares with the freshness window:
  without a freshness policy a record is accepted again when it is over, with one only if the claim
  is late (`V08TwiceOnlyWhenLate`);
* "the gate admits only while a live multi-source Roughtime quorum holds" (tools.ts:641) is true
  up to the life of the cache and one fetch (`QuorumRecent`);
* a Redis client that resends a SET NX may tell the rightful first caller "replay detected":
  fail closed, never open (`AdmitOnceSpec`);
* a minute across a window's edge admits one request less than two limits, against the comment at
  auth.ts:12 (`AdmittedWithinLimits`, finding 4);
* the freshness seal falls back to an older time when calls overlap (`SealLagsByOverlap`);
* `TTTPS_REQUIRE_REPLAY_LEDGER` has opposite defaults in the two versions. v2 replay keys never
  expire (tools.ts:93) where README.md:178 gives them `TTTPS_REPLAY_TTL_SECONDS`, and v08 keys live for one day
  by default (tools.ts:71) where README.md:176 speaks of 90.

## 4. Proofs

Every theorem but six is of the form `Spec => []P` (or `Spec => P` for the action properties `Durable` and
`RestoreKeepsNewest` and the three refinements) and holds for all values of the constants that satisfy
the modules' named assumptions. The six are facts about the makers and verifiers of records, for all records.

| module | theorem | property | inductive invariant beyond the property |
|---|---|---|---|
| `ReplayStoreProofs` | `TypeCorrect`, `AtMostOnce`, `RetentionHolds`, `IndexSuffices`, `DurableHolds` | `TypeOK`, `AdmittedAtMostOnce`, `RetainedWhileValid`, `PrimaryKeyNeverFires`, `Durable` | `TablesAgree`: receipts and the history counter agree |
| `GatewayProofs` | `ServiceDrivesStore`, `PromiseKept`, `ReceiptHeld` | `StoreSpec`, `AdmitOnceSpec`, `ReceiptIsDurable` | at most one handler has won a claim, and the stored receipt is its; a claim in the pipe is of a fresh record and says what its handler asks |
| `GatewayProofs` | `TypeCorrect`, `SlotsCounted`, `MeteredFirst` | `TypeOK`, `SlotsExact`, `MeteredBeforeSealed` | a handler that has ended or not begun holds no slot; pending calls are those their handlers await; each metered answer is counted in `usage` |
| `PotVerifyProofs` | `NonceAcceptedOnce`, `PromiseKept` | `AdmitOnceSpec`, which implies `AcceptedOnce` | an unexpired key exists for every v2 run that was answered ok; at most one call holds such an answer per key |
| `PotVerifyProofs` | `GateRestsOnRecentQuorum` | `QuorumRecent` | a cached or held sample is no older than the write plus a fetch |
| `PotVerifyProofs` | `OnlyGenuineAccepted`, `OnlyGenuineClaimed` | `AcceptedIsGenuine`, `ClaimedWasChecked` | `Sound`: a call that claims or was accepted passed every check at its instant `at`, one that fetches the quorum the checks before the gate |
| `PotVerifyProofs` | `V08TwiceIsLate` | `V08TwiceOnlyWhenLate` | `Kept` and `Apart`: a v08 key is held until its claim plus `ReplayTtl`, so two claims of one key are further apart than that |
| `DemoGateProofs` | `RejectionLeavesDatabase` | `RejectedLeavesDb` | at most one request is `verifying`, and its `before` is the database of now |
| `DemoGateProofs` | `ClaimOutlivesToken`, `MoneyMovesOnce` | `RetainedWhileFresh`, `TwiceOnlyWhenLate` | while the wall clock was never set back both clocks agree; an allowed token's entry lives beyond its freshness by the margin less the lateness |
| `ToolCallsProofs` | `AskerPays` | `PaidThroughServer` | the verified key of a call is its request's; what was sent is what it resolves to |
| `ToolCallsProofs` | `SealFallsByOverlap` | `SealLagsByOverlap` | `SealHeld`: a sealed call no longer changes, its instant lies between its start and its end, and the one that holds the seal ended last |
| `ToolCallsProofs` | `QuotasHold` | `AdmittedWithinLimits` | `Burst`: the call that opened a window is a minute before its reset, and what passes in a window fits the limit with that call to spare, the window before included; `Daily`: the bucket of the day counts at least what passed |
| `LedgersProofs` | `AnswersMatchLedger` | `ClaimsMatchAnswers` | `Named`: each entry has one claimant, which won it, and a winner keeps its entry until the bound it was claimed for |
| `LedgersProofs` | `TakenOnceButAtTheEdge` | `TwiceOnlyAtTheEdge` | the winner's entry lives until its horizon, at which no verification of the record succeeds any more |
| `LedgersProofs` | `TypeCorrect` | `TypeOK` | `Tidy`: the entries are finite, one for a key, and within the capacity; a call waits for an answer only at MemoryDB |
| `DemoGateProofs` | `TypeCorrect` | `TypeOK` | `Bounded`: the wall clock is never ahead of the monotonic one; an answer that allows found room in the map and the amount with Bob |
| `ToolCallsProofs` | `TypeCorrect` | `TypeOK` | a burst bucket counts at most the calls that were resolved; the daily bound is in `Daily` |
| `PotVerifyProofs` | `GeneratedV2Verifies`, `GeneratedV08Verifies`, `SignatureCoversV2`, `SignatureCoversV08` | none: they are about the operators of `PotRecord` | |
| `PotVerifyProofs` | `GenuineV2Passes`, `GenuineV08Passes` | none: the converse of `AcceptedIsGenuine` for the checks of one call | |
| `PotVerifyProofs` | `TypeCorrect` | `TypeOK` | what a fetch has seen is of the past and a status |
| `CausalLogProofs` | `TypeCorrect`, `IndexesAgree` | `TypeOK`, `IndexesExact` | `Good`: the two properties and the types of the buckets; `Persists`: Redis and its queue hold entries under their own ids; no entry is of a later call |
| `CausalLogProofs` | `EntriesFound`, `BreaksAreReal`, `WalksAgree` | `FoundUnlessReused`, `NoFalseBreak`, `UnforkedCheckpointReaches` | `Clean`, until an id is reused: every id is found, no two entries share one, and none is found and remembered as evicted |
| `CausalLogProofs` | `NewestRestored` | `RestoreKeepsNewest` | `Persists`; `BuiltFrom` for each prefix of the order |
| `MeteringProofs` | `TypeCorrect` | `TypeOK` | none: it is inductive |
| `MeteringProofs` | `NothingOverbilled`, `OnlyLatenessLoses` | `NeverOverbilled`, `OnlyLateSealsAreLost` | the open hour is not billed; every row of the round and every bill is covered by its bucket; a sent row is billed exactly, or its bucket is late |

`AdmittedAtMostOnce` is carried by the primary key of the receipts, whatever the index and the clock
do; what these two owe is `PrimaryKeyNeverFires` and `RetainedWhileValid`. Neither of the first two is
inductive: that the primary key was not needed says nothing of the next step. `TablesAgree` ties the history counter to the receipts, and `RetainedWhileValid` is
what the two clock tests preserve: an admission deletes a claim only if its expiry, which lies beyond
its validity (lemma `ExpiresBeyondValidity`, from `RoundUpNotLess`), is below the instant that becomes
the high-water mark. `OkIsNew` then shows that a request that is not refused and not indexed has no
receipt. The proofs use no finiteness of `Claims`: `Full` may answer anything. The same shape
recurs in `DemoGateProofs` and `LedgersProofs`: a claim is held until no fresh record of its
key can exist, or an excuse named in the property applies.

For `Gateway` every action is shown to do three things at once (`Advance`): keep `IInv`, be a step
of `ReplayStore` or leave it alone, and be a step of `AdmitOnce` or leave it alone. What makes it short is that most
actions are quiet: they say nothing to a client that lets it in and nothing to the store (`QuietAdvances`), and
a handler that changes was not done, stays coherent and, after its claim, can only end (`Moved`). A
request has *won* when it was told ALLOW or when the store's ok is still in the pipe, where it may
be dropped: two handlers of one record race until the store's step, and the receipt it writes
decides for good. Because `ServiceDrivesStore` maps each step to one of
`ReplayStore`, the theorems of `ReplayStoreProofs` apply to the store as the service drives it.
`GatewayAssumption` asks for a finite set of requests, so that slots and ALLOWs can be counted.

`PotVerify` implements `AdmitOnce` by two of its actions: `ClaimRuns` admits a nonce whose key it sets for
good, `ClaimAnswered` with OK lets the only call in that is accepted for it (`SingleUse`). Every other
step neither spends a nonce nor accepts a call that uses the ledger (`QuietCall`).

Verifiers are sequences of tests, so the proofs about `PotVerify`, `DemoGate` and `Ledgers` rest on a lemma
about `FirstFailure`, `FailureIs`: the answer is "intact" and no test fails, or it is the reason of one that fails.

That nothing but the genuine is accepted would also hold of a verifier that refuses everything. The theorems of
the other direction exclude it: what the generators make is intact, under its key, for its context and content and within
the window, and the checks of both tools let such a record pass, whichever of several trusted issuers made it
(`OneKeySuffices`). `SignatureCovers...` says that a signature leaves no field out: an altered record
with an old signature verifies under no key. This needs the forms of the records, not that
signatures are unforgeable.

The invariant of `CausalLog` is about a dag, not about the variable: `Good(d)` says that both indexes agree with the
ring `d.log`, `Clean(d)` that every id is found, none twice and none also as evicted. `InsertGood` and `InsertClean` show that
`Insert` keeps both, by way of `Evict` (the oldest entry is the first of its bucket, `BucketHead`, so that
filtering it out leaves the bucket's tail) and `Push`. The same lemmas serve `Generate` and, entry by entry, `Restore`:
`BuiltFrom(s, n, d)` says that the ring of the dag after `n` entries holds the last of them. The rebuild and
the walks are recursive functions. `CountUp`, which is induction over numbers taken from the well-foundedness
of `<`, gives their existence (`RestoredIs`, `AncestorIs`, `DescendantIs`) and what each of their steps preserves.
`NewestRestored` counts: the entries after a dropped one in the order are mapped one to one to the keys
that the property counts. `WalksAgree` shows that without forks one step forward undoes one step back, so that the
checkpoint retraces the walk of `pot_graph`, or ends earlier because it met the event on a cycle.

Assumptions made for a proof and not needed by a run are stated where they are used.
`PotVerifyProofs` assumes `AdmitTtl > 0`: with a cache life of zero nothing bounds a
sample by it. `RequestsAssumption` of `PotVerify`, which TLC evaluates on the instance, says that the
requests are typed and that signatures are not forged: a record whose signature covers its own octets was
issued by the owner of the key. `RecordAssumption` lets no freshness policy be the missing one. `CallAssumption` asks for
a finite set of calls, so that those that passed can be counted, and `GateAssumption` for a finite set of requests, as
the places in its queue are. `TakenOnceButAtTheEdge` assumes
`OneWindow`: all policies have one window, as the tier windows of one context's manifest do; the
ledger's entries are counted with the window of the call that made them, so that two windows for one
context could let a record in twice.

`CausalLogAssumption` lets the walk back be no longer than the walk forward (`GraphDepth <= Hops`): `pot_graph` caps its depth
at 100 (tools.ts:970) and `pot_checkpoint` makes 1000 hops (tools.ts:1176).

Only model-checked: the liveness properties `EveryRequestEnds`, `ClosedBucketsReported` and `EveryGateEnds`, which are out of
the prover's reach. Every other property of a passing run is stated by a theorem.

## 5. Not modelled, and the limits of what is

* *XDP limiter and tuner* (`infra/tttps-xdp`): per-packet kernel code whose only state are counters
  compared with a limit, and a script that sets the limit from them every five seconds.
* *GRG pipeline of `pot_verify`*: its check is the external library's; the tool adds no state.
* *Strict JSON readers, telemetry, the x402 package, installation and scripts*: parsing, output
  and packaging, without state that another part reads.
* *The stdio branch of `checkRateLimit`* with its usage file: nothing in the repository calls it.
* *Demo gate*: the rate buckets, the chat, event stream and status pages. Amounts are abstracted to
  Bob's single transfer of 1, or 2 in the altered form.
* *`Gateway`'s rate table* (gateway.mjs:44) is a refusal that may happen.
* *`ToolCalls`* does not restart: its buckets are per process and a restart empties them. One POST is
  one call: a JSON-RPC batch, several calls in a POST that the buckets count once, is outside it, as is
  `FREE_TIER_PER_MIN` 0, which switches the burst bucket off.
* *`Ledgers`* lets its clocks go forward only.
* *`CausalLog`* lets SCAN return a key once. Redis may repeat one, and `restoreDagEntry` then passes over it unless the ring has been
  filled in between, which after the sort takes `LogMax` entries of one millisecond.
* *`PotRecord`* compares TAI timestamps with the Unix clock as the code does, on one axis.
* The compression of `pot_graph` answers, `maxTokens` included (README.md:244 gives a default of 2000 and
  the code none), shapes an answer and is not modelled.

## 6. Next

Liveness stays with TLC. What could still be proved is more refinement: `Metering` against a bill in which each
unit appears once, and the steps of `CausalLog` against a log that forgets only its oldest entries.
