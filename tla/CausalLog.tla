----------------------------- MODULE CausalLog -----------------------------
(***************************************************************************)
(* The causal event log of tools.ts: a bounded ring of entries, the two    *)
(* indexes that must follow it, the bounded memory of evicted event ids,   *)
(* the fire-and-forget copy in Redis and the rebuild from it at start-up   *)
(* (index.ts).                                                             *)
(*                                                                         *)
(* A pot_generate call awaits the time synthesis before it touches any of  *)
(* this and reads nothing of it earlier; from there on it runs to its end  *)
(* without another await.  So a call is one step, taken when its synthesis *)
(* is done: concurrent calls commit in any order, a child before its parent*)
(* or with an older createdAt than the entry before it.  Calls that go to  *)
(* the paid server leave the log alone and are not steps of this module.   *)
(***************************************************************************)
EXTENDS Naturals, Sequences, FiniteSets, SequencesExt

CONSTANTS
  EventIds,     \* event ids that clients use
  NoEvent,      \* an absent eventId or prevEventId
  LogMax,       \* POT_LOG_MAX
  EvictedMax,   \* EVICTED_MAX
  GraphDepth,   \* the depth argument of pot_graph, at most 100
  Hops,         \* hops of pot_checkpoint along the forward index (1000)
  MaxEntries,   \* bound on the pot_generate calls
  MaxTime,      \* bound on Date.now()
  MaxQueue,     \* bound on the Redis writes under way
  MaxRestarts   \* bound on the restarts

ASSUME CausalLogAssumption ==
  /\ {LogMax, EvictedMax, GraphDepth, Hops, MaxEntries, MaxQueue} \subseteq Nat \ {0}
  /\ {MaxTime, MaxRestarts} \subseteq Nat
  /\ GraphDepth <= Hops
  /\ NoEvent \notin EventIds

VARIABLES
  dag,        \* [log, byId, byPrev, evicted]: potLog, potByEventId,
              \* potByPrevEventId and evictedEventIds in insertion order
  calls,      \* completed pot_generate calls: also tells equal entries apart
  lastPot,    \* the call whose timestamp the freshness seal shows, 0 if none
  redis,      \* the keys dag:*, event id -> persisted entry
  writes,     \* setex commands sent and not yet answered, in order
  restarts,
  reused      \* history: an event id was used while the log remembered it

vars == <<dag, calls, lastPot, redis, writes, restarts, reused>>

Ids   == EventIds \cup {NoEvent}
Entry == [call : Nat, eventId : Ids, prevEventId : Ids, createdAt : 0 .. MaxTime]

EmptyDag == [log |-> <<>>, byId |-> <<>>, byPrev |-> <<>>, evicted |-> <<>>]

----------------------------------------------------------------------------
(* Inserting an entry.                                                     *)

Without(f, x) == [y \in DOMAIN f \ {x} |-> f[y]]
With(f, x, v) == [y \in DOMAIN f \cup {x} |-> IF y = x THEN v ELSE f[y]]

(* A Set keeps the place of an id it already has; the oldest one goes when *)
(* there are more than EvictedMax.                                         *)
Remember(ids, id) ==
  IF Contains(ids, id) THEN ids
  ELSE IF Len(ids) = EvictedMax THEN Append(Tail(ids), id)
  ELSE Append(ids, id)

(* Mutant of Unlink: the whole bucket goes.                                *)
UnlinkBucket(byPrev, e) == Without(byPrev, e.prevEventId)

(* A bucket holds the same entry once at most.                             *)
Filtered(bucket, e) ==
  IF Contains(bucket, e) THEN RemoveAt(bucket, CHOOSE i \in DOMAIN bucket : bucket[i] = e)
  ELSE bucket

(* The bucket of prev without this very entry, and no empty buckets.       *)
Unlink(byPrev, e) ==
  IF e.prevEventId \notin DOMAIN byPrev THEN byPrev
  ELSE LET left == Filtered(byPrev[e.prevEventId], e)
       IN IF left = <<>> THEN Without(byPrev, e.prevEventId)
          ELSE With(byPrev, e.prevEventId, left)

(* Mutants of Evict: the id index keeps the evicted entry; or it loses the *)
(* entry that is first after the shift.                                    *)
EvictUnindexed(d) ==
  LET e == Head(d.log)
  IN [d EXCEPT !.log = Tail(@), !.byPrev = Unlink(@, e),
               !.evicted = IF e.eventId = NoEvent THEN @ ELSE Remember(@, e.eventId)]
EvictNext(d) ==
  LET e == Head(d.log)
  IN [d EXCEPT !.log = Tail(@), !.byPrev = Unlink(@, e),
               !.byId = IF Len(d.log) > 1 THEN Without(@, d.log[2].eventId) ELSE @]

Evict(d) ==
  LET e == Head(d.log)
  IN [log     |-> Tail(d.log),
      byId    |-> Without(d.byId, e.eventId),
      byPrev  |-> Unlink(d.byPrev, e),
      evicted |-> IF e.eventId = NoEvent THEN d.evicted
                  ELSE Remember(d.evicted, e.eventId)]

Bucket(byPrev, p) == IF p \in DOMAIN byPrev THEN byPrev[p] ELSE <<>>

(* Mutant of Push: a child that comes before its parent is not linked.    *)
PushLinked(d, e) ==
  [log     |-> Append(d.log, e),
   byId    |-> IF e.eventId = NoEvent THEN d.byId ELSE With(d.byId, e.eventId, e),
   byPrev  |-> IF e.prevEventId \notin DOMAIN d.byId THEN d.byPrev
               ELSE With(d.byPrev, e.prevEventId,
                         Append(Bucket(d.byPrev, e.prevEventId), e)),
   evicted |-> d.evicted]

Push(d, e) ==
  [log     |-> Append(d.log, e),
   byId    |-> IF e.eventId = NoEvent THEN d.byId ELSE With(d.byId, e.eventId, e),
   byPrev  |-> IF e.prevEventId = NoEvent THEN d.byPrev
               ELSE With(d.byPrev, e.prevEventId,
                         Append(Bucket(d.byPrev, e.prevEventId), e)),
   evicted |-> d.evicted]

(* Mutant of Insert: > for >=.                                             *)
InsertLate(d, e) == Push(IF Len(d.log) > LogMax THEN Evict(d) ELSE d, e)

Insert(d, e) == Push(IF Len(d.log) >= LogMax THEN Evict(d) ELSE d, e)

(* restoreDagEntry passes over an event id that is already there.          *)
RestoreEntry(d, e) == IF e.eventId \in DOMAIN d.byId THEN d ELSE Insert(d, e)

----------------------------------------------------------------------------
(* pot_generate, when its time synthesis is done.                          *)

(* The log still remembers the event id.                                   *)
Used(e) == e \in DOMAIN dag.byId \/ Contains(dag.evicted, e)

Generate(e, p) ==
  /\ calls < MaxEntries
  /\ e # NoEvent => Len(writes) < MaxQueue
  /\ \E t \in 0 .. MaxTime :
       LET entry == [call |-> calls + 1, eventId |-> e, prevEventId |-> p, createdAt |-> t]
       IN /\ dag' = Insert(dag, entry)
          /\ writes' = IF e = NoEvent THEN writes ELSE Append(writes, entry)
  /\ calls' = calls + 1
  /\ lastPot' = calls + 1
  /\ reused' = (reused \/ Used(e))
  /\ UNCHANGED <<redis, restarts>>

(* Redis answers the oldest command: the key is set, or the write failed   *)
(* and nobody notices.                                                     *)
RedisSets ==
  /\ writes # <<>>
  /\ redis' = With(redis, Head(writes).eventId, Head(writes))
  /\ writes' = Tail(writes)
  /\ UNCHANGED <<dag, calls, lastPot, restarts, reused>>

RedisFails ==
  /\ writes # <<>>
  /\ writes' = Tail(writes)
  /\ UNCHANGED <<dag, calls, lastPot, redis, restarts, reused>>

(* A key's ninety days are over.                                           *)
RedisExpires(e) ==
  /\ e \in DOMAIN redis
  /\ redis' = Without(redis, e)
  /\ UNCHANGED <<dag, calls, lastPot, writes, restarts, reused>>

(* The server stops, with the writes that had not reached Redis, and comes *)
(* up again.                                                               *)
Restarts ==
  /\ restarts < MaxRestarts
  /\ restarts' = restarts + 1
  /\ lastPot' = 0
  /\ writes' = <<>>
  /\ UNCHANGED <<calls, redis, reused>>

(* Redis did not answer in time: the log starts empty.                     *)
RestartEmpty == Restarts /\ dag' = EmptyDag

(* Mutant of ByCreation: no sort.                                          *)
ByScan(S) == SetToSeqs(S)

(* SCAN returns the entries in any order; a stable sort by createdAt keeps *)
(* that order for equal times.                                             *)
ByCreation(S) ==
  {s \in SetToSeqs(S) : \A i, j \in DOMAIN s : i < j => s[i].createdAt <= s[j].createdAt}

Persisted == {redis[e] : e \in DOMAIN redis}

(* The dag after the first n entries of s.                                 *)
Restored(s) ==
  LET after[n \in 0 .. Len(s)] ==
        IF n = 0 THEN EmptyDag ELSE RestoreEntry(after[n - 1], s[n])
  IN after

Restore ==
  /\ Restarts
  /\ \E s \in ByCreation(Persisted) : dag' = Restored(s)[Len(s)]

Init ==
  /\ dag = EmptyDag /\ calls = 0 /\ lastPot = 0
  /\ redis = <<>> /\ writes = <<>> /\ restarts = 0 /\ reused = FALSE

Next ==
  \/ \E e, p \in Ids : Generate(e, p)
  \/ RedisSets \/ RedisFails \/ \E e \in EventIds : RedisExpires(e)
  \/ RestartEmpty \/ Restore

Spec == Init /\ [][Next]_vars

----------------------------------------------------------------------------
(* Queries.  They change nothing: their answers are operators.             *)

Nothing  == [call |-> 0, eventId |-> NoEvent, prevEventId |-> NoEvent, createdAt |-> 0]
Find(id) == IF id \in DOMAIN dag.byId THEN dag.byId[id] ELSE Nothing

(* pot_graph walks back from id: the cursor after n steps, and the entries *)
(* it passed, whose number is the reachable depth.                         *)
Ancestor(id) ==
  LET at[n \in 0 .. GraphDepth] ==
        IF n = 0 THEN Find(id) ELSE Find(at[n - 1].prevEventId)
  IN at
Backward(id) == {Ancestor(id)[n] : n \in 0 .. GraphDepth - 1} \ {Nothing}
Missing(p)   == p # NoEvent /\ p \notin DOMAIN dag.byId
ChainBroken(id) ==
  \/ \E e \in Backward(id) : Contains(dag.evicted, e.eventId)
  \/ Missing(Ancestor(id)[GraphDepth].prevEventId)

(* pot_checkpoint walks forward from one id to another, along the first    *)
(* child of every entry, and calls the chain intact when no entry on the   *)
(* way has an evicted id.                                                  *)
Descendant(from, to) ==
  LET at[n \in 0 .. Hops] ==
        IF n = 0 THEN Find(from)
        ELSE LET nexts == Bucket(dag.byPrev, at[n - 1].eventId)
             IN IF at[n - 1].eventId = to \/ nexts = <<>> THEN Nothing ELSE Head(nexts)
  IN at
Rollup(from, to) == {Descendant(from, to)[n] : n \in 0 .. Hops - 1} \ {Nothing}
ChainIntact(from, to) == \A e \in Rollup(from, to) : ~Contains(dag.evicted, e.eventId)

----------------------------------------------------------------------------
TypeOK ==
  /\ dag.log \in Seq(Entry) /\ Len(dag.log) <= LogMax /\ IsInjective(dag.log)
  /\ DOMAIN dag.byId \subseteq EventIds /\ DOMAIN dag.byPrev \subseteq EventIds
  /\ dag.evicted \in Seq(EventIds) /\ Len(dag.evicted) <= EvictedMax
  /\ IsInjective(dag.evicted)
  /\ calls \in 0 .. MaxEntries /\ lastPot \in {0, calls} /\ restarts \in 0 .. MaxRestarts
  /\ DOMAIN redis \subseteq EventIds /\ \A e \in DOMAIN redis : redis[e].eventId = e
  /\ writes \in Seq(Entry) /\ Len(writes) <= MaxQueue

(* The forward index holds, for every prevEventId in the ring, exactly the *)
(* entries that follow it, oldest first, whatever was evicted or restored  *)
(* between them; it keeps no empty bucket.                                 *)
Children(d, p)     == {d.log[i] : i \in {j \in DOMAIN d.log : d.log[j].prevEventId = p}}
Before(d, e, f)    == \E i, j \in DOMAIN d.log : i < j /\ d.log[i] = e /\ d.log[j] = f
ForwardIndexExact(d) ==
  /\ DOMAIN d.byPrev = {d.log[i].prevEventId : i \in DOMAIN d.log} \ {NoEvent}
  /\ \A p \in DOMAIN d.byPrev :
       /\ {d.byPrev[p][i] : i \in DOMAIN d.byPrev[p]} = Children(d, p)
       /\ \A i, j \in DOMAIN d.byPrev[p] :
            i < j => Before(d, d.byPrev[p][i], d.byPrev[p][j])

(* An event id never leads to an entry that has left the ring, nor to one  *)
(* that a later entry of the same id replaced.                             *)
IdIndexNewest(d) ==
  \A id \in DOMAIN d.byId : \E i \in DOMAIN d.log :
    /\ d.log[i] = d.byId[id] /\ d.log[i].eventId = id
    /\ \A j \in DOMAIN d.log : d.log[j].eventId = id => j <= i

(* Both indexes agree with the ring.                                       *)
IndexesExact == ForwardIndexExact(dag) /\ IdIndexNewest(dag)

(* Every entry of the ring that has an event id is found by it, as long as *)
(* no event id was used again while the log remembered it.                 *)
AllFound(d) ==
  \A i \in DOMAIN d.log :
    d.log[i].eventId = NoEvent \/ d.log[i].eventId \in DOMAIN d.byId
EveryEntryFound   == AllFound(dag)
FoundUnlessReused == ~reused => EveryEntryFound

(* Then pot_graph reports no break in a chain whose entries are all there: *)
(* an entry restored or generated is not also remembered as evicted.       *)
NoFalseBreak ==
  \A id \in EventIds :
    ~reused /\ ChainBroken(id)
      => \E n \in 0 .. GraphDepth : Missing(Ancestor(id)[n].prevEventId)

(* The backward and the forward walk agree: where no entry between has two *)
(* children, the checkpoint from an ancestor reaches the event it was      *)
(* asked for, and calls the chain intact.                                  *)
ReachesEnd(from, to) == Find(to) \in Rollup(from, to)
Descends(from, to)   == Find(from) # Nothing /\ Find(from) \in Backward(to)
Unforked == \A p \in DOMAIN dag.byPrev : Len(dag.byPrev[p]) = 1
UnforkedCheckpointReaches ==
  Unforked /\ ~reused => \A from, to \in EventIds :
    Descends(from, to) => ReachesEnd(from, to) /\ ChainIntact(from, to)

(* A restart drops a persisted entry only for entries created no earlier,  *)
(* enough of them to fill the ring (index.ts:69).                          *)
RestoreKeepsNewest ==
  [][Restore =>
       \A id \in DOMAIN redis :
         \/ id \in DOMAIN dag'.byId /\ dag'.byId[id] = redis[id]
         \/ LogMax <= Cardinality({o \in DOMAIN redis \ {id} :
                                     redis[o].createdAt >= redis[id].createdAt})]_vars

----------------------------------------------------------------------------
(* What the documentation says of the queries.                             *)

(* "Keep indexes consistent" (tools.ts:406): EveryEntryFound, above,       *)
(* whatever event ids clients use.                                         *)

(* "Ancestors beyond that window show as chainBroken: true" (README.md:    *)
(* 209).                                                                   *)
EvictedAncestorShows ==
  \A id \in DOMAIN dag.byId :
    (dag.byId[id].prevEventId # NoEvent /\ Contains(dag.evicted, dag.byId[id].prevEventId))
      => ChainBroken(id)
=============================================================================
