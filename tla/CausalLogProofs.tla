-------------------------- MODULE CausalLogProofs --------------------------
(***************************************************************************)
(* What the causal log guarantees for every set of event ids, every size of*)
(* its ring, of the memory of evicted ids and of the walks: the indexes    *)
(* agree with the ring through eviction, reuse and restore, and as long as *)
(* no remembered event id is used again every entry is found, no break is  *)
(* reported that is not there, and both walks agree.                       *)
(***************************************************************************)
EXTENDS CausalLog, SequenceTheorems, FiniteSetTheorems, WellFoundedInduction, TLAPS

(* The invariant of the ring and its indexes, of any dag.                  *)
Ring(d) ==
  /\ d.log \in Seq(Entry) /\ Len(d.log) <= LogMax /\ IsInjective(d.log)
  /\ DOMAIN d.byId \subseteq EventIds /\ DOMAIN d.byPrev \subseteq EventIds
  /\ \A p \in DOMAIN d.byPrev : d.byPrev[p] \in Seq(Entry)

Forgotten(d) ==
  /\ d.evicted \in Seq(EventIds) /\ Len(d.evicted) <= EvictedMax /\ IsInjective(d.evicted)

Good(d) == Ring(d) /\ Forgotten(d) /\ ForwardIndexExact(d) /\ IdIndexNewest(d)

(* The oldest entry of the ring is the first of its bucket, and a bucket   *)
(* holds an entry once.                                                    *)
LEMMA BucketHead ==
  ASSUME NEW d, Ring(d), ForwardIndexExact(d), d.log # <<>>,
         NEW p, p = d.log[1].prevEventId, p # NoEvent
  PROVE  /\ p \in DOMAIN d.byPrev /\ d.byPrev[p] # <<>>
         /\ d.byPrev[p][1] = d.log[1] /\ IsInjective(d.byPrev[p])
<1> DEFINE b == d.byPrev[p]
<1>1. d.log \in Seq(Entry) /\ 1 \in DOMAIN d.log /\ DOMAIN d.log = 1 .. Len(d.log)
  BY DEF Ring
<1>2. p \in DOMAIN d.byPrev
  BY <1>1 DEF ForwardIndexExact
<1>3. b \in Seq(Entry) /\ DOMAIN b = 1 .. Len(b) /\ Len(b) \in Nat
  BY <1>2 DEF Ring
<1>4. /\ {b[i] : i \in DOMAIN b} = Children(d, p)
      /\ \A i, j \in DOMAIN b : i < j => Before(d, b[i], b[j])
  BY <1>2 DEF ForwardIndexExact
<1>5. PICK i \in DOMAIN b : b[i] = d.log[1]
  BY <1>1, <1>4 DEF Children
<1> HIDE DEF b
<1>6. IsInjective(d.log)
  BY DEF Ring
<1>7. i = 1
  <2> SUFFICES ASSUME i # 1 PROVE FALSE
    OBVIOUS
  <2>1. 1 \in DOMAIN b /\ 1 < i
    BY <1>3
  <2>2. PICK k, l \in DOMAIN d.log : k < l /\ d.log[l] = d.log[1]
    BY <2>1, <1>4, <1>5 DEF Before
  <2> QED
    BY <2>2, <1>1, <1>6 DEF IsInjective
<1>8. ASSUME NEW x \in DOMAIN b, NEW y \in DOMAIN b, x < y PROVE b[x] # b[y]
  <2>1. PICK k, l \in DOMAIN d.log : k < l /\ d.log[k] = b[x] /\ d.log[l] = b[y]
    BY <1>4, <1>8 DEF Before
  <2> QED
    BY <2>1, <1>1, <1>6 DEF IsInjective
<1>9. IsInjective(b)
  BY <1>3, <1>8 DEF IsInjective
<1> QED
  BY <1>2, <1>3, <1>5, <1>7, <1>9 DEF b

(* Filtering out the first entry of a bucket leaves its tail.              *)
LEMMA FilteredHead ==
  ASSUME NEW b \in Seq(Entry), b # <<>>, IsInjective(b)
  PROVE  Filtered(b, b[1]) = Tail(b)
<1>1. 1 \in DOMAIN b /\ Contains(b, b[1]) /\ DOMAIN b = 1 .. Len(b) /\ Len(b) \in Nat
  BY DEF Contains
<1>2. (CHOOSE i \in DOMAIN b : b[i] = b[1]) = 1
  BY <1>1 DEF IsInjective
<1>3. Filtered(b, b[1]) = RemoveAt(b, 1)
  BY <1>1, <1>2 DEF Filtered
<1>4. RemoveAt(b, 1) = Tail(b)
  BY <1>1 DEF RemoveAt
<1> QED
  BY <1>3, <1>4

LEMMA EmptyIs ==
  ASSUME NEW S, NEW s \in Seq(S)
  PROVE  s = <<>> <=> Len(s) = 0
BY EmptySeq

LEMMA TailIs ==
  ASSUME NEW S, NEW s \in Seq(S), s # <<>>
  PROVE  /\ Tail(s) \in Seq(S) /\ Len(s) \in Nat \ {0} /\ Len(Tail(s)) = Len(s) - 1
         /\ DOMAIN s = 1 .. Len(s) /\ DOMAIN Tail(s) = 1 .. Len(s) - 1
         /\ \A i \in DOMAIN Tail(s) : i + 1 \in DOMAIN s /\ Tail(s)[i] = s[i + 1]
         /\ \A i \in DOMAIN s : i # 1 => i - 1 \in DOMAIN Tail(s) /\ Tail(s)[i - 1] = s[i]
OBVIOUS

LEMMA TailInjective ==
  ASSUME NEW S, NEW s \in Seq(S), s # <<>>, IsInjective(s)
  PROVE  /\ IsInjective(Tail(s))
         /\ {Tail(s)[i] : i \in DOMAIN Tail(s)} = {s[i] : i \in DOMAIN s} \ {s[1]}
<1>1. \A i, j \in DOMAIN s : s[i] = s[j] => i = j
  BY DEF IsInjective
<1> DEFINE t == Tail(s)
<1>2. /\ 1 \in DOMAIN s /\ DOMAIN s \subseteq Nat /\ DOMAIN t \subseteq Nat \ {0}
      /\ \A i \in DOMAIN t : i + 1 \in DOMAIN s /\ t[i] = s[i + 1]
      /\ \A i \in DOMAIN s : i # 1 => i - 1 \in DOMAIN t /\ t[i - 1] = s[i]
  BY TailIs
<1> HIDE DEF t
<1>3. \A i, j \in DOMAIN t : t[i] = t[j] => i = j
  BY <1>1, <1>2
<1>4. \A i \in DOMAIN t : t[i] # s[1]
  BY <1>1, <1>2
<1>5. ASSUME NEW i \in DOMAIN t PROVE t[i] \in {s[j] : j \in DOMAIN s} \ {s[1]}
  <2>1. i + 1 \in DOMAIN s /\ t[i] = s[i + 1] /\ t[i] # s[1]
    BY <1>2, <1>4
  <2> QED
    BY <2>1
<1>6. ASSUME NEW i \in DOMAIN s, s[i] # s[1] PROVE s[i] \in {t[j] : j \in DOMAIN t}
  <2>1. i - 1 \in DOMAIN t /\ t[i - 1] = s[i]
    BY <1>2, <1>6
  <2> QED
    BY <2>1
<1>7. IsInjective(t)
  BY <1>3 DEF IsInjective
<1> QED
  BY <1>5, <1>6, <1>7 DEF t

LEMMA AppendIs ==
  ASSUME NEW S, NEW s \in Seq(S), NEW x \in S
  PROVE  /\ Append(s, x) \in Seq(S) /\ Len(s) \in Nat /\ Len(Append(s, x)) = Len(s) + 1
         /\ DOMAIN s = 1 .. Len(s) /\ DOMAIN Append(s, x) = 1 .. Len(s) + 1
         /\ \A i \in DOMAIN s : Append(s, x)[i] = s[i]
         /\ Append(s, x)[Len(s) + 1] = x
OBVIOUS

LEMMA AppendInjects ==
  ASSUME NEW S, NEW s \in Seq(S), NEW x \in S, IsInjective(s), \A i \in DOMAIN s : s[i] # x
  PROVE  IsInjective(Append(s, x))
BY AppendIs DEF IsInjective

(* Unlinking the oldest entry takes the first entry of its bucket.         *)
LEMMA UnlinkIs ==
  ASSUME NEW d, Ring(d), ForwardIndexExact(d), d.log # <<>>
  PROVE  /\ \A p : p \in DOMAIN Unlink(d.byPrev, d.log[1]) <=>
                  p \in DOMAIN d.byPrev /\ (p # d.log[1].prevEventId \/ Len(d.byPrev[p]) > 1)
         /\ \A p \in DOMAIN Unlink(d.byPrev, d.log[1]) :
              Unlink(d.byPrev, d.log[1])[p] =
                IF p = d.log[1].prevEventId THEN Tail(d.byPrev[p]) ELSE d.byPrev[p]
<1> DEFINE e == d.log[1]
           p0 == e.prevEventId
           b == d.byPrev[p0]
<1>1. CASE p0 \notin DOMAIN d.byPrev
  BY <1>1 DEF Unlink
<1>2. CASE p0 \in DOMAIN d.byPrev
  <2>1. p0 # NoEvent
    BY <1>2, CausalLogAssumption DEF Ring
  <2>2. b # <<>> /\ b[1] = e /\ IsInjective(b) /\ b \in Seq(Entry)
    BY <1>2, <2>1, BucketHead DEF Ring
  <2>3. Filtered(b, e) = Tail(b)
    BY <2>2, FilteredHead
  <2>4. Tail(b) = <<>> <=> ~(Len(b) > 1)
    <3> HIDE DEF b
    <3>1. Tail(b) \in Seq(Entry) /\ Len(Tail(b)) = Len(b) - 1 /\ Len(b) \in Nat \ {0}
      BY <2>2, TailIs
    <3>2. Tail(b) = <<>> <=> Len(Tail(b)) = 0
      BY <3>1, EmptyIs
    <3> QED
      BY <3>1, <3>2
  <2>5. Unlink(d.byPrev, e) = IF Len(b) > 1 THEN With(d.byPrev, p0, Tail(b)) ELSE Without(d.byPrev, p0)
    BY <1>2, <2>3, <2>4 DEF Unlink
  <2>6. CASE Len(b) > 1
    BY <1>2, <2>5, <2>6 DEF With
  <2>7. CASE ~(Len(b) > 1)
    BY <1>2, <2>5, <2>7 DEF Without
  <2> QED
    BY <2>6, <2>7
<1> QED
  BY <1>1, <1>2

(* Eviction leaves the other entries at their places.                      *)
LEMMA EvictLog ==
  ASSUME NEW d, Ring(d), d.log # <<>>
  PROVE  /\ Evict(d).log = Tail(d.log) /\ Head(d.log) = d.log[1] /\ d.log[1] \in Entry
         /\ Evict(d).log \in Seq(Entry) /\ Len(Evict(d).log) = Len(d.log) - 1
         /\ IsInjective(Evict(d).log) /\ 1 \in DOMAIN d.log
         /\ DOMAIN d.log \subseteq Nat \ {0} /\ DOMAIN Evict(d).log \subseteq Nat \ {0}
         /\ \A i \in DOMAIN Evict(d).log :
              i + 1 \in DOMAIN d.log /\ Evict(d).log[i] = d.log[i + 1]
         /\ \A i \in DOMAIN d.log :
              i # 1 => i - 1 \in DOMAIN Evict(d).log /\ Evict(d).log[i - 1] = d.log[i]
<1>1. d.log \in Seq(Entry) /\ IsInjective(d.log)
  BY DEF Ring
<1>2. Evict(d).log = Tail(d.log) /\ Head(d.log) = d.log[1]
  BY <1>1 DEF Evict
<1>3. 1 \in DOMAIN d.log /\ DOMAIN d.log \subseteq Nat \ {0} /\ d.log[1] \in Entry
  BY <1>1
<1> QED
  BY <1>1, <1>2, <1>3, TailIs, TailInjective

LEMMA EvictForward ==
  ASSUME NEW d, Ring(d), ForwardIndexExact(d), d.log # <<>>
  PROVE  ForwardIndexExact(Evict(d))
<1> DEFINE e == d.log[1]
           p0 == e.prevEventId
           t == Evict(d).log
           u == Evict(d).byPrev
<1>1. /\ Head(d.log) = e /\ 1 \in DOMAIN d.log
      /\ DOMAIN d.log \subseteq Nat \ {0} /\ DOMAIN t \subseteq Nat \ {0}
      /\ \A i \in DOMAIN t : i + 1 \in DOMAIN d.log /\ t[i] = d.log[i + 1]
      /\ \A i \in DOMAIN d.log : i # 1 => i - 1 \in DOMAIN t /\ t[i - 1] = d.log[i]
  BY EvictLog
<1>2. \A i, j \in DOMAIN d.log : d.log[i] = d.log[j] => i = j
  BY DEF Ring, IsInjective
<1>3. u = Unlink(d.byPrev, e)
  BY <1>1 DEF Evict
<1>4. /\ \A p : p \in DOMAIN u <=> p \in DOMAIN d.byPrev /\ (p # p0 \/ Len(d.byPrev[p]) > 1)
      /\ \A p \in DOMAIN u : u[p] = IF p = p0 THEN Tail(d.byPrev[p]) ELSE d.byPrev[p]
  BY <1>3, UnlinkIs
<1>5. /\ DOMAIN d.byPrev = {d.log[i].prevEventId : i \in DOMAIN d.log} \ {NoEvent}
      /\ \A p \in DOMAIN d.byPrev :
           /\ {d.byPrev[p][i] : i \in DOMAIN d.byPrev[p]} = Children(d, p)
           /\ \A i, j \in DOMAIN d.byPrev[p] :
                i < j => Before(d, d.byPrev[p][i], d.byPrev[p][j])
  BY DEF ForwardIndexExact
<1>6. \A p \in DOMAIN d.byPrev : d.byPrev[p] \in Seq(Entry)
  BY DEF Ring
<1>7. p0 \in DOMAIN d.byPrev =>
        /\ d.byPrev[p0] # <<>> /\ d.byPrev[p0][1] = e /\ IsInjective(d.byPrev[p0])
  BY <1>5, BucketHead
<1>8. ASSUME NEW p PROVE Children(Evict(d), p) = Children(d, p) \ {e}
  <2>1. ASSUME NEW x \in Children(Evict(d), p) PROVE x \in Children(d, p) \ {e}
    <3>1. PICK i \in DOMAIN t : t[i] = x /\ t[i].prevEventId = p
      BY DEF Children
    <3>2. i + 1 \in DOMAIN d.log /\ d.log[i + 1] = x /\ i + 1 # 1
      BY <3>1, <1>1
    <3>3. x # e
      BY <3>2, <1>1, <1>2
    <3> QED
      BY <3>1, <3>2, <3>3 DEF Children
  <2>2. ASSUME NEW x \in Children(d, p), x # e PROVE x \in Children(Evict(d), p)
    <3>1. PICK i \in DOMAIN d.log : d.log[i] = x /\ d.log[i].prevEventId = p
      BY DEF Children
    <3>2. i - 1 \in DOMAIN t /\ t[i - 1] = x
      BY <2>2, <3>1, <1>1
    <3> QED
      BY <3>1, <3>2 DEF Children
  <2> QED
    BY <2>1, <2>2
<1>9. ASSUME NEW x, NEW y, Before(d, x, y), x # e PROVE Before(Evict(d), x, y)
  <2>1. PICK i, j \in DOMAIN d.log : i < j /\ d.log[i] = x /\ d.log[j] = y
    BY <1>9 DEF Before
  <2>2. i # 1 /\ j # 1 /\ i - 1 < j - 1
    BY <2>1, <1>9, <1>1
  <2>3. i - 1 \in DOMAIN t /\ t[i - 1] = x /\ j - 1 \in DOMAIN t /\ t[j - 1] = y
    BY <2>1, <2>2, <1>1
  <2> QED
    BY <2>2, <2>3 DEF Before
<1> HIDE DEF t, u, e, p0
<1>10. ASSUME NEW p \in DOMAIN u
       PROVE  /\ {u[p][i] : i \in DOMAIN u[p]} = Children(Evict(d), p)
              /\ \A i, j \in DOMAIN u[p] : i < j => Before(Evict(d), u[p][i], u[p][j])
  <2> DEFINE b == d.byPrev[p]
  <2>1. p \in DOMAIN d.byPrev
    BY <1>4
  <2>2. b \in Seq(Entry) /\ {b[i] : i \in DOMAIN b} = Children(d, p)
    BY <2>1, <1>5, <1>6
  <2>3. CASE p = p0
    <3>1. u[p] = Tail(b) /\ b # <<>> /\ b[1] = e /\ IsInjective(b)
      BY <2>1, <2>3, <1>4, <1>7
    <3>2. {u[p][i] : i \in DOMAIN u[p]} = {b[i] : i \in DOMAIN b} \ {e}
      BY <2>2, <3>1, TailInjective
    <3>3. /\ 1 \in DOMAIN b
          /\ \A i \in DOMAIN u[p] : i \in Nat \ {0} /\ i + 1 \in DOMAIN b /\ u[p][i] = b[i + 1]
      BY <2>2, <3>1, TailIs
    <3>4. ASSUME NEW i \in DOMAIN u[p], NEW j \in DOMAIN u[p], i < j
          PROVE  Before(Evict(d), u[p][i], u[p][j])
      <4>1. i + 1 \in DOMAIN b /\ j + 1 \in DOMAIN b /\ i + 1 < j + 1 /\ i + 1 # 1
        BY <3>3, <3>4
      <4>2. Before(d, b[i + 1], b[j + 1])
        BY <4>1, <2>1, <1>5
      <4>3. b[i + 1] # e
        BY <4>1, <3>1, <3>3 DEF IsInjective
      <4> QED
        BY <4>2, <4>3, <3>3, <1>9
    <3> QED
      BY <3>2, <3>4, <2>2, <1>8
  <2>4. CASE p # p0
    <3>1. u[p] = b
      BY <2>4, <1>4
    <3>2. e \notin Children(d, p)
      BY <2>4, <1>1, <1>2 DEF Children, e, p0
    <3>3. \A i \in DOMAIN b : b[i] # e
      BY <3>2, <2>2
    <3> QED
      BY <3>1, <3>2, <3>3, <2>1, <2>2, <1>5, <1>8, <1>9
  <2> QED
    BY <2>3, <2>4
<1>11. ASSUME NEW p PROVE p \in DOMAIN u <=> p \in {t[i].prevEventId : i \in DOMAIN t} \ {NoEvent}
  <2>1. ASSUME p \in DOMAIN u PROVE p \in {t[i].prevEventId : i \in DOMAIN t} \ {NoEvent}
    <3>1. p \in DOMAIN d.byPrev /\ p # NoEvent
      BY <2>1, <1>4, <1>5
    <3>2. PICK x \in Children(Evict(d), p) : TRUE
      <4>1. {u[p][i] : i \in DOMAIN u[p]} = Children(Evict(d), p)
        BY <2>1, <1>10
      <4>2. CASE p = p0
        <5>1. u[p] = Tail(d.byPrev[p]) /\ Len(d.byPrev[p]) > 1 /\ d.byPrev[p] \in Seq(Entry)
          BY <2>1, <3>1, <4>2, <1>4, <1>6
        <5>2. 1 \in DOMAIN u[p]
          BY <5>1, <4>2, <1>7, <3>1, TailIs
        <5> QED
          BY <5>2, <4>1
      <4>3. CASE p # p0
        <5>1. PICK i \in DOMAIN d.log : d.log[i].prevEventId = p
          BY <3>1, <1>5
        <5>2. d.log[i] \in Children(d, p) /\ d.log[i] # e
          BY <5>1, <4>3 DEF Children, p0
        <5> QED
          BY <5>2, <1>8
      <4> QED
        BY <4>2, <4>3
    <3> QED
      BY <3>1, <3>2 DEF Children, t
  <2>2. ASSUME NEW i \in DOMAIN t, t[i].prevEventId = p, p # NoEvent PROVE p \in DOMAIN u
    <3>1. i + 1 \in DOMAIN d.log /\ t[i] = d.log[i + 1] /\ i + 1 # 1
      BY <1>1 DEF t
    <3>2. p \in DOMAIN d.byPrev /\ t[i] \in Children(d, p) /\ t[i] # e
      BY <3>1, <2>2, <1>1, <1>2, <1>5 DEF Children, e
    <3>3. CASE p = p0
      <4> DEFINE b == d.byPrev[p]
      <4>1. b \in Seq(Entry) /\ b[1] = e
        BY <3>2, <3>3, <1>6, <1>7
      <4>2. PICK k \in DOMAIN b : b[k] = t[i]
        BY <3>2, <1>5
      <4>3. k # 1
        BY <4>1, <4>2, <3>2
      <4>4. Len(b) > 1
        BY <4>1, <4>2, <4>3
      <4> QED
        BY <4>4, <3>2, <1>4
    <3> QED
      BY <3>2, <3>3, <1>4
  <2> QED
    BY <2>1, <2>2
<1> QED
  BY <1>10, <1>11 DEF ForwardIndexExact, t, u

LEMMA EvictNewest ==
  ASSUME NEW d, Ring(d), IdIndexNewest(d), d.log # <<>>
  PROVE  IdIndexNewest(Evict(d))
<1> DEFINE t == Evict(d).log
<1>1. /\ Head(d.log) = d.log[1] /\ DOMAIN d.log \subseteq Nat \ {0} /\ DOMAIN t \subseteq Nat \ {0}
      /\ \A i \in DOMAIN t : i + 1 \in DOMAIN d.log /\ t[i] = d.log[i + 1]
      /\ \A i \in DOMAIN d.log : i # 1 => i - 1 \in DOMAIN t /\ t[i - 1] = d.log[i]
  BY EvictLog
<1>2. /\ DOMAIN Evict(d).byId = DOMAIN d.byId \ {d.log[1].eventId}
      /\ \A id \in DOMAIN Evict(d).byId : Evict(d).byId[id] = d.byId[id]
  BY <1>1 DEF Evict, Without
<1> SUFFICES ASSUME NEW id \in DOMAIN Evict(d).byId
             PROVE  \E i \in DOMAIN t : /\ t[i] = Evict(d).byId[id] /\ t[i].eventId = id
                                        /\ \A j \in DOMAIN t : t[j].eventId = id => j <= i
  BY DEF IdIndexNewest
<1>3. PICK i \in DOMAIN d.log :
        /\ d.log[i] = d.byId[id] /\ d.log[i].eventId = id
        /\ \A j \in DOMAIN d.log : d.log[j].eventId = id => j <= i
  BY <1>2 DEF IdIndexNewest
<1>4. i # 1
  BY <1>2, <1>3
<1> HIDE DEF t
<1>5. i - 1 \in DOMAIN t /\ t[i - 1] = d.byId[id] /\ t[i - 1].eventId = id
  BY <1>1, <1>3, <1>4
<1>6. ASSUME NEW j \in DOMAIN t, t[j].eventId = id PROVE j <= i - 1
  <2>1. j + 1 \in DOMAIN d.log /\ d.log[j + 1].eventId = id
    BY <1>1, <1>6
  <2>2. j + 1 <= i
    BY <2>1, <1>3
  <2> QED
    BY <2>2, <1>1
<1> QED
  BY <1>2, <1>5, <1>6

(* What a set of remembered ids is after one more.                         *)
LEMMA RememberIs ==
  ASSUME NEW ids \in Seq(EventIds), NEW id \in EventIds, IsInjective(ids), Len(ids) <= EvictedMax
  PROVE  /\ Remember(ids, id) \in Seq(EventIds) /\ IsInjective(Remember(ids, id))
         /\ Len(Remember(ids, id)) <= EvictedMax
         /\ \A x : Contains(Remember(ids, id), x) => x = id \/ Contains(ids, x)
<1> USE CausalLogAssumption
<1>1. CASE Contains(ids, id)
  BY <1>1 DEF Remember
<1>2. CASE ~Contains(ids, id) /\ Len(ids) = EvictedMax
  <2> DEFINE t == Tail(ids)
  <2>1. Remember(ids, id) = Append(t, id) /\ ids # <<>>
    BY <1>2 DEF Remember
  <2>2. /\ t \in Seq(EventIds) /\ Len(t) = Len(ids) - 1 /\ IsInjective(t)
        /\ \A i \in DOMAIN t : i + 1 \in DOMAIN ids /\ t[i] = ids[i + 1]
    BY <2>1, TailIs, TailInjective
  <2>3. \A i \in DOMAIN ids : ids[i] # id
    BY <1>2 DEF Contains
  <2> HIDE DEF t
  <2>4. \A i \in DOMAIN t : t[i] # id
    BY <2>2, <2>3
  <2>5. IsInjective(Append(t, id)) /\ Append(t, id) \in Seq(EventIds) /\ Len(Append(t, id)) = Len(ids)
    BY <2>2, <2>4, AppendIs, AppendInjects
  <2>6. ASSUME NEW x, Contains(Append(t, id), x) PROVE x = id \/ Contains(ids, x)
    <3>1. PICK i \in 1 .. Len(t) + 1 : Append(t, id)[i] = x
      BY <2>6, <2>2, AppendIs DEF Contains
    <3>2. CASE i \in DOMAIN t
      BY <3>1, <3>2, <2>2, AppendIs DEF Contains
    <3>3. CASE i = Len(t) + 1
      BY <3>1, <3>3, <2>2, AppendIs
    <3> QED
      BY <3>1, <3>2, <3>3, <2>2
  <2> QED
    BY <2>1, <2>5, <2>6, <1>2
<1>3. CASE ~Contains(ids, id) /\ Len(ids) # EvictedMax
  <2>1. Remember(ids, id) = Append(ids, id)
    BY <1>3 DEF Remember
  <2>2. \A i \in DOMAIN ids : ids[i] # id
    BY <1>3 DEF Contains
  <2>3. /\ IsInjective(Append(ids, id)) /\ Append(ids, id) \in Seq(EventIds)
        /\ Len(Append(ids, id)) = Len(ids) + 1 /\ Len(ids) \in Nat
    BY <2>2, AppendIs, AppendInjects
  <2>4. ASSUME NEW x, Contains(Append(ids, id), x) PROVE x = id \/ Contains(ids, x)
    BY <2>4, AppendIs DEF Contains
  <2> QED
    BY <2>1, <2>3, <2>4, <1>3
<1> QED
  BY <1>1, <1>2, <1>3

LEMMA EvictGood ==
  ASSUME NEW d, Good(d), d.log # <<>>
  PROVE  /\ Good(Evict(d)) /\ Len(Evict(d).log) < LogMax
         /\ \A x : Contains(Evict(d).evicted, x)
                     => Contains(d.evicted, x) \/ (x = d.log[1].eventId /\ x # NoEvent)
<1> DEFINE e == d.log[1]
<1>1. Ring(d) /\ Forgotten(d) /\ ForwardIndexExact(d) /\ IdIndexNewest(d)
  BY DEF Good
<1>2. /\ Head(d.log) = e /\ Evict(d).log \in Seq(Entry) /\ Len(Evict(d).log) = Len(d.log) - 1
      /\ IsInjective(Evict(d).log) /\ e \in Entry
  BY <1>1, EvictLog
<1>3. Len(d.log) <= LogMax /\ Len(d.log) \in Nat /\ LogMax \in Nat
  BY <1>1, CausalLogAssumption DEF Ring
<1>4. DOMAIN Evict(d).byId \subseteq EventIds
  BY <1>1 DEF Evict, Without, Ring
<1>5. Evict(d).byPrev = Unlink(d.byPrev, e)
  BY <1>2 DEF Evict
<1>6. ASSUME NEW p \in DOMAIN Evict(d).byPrev
      PROVE  p \in EventIds /\ Evict(d).byPrev[p] \in Seq(Entry)
  <2>1. /\ p \in DOMAIN d.byPrev /\ (p # e.prevEventId \/ Len(d.byPrev[p]) > 1)
        /\ Evict(d).byPrev[p] = IF p = e.prevEventId THEN Tail(d.byPrev[p]) ELSE d.byPrev[p]
    BY <1>1, <1>5, <1>6, UnlinkIs
  <2>2. d.byPrev[p] \in Seq(Entry) /\ p \in EventIds
    BY <2>1, <1>1 DEF Ring
  <2> QED
    BY <2>1, <2>2, TailIs
<1>7. Ring(Evict(d))
  BY <1>2, <1>3, <1>4, <1>6 DEF Ring
<1>8. Forgotten(Evict(d)) /\ \A x : Contains(Evict(d).evicted, x)
                     => Contains(d.evicted, x) \/ (x = e.eventId /\ x # NoEvent)
  <2>1. CASE e.eventId = NoEvent
    BY <2>1, <1>1, <1>2 DEF Evict, Forgotten
  <2>2. CASE e.eventId # NoEvent
    <3>1. e.eventId \in EventIds
      BY <2>2, <1>2 DEF Entry, Ids
    <3>2. Evict(d).evicted = Remember(d.evicted, e.eventId)
      BY <2>2, <1>2 DEF Evict
    <3> QED
      BY <3>1, <3>2, <2>2, <1>1, RememberIs DEF Forgotten
  <2> QED
    BY <2>1, <2>2
<1> QED
  BY <1>1, <1>2, <1>3, <1>7, <1>8, EvictForward, EvictNewest DEF Good

(* A new entry goes to the end of the ring and to the end of its bucket.   *)
LEMMA PushForward ==
  ASSUME NEW d, Ring(d), ForwardIndexExact(d), NEW e \in Entry
  PROVE  /\ ForwardIndexExact(Push(d, e))
         /\ \A p \in DOMAIN Push(d, e).byPrev :
              p \in EventIds /\ Push(d, e).byPrev[p] \in Seq(Entry)
<1> DEFINE p0 == e.prevEventId
           l == Push(d, e).log
           v == Push(d, e).byPrev
           n == Len(d.log) + 1
<1>1. /\ l = Append(d.log, e) /\ DOMAIN d.log = 1 .. Len(d.log) /\ DOMAIN l = 1 .. n
      /\ Len(d.log) \in Nat /\ l[n] = e /\ \A i \in DOMAIN d.log : l[i] = d.log[i]
  <2>1. d.log \in Seq(Entry) /\ l = Append(d.log, e)
    BY DEF Ring, Push
  <2> QED
    BY <2>1, AppendIs
<1>2. /\ DOMAIN d.byPrev = {d.log[i].prevEventId : i \in DOMAIN d.log} \ {NoEvent}
      /\ \A p \in DOMAIN d.byPrev :
           /\ {d.byPrev[p][i] : i \in DOMAIN d.byPrev[p]} = Children(d, p)
           /\ \A i, j \in DOMAIN d.byPrev[p] :
                i < j => Before(d, d.byPrev[p][i], d.byPrev[p][j])
  BY DEF ForwardIndexExact
<1>3. \A p \in DOMAIN d.byPrev : p \in EventIds /\ d.byPrev[p] \in Seq(Entry)
  BY DEF Ring
<1>4. /\ p0 = NoEvent => v = d.byPrev
      /\ p0 # NoEvent => v = With(d.byPrev, p0, Append(Bucket(d.byPrev, p0), e))
  BY DEF Push
<1>5. p0 \in EventIds \cup {NoEvent}
  BY DEF Entry, Ids
<1>6. \A p : p \in DOMAIN v <=> p \in DOMAIN d.byPrev \/ (p = p0 /\ p # NoEvent)
  BY <1>2, <1>4 DEF With
<1>7. ASSUME NEW p PROVE Children(Push(d, e), p) = Children(d, p) \cup (IF p = p0 THEN {e} ELSE {})
  <2>1. ASSUME NEW x \in Children(Push(d, e), p)
        PROVE  x \in Children(d, p) \/ (p = p0 /\ x = e)
    <3>1. PICK i \in DOMAIN l : l[i] = x /\ l[i].prevEventId = p
      BY DEF Children
    <3>2. CASE i = n
      BY <3>1, <3>2, <1>1
    <3>3. CASE i \in DOMAIN d.log
      BY <3>1, <3>3, <1>1 DEF Children
    <3> QED
      BY <3>2, <3>3, <1>1
  <2>2. ASSUME NEW x \in Children(d, p) PROVE x \in Children(Push(d, e), p)
    <3>1. PICK i \in DOMAIN d.log : d.log[i] = x /\ d.log[i].prevEventId = p
      BY DEF Children
    <3>2. i \in DOMAIN l /\ l[i] = x
      BY <3>1, <1>1
    <3> QED
      BY <3>1, <3>2 DEF Children
  <2>3. ASSUME p = p0 PROVE e \in Children(Push(d, e), p)
    <3>1. n \in DOMAIN l /\ l[n].prevEventId = p
      BY <2>3, <1>1
    <3> QED
      BY <3>1, <1>1 DEF Children
  <2> QED
    BY <2>1, <2>2, <2>3
<1>8. ASSUME NEW x, NEW y, Before(d, x, y) PROVE Before(Push(d, e), x, y)
  <2>1. PICK i, j \in DOMAIN d.log : i < j /\ d.log[i] = x /\ d.log[j] = y
    BY <1>8 DEF Before
  <2>2. i \in DOMAIN l /\ j \in DOMAIN l /\ l[i] = x /\ l[j] = y
    BY <2>1, <1>1
  <2> QED
    BY <2>1, <2>2 DEF Before
<1>9. ASSUME NEW p, NEW x \in Children(d, p) PROVE Before(Push(d, e), x, e)
  <2>1. PICK i \in DOMAIN d.log : d.log[i] = x
    BY <1>9 DEF Children
  <2>2. i \in DOMAIN l /\ n \in DOMAIN l /\ i < n /\ l[i] = x
    BY <2>1, <1>1
  <2> QED
    BY <2>2, <1>1 DEF Before
<1>10. ASSUME NEW p, p \notin DOMAIN d.byPrev, p # NoEvent PROVE Children(d, p) = {}
  BY <1>2, <1>10 DEF Children
<1>11. ASSUME NEW p \in DOMAIN v
       PROVE  /\ p \in EventIds /\ v[p] \in Seq(Entry)
              /\ {v[p][i] : i \in DOMAIN v[p]} = Children(Push(d, e), p)
              /\ \A i, j \in DOMAIN v[p] : i < j => Before(Push(d, e), v[p][i], v[p][j])
  <2>1. CASE p # p0
    <3>1. p \in DOMAIN d.byPrev /\ v[p] = d.byPrev[p]
      BY <2>1, <1>4, <1>6 DEF With
    <3> QED
      BY <3>1, <2>1, <1>2, <1>3, <1>7, <1>8
  <2>2. CASE p = p0
    <3> DEFINE b == Bucket(d.byPrev, p0)
    <3>1. p0 # NoEvent /\ v[p] = Append(b, e)
      BY <2>2, <1>2, <1>4, <1>6 DEF With
    <3>2. /\ b \in Seq(Entry) /\ {b[i] : i \in DOMAIN b} = Children(d, p)
          /\ \A i, j \in DOMAIN b : i < j => Before(d, b[i], b[j])
      <4>1. CASE p0 \in DOMAIN d.byPrev
        BY <4>1, <2>2, <1>2, <1>3 DEF Bucket
      <4>2. CASE p0 \notin DOMAIN d.byPrev
        BY <4>2, <2>2, <3>1, <1>10 DEF Bucket
      <4> QED
        BY <4>1, <4>2
    <3> HIDE DEF b, v, l, p0
    <3>3. /\ v[p] \in Seq(Entry) /\ DOMAIN b = 1 .. Len(b) /\ DOMAIN v[p] = 1 .. Len(b) + 1
          /\ Len(b) \in Nat /\ v[p][Len(b) + 1] = e /\ \A i \in DOMAIN b : v[p][i] = b[i]
      BY <3>1, <3>2, AppendIs
    <3>4. ASSUME NEW x PROVE x \in {v[p][i] : i \in DOMAIN v[p]} <=> x \in Children(d, p) \cup {e}
      <4>1. ASSUME NEW i \in DOMAIN v[p] PROVE v[p][i] \in Children(d, p) \cup {e}
        <5>1. CASE i \in DOMAIN b
          BY <5>1, <3>2, <3>3
        <5>2. CASE i = Len(b) + 1
          BY <5>2, <3>3
        <5> QED
          BY <5>1, <5>2, <3>3
      <4>2. ASSUME NEW i \in DOMAIN b PROVE b[i] \in {v[p][k] : k \in DOMAIN v[p]}
        <5>1. i \in DOMAIN v[p] /\ v[p][i] = b[i]
          BY <3>3
        <5> QED
          BY <5>1
      <4>3. e \in {v[p][k] : k \in DOMAIN v[p]}
        <5>1. Len(b) + 1 \in DOMAIN v[p]
          BY <3>3
        <5> QED
          BY <5>1, <3>3
      <4> QED
        BY <4>1, <4>2, <4>3, <3>2
    <3>5. ASSUME NEW i \in DOMAIN v[p], NEW j \in DOMAIN v[p], i < j
          PROVE  Before(Push(d, e), v[p][i], v[p][j])
      <4>1. i \in DOMAIN b /\ v[p][i] = b[i] /\ b[i] \in Children(d, p)
        BY <3>2, <3>3, <3>5
      <4>2. CASE j \in DOMAIN b
        BY <4>1, <4>2, <3>2, <3>3, <3>5, <1>8
      <4>3. CASE j = Len(b) + 1
        BY <4>1, <4>3, <3>3, <1>9
      <4> QED
        BY <4>2, <4>3, <3>3
    <3>6. {v[p][i] : i \in DOMAIN v[p]} = Children(d, p) \cup {e}
      BY <3>4
    <3>7. Children(Push(d, e), p) = Children(d, p) \cup {e}
      BY <2>2, <1>7
    <3> QED
      BY <3>1, <3>3, <3>5, <3>6, <3>7, <2>2, <1>5
  <2> QED
    BY <2>1, <2>2
<1>12. ASSUME NEW p PROVE p \in DOMAIN v <=> p \in {l[i].prevEventId : i \in DOMAIN l} \ {NoEvent}
  <2>1. \A i \in DOMAIN d.log : i \in DOMAIN l /\ l[i] = d.log[i]
    BY <1>1
  <2>2. n \in DOMAIN l /\ l[n] = e /\ \A i \in DOMAIN l : i = n \/ i \in DOMAIN d.log
    BY <1>1
  <2> QED
    BY <2>1, <2>2, <1>2, <1>6
<1> QED
  BY <1>11, <1>12 DEF ForwardIndexExact

LEMMA PushNewest ==
  ASSUME NEW d, Ring(d), IdIndexNewest(d), NEW e \in Entry
  PROVE  /\ IdIndexNewest(Push(d, e)) /\ DOMAIN Push(d, e).byId \subseteq EventIds
         /\ DOMAIN Push(d, e).byId = DOMAIN d.byId \cup ({e.eventId} \ {NoEvent})
<1> DEFINE l == Push(d, e).log
           n == Len(d.log) + 1
<1>1. /\ l = Append(d.log, e) /\ DOMAIN d.log = 1 .. Len(d.log) /\ DOMAIN l = 1 .. n
      /\ Len(d.log) \in Nat /\ l[n] = e /\ \A i \in DOMAIN d.log : l[i] = d.log[i]
  <2>1. d.log \in Seq(Entry) /\ l = Append(d.log, e)
    BY DEF Ring, Push
  <2> QED
    BY <2>1, AppendIs
<1>2. /\ e.eventId = NoEvent => Push(d, e).byId = d.byId
      /\ e.eventId # NoEvent => Push(d, e).byId = With(d.byId, e.eventId, e)
  BY DEF Push
<1>3. e.eventId \in EventIds \cup {NoEvent} /\ DOMAIN d.byId \subseteq EventIds
  BY DEF Entry, Ids, Ring
<1>4. DOMAIN Push(d, e).byId = DOMAIN d.byId \cup ({e.eventId} \ {NoEvent})
  BY <1>2, <1>3 DEF With
<1>5. ASSUME NEW id \in DOMAIN Push(d, e).byId
      PROVE  \E i \in DOMAIN l : /\ l[i] = Push(d, e).byId[id] /\ l[i].eventId = id
                                 /\ \A j \in DOMAIN l : l[j].eventId = id => j <= i
  <2>1. CASE id = e.eventId
    <3>1. id # NoEvent
      BY <1>3, <1>4, CausalLogAssumption
    <3>2. Push(d, e).byId[id] = e
      BY <2>1, <3>1, <1>2 DEF With
    <3>3. n \in DOMAIN l /\ \A j \in DOMAIN l : j <= n
      BY <1>1
    <3> QED
      BY <2>1, <3>2, <3>3, <1>1
  <2>2. CASE id # e.eventId
    <3>1. id \in DOMAIN d.byId /\ Push(d, e).byId[id] = d.byId[id]
      BY <2>2, <1>2, <1>4 DEF With
    <3>2. PICK i \in DOMAIN d.log :
            /\ d.log[i] = d.byId[id] /\ d.log[i].eventId = id
            /\ \A j \in DOMAIN d.log : d.log[j].eventId = id => j <= i
      BY <3>1 DEF IdIndexNewest
    <3>3. i \in DOMAIN l /\ l[i] = d.log[i]
      BY <1>1
    <3>4. ASSUME NEW j \in DOMAIN l, l[j].eventId = id PROVE j <= i
      <4>1. j # n
        BY <3>4, <2>2, <1>1
      <4>2. j \in DOMAIN d.log /\ d.log[j].eventId = id
        BY <4>1, <3>4, <1>1
      <4> QED
        BY <4>2, <3>2
    <3> QED
      BY <3>1, <3>2, <3>3, <3>4
  <2> QED
    BY <2>1, <2>2
<1>6. IdIndexNewest(Push(d, e))
  BY <1>5 DEF IdIndexNewest
<1> QED
  BY <1>3, <1>4, <1>6

(* The ring before the push: insertion evicts when there is no room.       *)
Room(d) == IF Len(d.log) >= LogMax THEN Evict(d) ELSE d

LEMMA RoomGood ==
  ASSUME NEW d, Good(d)
  PROVE  /\ Good(Room(d)) /\ Len(Room(d).log) < LogMax
         /\ Len(d.log) >= LogMax => d.log # <<>>
<1>1. Len(d.log) \in Nat /\ LogMax \in Nat \ {0} /\ d.log \in Seq(Entry)
  BY CausalLogAssumption DEF Good, Ring
<1>2. Len(d.log) >= LogMax => d.log # <<>>
  BY <1>1
<1> QED
  BY <1>1, <1>2, EvictGood DEF Room

Fresh(d, e) == \A i \in DOMAIN d.log : d.log[i] # e

(* Insertion keeps the ring and both indexes in agreement.                 *)
LEMMA InsertGood ==
  ASSUME NEW d, Good(d), NEW e \in Entry, Fresh(d, e)
  PROVE  Good(Insert(d, e))
<1> DEFINE r == Room(d)
<1>1. /\ Insert(d, e) = Push(r, e) /\ Good(r) /\ Len(r.log) < LogMax
      /\ Len(d.log) >= LogMax => d.log # <<>>
  BY RoomGood DEF Insert, Room
<1>2. Ring(r) /\ Forgotten(r) /\ ForwardIndexExact(r) /\ IdIndexNewest(r)
  BY <1>1 DEF Good
<1>3. Fresh(r, e)
  <2>1. CASE Len(d.log) >= LogMax
    <3>1. r = Evict(d) /\ Ring(d) /\ d.log # <<>>
      BY <1>1, <2>1 DEF Room, Good
    <3>2. \A i \in DOMAIN r.log : i + 1 \in DOMAIN d.log /\ r.log[i] = d.log[i + 1]
      BY <3>1, EvictLog
    <3> QED
      BY <3>2 DEF Fresh
  <2>2. CASE ~(Len(d.log) >= LogMax)
    BY <2>2 DEF Room
  <2> QED
    BY <2>1, <2>2
<1> HIDE DEF r
<1>4. /\ Push(r, e).log = Append(r.log, e) /\ Push(r, e).evicted = r.evicted
      /\ r.log \in Seq(Entry) /\ IsInjective(r.log)
  BY <1>2 DEF Push, Ring
<1>5. /\ Push(r, e).log \in Seq(Entry) /\ IsInjective(Push(r, e).log)
      /\ Len(Push(r, e).log) = Len(r.log) + 1 /\ Len(r.log) \in Nat
  BY <1>3, <1>4, AppendIs, AppendInjects DEF Fresh
<1>6. Len(Push(r, e).log) <= LogMax
  BY <1>1, <1>5, CausalLogAssumption
<1>7. ForwardIndexExact(Push(r, e)) /\ \A p \in DOMAIN Push(r, e).byPrev :
        p \in EventIds /\ Push(r, e).byPrev[p] \in Seq(Entry)
  BY <1>2, PushForward
<1>8. IdIndexNewest(Push(r, e)) /\ DOMAIN Push(r, e).byId \subseteq EventIds
  BY <1>2, PushNewest
<1>9. Ring(Push(r, e))
  BY <1>5, <1>6, <1>7, <1>8 DEF Ring
<1>10. Forgotten(Push(r, e))
  BY <1>2, <1>4 DEF Forgotten
<1> QED
  BY <1>1, <1>7, <1>8, <1>9, <1>10 DEF Good

(* Counting up: a set of numbers with 0 that is closed under + 1 is Nat.   *)
LEMMA CountUp ==
  ASSUME NEW S, 0 \in S, \A n \in Nat : n \in S => n + 1 \in S
  PROVE  Nat \subseteq S
<1> DEFINE T == Nat \ S
<1> SUFFICES ASSUME T # {} PROVE FALSE
  OBVIOUS
<1>1. T \subseteq Nat
  OBVIOUS
<1>2. PICK m \in T : \A k \in T : <<k, m>> \notin OpToRel(<, Nat)
  <2> HIDE DEF T
  <2> QED
    BY <1>1, NatLessThanWellFounded, WFMin, Zenon
<1>3. m # 0 /\ m - 1 \in Nat /\ (m - 1) + 1 = m
  OBVIOUS
<1>4. m - 1 \in T
  BY <1>3
<1>5. <<m - 1, m>> \in OpToRel(<, Nat)
  BY <1>3 DEF OpToRel
<1> QED
  BY <1>2, <1>4, <1>5

(* The dags of a restore, entry by entry.                                  *)
LEMMA RestoredIs ==
  ASSUME NEW s, NEW len \in Nat, Len(s) = len
  PROVE  /\ Restored(s)[0] = EmptyDag
         /\ \A n \in 1 .. len : Restored(s)[n] = RestoreEntry(Restored(s)[n - 1], s[n])
<1> DEFINE IsUpTo(f, n) ==
             f = [k \in 0 .. n |-> IF k = 0 THEN EmptyDag ELSE RestoreEntry(f[k - 1], s[k])]
           S == {n \in Nat : \E f : IsUpTo(f, n)}
<1>1. 0 \in S
  <2> DEFINE f == [k \in 0 .. 0 |-> EmptyDag]
  <2>1. IsUpTo(f, 0)
    <3>1. \A k \in 0 .. 0 : k = 0
      OBVIOUS
    <3>2. \A k \in 0 .. 0 : EmptyDag = IF k = 0 THEN EmptyDag ELSE RestoreEntry(f[k - 1], s[k])
      BY <3>1
    <3> QED
      BY <3>2
  <2> QED
    BY <2>1
<1>2. ASSUME NEW n \in Nat, n \in S PROVE n + 1 \in S
  <2>1. PICK f : IsUpTo(f, n)
    BY <1>2
  <2> DEFINE g == [k \in 0 .. n + 1 |-> IF k \in 0 .. n THEN f[k] ELSE RestoreEntry(f[n], s[n + 1])]
  <2>2. ASSUME NEW k \in 0 .. n + 1
        PROVE  g[k] = IF k = 0 THEN EmptyDag ELSE RestoreEntry(g[k - 1], s[k])
    <3>1. CASE k = 0
      BY <3>1, <2>1
    <3>2. CASE k \in 1 .. n
      BY <3>2, <2>1
    <3>3. CASE k = n + 1
      BY <3>3
    <3> QED
      BY <3>1, <3>2, <3>3
  <2>3. IsUpTo(g, n + 1)
    BY <2>2
  <2> HIDE DEF g, IsUpTo
  <2>4. \E h : IsUpTo(h, n + 1)
    BY <2>3
  <2> QED
    BY <2>4
<1>3. PICK f : IsUpTo(f, len)
  BY <1>1, <1>2, CountUp
<1>4. IsUpTo(Restored(s), len)
  BY <1>3 DEF Restored
<1> QED
  BY <1>4

(* What holds as long as no remembered event id is used again: every entry *)
(* with an event id is found, no two share one, and no id is both found    *)
(* and remembered as evicted.                                              *)
Clean(d) ==
  /\ AllFound(d)
  /\ \A i, j \in DOMAIN d.log :
       d.log[i].eventId = d.log[j].eventId /\ d.log[i].eventId # NoEvent => i = j
  /\ \A id \in DOMAIN d.byId : ~Contains(d.evicted, id)

Unused(d, e) == e.eventId \notin DOMAIN d.byId /\ ~Contains(d.evicted, e.eventId)

LEMMA EvictClean ==
  ASSUME NEW d, Good(d), Clean(d), d.log # <<>>
  PROVE  Clean(Evict(d)) /\ \A e : Unused(d, e) /\ e.eventId # d.log[1].eventId => Unused(Evict(d), e)
<1> DEFINE t == Evict(d).log
           x == d.log[1].eventId
<1>1. /\ Head(d.log) = d.log[1] /\ 1 \in DOMAIN d.log
      /\ DOMAIN d.log \subseteq Nat \ {0} /\ DOMAIN t \subseteq Nat \ {0}
      /\ \A i \in DOMAIN t : i + 1 \in DOMAIN d.log /\ t[i] = d.log[i + 1]
  BY EvictLog DEF Good
<1>2. DOMAIN Evict(d).byId = DOMAIN d.byId \ {x}
  BY <1>1 DEF Evict, Without
<1>3. \A y : Contains(Evict(d).evicted, y) => Contains(d.evicted, y) \/ y = x
  BY EvictGood
<1>4. /\ \A i \in DOMAIN d.log : d.log[i].eventId = NoEvent \/ d.log[i].eventId \in DOMAIN d.byId
      /\ \A i, j \in DOMAIN d.log :
           d.log[i].eventId = d.log[j].eventId /\ d.log[i].eventId # NoEvent => i = j
      /\ \A id \in DOMAIN d.byId : ~Contains(d.evicted, id)
  BY DEF Clean, AllFound
<1> HIDE DEF t
<1>5. \A i \in DOMAIN t : t[i].eventId = NoEvent \/ t[i].eventId \in DOMAIN Evict(d).byId
  <2> SUFFICES ASSUME NEW i \in DOMAIN t, t[i].eventId # NoEvent
               PROVE  t[i].eventId \in DOMAIN Evict(d).byId
    OBVIOUS
  <2>1. i + 1 \in DOMAIN d.log /\ t[i] = d.log[i + 1] /\ i + 1 # 1
    BY <1>1
  <2>2. t[i].eventId # x
    BY <2>1, <1>1, <1>4
  <2> QED
    BY <2>1, <2>2, <1>2, <1>4
<1>6. ASSUME NEW i \in DOMAIN t, NEW j \in DOMAIN t, t[i].eventId = t[j].eventId, t[i].eventId # NoEvent
      PROVE  i = j
  <2>1. /\ i + 1 \in DOMAIN d.log /\ t[i] = d.log[i + 1]
        /\ j + 1 \in DOMAIN d.log /\ t[j] = d.log[j + 1]
    BY <1>1
  <2>2. i + 1 = j + 1
    BY <2>1, <1>4, <1>6
  <2> QED
    BY <2>2, <1>1
<1>7. \A id \in DOMAIN Evict(d).byId : ~Contains(Evict(d).evicted, id)
  BY <1>2, <1>3, <1>4
<1>8. Clean(Evict(d))
  BY <1>5, <1>6, <1>7 DEF Clean, AllFound, t
<1> QED
  BY <1>2, <1>3, <1>8 DEF Unused

LEMMA PushClean ==
  ASSUME NEW d, Good(d), Clean(d), NEW e \in Entry, e.eventId # NoEvent => Unused(d, e)
  PROVE  Clean(Push(d, e))
<1> DEFINE l == Push(d, e).log
           n == Len(d.log) + 1
<1>1. /\ DOMAIN d.log = 1 .. Len(d.log) /\ DOMAIN l = 1 .. n /\ Len(d.log) \in Nat
      /\ l[n] = e /\ \A i \in DOMAIN d.log : l[i] = d.log[i]
  <2>1. d.log \in Seq(Entry) /\ l = Append(d.log, e)
    BY DEF Good, Ring, Push
  <2> QED
    BY <2>1, AppendIs
<1>2. DOMAIN Push(d, e).byId = DOMAIN d.byId \cup ({e.eventId} \ {NoEvent})
  BY PushNewest DEF Good
<1>3. Push(d, e).evicted = d.evicted
  BY DEF Push
<1>4. /\ \A i \in DOMAIN d.log : d.log[i].eventId = NoEvent \/ d.log[i].eventId \in DOMAIN d.byId
      /\ \A i, j \in DOMAIN d.log :
           d.log[i].eventId = d.log[j].eventId /\ d.log[i].eventId # NoEvent => i = j
      /\ \A id \in DOMAIN d.byId : ~Contains(d.evicted, id)
  BY DEF Clean, AllFound
<1> HIDE DEF l
<1>5. \A i \in DOMAIN l : i = n \/ (i \in DOMAIN d.log /\ l[i] = d.log[i])
  BY <1>1
<1>6. \A i \in DOMAIN l : l[i].eventId = NoEvent \/ l[i].eventId \in DOMAIN Push(d, e).byId
  BY <1>1, <1>2, <1>4, <1>5
<1>7. \A i \in DOMAIN d.log : l[i].eventId = e.eventId => e.eventId = NoEvent
  BY <1>1, <1>4 DEF Unused
<1>8. ASSUME NEW i \in DOMAIN l, NEW j \in DOMAIN l, l[i].eventId = l[j].eventId, l[i].eventId # NoEvent
      PROVE  i = j
  <2>1. CASE i = n
    BY <2>1, <1>1, <1>5, <1>7, <1>8
  <2>2. CASE j = n
    BY <2>2, <1>1, <1>5, <1>7, <1>8
  <2>3. CASE i # n /\ j # n
    BY <2>3, <1>4, <1>5, <1>8
  <2> QED
    BY <2>1, <2>2, <2>3
<1>9. \A id \in DOMAIN Push(d, e).byId : ~Contains(Push(d, e).evicted, id)
  BY <1>2, <1>3, <1>4 DEF Unused
<1> QED
  BY <1>6, <1>8, <1>9 DEF Clean, AllFound, l

LEMMA InsertClean ==
  ASSUME NEW d, Good(d), Clean(d), NEW e \in Entry, e.eventId # NoEvent => Unused(d, e)
  PROVE  Clean(Insert(d, e))
<1>1. Insert(d, e) = Push(Room(d), e) /\ Good(Room(d)) /\ (Len(d.log) >= LogMax => d.log # <<>>)
  BY RoomGood DEF Insert, Room
<1>2. Clean(Room(d)) /\ (e.eventId # NoEvent => Unused(Room(d), e))
  <2>1. CASE Len(d.log) >= LogMax
    <3>1. d.log # <<>> /\ Room(d) = Evict(d)
      BY <2>1, <1>1 DEF Room
    <3>2. 1 \in DOMAIN d.log /\ (d.log[1].eventId = NoEvent \/ d.log[1].eventId \in DOMAIN d.byId)
      BY <3>1, EvictLog DEF Good, Clean, AllFound
    <3>3. e.eventId # NoEvent => e.eventId # d.log[1].eventId
      BY <3>2 DEF Unused
    <3> QED
      BY <3>1, <3>3, EvictClean
  <2>2. CASE ~(Len(d.log) >= LogMax)
    BY <2>2 DEF Room
  <2> QED
    BY <2>1, <2>2
<1> QED
  BY <1>1, <1>2, PushClean

(* The ring after an insertion: the oldest entry gives way when it is full.*)
LEMMA InsertLog ==
  ASSUME NEW d, Good(d), NEW e \in Entry
  PROVE  /\ Len(d.log) \in 0 .. LogMax /\ DOMAIN d.log = 1 .. Len(d.log)
         /\ Len(Insert(d, e).log) = IF Len(d.log) = LogMax THEN LogMax ELSE Len(d.log) + 1
         /\ DOMAIN Insert(d, e).log = 1 .. Len(Insert(d, e).log)
         /\ Insert(d, e).log[Len(Insert(d, e).log)] = e
         /\ \A i \in 1 .. Len(Insert(d, e).log) - 1 :
              Insert(d, e).log[i] = d.log[i + (Len(d.log) + 1 - Len(Insert(d, e).log))]
         /\ \A x : Contains(Insert(d, e).evicted, x) =>
                     Contains(d.evicted, x) \/ \E i \in DOMAIN d.log : x = d.log[i].eventId
<1> DEFINE r == Room(d)
           len == Len(Insert(d, e).log)
<1>1. Insert(d, e) = Push(r, e) /\ Good(r) /\ (Len(d.log) >= LogMax => d.log # <<>>)
  BY RoomGood DEF Insert, Room
<1>2. /\ r.log \in Seq(Entry) /\ Push(r, e).log = Append(r.log, e)
      /\ Push(r, e).evicted = r.evicted /\ d.log \in Seq(Entry) /\ Len(d.log) <= LogMax
  BY <1>1 DEF Good, Ring, Push
<1>3. /\ Len(Append(r.log, e)) = Len(r.log) + 1 /\ DOMAIN Append(r.log, e) = 1 .. Len(r.log) + 1
      /\ Append(r.log, e)[Len(r.log) + 1] = e /\ Len(r.log) \in Nat /\ DOMAIN r.log = 1 .. Len(r.log)
      /\ \A i \in DOMAIN r.log : Append(r.log, e)[i] = r.log[i]
  BY <1>2, AppendIs
<1>4. Len(d.log) \in 0 .. LogMax /\ DOMAIN d.log = 1 .. Len(d.log) /\ LogMax \in Nat \ {0}
  BY <1>2, CausalLogAssumption
<1>5. CASE Len(d.log) = LogMax
  <2>1. r = Evict(d) /\ d.log # <<>> /\ Ring(d)
    BY <1>1, <1>4, <1>5 DEF Room, Good
  <2>2. /\ Len(r.log) = Len(d.log) - 1 /\ 1 \in DOMAIN d.log
        /\ \A i \in DOMAIN r.log : r.log[i] = d.log[i + 1]
    BY <2>1, EvictLog
  <2>3. \A x : Contains(r.evicted, x) => Contains(d.evicted, x) \/ x = d.log[1].eventId
    BY <2>1, EvictGood
  <2> HIDE DEF r
  <2>4. len = LogMax /\ Len(r.log) + 1 = LogMax
    BY <1>1, <1>2, <1>3, <1>4, <1>5, <2>2
  <2>5. \A i \in 1 .. len - 1 : Push(r, e).log[i] = d.log[i + (Len(d.log) + 1 - len)]
    BY <1>2, <1>3, <1>4, <1>5, <2>2, <2>4
  <2> QED
    BY <1>1, <1>2, <1>3, <1>4, <1>5, <2>2, <2>3, <2>4, <2>5
<1>6. CASE Len(d.log) # LogMax
  <2>1. r = d
    BY <1>4, <1>6 DEF Room
  <2>2. len = Len(d.log) + 1
    BY <1>1, <1>2, <1>3, <2>1
  <2>3. \A i \in 1 .. len - 1 : i + (Len(d.log) + 1 - len) = i /\ i \in DOMAIN d.log
    BY <1>4, <2>2
  <2> QED
    BY <1>1, <1>2, <1>3, <1>4, <1>6, <2>1, <2>2, <2>3
<1> QED
  BY <1>5, <1>6

(* What a restore has built after n entries: the ring holds the last of    *)
(* them, and nothing else is remembered as evicted.                        *)
BuiltFrom(s, n, d) ==
  /\ Good(d) /\ Clean(d)
  /\ Len(d.log) = IF n <= LogMax THEN n ELSE LogMax
  /\ \A i \in DOMAIN d.log : d.log[i] = s[i + (n - Len(d.log))]
  /\ \A x : Contains(d.evicted, x) => \E j \in 1 .. n : x = s[j].eventId

Distinct(s) ==
  /\ \A i \in DOMAIN s : s[i].eventId \in EventIds
  /\ \A i, j \in DOMAIN s : s[i].eventId = s[j].eventId => i = j

LEMMA EmptyGood == Good(EmptyDag) /\ Clean(EmptyDag) /\ \A s : BuiltFrom(s, 0, EmptyDag)
<1>1. /\ EmptyDag.log = <<>> /\ EmptyDag.byId = <<>> /\ EmptyDag.byPrev = <<>>
      /\ EmptyDag.evicted = <<>>
  BY DEF EmptyDag
<1>2. /\ DOMAIN EmptyDag.log = {} /\ DOMAIN EmptyDag.byId = {} /\ DOMAIN EmptyDag.byPrev = {}
      /\ Len(EmptyDag.log) = 0 /\ Len(EmptyDag.evicted) = 0 /\ DOMAIN EmptyDag.evicted = {}
  BY <1>1
<1>3. Ring(EmptyDag) /\ Forgotten(EmptyDag)
  BY <1>1, <1>2, CausalLogAssumption DEF Ring, Forgotten, IsInjective
<1>4. ForwardIndexExact(EmptyDag) /\ IdIndexNewest(EmptyDag)
  BY <1>2 DEF ForwardIndexExact, IdIndexNewest
<1>5. Clean(EmptyDag)
  BY <1>2 DEF Clean, AllFound
<1>6. \A x : ~Contains(EmptyDag.evicted, x)
  BY <1>2 DEF Contains
<1> QED
  BY <1>2, <1>3, <1>4, <1>5, <1>6, CausalLogAssumption DEF Good, BuiltFrom

(* A restored entry is new to the ring, and takes its place at the end.    *)
LEMMA RestoreStep ==
  ASSUME NEW s \in Seq(Entry), Distinct(s), NEW n \in 0 .. Len(s), n < Len(s),
         NEW d, BuiltFrom(s, n, d)
  PROVE  /\ BuiltFrom(s, n + 1, RestoreEntry(d, s[n + 1]))
         /\ RestoreEntry(d, s[n + 1]) = Insert(d, s[n + 1])
<1> DEFINE e == s[n + 1]
           f == Insert(d, e)
           k == Len(d.log)
           len == Len(f.log)
<1>1. /\ Good(d) /\ Clean(d) /\ Len(d.log) = IF n <= LogMax THEN n ELSE LogMax
      /\ \A i \in DOMAIN d.log : d.log[i] = s[i + (n - Len(d.log))]
      /\ \A x : Contains(d.evicted, x) => \E j \in 1 .. n : x = s[j].eventId
  BY DEF BuiltFrom
<1>2. /\ n \in Nat /\ n + 1 \in DOMAIN s /\ e \in Entry /\ LogMax \in Nat \ {0}
      /\ DOMAIN s = 1 .. Len(s) /\ Len(s) \in Nat
  BY CausalLogAssumption
<1>3. e.eventId \in EventIds /\ \A j \in 1 .. n : s[j].eventId # e.eventId
  <2>1. \A j \in 1 .. n : j \in DOMAIN s /\ j # n + 1
    BY <1>2
  <2> QED
    BY <2>1, <1>2 DEF Distinct
<1>4. /\ DOMAIN d.log = 1 .. k /\ k \in 0 .. LogMax
      /\ len = IF k = LogMax THEN LogMax ELSE k + 1
      /\ DOMAIN f.log = 1 .. len /\ f.log[len] = e
      /\ \A i \in 1 .. len - 1 : f.log[i] = d.log[i + (k + 1 - len)]
      /\ \A x : Contains(f.evicted, x) =>
                  Contains(d.evicted, x) \/ \E i \in DOMAIN d.log : x = d.log[i].eventId
  BY <1>1, <1>2, InsertLog
<1> HIDE DEF f, e, len, k
<1>5. /\ len \in Nat \ {0} /\ len = IF n + 1 <= LogMax THEN n + 1 ELSE LogMax
      /\ \A i \in DOMAIN d.log : i + (n - k) \in 1 .. n
      /\ \A i \in 1 .. len - 1 :
           /\ i + (k + 1 - len) \in DOMAIN d.log
           /\ (i + (k + 1 - len)) + (n - k) = i + ((n + 1) - len)
      /\ len + ((n + 1) - len) = n + 1
  <2>1. k \in Nat /\ k = IF n <= LogMax THEN n ELSE LogMax
    BY <1>1, <1>4 DEF k
  <2>0. n \in Nat /\ LogMax \in Nat \ {0}
    BY <1>2
  <2>2. len = IF k = LogMax THEN LogMax ELSE k + 1
    BY <1>4
  <2>3. /\ len \in Nat \ {0} /\ len = IF n + 1 <= LogMax THEN n + 1 ELSE LogMax
        /\ \A i \in 1 .. k : i + (n - k) \in 1 .. n
        /\ \A i \in 1 .. len - 1 : /\ i + (k + 1 - len) \in 1 .. k
                                   /\ (i + (k + 1 - len)) + (n - k) = i + ((n + 1) - len)
        /\ len + ((n + 1) - len) = n + 1
    BY ONLY <2>0, <2>1, <2>2
  <2> QED
    BY <2>3, <1>4
<1>6. \A i \in DOMAIN d.log : d.log[i].eventId # e.eventId
  BY <1>1, <1>3, <1>5 DEF k
<1>7. e.eventId \notin DOMAIN d.byId
  BY <1>1, <1>6 DEF Good, IdIndexNewest
<1>8. ~Contains(d.evicted, e.eventId)
  BY <1>1, <1>3
<1>9. Fresh(d, e)
  BY <1>6 DEF Fresh
<1>10. RestoreEntry(d, e) = f
  BY <1>7 DEF RestoreEntry, f, e
<1>11. Good(f) /\ Clean(f)
  BY <1>1, <1>2, <1>7, <1>8, <1>9, InsertGood, InsertClean DEF Unused, f
<1>12. ASSUME NEW i \in DOMAIN f.log PROVE f.log[i] = s[i + ((n + 1) - len)]
  <2>1. CASE i = len
    BY <2>1, <1>4, <1>5 DEF e
  <2>2. CASE i \in 1 .. len - 1
    <3>1. i + (k + 1 - len) \in DOMAIN d.log /\ f.log[i] = d.log[i + (k + 1 - len)]
      BY <2>2, <1>4, <1>5
    <3> QED
      BY <2>2, <3>1, <1>1, <1>5 DEF k
  <2>3. i \in 1 .. len
    BY <1>4
  <2>4. i = len \/ i \in 1 .. len - 1
    BY <2>3, <1>5
  <2> QED
    BY <2>1, <2>2, <2>4
<1>13. ASSUME NEW x, Contains(f.evicted, x) PROVE \E j \in 1 .. n + 1 : x = s[j].eventId
  <2>1. CASE Contains(d.evicted, x)
    BY <2>1, <1>1
  <2>2. ASSUME NEW i \in DOMAIN d.log, x = d.log[i].eventId PROVE \E j \in 1 .. n : x = s[j].eventId
    <3>1. i + (n - k) \in 1 .. n /\ d.log[i] = s[i + (n - k)]
      BY <1>1, <1>5 DEF k
    <3> QED
      BY <2>2, <3>1
  <2>3. \E j \in 1 .. n : x = s[j].eventId
    BY <2>1, <2>2, <1>1, <1>4, <1>13
  <2>4. 1 .. n \subseteq 1 .. n + 1
    BY <1>2
  <2> QED
    BY <2>3, <2>4
<1> QED
  BY <1>5, <1>10, <1>11, <1>12, <1>13 DEF BuiltFrom, e, f, len

(* Every step of a restore, by counting up its entries.                    *)
LEMMA RestoreBuilds ==
  ASSUME NEW s \in Seq(Entry), Distinct(s)
  PROVE  BuiltFrom(s, Len(s), Restored(s)[Len(s)])
<1> DEFINE S == {n \in Nat : n <= Len(s) => BuiltFrom(s, n, Restored(s)[n])}
<1>1. Len(s) \in Nat
  OBVIOUS
<1>2. /\ Restored(s)[0] = EmptyDag
      /\ \A n \in 1 .. Len(s) : Restored(s)[n] = RestoreEntry(Restored(s)[n - 1], s[n])
  BY <1>1, RestoredIs
<1>3. 0 \in S
  BY <1>2, EmptyGood
<1>4. ASSUME NEW n \in Nat, n \in S PROVE n + 1 \in S
  <2> SUFFICES ASSUME n + 1 <= Len(s) PROVE BuiltFrom(s, n + 1, Restored(s)[n + 1])
    BY <1>4
  <2>1. n \in 0 .. Len(s) /\ n < Len(s) /\ BuiltFrom(s, n, Restored(s)[n])
    BY <1>1, <1>4
  <2>2. n + 1 \in 1 .. Len(s) /\ (n + 1) - 1 = n
    BY <1>1
  <2>3. Restored(s)[n + 1] = RestoreEntry(Restored(s)[n], s[n + 1])
    BY <1>2, <2>2
  <2> QED
    BY <2>1, <2>3, RestoreStep
<1>5. Nat \subseteq S
  <2> HIDE DEF S
  <2> QED
    BY <1>3, <1>4, CountUp
<1> QED
  BY <1>1, <1>5

LEMMA InsertFrom ==
  ASSUME NEW d, Good(d), NEW e \in Entry, NEW i \in DOMAIN Insert(d, e).log
  PROVE  Insert(d, e).log[i] = e \/ \E j \in DOMAIN d.log : Insert(d, e).log[i] = d.log[j]
<1> DEFINE k == Len(d.log)
           l == Insert(d, e).log
           len == Len(l)
<1>1. /\ k \in 0 .. LogMax /\ DOMAIN d.log = 1 .. k
      /\ len = (IF k = LogMax THEN LogMax ELSE k + 1)
      /\ DOMAIN l = 1 .. len /\ l[len] = e
      /\ \A j \in 1 .. len - 1 : l[j] = d.log[j + (k + 1 - len)]
  BY InsertLog
<1> HIDE DEF k, len, l
<1>2. LogMax \in Nat \ {0}
  BY CausalLogAssumption
<1>3. i \in 1 .. len
  BY <1>1 DEF l
<1>4. CASE i = len
  BY <1>1, <1>4 DEF l
<1>5. CASE i # len
  <2>1. i \in 1 .. len - 1 /\ i + (k + 1 - len) \in 1 .. k
    BY <1>1, <1>2, <1>3, <1>5
  <2> QED
    BY <2>1, <1>1 DEF l
<1> QED
  BY <1>4, <1>5

----------------------------------------------------------------------------
(* The inductive invariant: what Redis and its queue hold are entries of   *)
(* completed calls, one for each event id.                                 *)
Persists ==
  /\ IsFiniteSet(DOMAIN redis) /\ DOMAIN redis \subseteq EventIds
  /\ \A e \in DOMAIN redis :
       redis[e] \in Entry /\ redis[e].eventId = e /\ redis[e].call <= calls
  /\ writes \in Seq(Entry) /\ Len(writes) <= MaxQueue
  /\ \A i \in DOMAIN writes : writes[i].eventId \in EventIds /\ writes[i].call <= calls

Counts ==
  /\ calls \in 0 .. MaxEntries /\ lastPot \in {0, calls} /\ restarts \in 0 .. MaxRestarts
  /\ \A i \in DOMAIN dag.log : dag.log[i].call <= calls

IInv == Good(dag) /\ Counts /\ Persists /\ (~reused => Clean(dag))

LEMMA InitIInv == Init => IInv
<1> SUFFICES ASSUME Init PROVE IInv
  OBVIOUS
<1>1. dag = EmptyDag /\ Good(EmptyDag) /\ Clean(EmptyDag)
  BY EmptyGood DEF Init
<1>2. DOMAIN redis = {} /\ DOMAIN writes = {} /\ Len(writes) = 0 /\ DOMAIN dag.log = {}
  BY <1>1 DEF Init, EmptyDag
<1>3. Counts
  BY <1>2, CausalLogAssumption DEF Init, Counts
<1>4. Persists
  BY <1>2, FS_EmptySet, CausalLogAssumption DEF Init, Persists
<1> QED
  BY <1>1, <1>3, <1>4 DEF IInv

LEMMA GenerateIInv ==
  ASSUME IInv, NEW e \in Ids, NEW p \in Ids, Generate(e, p)
  PROVE  IInv'
<1>1. PICK t \in 0 .. MaxTime :
        LET entry == [call |-> calls + 1, eventId |-> e, prevEventId |-> p, createdAt |-> t]
        IN /\ dag' = Insert(dag, entry)
           /\ writes' = IF e = NoEvent THEN writes ELSE Append(writes, entry)
  BY DEF Generate
<1> DEFINE entry == [call |-> calls + 1, eventId |-> e, prevEventId |-> p, createdAt |-> t]
<1>2. /\ Good(dag) /\ (~reused => Clean(dag)) /\ calls \in 0 .. MaxEntries
      /\ \A i \in DOMAIN dag.log : dag.log[i].call <= calls
  BY DEF IInv, Counts
<1>3. /\ calls < MaxEntries /\ calls' = calls + 1 /\ lastPot' = calls + 1
      /\ reused' = (reused \/ Used(e)) /\ redis' = redis /\ restarts' = restarts
      /\ (e # NoEvent => Len(writes) < MaxQueue)
  BY DEF Generate
<1>4. calls \in Nat /\ calls + 1 \in 0 .. MaxEntries /\ {MaxEntries, MaxQueue} \subseteq Nat
  BY <1>2, <1>3, CausalLogAssumption
<1>5. /\ entry \in Entry /\ entry.call = calls + 1 /\ entry.eventId = e
      /\ dag' = Insert(dag, entry)
      /\ writes' = IF e = NoEvent THEN writes ELSE Append(writes, entry)
  BY <1>1, <1>4 DEF Entry
<1> HIDE DEF entry
<1>6. dag.log \in Seq(Entry)
  BY <1>2 DEF Good, Ring
<1>7. Fresh(dag, entry)
  <2> SUFFICES ASSUME NEW i \in DOMAIN dag.log, dag.log[i] = entry PROVE FALSE
    BY DEF Fresh
  <2>1. calls + 1 <= calls
    BY <1>2, <1>5
  <2> QED
    BY <2>1, <1>4
<1>8. Good(dag')
  BY <1>2, <1>5, <1>7, InsertGood
<1>9. ~reused' => Clean(dag')
  BY <1>2, <1>3, <1>5, InsertClean DEF Used, Unused
<1>10. \A i \in DOMAIN dag'.log : dag'.log[i].call <= calls'
  <2> TAKE i \in DOMAIN dag'.log
  <2>1. CASE dag'.log[i] = entry
    BY <2>1, <1>3, <1>4, <1>5
  <2>2. ASSUME NEW j \in DOMAIN dag.log, dag'.log[i] = dag.log[j] PROVE dag'.log[i].call <= calls'
    <3>1. dag.log[j] \in Entry /\ dag.log[j].call <= calls
      BY <1>2, <1>6
    <3>2. dag.log[j].call \in Nat
      BY <3>1 DEF Entry
    <3> QED
      BY <2>2, <3>1, <3>2, <1>3, <1>4
  <2> QED
    BY <2>1, <2>2, <1>2, <1>5, InsertFrom
<1>11. Counts'
  BY <1>3, <1>4, <1>10 DEF IInv, Counts
<1>12. Persists'
  <2>1. Persists
    BY DEF IInv
  <2>2. ASSUME NEW x \in DOMAIN redis'
        PROVE  redis'[x] \in Entry /\ redis'[x].eventId = x /\ redis'[x].call <= calls'
    <3>1. redis[x] \in Entry /\ redis[x].eventId = x /\ redis[x].call <= calls /\ redis[x].call \in Nat
      BY <2>1, <2>2, <1>3 DEF Persists, Entry
    <3> QED
      BY <3>1, <1>3, <1>4
  <2>3. /\ writes \in Seq(Entry) /\ Len(writes) <= MaxQueue
        /\ \A i \in DOMAIN writes : writes[i].eventId \in EventIds /\ writes[i].call <= calls
    BY <2>1 DEF Persists
  <2>4. \A i \in DOMAIN writes : writes[i].call <= calls'
    <3> TAKE i \in DOMAIN writes
    <3>1. writes[i] \in Entry /\ writes[i].call <= calls
      BY <2>3
    <3>2. writes[i].call \in Nat
      BY <3>1 DEF Entry
    <3> QED
      BY <3>1, <3>2, <1>3, <1>4
  <2> DEFINE KeysOK == /\ IsFiniteSet(DOMAIN redis') /\ DOMAIN redis' \subseteq EventIds
                       /\ \A x \in DOMAIN redis' :
                            redis'[x] \in Entry /\ redis'[x].eventId = x /\ redis'[x].call <= calls'
             QueueOK == /\ writes' \in Seq(Entry) /\ Len(writes') <= MaxQueue
                        /\ \A i \in DOMAIN writes' :
                             writes'[i].eventId \in EventIds /\ writes'[i].call <= calls'
  <2>7. KeysOK
    BY <2>1, <2>2, <1>3 DEF Persists
  <2>5. ASSUME e = NoEvent PROVE QueueOK
    <3>1. writes' = writes
      BY <2>5, <1>5
    <3> QED
      BY <3>1, <2>3, <2>4
  <2>6. ASSUME e # NoEvent PROVE QueueOK
    <3>1. /\ writes' = Append(writes, entry) /\ writes' \in Seq(Entry)
          /\ Len(writes') = Len(writes) + 1 /\ Len(writes) \in Nat
          /\ DOMAIN writes = 1 .. Len(writes) /\ DOMAIN writes' = 1 .. Len(writes) + 1
          /\ \A i \in DOMAIN writes : writes'[i] = writes[i]
          /\ writes'[Len(writes) + 1] = entry
      BY <2>6, <1>5, <2>3, AppendIs
    <3>2. Len(writes') <= MaxQueue
      BY <3>1, <2>6, <1>3, <1>4
    <3>3. entry.eventId \in EventIds /\ entry.call <= calls'
      BY <2>6, <1>3, <1>4, <1>5 DEF Ids
    <3>4. \A i \in DOMAIN writes' : writes'[i].eventId \in EventIds /\ writes'[i].call <= calls'
      BY <3>1, <3>3, <2>3, <2>4
    <3> QED
      BY <3>1, <3>2, <3>4
  <2> QED
    BY <2>7, <2>5, <2>6 DEF Persists
<1> QED
  BY <1>8, <1>9, <1>11, <1>12 DEF IInv

LEMMA RedisIInv ==
  ASSUME IInv, RedisSets \/ RedisFails \/ \E e \in EventIds : RedisExpires(e)
  PROVE  IInv'
<1>1. /\ IsFiniteSet(DOMAIN redis) /\ DOMAIN redis \subseteq EventIds
      /\ \A e \in DOMAIN redis :
           redis[e] \in Entry /\ redis[e].eventId = e /\ redis[e].call <= calls
      /\ writes \in Seq(Entry) /\ Len(writes) <= MaxQueue
      /\ \A i \in DOMAIN writes : writes[i].eventId \in EventIds /\ writes[i].call <= calls
  BY DEF IInv, Persists
<1>2. UNCHANGED <<dag, calls, lastPot, restarts, reused>>
  BY DEF RedisSets, RedisFails, RedisExpires
<1>3. ASSUME writes # <<>>
      PROVE  /\ Tail(writes) \in Seq(Entry) /\ Len(Tail(writes)) <= MaxQueue
             /\ \A i \in DOMAIN Tail(writes) :
                  Tail(writes)[i].eventId \in EventIds /\ Tail(writes)[i].call <= calls
             /\ Head(writes) \in Entry /\ Head(writes).eventId \in EventIds
             /\ Head(writes).call <= calls
  <2>1. /\ Tail(writes) \in Seq(Entry) /\ Len(Tail(writes)) = Len(writes) - 1 /\ Len(writes) \in Nat
        /\ \A i \in DOMAIN Tail(writes) : i + 1 \in DOMAIN writes /\ Tail(writes)[i] = writes[i + 1]
    BY <1>1, <1>3, TailIs
  <2>2. 1 \in DOMAIN writes /\ Head(writes) = writes[1] /\ writes[1] \in Entry
    BY <1>1, <1>3
  <2>3. Len(Tail(writes)) <= MaxQueue
    BY <2>1, <1>1, CausalLogAssumption
  <2> QED
    BY <2>1, <2>2, <2>3, <1>1
<1> DEFINE Keys(r) == /\ IsFiniteSet(DOMAIN r) /\ DOMAIN r \subseteq EventIds
                      /\ \A e \in DOMAIN r : r[e] \in Entry /\ r[e].eventId = e /\ r[e].call <= calls
<1>4. CASE RedisSets
  <2> DEFINE w == Head(writes)
  <2>1. writes # <<>> /\ redis' = With(redis, w.eventId, w) /\ writes' = Tail(writes)
    BY <1>4 DEF RedisSets
  <2>2. DOMAIN redis' = DOMAIN redis \cup {w.eventId}
    BY <2>1 DEF With
  <2>3. IsFiniteSet(DOMAIN redis')
    BY <2>2, <1>1, FS_AddElement
  <2>4. \A e \in DOMAIN redis' : redis'[e] = IF e = w.eventId THEN w ELSE redis[e]
    BY <2>1 DEF With
  <2>5. Keys(redis')
    BY <2>1, <2>2, <2>3, <2>4, <1>1, <1>3
  <2> QED
    BY <2>1, <2>5, <1>2, <1>3 DEF IInv, Counts, Persists
<1>5. CASE RedisFails
  <2>1. writes # <<>> /\ redis' = redis /\ writes' = Tail(writes)
    BY <1>5 DEF RedisFails
  <2>2. Keys(redis')
    BY <2>1, <1>1
  <2> QED
    BY <2>1, <2>2, <1>2, <1>3 DEF IInv, Counts, Persists
<1>6. ASSUME NEW e \in EventIds, RedisExpires(e) PROVE IInv'
  <2>1. redis' = Without(redis, e) /\ writes' = writes
    BY <1>6 DEF RedisExpires
  <2>2. DOMAIN redis' = DOMAIN redis \ {e} /\ \A x \in DOMAIN redis' : redis'[x] = redis[x]
    BY <2>1 DEF Without
  <2>3. IsFiniteSet(DOMAIN redis')
    BY <2>2, <1>1, FS_RemoveElement
  <2>4. Keys(redis')
    BY <2>2, <2>3, <1>1
  <2> QED
    BY <2>1, <2>4, <1>1, <1>2 DEF IInv, Counts, Persists
<1> QED
  BY <1>4, <1>5, <1>6

(* The image of a finite map has no more members than its domain.          *)
LEMMA PersistedFinite ==
  ASSUME IInv
  PROVE  IsFiniteSet(Persisted) /\ Cardinality(Persisted) \in Nat
<1>1. IsFiniteSet(DOMAIN redis)
  BY DEF IInv, Persists
<1> DEFINE f == [e \in DOMAIN redis |-> redis[e]]
<1>2. f \in Surjection(DOMAIN redis, Persisted)
  BY DEF Persisted, Surjection
<1>3. IsFiniteSet(Persisted)
  BY <1>1, <1>2, FS_Surjection
<1> QED
  BY <1>3, FS_CardinalityType

(* The sequence that a restore goes through holds every persisted entry    *)
(* once, oldest first.                                                     *)
LEMMA OrderIs ==
  ASSUME IInv, NEW s \in ByCreation(Persisted)
  PROVE  /\ s \in Seq(Entry) /\ Len(s) = Cardinality(Persisted) /\ Distinct(s)
         /\ \A i \in DOMAIN s : s[i].eventId \in DOMAIN redis /\ s[i] = redis[s[i].eventId]
         /\ \A i, j \in DOMAIN s : i < j => s[i].createdAt <= s[j].createdAt
<1> DEFINE n == Cardinality(Persisted)
<1>1. /\ n \in Nat /\ s \in [1 .. n -> Persisted]
      /\ \A i, j \in 1 .. n : i # j => s[i] # s[j]
      /\ \A i, j \in DOMAIN s : i < j => s[i].createdAt <= s[j].createdAt
  BY PersistedFinite DEF ByCreation, SetToSeqs
<1>2. \A e \in DOMAIN redis : redis[e] \in Entry /\ redis[e].eventId = e /\ e \in EventIds
  BY DEF IInv, Persists
<1> HIDE DEF n
<1>3. \A x \in Persisted : x \in Entry /\ x.eventId \in DOMAIN redis /\ x = redis[x.eventId]
  BY <1>2 DEF Persisted
<1>4. s \in Seq(Entry) /\ Len(s) = n /\ DOMAIN s = 1 .. n
  BY <1>1, <1>3
<1>5. \A i \in DOMAIN s : s[i].eventId \in DOMAIN redis /\ s[i] = redis[s[i].eventId]
  BY <1>1, <1>3
<1>6. Distinct(s)
  BY <1>1, <1>2, <1>4, <1>5 DEF Distinct
<1> QED
  BY <1>1, <1>4, <1>5, <1>6 DEF n

LEMMA RestartIInv ==
  ASSUME IInv, RestartEmpty \/ Restore
  PROVE  IInv'
<1>1. /\ restarts < MaxRestarts /\ restarts' = restarts + 1 /\ lastPot' = 0
      /\ writes' = <<>> /\ UNCHANGED <<calls, redis, reused>>
  BY DEF RestartEmpty, Restore, Restarts
<1>2. Good(dag') /\ Clean(dag') /\ \A i \in DOMAIN dag'.log : dag'.log[i].call <= calls
  <2>1. CASE RestartEmpty
    <3>1. dag' = EmptyDag /\ DOMAIN EmptyDag.log = {}
      BY <2>1 DEF RestartEmpty, EmptyDag
    <3> QED
      BY <3>1, EmptyGood
  <2>2. CASE Restore
    <3>1. PICK s \in ByCreation(Persisted) : dag' = Restored(s)[Len(s)]
      BY <2>2 DEF Restore
    <3>2. /\ s \in Seq(Entry) /\ Distinct(s)
          /\ \A i \in DOMAIN s : s[i].eventId \in DOMAIN redis /\ s[i] = redis[s[i].eventId]
      BY OrderIs
    <3>3. BuiltFrom(s, Len(s), dag')
      BY <3>1, <3>2, RestoreBuilds
    <3>4. ASSUME NEW i \in DOMAIN dag'.log PROVE dag'.log[i].call <= calls
      <4> DEFINE k == Len(dag'.log)
                 n == Len(s)
                 j == i + (n - k)
      <4>1. /\ dag'.log \in Seq(Entry) /\ k = (IF n <= LogMax THEN n ELSE LogMax)
            /\ dag'.log[i] = s[j]
        BY <3>3 DEF BuiltFrom, Good, Ring
      <4>2. n \in Nat /\ k \in Nat /\ DOMAIN s = 1 .. n /\ DOMAIN dag'.log = 1 .. k /\ LogMax \in Nat
        BY <3>2, <4>1, CausalLogAssumption
      <4> HIDE DEF k, n
      <4>3. j \in 1 .. n
        BY <4>1, <4>2
      <4> HIDE DEF j
      <4>4. s[j].eventId \in DOMAIN redis /\ s[j] = redis[s[j].eventId]
        BY <3>2, <4>2, <4>3
      <4> QED
        BY <4>1, <4>4 DEF IInv, Persists
    <3> QED
      BY <3>3, <3>4 DEF BuiltFrom
  <2> QED
    BY <2>1, <2>2
<1>3. Counts'
  BY <1>1, <1>2, CausalLogAssumption DEF IInv, Counts
<1>4. Persists'
  <2>1. Len(writes') = 0 /\ DOMAIN writes' = {} /\ writes' \in Seq(Entry)
    BY <1>1
  <2> QED
    BY <1>1, <2>1, CausalLogAssumption DEF IInv, Persists
<1> QED
  BY <1>2, <1>3, <1>4 DEF IInv

THEOREM Invariance == Spec => []IInv
<1>1. Init => IInv
  BY InitIInv
<1>2. IInv /\ [Next]_vars => IInv'
  <2> SUFFICES ASSUME IInv, [Next]_vars PROVE IInv'
    OBVIOUS
  <2>1. CASE \E e, p \in Ids : Generate(e, p)
    BY <2>1, GenerateIInv
  <2>2. CASE RedisSets \/ RedisFails \/ \E e \in EventIds : RedisExpires(e)
    BY <2>2, RedisIInv
  <2>3. CASE RestartEmpty \/ Restore
    BY <2>3, RestartIInv
  <2>4. CASE UNCHANGED vars
    BY <2>4 DEF vars, IInv, Counts, Persists
  <2> QED
    BY <2>1, <2>2, <2>3, <2>4 DEF Next
<1> QED
  BY <1>1, <1>2, PTL DEF Spec

(* Whatever is generated, persisted, lost and restored: the ring and what  *)
(* is remembered of it keep their bounds, and Redis holds entries under    *)
(* their own event ids.                                                    *)
THEOREM TypeCorrect == Spec => []TypeOK
<1>1. IInv => TypeOK
  BY DEF IInv, Good, Ring, Forgotten, Counts, Persists, TypeOK
<1> QED
  BY <1>1, Invariance, PTL

(* Both indexes agree with the ring after every eviction, reuse of an id,  *)
(* lost write and restart.                                                 *)
THEOREM IndexesAgree == Spec => []IndexesExact
<1>1. IInv => IndexesExact
  BY DEF IInv, Good, IndexesExact
<1> QED
  BY <1>1, Invariance, PTL

(* Every entry with an event id is found, unless a remembered id was used  *)
(* again.                                                                  *)
THEOREM EntriesFound == Spec => []FoundUnlessReused
<1>1. IInv => FoundUnlessReused
  BY DEF IInv, Clean, FoundUnlessReused, EveryEntryFound
<1> QED
  BY <1>1, Invariance, PTL

----------------------------------------------------------------------------
(* The queries.  Whatever they find is an entry of the ring, under its id. *)

LEMMA FindIs ==
  ASSUME IInv, NEW id
  PROVE  /\ Find(id) # Nothing =>
              /\ id \in DOMAIN dag.byId /\ Find(id) = dag.byId[id] /\ Find(id).eventId = id
              /\ \E i \in DOMAIN dag.log : dag.log[i] = Find(id)
         /\ Find(NoEvent) = Nothing
<1>1. /\ DOMAIN dag.byId \subseteq EventIds /\ NoEvent \notin EventIds
      /\ \A x \in DOMAIN dag.byId : \E i \in DOMAIN dag.log :
           dag.log[i] = dag.byId[x] /\ dag.log[i].eventId = x
  BY CausalLogAssumption DEF IInv, Good, Ring, IdIndexNewest
<1> QED
  BY <1>1 DEF Find

(* The cursors of the walk back, by counting up its steps.                 *)
LEMMA AncestorIs ==
  ASSUME NEW id
  PROVE  /\ Ancestor(id)[0] = Find(id)
         /\ \A n \in 1 .. GraphDepth :
              Ancestor(id)[n] = Find(Ancestor(id)[n - 1].prevEventId)
<1> DEFINE IsUpTo(f, n) ==
             f = [k \in 0 .. n |-> IF k = 0 THEN Find(id) ELSE Find(f[k - 1].prevEventId)]
           S == {n \in Nat : \E f : IsUpTo(f, n)}
<1>1. 0 \in S
  <2> DEFINE f == [k \in 0 .. 0 |-> Find(id)]
  <2>1. IsUpTo(f, 0)
    <3>1. \A k \in 0 .. 0 : k = 0
      OBVIOUS
    <3>2. \A k \in 0 .. 0 : Find(id) = IF k = 0 THEN Find(id) ELSE Find(f[k - 1].prevEventId)
      BY <3>1
    <3> QED
      BY <3>2
  <2> QED
    BY <2>1
<1>2. ASSUME NEW n \in Nat, n \in S PROVE n + 1 \in S
  <2>1. PICK f : IsUpTo(f, n)
    BY <1>2
  <2> DEFINE g == [k \in 0 .. n + 1 |-> IF k \in 0 .. n THEN f[k] ELSE Find(f[n].prevEventId)]
  <2>2. ASSUME NEW k \in 0 .. n + 1
        PROVE  g[k] = IF k = 0 THEN Find(id) ELSE Find(g[k - 1].prevEventId)
    <3>1. CASE k = 0
      BY <3>1, <2>1
    <3>2. CASE k \in 1 .. n
      BY <3>2, <2>1
    <3>3. CASE k = n + 1
      BY <3>3
    <3> QED
      BY <3>1, <3>2, <3>3
  <2>3. IsUpTo(g, n + 1)
    BY <2>2
  <2> HIDE DEF g, IsUpTo
  <2>4. \E h : IsUpTo(h, n + 1)
    BY <2>3
  <2> QED
    BY <2>4
<1>3. GraphDepth \in Nat
  BY CausalLogAssumption
<1>4. PICK f : IsUpTo(f, GraphDepth)
  BY <1>1, <1>2, <1>3, CountUp
<1>5. IsUpTo(Ancestor(id), GraphDepth)
  BY <1>4 DEF Ancestor
<1> QED
  BY <1>3, <1>5

LEMMA AncestorFound ==
  ASSUME IInv, NEW id, NEW n \in 0 .. GraphDepth
  PROVE  \E x : Ancestor(id)[n] = Find(x)
<1>1. n = 0 \/ n \in 1 .. GraphDepth
  BY CausalLogAssumption
<1> QED
  BY <1>1, AncestorIs

(* pot_graph reports a break only where an entry is missing, unless a      *)
(* remembered event id was used again: the ids it calls evicted are never  *)
(* those of entries that are there.                                        *)
THEOREM BreaksAreReal == Spec => []NoFalseBreak
<1>1. IInv => NoFalseBreak
  <2> SUFFICES ASSUME IInv, NEW id \in EventIds, ~reused, ChainBroken(id)
               PROVE  \E n \in 0 .. GraphDepth : Missing(Ancestor(id)[n].prevEventId)
    BY DEF NoFalseBreak
  <2>1. ASSUME NEW e \in Backward(id), Contains(dag.evicted, e.eventId) PROVE FALSE
    <3>1. PICK n \in 0 .. GraphDepth - 1 : e = Ancestor(id)[n] /\ e # Nothing
      BY DEF Backward
    <3>2. n \in 0 .. GraphDepth
      BY CausalLogAssumption
    <3>3. PICK x : e = Find(x)
      BY <3>1, <3>2, AncestorFound
    <3>4. e.eventId \in DOMAIN dag.byId
      BY <3>1, <3>3, FindIs
    <3> QED
      BY <2>1, <3>4 DEF IInv, Clean
  <2>2. Missing(Ancestor(id)[GraphDepth].prevEventId)
    BY <2>1 DEF ChainBroken
  <2>3. GraphDepth \in 0 .. GraphDepth
    BY CausalLogAssumption
  <2> QED
    BY <2>2, <2>3
<1> QED
  BY <1>1, Invariance, PTL

(* The cursors of the walk forward.                                        *)
Onward(to, e) ==
  LET nexts == Bucket(dag.byPrev, e.eventId)
  IN IF e.eventId = to \/ nexts = <<>> THEN Nothing ELSE Head(nexts)

LEMMA DescendantIs ==
  ASSUME NEW from, NEW to
  PROVE  /\ Descendant(from, to)[0] = Find(from)
         /\ \A n \in 1 .. Hops :
              Descendant(from, to)[n] = Onward(to, Descendant(from, to)[n - 1])
<1> DEFINE IsUpTo(f, n) ==
             f = [k \in 0 .. n |-> IF k = 0 THEN Find(from) ELSE Onward(to, f[k - 1])]
           S == {n \in Nat : \E f : IsUpTo(f, n)}
<1>1. 0 \in S
  <2> DEFINE f == [k \in 0 .. 0 |-> Find(from)]
  <2>1. IsUpTo(f, 0)
    <3>1. \A k \in 0 .. 0 : k = 0
      OBVIOUS
    <3>2. \A k \in 0 .. 0 : Find(from) = IF k = 0 THEN Find(from) ELSE Onward(to, f[k - 1])
      BY <3>1
    <3> QED
      BY <3>2
  <2> QED
    BY <2>1
<1>2. ASSUME NEW n \in Nat, n \in S PROVE n + 1 \in S
  <2>1. PICK f : IsUpTo(f, n)
    BY <1>2
  <2> DEFINE g == [k \in 0 .. n + 1 |-> IF k \in 0 .. n THEN f[k] ELSE Onward(to, f[n])]
  <2>2. ASSUME NEW k \in 0 .. n + 1
        PROVE  g[k] = IF k = 0 THEN Find(from) ELSE Onward(to, g[k - 1])
    <3>1. CASE k = 0
      BY <3>1, <2>1
    <3>2. CASE k \in 1 .. n
      BY <3>2, <2>1
    <3>3. CASE k = n + 1
      BY <3>3
    <3> QED
      BY <3>1, <3>2, <3>3
  <2>3. IsUpTo(g, n + 1)
    BY <2>2
  <2> HIDE DEF g, IsUpTo
  <2>4. \E h : IsUpTo(h, n + 1)
    BY <2>3
  <2> QED
    BY <2>4
<1>3. Hops \in Nat
  BY CausalLogAssumption
<1>4. PICK f : IsUpTo(f, Hops)
  BY <1>1, <1>2, <1>3, CountUp
<1>5. IsUpTo(Descendant(from, to), Hops)
  BY <1>4 DEF Descendant, Onward
<1> QED
  BY <1>3, <1>5

(* Whatever the walk forward passes is an entry of the ring.               *)
LEMMA DescendantFound ==
  ASSUME IInv, NEW from, NEW to, NEW n \in 0 .. Hops, Descendant(from, to)[n] # Nothing
  PROVE  \E i \in DOMAIN dag.log : dag.log[i] = Descendant(from, to)[n]
<1> DEFINE e == Descendant(from, to)[n]
<1>1. CASE n = 0
  BY <1>1, DescendantIs, FindIs
<1>2. CASE n \in 1 .. Hops
  <2> DEFINE x == Descendant(from, to)[n - 1].eventId
  <2>1. e = Onward(to, Descendant(from, to)[n - 1])
    BY <1>2, DescendantIs
  <2>2. /\ Bucket(dag.byPrev, x) # <<>> /\ e = Head(Bucket(dag.byPrev, x))
    BY <2>1 DEF Onward
  <2>3. x \in DOMAIN dag.byPrev /\ Bucket(dag.byPrev, x) = dag.byPrev[x]
    BY <2>2 DEF Bucket
  <2>4. dag.byPrev[x] \in Seq(Entry) /\ {dag.byPrev[x][i] : i \in DOMAIN dag.byPrev[x]} = Children(dag, x)
    BY <2>3 DEF IInv, Good, Ring, ForwardIndexExact
  <2> HIDE DEF e, x
  <2>5. e = dag.byPrev[x][1] /\ 1 \in DOMAIN dag.byPrev[x]
    BY <2>2, <2>3, <2>4
  <2>6. e \in Children(dag, x)
    BY <2>4, <2>5
  <2> QED
    BY <2>6 DEF Children, e
<1> QED
  BY <1>1, <1>2, CausalLogAssumption

(* The walk forward passes only entries whose ids were not evicted.        *)
LEMMA WalkIntact ==
  ASSUME IInv, ~reused, NEW from, NEW to
  PROVE  ChainIntact(from, to)
<1> SUFFICES ASSUME NEW n \in 0 .. Hops - 1, Descendant(from, to)[n] # Nothing,
                    Contains(dag.evicted, Descendant(from, to)[n].eventId)
             PROVE  FALSE
  BY DEF ChainIntact, Rollup
<1>1. PICK i \in DOMAIN dag.log : dag.log[i] = Descendant(from, to)[n]
  <2>1. n \in 0 .. Hops
    BY CausalLogAssumption
  <2> QED
    BY <2>1, DescendantFound
<1>2. dag.log[i].eventId = NoEvent \/ dag.log[i].eventId \in DOMAIN dag.byId
  BY DEF IInv, Clean, AllFound
<1>3. dag.evicted \in Seq(EventIds) /\ NoEvent \notin EventIds
  BY CausalLogAssumption DEF IInv, Good, Forgotten
<1>4. ~Contains(dag.evicted, NoEvent)
  <2> SUFFICES ASSUME NEW k \in 1 .. Len(dag.evicted), dag.evicted[k] = NoEvent PROVE FALSE
    BY DEF Contains
  <2> QED
    BY <1>3
<1>5. dag.log[i].eventId \in DOMAIN dag.byId
  BY <1>1, <1>2, <1>4
<1> QED
  BY <1>1, <1>5 DEF IInv, Clean

(* One step back, where no entry has two children, is undone by the step   *)
(* forward.                                                                *)
LEMMA StepsAgree ==
  ASSUME IInv, Unforked, NEW id, NEW n \in 1 .. GraphDepth,
         Ancestor(id)[n] # Nothing, NEW to, Ancestor(id)[n].eventId # to
  PROVE  Ancestor(id)[n - 1] # Nothing /\ Onward(to, Ancestor(id)[n]) = Ancestor(id)[n - 1]
<1> DEFINE c == Ancestor(id)[n - 1]
           x == c.prevEventId
<1>1. Ancestor(id)[n] = Find(x) /\ n - 1 \in 0 .. GraphDepth
  BY AncestorIs, CausalLogAssumption
<1>2. c # Nothing /\ x # NoEvent
  BY <1>1, FindIs DEF Nothing
<1>3. PICK y : c = Find(y)
  BY <1>1, AncestorFound
<1>4. PICK i \in DOMAIN dag.log : dag.log[i] = c
  BY <1>2, <1>3, FindIs
<1>5. Find(x).eventId = x
  BY <1>1, FindIs
<1> HIDE DEF c, x
<1>6. dag.log[i].prevEventId = x
  BY <1>4 DEF x
<1>7. x \in DOMAIN dag.byPrev /\ c \in Children(dag, x)
  BY <1>2, <1>4, <1>6 DEF IInv, Good, ForwardIndexExact, Children
<1> DEFINE b == dag.byPrev[x]
<1>8. b \in Seq(Entry) /\ Len(b) = 1 /\ {b[k] : k \in DOMAIN b} = Children(dag, x)
  BY <1>7 DEF IInv, Good, Ring, ForwardIndexExact, Unforked
<1>9. Bucket(dag.byPrev, x) = b
  BY <1>7 DEF Bucket
<1> HIDE DEF b
<1>10. b # <<>> /\ Head(b) = c
  <2>1. PICK k \in DOMAIN b : b[k] = c
    BY <1>7, <1>8
  <2>2. DOMAIN b = 1 .. 1 /\ Head(b) = b[1] /\ b # <<>>
    BY <1>8
  <2> QED
    BY <2>1, <2>2
<1> QED
  BY <1>1, <1>2, <1>5, <1>9, <1>10 DEF Onward, c

(* pot_checkpoint from an ancestor of an event reaches the event and calls *)
(* the chain intact, where no entry has two children and no remembered id  *)
(* was used again: step by step it takes the way back that pot_graph took. *)
THEOREM WalksAgree == Spec => []UnforkedCheckpointReaches
<1>1. IInv => UnforkedCheckpointReaches
  <2> SUFFICES ASSUME IInv, Unforked, ~reused, NEW from \in EventIds, NEW to \in EventIds,
                      Descends(from, to)
               PROVE  ReachesEnd(from, to)
    BY WalkIntact DEF UnforkedCheckpointReaches
  <2>1. PICK m \in 0 .. GraphDepth - 1 : Find(from) = Ancestor(to)[m] /\ Find(from) # Nothing
    BY DEF Descends, Backward
  <2>2. /\ m \in Nat /\ m < Hops /\ m < GraphDepth /\ Hops \in Nat /\ GraphDepth \in Nat
    BY CausalLogAssumption
  <2> DEFINE A(n) == Ancestor(to)[n]
             D(n) == Descendant(from, to)[n]
             Passed(k) == \E j \in 0 .. k : D(j) # Nothing /\ D(j) = Find(to)
             S == {k \in Nat : k <= m => \/ D(k) = A(m - k) /\ A(m - k) # Nothing
                                         \/ Passed(k)}
  <2>3. 0 \in S
    BY <2>1, <2>2, DescendantIs
  <2>4. ASSUME NEW k \in Nat, k \in S PROVE k + 1 \in S
    <3> SUFFICES ASSUME k + 1 <= m
                 PROVE  \/ D(k + 1) = A(m - (k + 1)) /\ A(m - (k + 1)) # Nothing
                        \/ Passed(k + 1)
      OBVIOUS
    <3>1. CASE Passed(k)
      BY <3>1
    <3>2. CASE D(k) = A(m - k) /\ A(m - k) # Nothing
      <4>1. /\ m - k \in 1 .. GraphDepth /\ (m - k) - 1 = m - (k + 1)
            /\ k + 1 \in 1 .. Hops /\ (k + 1) - 1 = k
        BY <2>2
      <4>2. CASE A(m - k).eventId = to
        <5>1. PICK x : A(m - k) = Find(x)
          BY <4>1, AncestorFound
        <5>2. A(m - k) = Find(to)
          BY <3>2, <4>2, <5>1, FindIs
        <5> QED
          BY <3>2, <5>2
      <4>3. CASE A(m - k).eventId # to
        <5>1. A((m - k) - 1) # Nothing /\ Onward(to, A(m - k)) = A((m - k) - 1)
          BY <3>2, <4>1, <4>3, StepsAgree
        <5>2. D(k + 1) = Onward(to, D((k + 1) - 1))
          BY <4>1, DescendantIs
        <5> QED
          BY <3>2, <4>1, <5>1, <5>2
      <4> QED
        BY <4>2, <4>3
    <3> QED
      BY <2>4, <3>1, <3>2
  <2>5. m \in S
    <3> HIDE DEF S
    <3> QED
      BY <2>2, <2>3, <2>4, CountUp
  <2>6. A(0) = Find(to)
    BY AncestorIs
  <2>7. PICK j \in 0 .. m : D(j) # Nothing /\ D(j) = Find(to)
    <3>1. m - m = 0 /\ m \in 0 .. m
      BY <2>2
    <3> QED
      BY <2>2, <2>5, <2>6, <3>1
  <2>8. j \in 0 .. Hops - 1
    BY <2>2
  <2> QED
    BY <2>7, <2>8 DEF ReachesEnd, Rollup
<1> QED
  BY <1>1, Invariance, PTL

----------------------------------------------------------------------------
(* A restart.  The order of a restore passes over nothing that Redis has.  *)

LEMMA OrderHasAll ==
  ASSUME IInv, NEW s \in ByCreation(Persisted), NEW id \in DOMAIN redis
  PROVE  \E i \in DOMAIN s : s[i] = redis[id]
<1> DEFINE n == Cardinality(Persisted)
<1>1. /\ n \in Nat /\ IsFiniteSet(Persisted) /\ s \in [1 .. n -> Persisted]
      /\ \A i, j \in 1 .. n : i # j => s[i] # s[j]
  BY PersistedFinite DEF ByCreation, SetToSeqs
<1>2. s \in Injection(1 .. n, Persisted)
  BY <1>1 DEF Injection, IsInjective
<1>3. Cardinality(1 .. n) = n
  <2>1. 1 \in Int /\ n \in Int /\ (IF 1 > n THEN 0 ELSE n - 1 + 1) = n
    BY <1>1
  <2> QED
    BY <2>1, FS_Interval
<1>4. s \in Surjection(1 .. n, Persisted)
  BY <1>1, <1>2, <1>3, FS_Injection
<1>5. redis[id] \in Persisted
  BY DEF Persisted
<1> HIDE DEF n
<1> QED
  BY <1>1, <1>4, <1>5 DEF Surjection

(* An entry that the ring of a restart has no room for stands before at    *)
(* least LogMax others of the order.                                       *)
LEMMA DroppedForNewer ==
  ASSUME IInv, NEW s \in ByCreation(Persisted), NEW i \in DOMAIN s, i + LogMax <= Len(s),
         NEW id, id = s[i].eventId
  PROVE  LogMax <= Cardinality({o \in DOMAIN redis \ {id} :
                                  redis[o].createdAt >= redis[id].createdAt})
<1> DEFINE O == {o \in DOMAIN redis \ {id} : redis[o].createdAt >= redis[id].createdAt}
           P == i + 1 .. i + LogMax
           f == [q \in P |-> s[q].eventId]
<1>1. /\ s \in Seq(Entry) /\ Distinct(s)
      /\ \A q \in DOMAIN s : s[q].eventId \in DOMAIN redis /\ s[q] = redis[s[q].eventId]
      /\ \A q, r \in DOMAIN s : q < r => s[q].createdAt <= s[r].createdAt
  BY OrderIs
<1>2. DOMAIN s = 1 .. Len(s) /\ Len(s) \in Nat /\ i \in Nat \ {0} /\ LogMax \in Nat \ {0}
  BY <1>1, CausalLogAssumption
<1>3. ASSUME NEW q \in P PROVE q \in DOMAIN s /\ i < q
  BY <1>2, <1>3
<1> HIDE DEF P
<1>4. \A q \in DOMAIN s : s[q].createdAt \in 0 .. MaxTime
  <2> TAKE q \in DOMAIN s
  <2>1. s[q] \in Entry
    BY <1>1
  <2> QED
    BY <2>1 DEF Entry
<1>5. ASSUME NEW q \in P PROVE s[q].eventId \in O
  <2>1. q \in DOMAIN s /\ i < q /\ s[q].eventId # id
    BY <1>2, <1>3, <1>5, <1>1 DEF Distinct
  <2>2. s[i].createdAt <= s[q].createdAt
    BY <2>1, <1>1
  <2>3. s[q].createdAt >= s[i].createdAt
    BY <2>1, <2>2, <1>4, CausalLogAssumption
  <2> QED
    BY <2>1, <2>3, <1>1
<1>6. IsFiniteSet(O) /\ Cardinality(O) \in Nat
  <2>1. O \in SUBSET DOMAIN redis /\ IsFiniteSet(DOMAIN redis)
    BY DEF IInv, Persists
  <2> HIDE DEF O
  <2> QED
    BY <2>1, FS_Subset, FS_CardinalityType
<1> HIDE DEF O
<1>7. f \in Injection(P, O)
  <2>1. f \in [P -> O]
    BY <1>5
  <2>2. \A q, r \in P : f[q] = f[r] => q = r
    BY <1>1, <1>3 DEF Distinct
  <2> QED
    BY <2>1, <2>2 DEF Injection, IsInjective
<1>8. Cardinality(P) = LogMax
  <2>1. /\ i + 1 \in Int /\ i + LogMax \in Int
        /\ (IF i + 1 > i + LogMax THEN 0 ELSE (i + LogMax) - (i + 1) + 1) = LogMax
    BY <1>2
  <2> QED
    BY <2>1, FS_Interval DEF P
<1> HIDE DEF f
<1>9. Cardinality(P) <= Cardinality(O)
  BY <1>6, <1>7, FS_Injection
<1> QED
  BY <1>8, <1>9 DEF O

(* After a restart every persisted event id leads to its persisted entry,  *)
(* or enough entries created no earlier fill the ring.                     *)
THEOREM NewestRestored == Spec => RestoreKeepsNewest
<1> DEFINE KeptOne(id) ==
             \/ id \in DOMAIN dag'.byId /\ dag'.byId[id] = redis[id]
             \/ LogMax <= Cardinality({o \in DOMAIN redis \ {id} :
                                         redis[o].createdAt >= redis[id].createdAt})
           Kept == Restore => \A id \in DOMAIN redis : KeptOne(id)
<1>1. IInv => Kept
  <2> SUFFICES ASSUME IInv, Restore, NEW id \in DOMAIN redis PROVE KeptOne(id)
    OBVIOUS
  <2>1. PICK s \in ByCreation(Persisted) : dag' = Restored(s)[Len(s)]
    BY DEF Restore
  <2> DEFINE n == Len(s)
             k == Len(dag'.log)
  <2>2. /\ s \in Seq(Entry) /\ Distinct(s)
        /\ \A i \in DOMAIN s : s[i].eventId \in DOMAIN redis /\ s[i] = redis[s[i].eventId]
    BY OrderIs
  <2>3. BuiltFrom(s, n, dag')
    BY <2>1, <2>2, RestoreBuilds
  <2>4. PICK i \in DOMAIN s : s[i] = redis[id]
    BY OrderHasAll
  <2>5. id = s[i].eventId /\ id # NoEvent
    BY <2>4, CausalLogAssumption DEF IInv, Persists
  <2>6. /\ k = (IF n <= LogMax THEN n ELSE LogMax) /\ dag'.log \in Seq(Entry)
        /\ \A j \in DOMAIN dag'.log : dag'.log[j] = s[j + (n - k)]
    BY <2>3 DEF BuiltFrom, Good, Ring
  <2>7. /\ n \in Nat /\ k \in Nat /\ i \in 1 .. n /\ LogMax \in Nat \ {0}
        /\ DOMAIN dag'.log = 1 .. k
    BY <2>2, <2>6, CausalLogAssumption
  <2>8. CASE i > n - k
    <3> DEFINE j == i - (n - k)
    <3> HIDE DEF n, k
    <3>1. j \in 1 .. k /\ j + (n - k) = i
      BY <2>6, <2>7, <2>8
    <3>2. j \in DOMAIN dag'.log /\ dag'.log[j] = redis[id] /\ dag'.log[j].eventId = id
      BY <3>1, <2>4, <2>5, <2>6, <2>7
    <3>3. id \in DOMAIN dag'.byId
      BY <3>2, <2>3, <2>5 DEF BuiltFrom, Clean, AllFound
    <3>4. PICK l \in DOMAIN dag'.log : dag'.log[l] = dag'.byId[id] /\ dag'.log[l].eventId = id
      BY <3>3, <2>3 DEF BuiltFrom, Good, IdIndexNewest
    <3>5. l = j
      BY <3>2, <3>4, <2>3, <2>5 DEF BuiltFrom, Clean
    <3> QED
      BY <3>2, <3>3, <3>4, <3>5
  <2>9. CASE ~(i > n - k)
    <3>1. i + LogMax <= n
      <4> HIDE DEF n, k
      <4> QED
        BY <2>6, <2>7, <2>9
    <3> QED
      BY <3>1, <2>5, DroppedForNewer
  <2> QED
    BY <2>8, <2>9
<1>2. RestoreKeepsNewest <=> [][Kept]_vars
  BY DEF RestoreKeepsNewest
<1> HIDE DEF Kept
<1> QED
  BY <1>1, <1>2, Invariance, PTL
=============================================================================
