----------------------------- MODULE MicroCache -----------------------------
(***************************************************************************)
(* MicroCacheService: the in-process read cache in front of the AI Hub     *)
(* list endpoints.  JavaScript runs one callback at a time, so each action *)
(* is one synchronous piece: a call of getOrLoad that misses, the database *)
(* answering a loader's query, the .then callback, the .finally callback,  *)
(* clear().  A call that hits, or joins a load, only reads and has no      *)
(* action: what it would be given is what the properties speak of.  Line   *)
(* numbers are those of micro-cache.service.ts.                            *)
(***************************************************************************)
EXTENDS Naturals, Sequences, Functions

CONSTANTS Keys,        \* the cache keys in use
          Loads,       \* identities for the loads under way at one time
          None,        \* no load
          TTL,         \* AI_HUB_MICRO_CACHE_TTL_MS: every caller passes this one
          MaxEntries,  \* maxEntries
          MaxLoad,     \* assumed: ticks a loader's query takes at most
          MaxTime,     \* bound: clock ticks
          MaxWrites,   \* bound: writes to the rows behind one key
          MaxClears    \* bound: calls of clear()

ASSUME SizeAssumption == /\ TTL \in Nat /\ MaxEntries \in Nat \ {0} /\ MaxLoad \in Nat
                         /\ MaxTime \in Nat /\ MaxWrites \in Nat /\ MaxClears \in Nat

VARIABLES now,         \* the clock, in ticks
          written,     \* database: the times of the writes behind each key
          entries,     \* the entries map, by key
          order,       \* its keys, oldest insertion first
          inflight,    \* the load each key's slot refers to
          load,        \* the loads under way
          generation,  \* bumped by clear()
          floor        \* auxiliary: the newest value that ever entered, or was cleared

vars == <<now, written, entries, order, inflight, load, generation, floor>>

\* A value is the number of writes it has seen.
Value == 0..MaxWrites
Entry == [val : Value, exp : 0..MaxTime + TTL]

\* A loader's promise, from the call to the end of its .finally.
Phases  == {"query", "answered", "settling"}
LoadRec == [phase : Phases, key : Keys, gen : 0..MaxClears, begun : 0..MaxTime, val : Value]

ASSUME NoneAssumption == None \notin Loads \cup LoadRec

Running(l)   == load[l] # None
In(l, phase) == Running(l) /\ load[l].phase = phase

\* Variant that still serves an entry at its expiry.
HitAtExpiry(k) == k \in DOMAIN entries /\ entries[k].exp >= now

\* remainingMs > 0
Hit(k) == k \in DOMAIN entries /\ entries[k].exp > now

Without(k) == Restrict(entries, DOMAIN entries \ {k})
\* this.entries.delete(k)
OrderWithout(k) ==
    IF k \in Range(order)
    THEN LET at == CHOOSE i \in DOMAIN order : order[i] = k
         IN  [i \in 1..Len(order) - 1 |-> order[IF i < at THEN i ELSE i + 1]]
    ELSE order

(***************************************************************************)
(* getOrLoad                                                               *)
(***************************************************************************)
\* A miss with nothing in flight: an expired entry goes, the loader starts its query.
Begin(k, l) ==
    /\ ~Hit(k) /\ inflight[k] = None /\ ~Running(l)
    /\ load' = [load EXCEPT ![l] = [phase |-> "query", key |-> k, gen |-> generation,
                                    begun |-> now, val |-> 0]]
    /\ inflight' = [inflight EXCEPT ![k] = l]
    /\ entries' = Without(k)
    /\ order' = OrderWithout(k)
    /\ UNCHANGED <<now, written, generation, floor>>

\* The query's snapshot; the rows travel for a while yet.
Answer(l) ==
    /\ In(l, "query")
    /\ load' = [load EXCEPT ![l].phase = "answered", ![l].val = Len(written[load[l].key])]
    /\ UNCHANGED <<now, written, entries, order, inflight, generation, floor>>

Fail(l) ==
    /\ In(l, "query") \/ In(l, "answered")
    /\ load' = [load EXCEPT ![l].phase = "settling"]
    /\ UNCHANGED <<now, written, entries, order, inflight, generation, floor>>

\* entries.set: replaced, or inserted.
Set(k, v) == [j \in DOMAIN entries \cup {k} |->
                IF j = k THEN [val |-> v, exp |-> now + TTL] ELSE entries[j]]

\* Variant that evicts the newest of the others.
StoreEvictsNewest(k, v) ==
    LET keys == OrderWithout(k)
        room == IF Len(keys) < MaxEntries THEN Len(keys) ELSE MaxEntries - 1
    IN  /\ order' = Append(SubSeq(keys, 1, room), k)
        /\ entries' = Restrict(Set(k, v), DOMAIN Set(k, v) \ {keys[i] : i \in room + 1..Len(keys)})

\* store(): inserted last, then the oldest-inserted entries are evicted.
Store(k, v) ==
    LET keys == Append(OrderWithout(k), k)
        over == IF Len(keys) > MaxEntries THEN Len(keys) - MaxEntries ELSE 0
    IN  /\ order' = SubSeq(keys, over + 1, Len(keys))
        /\ entries' = Restrict(Set(k, v), DOMAIN Set(k, v) \ {keys[i] : i \in 1..over})

\* Variant that stores whatever generation the load is of.
ThenAlways(l) ==
    LET k == load[l].key
    IN  /\ In(l, "answered")
        /\ Store(k, load[l].val)
        /\ floor' = [floor EXCEPT ![k] = IF load[l].val > @ THEN load[l].val ELSE @]
        /\ load' = [load EXCEPT ![l].phase = "settling"]
        /\ UNCHANGED <<now, written, inflight, generation>>

\* .then: store, unless clear() ran since the load began.
Then(l) ==
    LET k == load[l].key
    IN  /\ In(l, "answered")
        /\ \/ /\ load[l].gen = generation
              /\ Store(k, load[l].val)
              /\ floor' = [floor EXCEPT ![k] = IF load[l].val > @ THEN load[l].val ELSE @]
           \/ /\ load[l].gen # generation
              /\ UNCHANGED <<entries, order, floor>>
        /\ load' = [load EXCEPT ![l].phase = "settling"]
        /\ UNCHANGED <<now, written, inflight, generation>>

\* Variant that empties the key's slot whoever holds it.
FinallyAnySlot(l) ==
    /\ In(l, "settling")
    /\ inflight' = [inflight EXCEPT ![load[l].key] = None]
    /\ load' = [load EXCEPT ![l] = None]
    /\ UNCHANGED <<now, written, entries, order, generation, floor>>

\* .finally: give up the slot, unless a newer load has taken it after clear().
Finally(l) ==
    LET k == load[l].key
    IN  /\ In(l, "settling")
        /\ inflight' = IF inflight[k] = l THEN [inflight EXCEPT ![k] = None] ELSE inflight
        /\ load' = [load EXCEPT ![l] = None]
        /\ UNCHANGED <<now, written, entries, order, generation, floor>>

(***************************************************************************)
(* clear, and the world outside                                            *)
(***************************************************************************)
Clear ==
    /\ generation < MaxClears
    /\ generation' = generation + 1
    /\ entries' = << >> /\ order' = << >>
    /\ inflight' = [k \in Keys |-> None]
    /\ floor' = [k \in Keys |-> Len(written[k])]
    /\ UNCHANGED <<now, written, load>>

\* Some service commits a change to the rows behind the key.  It does not call the cache.
Write(k) ==
    /\ Len(written[k]) < MaxWrites
    /\ written' = [written EXCEPT ![k] = Append(@, now)]
    /\ UNCHANGED <<now, entries, order, inflight, load, generation, floor>>

\* Promise callbacks run before the clock moves, and queries end within MaxLoad.
Tick ==
    /\ now < MaxTime
    /\ \A l \in Loads : Running(l) => load[l].phase # "settling" /\ now < load[l].begun + MaxLoad
    /\ now' = now + 1
    /\ UNCHANGED <<written, entries, order, inflight, load, generation, floor>>

Init ==
    /\ now = 0
    /\ written = [k \in Keys |-> << >>]
    /\ entries = << >> /\ order = << >>
    /\ inflight = [k \in Keys |-> None]
    /\ load = [l \in Loads |-> None]
    /\ generation = 0
    /\ floor = [k \in Keys |-> 0]

Next ==
    \/ \E k \in Keys, l \in Loads : Begin(k, l)
    \/ \E l \in Loads : Answer(l) \/ Fail(l) \/ Then(l) \/ Finally(l)
    \/ Clear
    \/ \E k \in Keys : Write(k)
    \/ Tick

Spec == Init /\ [][Next]_vars

(***************************************************************************)
(* Properties                                                              *)
(***************************************************************************)
\* "concurrent misses on one key share a single in-flight load" (11-12): between two clears no
\* key is queried twice at once, and a slot never refers to a load that is over, failed or not.
SingleFlight ==
    /\ \A l, m \in {j \in Loads : Running(j)} :
          load[l].key = load[m].key /\ load[l].gen = load[m].gen => l = m
    /\ \A k \in Keys : inflight[k] # None => Running(inflight[k]) /\ load[inflight[k]].key = k

\* Neither a load overtaken by clear() nor one overtaken by a newer load brings an old value
\* back: what a call is given was never replaced in, or cleared from, the cache (21, 54).
NeverBack ==
    \A k \in Keys :
      /\ Hit(k) => entries[k].val >= floor[k]
      /\ inflight[k] # None /\ load[inflight[k]].phase = "answered" => load[inflight[k]].val >= floor[k]

\* How long ago the value ceased to be the current one.
Staleness(k, v) == IF v = Len(written[k]) THEN 0 ELSE now - written[k][v + 1]

\* A hit is stale by less than the TTL and the time its query took.
FreshHits == \A k \in Keys : Hit(k) /\ entries[k].val < Len(written[k]) =>
                Staleness(k, entries[k].val) < TTL + MaxLoad

\* "beyond maxEntries the oldest-inserted entry is evicted" (14): the map is never over its size,
\* its order lists exactly its keys, and the entries that remain are no nearer to their expiry
\* than an entry that was evicted.
EvictsOldest ==
    [][/\ Len(order') <= MaxEntries /\ Range(order') = DOMAIN entries'
       /\ \A k \in Keys : Hit(k) /\ k \notin DOMAIN entries' =>
             \A j \in DOMAIN entries' : entries'[j].exp >= entries[k].exp]_vars

\* "Staleness up to this window after a write ... is accepted" (3-4): no hit is stale by more
\* than the TTL.
StaleWithinTTL == \A k \in Keys : Hit(k) => Staleness(k, entries[k].val) <= TTL
=============================================================================
