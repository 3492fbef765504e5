-------------------------- MODULE MicroCacheProofs --------------------------
(***************************************************************************)
(* Proofs about MicroCache, for any number of keys, concurrent loads and   *)
(* entries, and any bounds on the clock, the writes and the clears.        *)
(***************************************************************************)
EXTENDS MicroCache, SequenceTheorems, TLAPS

(***************************************************************************)
(* The invariant                                                           *)
(***************************************************************************)
Types ==
    /\ now \in 0..MaxTime /\ generation \in 0..MaxClears
    /\ written \in [Keys -> Seq(0..MaxTime)] /\ \A k \in Keys : Len(written[k]) \in Value
    /\ DOMAIN entries \subseteq Keys /\ \A k \in DOMAIN entries : entries[k] \in Entry
    /\ inflight \in [Keys -> Loads \cup {None}]
    /\ load \in [Loads -> LoadRec \cup {None}]
    /\ floor \in [Keys -> Value]

\* A slot and the load it refers to know each other, as long as no clear() came between.
Slots ==
    /\ \A k \in Keys : inflight[k] # None =>
          Running(inflight[k]) /\ load[inflight[k]].key = k /\ load[inflight[k]].gen = generation
    /\ \A l \in Loads : Running(l) => load[l].gen <= generation
    /\ \A l \in Loads : Running(l) /\ load[l].gen = generation => inflight[load[l].key] = l

OneLoad == \A l, m \in Loads : /\ Running(l) /\ Running(m) /\ load[l].key = load[m].key
                               /\ load[l].gen = load[m].gen
                               => l = m

\* What is cached, and what the loads of this generation bring, is not below the floor.
Floors ==
    /\ \A k \in Keys : floor[k] <= Len(written[k])
    /\ \A k \in DOMAIN entries : entries[k].val >= floor[k]
    /\ \A l \in Loads : In(l, "answered") => load[l].val <= Len(written[load[l].key])
    /\ \A l \in Loads : In(l, "answered") /\ load[l].gen = generation =>
          load[l].val >= floor[load[l].key]

CacheInv == Types /\ Slots /\ OneLoad /\ Floors

(***************************************************************************)
(* One lemma per action                                                    *)
(***************************************************************************)
LEMMA RunningRec == ASSUME Types, NEW l \in Loads, Running(l) PROVE load[l] \in LoadRec
BY DEF Types, Running

LEMMA BeginKeeps ==
    ASSUME CacheInv, NEW k \in Keys, NEW l \in Loads, Begin(k, l)
    PROVE  CacheInv'
<1> DEFINE r == [phase |-> "query", key |-> k, gen |-> generation, begun |-> now, val |-> 0]
<1>0. r \in LoadRec /\ r.key = k /\ r.gen = generation /\ r.phase = "query"
  BY SizeAssumption DEF LoadRec, Phases, Value, CacheInv, Types
<1> HIDE DEF r
<1>1. load' = [load EXCEPT ![l] = r]
  BY DEF Begin, r
<1>2. inflight' = [inflight EXCEPT ![k] = l] /\ inflight[k] = None /\ ~Running(l)
  BY DEF Begin
<1>3. \A j \in DOMAIN entries' : j \in DOMAIN entries /\ entries'[j] = entries[j]
  BY DEF Begin, Without, Restrict
<1>4. UNCHANGED <<now, written, generation, floor>>
  BY DEF Begin
<1>5. Types'
  BY <1>0, <1>1, <1>2, <1>3, <1>4 DEF CacheInv, Types
<1>6. Running(l)' /\ \A m \in Loads \ {l} : load'[m] = load[m] /\ (Running(m)' <=> Running(m))
  BY <1>0, <1>1, NoneAssumption DEF CacheInv, Types, Running
<1>7. load'[l] = r /\ inflight'[k] = l /\ \A j \in Keys \ {k} : inflight'[j] = inflight[j]
  BY <1>1, <1>2 DEF CacheInv, Types
<1>8. generation \in Nat
  BY SizeAssumption DEF CacheInv, Types
<1>9. \A m \in Loads : Running(m) => load[m].key # k \/ load[m].gen # generation
  BY <1>2, NoneAssumption DEF CacheInv, Slots
<1>10. Slots'
  <2>2. \A m \in Loads : Running(m)' /\ load'[m].gen = generation => inflight'[load'[m].key] = m
    <3> SUFFICES ASSUME NEW m \in Loads, Running(m)', load'[m].gen = generation
                 PROVE  inflight'[load'[m].key] = m
      OBVIOUS
    <3>1. CASE m = l
      BY <1>0, <1>7, <3>1
    <3>2. CASE m # l
      <4>1. load[m].key \in Keys \ {k}
        BY <1>6, <1>9, <3>2, RunningRec DEF LoadRec, CacheInv
      <4> QED BY <1>6, <1>7, <3>2, <4>1 DEF CacheInv, Slots
    <3> QED BY <3>1, <3>2
  <2>3. \A j \in Keys : inflight'[j] # None =>
           load'[inflight'[j]] # None /\ load'[inflight'[j]].key = j /\ load'[inflight'[j]].gen = generation
    <3> SUFFICES ASSUME NEW j \in Keys, inflight'[j] # None
                 PROVE  load'[inflight'[j]] # None /\ load'[inflight'[j]].key = j
                        /\ load'[inflight'[j]].gen = generation
      OBVIOUS
    <3>1. CASE j = k
      BY <1>0, <1>6, <1>7, <3>1 DEF Running
    <3>2. CASE j # k
      <4>1. inflight[j] \in Loads \ {l} /\ Running(inflight[j])
        BY <1>2, <1>7, <3>2 DEF CacheInv, Slots, Types
      <4> QED BY <1>6, <1>7, <3>2, <4>1 DEF CacheInv, Slots, Running
    <3> QED BY <3>1, <3>2
  <2>4. \A m \in Loads : Running(m)' => load'[m].gen <= generation
    BY <1>0, <1>6, <1>7, <1>8 DEF CacheInv, Slots
  <2> QED BY <1>4, <2>2, <2>3, <2>4 DEF Slots, Running
<1>11. OneLoad'
  <2> SUFFICES ASSUME NEW m \in Loads, NEW n \in Loads, Running(m)', Running(n)',
                      load'[m].key = load'[n].key, load'[m].gen = load'[n].gen, m # n
               PROVE  FALSE
    BY DEF OneLoad
  <2>1. CASE m = l \/ n = l
    BY <1>0, <1>6, <1>7, <1>9, <2>1
  <2>2. CASE m # l /\ n # l
    BY <1>6, <2>2 DEF CacheInv, OneLoad
  <2> QED BY <2>1, <2>2
<1>12. Floors'
  BY <1>0, <1>3, <1>4, <1>6, <1>7 DEF CacheInv, Floors, In, Types
<1> QED BY <1>5, <1>10, <1>11, <1>12 DEF CacheInv

\* A load under way moves on: its slot, its key and its generation stay.
LEMMA LoadMoves ==
    ASSUME CacheInv, NEW l \in Loads, NEW r \in LoadRec, Running(l),
           load' = [load EXCEPT ![l] = r], r.key = load[l].key, r.gen = load[l].gen,
           inflight' = inflight, generation' = generation
    PROVE  Slots' /\ OneLoad' /\ load' \in [Loads -> LoadRec \cup {None}]
<1>1. load' \in [Loads -> LoadRec \cup {None}]
  BY DEF CacheInv, Types
<1>2. load'[l] = r /\ \A m \in Loads \ {l} : load'[m] = load[m]
  BY DEF CacheInv, Types
<1>3. \A m \in Loads : Running(m)' <=> Running(m)
  BY <1>2, NoneAssumption DEF Running
<1>4. \A m \in Loads : Running(m) => load'[m].key = load[m].key /\ load'[m].gen = load[m].gen
  BY <1>2
<1>5. \A k \in Keys : inflight[k] # None => inflight[k] \in Loads
  BY DEF CacheInv, Types
<1>6. \A k \in Keys : inflight[k] # None => load'[inflight[k]] # None
  BY <1>3, <1>5 DEF CacheInv, Slots, Running
<1>7. Slots'
  BY <1>3, <1>4, <1>5, <1>6 DEF CacheInv, Slots, Running
<1>8. OneLoad'
  BY <1>3, <1>4 DEF CacheInv, OneLoad
<1> QED BY <1>1, <1>7, <1>8

LEMMA AnswerKeeps == ASSUME CacheInv, NEW l \in Loads, Answer(l) PROVE CacheInv'
<1>1. load[l] \in LoadRec /\ Running(l)
  BY RunningRec DEF CacheInv, Answer, In
<1> DEFINE n == Len(written[load[l].key])
           r == [load[l] EXCEPT !.phase = "answered", !.val = n]
<1>2. n \in Value
  BY <1>1 DEF LoadRec, CacheInv, Types
<1>3. r \in LoadRec /\ r.key = load[l].key /\ r.gen = load[l].gen /\ r.val = n
  <2> HIDE DEF n
  <2> QED BY <1>1, <1>2 DEF LoadRec, Phases
<1>4. load' = [load EXCEPT ![l] = r] /\ UNCHANGED <<now, written, entries, inflight, generation, floor>>
  BY DEF Answer, CacheInv, Types
<1>5. Slots' /\ OneLoad' /\ load' \in [Loads -> LoadRec \cup {None}]
  <2> HIDE DEF r
  <2> QED BY <1>1, <1>3, <1>4, LoadMoves
<1>6. Floors'
  <2>1. load'[l] = r /\ \A m \in Loads \ {l} : load'[m] = load[m]
    BY <1>4 DEF CacheInv, Types
  <2>2. load[l].key \in Keys
    BY <1>1 DEF LoadRec
  <2>3. floor[load[l].key] \in Nat /\ n \in Nat
    BY <1>2, <2>2, SizeAssumption DEF CacheInv, Types, Value
  <2> HIDE DEF r
  <2>4. \A m \in Loads : In(m, "answered")' => load'[m].val <= n \/ m # l
    BY <1>3, <2>1, <2>3
  <2> QED BY <1>3, <1>4, <2>1, <2>2, <2>3 DEF CacheInv, Floors, In, Running
<1> QED BY <1>4, <1>5, <1>6 DEF CacheInv, Types

LEMMA FailKeeps == ASSUME CacheInv, NEW l \in Loads, Fail(l) PROVE CacheInv'
<1>1. load[l] \in LoadRec /\ Running(l)
  BY RunningRec DEF CacheInv, Fail, In
<1> DEFINE r == [load[l] EXCEPT !.phase = "settling"]
<1>2. r \in LoadRec /\ r.key = load[l].key /\ r.gen = load[l].gen /\ r.phase = "settling"
  BY <1>1 DEF LoadRec, Phases
<1>3. load' = [load EXCEPT ![l] = r] /\ UNCHANGED <<now, written, entries, inflight, generation, floor>>
  BY DEF Fail, CacheInv, Types
<1> HIDE DEF r
<1>4. Slots' /\ OneLoad' /\ load' \in [Loads -> LoadRec \cup {None}]
  BY <1>1, <1>2, <1>3, LoadMoves
<1>5. Floors'
  BY <1>2, <1>3 DEF CacheInv, Floors, In, Running, Types
<1> QED BY <1>3, <1>4, <1>5 DEF CacheInv, Types

LEMMA ThenKeeps == ASSUME CacheInv, NEW l \in Loads, Then(l) PROVE CacheInv'
<1> DEFINE k == load[l].key
           v == load[l].val
           r == [load[l] EXCEPT !.phase = "settling"]
<1>1. load[l] \in LoadRec /\ Running(l) /\ In(l, "answered")
  BY RunningRec DEF CacheInv, Then, In
<1>2. r \in LoadRec /\ r.key = load[l].key /\ r.gen = load[l].gen /\ r.phase = "settling"
  BY <1>1 DEF LoadRec, Phases
<1>3. load' = [load EXCEPT ![l] = r] /\ UNCHANGED <<now, written, inflight, generation>>
  BY DEF Then, CacheInv, Types
<1>4. k \in Keys /\ v \in Value
  BY <1>1 DEF LoadRec
<1>5. load'[l] = r /\ \A m \in Loads \ {l} : load'[m] = load[m]
  BY <1>3 DEF CacheInv, Types
<1>6. Slots' /\ OneLoad' /\ load' \in [Loads -> LoadRec \cup {None}]
  <2> HIDE DEF r
  <2> QED BY <1>1, <1>2, <1>3, LoadMoves
<1>7. \A m \in Loads : In(m, "answered")' => m # l /\ In(m, "answered") /\ load'[m] = load[m]
  <2> HIDE DEF r
  <2> QED BY <1>2, <1>5 DEF In, Running
<1>8. CASE load[l].gen # generation
  <2>1. UNCHANGED <<entries, floor>>
    BY <1>8 DEF Then
  <2>2. Floors'
    BY <1>3, <1>7, <2>1 DEF CacheInv, Floors
  <2> QED BY <1>3, <1>6, <2>1, <2>2 DEF CacheInv, Types
<1>9. CASE load[l].gen = generation
  <2>1. floor' = [floor EXCEPT ![k] = v] /\ floor[k] <= v /\ v <= Len(written[k])
    <3>1. floor[k] <= v /\ v <= Len(written[k])
      BY <1>1, <1>9 DEF CacheInv, Floors
    <3>2. floor' = [floor EXCEPT ![k] = IF v > @ THEN v ELSE @]
      BY <1>9 DEF Then
    <3>3. floor[k] \in Nat /\ v \in Nat
      BY <1>4, SizeAssumption DEF CacheInv, Types, Value
    <3>4. (IF v > floor[k] THEN v ELSE floor[k]) = v
      BY <3>1, <3>3
    <3> HIDE DEF k, v
    <3> QED BY <3>1, <3>2, <3>4
  <2>2. \A j \in DOMAIN entries' :
           \/ j = k /\ entries'[j] = [val |-> v, exp |-> now + TTL]
           \/ j # k /\ j \in DOMAIN entries /\ entries'[j] = entries[j]
    <3>1. Store(k, v)
      BY <1>9 DEF Then
    <3> HIDE DEF k, v
    <3> QED BY <3>1 DEF Store, Set, Restrict
  <2> HIDE DEF k, v, r
  <2>3. floor' \in [Keys -> Value] /\ floor'[k] = v /\ \A j \in Keys \ {k} : floor'[j] = floor[j]
    BY <1>4, <2>1 DEF CacheInv, Types
  <2>4. [val |-> v, exp |-> now + TTL] \in Entry
    BY <1>4, SizeAssumption DEF Entry, CacheInv, Types
  <2>5. DOMAIN entries' \subseteq Keys /\ \A j \in DOMAIN entries' : entries'[j] \in Entry
    BY <1>4, <2>2, <2>4 DEF CacheInv, Types
  <2>6. \A j \in Keys : floor'[j] <= Len(written[j])
    BY <2>1, <2>3 DEF CacheInv, Floors
  <2>7. \A j \in DOMAIN entries' : entries'[j].val >= floor'[j]
    <3> SUFFICES ASSUME NEW j \in DOMAIN entries' PROVE entries'[j].val >= floor'[j]
      OBVIOUS
    <3>1. CASE j = k
      <4>1. entries'[j].val = v /\ v \in Nat
        BY <1>4, <2>2, <3>1, SizeAssumption DEF Value
      <4> QED BY <2>3, <3>1, <4>1
    <3>2. CASE j # k
      BY <2>2, <2>3, <2>5, <3>2 DEF CacheInv, Floors
    <3> QED BY <3>1, <3>2
  <2>8. \A m \in Loads : In(m, "answered") /\ m # l /\ load[m].gen = generation => load[m].key # k
    BY <1>1, <1>9 DEF CacheInv, OneLoad, In, k
  <2>9. \A m \in Loads : In(m, "answered") => load[m].key \in Keys
    BY RunningRec DEF In, LoadRec, CacheInv
  <2>10. Floors'
    BY <1>3, <1>7, <2>3, <2>6, <2>7, <2>8, <2>9 DEF CacheInv, Floors
  <2> QED BY <1>3, <1>6, <2>3, <2>5, <2>10 DEF CacheInv, Types
<1> QED BY <1>8, <1>9

LEMMA FinallyKeeps == ASSUME CacheInv, NEW l \in Loads, Finally(l) PROVE CacheInv'
<1>1. load[l] \in LoadRec /\ Running(l)
  BY RunningRec DEF CacheInv, Finally, In
<1>2. /\ load'[l] = None /\ \A m \in Loads \ {l} : load'[m] = load[m]
      /\ load' \in [Loads -> LoadRec \cup {None}]
      /\ UNCHANGED <<now, written, entries, generation, floor>>
  BY DEF Finally, CacheInv, Types
<1>3. \A m \in Loads : Running(m)' => m # l /\ Running(m) /\ load'[m] = load[m]
  BY <1>2 DEF Running
<1>4. /\ inflight' \in [Keys -> Loads \cup {None}]
      /\ \A k \in Keys : inflight'[k] # None => inflight'[k] = inflight[k] /\ inflight[k] # l
      /\ \A k \in Keys : inflight[k] # l => inflight'[k] = inflight[k]
  <2>1. \A k \in Keys : inflight[k] = l => k = load[l].key
    BY NoneAssumption DEF CacheInv, Slots
  <2> QED BY <1>1, <2>1 DEF Finally, CacheInv, Types, LoadRec
<1>5. Slots'
  <2>1. ASSUME NEW k \in Keys, inflight'[k] # None
        PROVE  load'[inflight'[k]] # None /\ load'[inflight'[k]].key = k
               /\ load'[inflight'[k]].gen = generation
    <3>1. inflight[k] \in Loads \ {l} /\ inflight'[k] = inflight[k]
      BY <1>4, <2>1 DEF CacheInv, Types
    <3> QED BY <1>2, <2>1, <3>1 DEF CacheInv, Slots, Running
  <2>2. ASSUME NEW m \in Loads, Running(m)', load'[m].gen = generation
        PROVE  inflight'[load'[m].key] = m
    <3>1. m # l /\ load[m].key \in Keys /\ inflight[load[m].key] = m
      BY <1>3, <2>2, RunningRec DEF CacheInv, Slots, LoadRec
    <3> QED BY <1>3, <1>4, <2>2, <3>1
  <2> QED BY <1>2, <1>3, <2>1, <2>2 DEF CacheInv, Slots, Running
<1>6. OneLoad'
  BY <1>3 DEF CacheInv, OneLoad
<1>7. Floors'
  BY <1>2, <1>3 DEF CacheInv, Floors, In
<1> QED BY <1>2, <1>4, <1>5, <1>6, <1>7 DEF CacheInv, Types

LEMMA ClearKeeps == ASSUME CacheInv, Clear PROVE CacheInv'
<1>1. /\ generation \in Nat /\ generation' = generation + 1 /\ generation' \in 0..MaxClears
      /\ UNCHANGED <<now, written, load>>
      /\ DOMAIN entries' = {}
      /\ inflight' = [k \in Keys |-> None]
      /\ floor' = [k \in Keys |-> Len(written[k])]
  BY SizeAssumption DEF Clear, CacheInv, Types
<1>2. Types'
  BY <1>1 DEF CacheInv, Types
<1>3. \A l \in Loads : Running(l)' => load'[l].gen < generation'
  <2> SUFFICES ASSUME NEW l \in Loads, Running(l) PROVE load[l].gen < generation + 1
    BY <1>1 DEF Running
  <2>1. load[l].gen \in Nat /\ load[l].gen <= generation
    BY RunningRec DEF CacheInv, Slots, LoadRec
  <2> QED BY <1>1, <2>1
<1>4. \A l \in Loads : Running(l)' => load'[l].gen \in Nat
  BY <1>2, <1>1, RunningRec DEF CacheInv, LoadRec, Running
<1>5. Slots'
  BY <1>1, <1>3, <1>4 DEF Slots
<1>6. OneLoad'
  BY <1>1 DEF CacheInv, OneLoad, Running
<1>7. Floors'
  <2>1. \A k \in Keys : floor'[k] <= Len(written'[k])
    BY <1>1, SizeAssumption DEF CacheInv, Types, Value
  <2>2. \A l \in Loads : In(l, "answered")' => load'[l].gen < generation' /\ load'[l].gen \in Nat
    BY <1>3, <1>4 DEF In
  <2> QED BY <1>1, <2>1, <2>2 DEF CacheInv, Floors, In, Running
<1> QED BY <1>2, <1>5, <1>6, <1>7 DEF CacheInv

LEMMA WriteKeeps == ASSUME CacheInv, NEW k \in Keys, Write(k) PROVE CacheInv'
<1>1. UNCHANGED <<now, entries, inflight, load, generation, floor>>
  BY DEF Write
<1>2. /\ written' \in [Keys -> Seq(0..MaxTime)]
      /\ Len(written'[k]) = Len(written[k]) + 1 /\ Len(written[k]) < MaxWrites
      /\ \A j \in Keys \ {k} : written'[j] = written[j]
  BY DEF Write, CacheInv, Types
<1>3. \A j \in Keys : Len(written[j]) \in Nat /\ Len(written'[j]) \in Value
                      /\ Len(written[j]) <= Len(written'[j])
  <2>1. \A j \in Keys : Len(written[j]) \in Nat /\ Len(written[j]) <= MaxWrites
    BY SizeAssumption DEF CacheInv, Types, Value
  <2>2. Len(written'[k]) \in Value /\ Len(written[k]) <= Len(written'[k])
    BY <1>2, <2>1, SizeAssumption DEF Value
  <2>3. \A j \in Keys \ {k} : Len(written'[j]) \in Value /\ Len(written[j]) <= Len(written'[j])
    BY <1>2, <2>1, SizeAssumption DEF Value
  <2> QED BY <2>1, <2>2, <2>3
<1>4. Types'
  BY <1>1, <1>2, <1>3 DEF CacheInv, Types
<1>5. Slots' /\ OneLoad'
  BY <1>1 DEF CacheInv, Slots, OneLoad, Running
<1>6. Floors'
  <2>1. \A j \in Keys : floor'[j] <= Len(written'[j])
    <3>1. \A j \in Keys : floor[j] \in Nat
      BY SizeAssumption DEF CacheInv, Types, Value
    <3> QED BY <1>1, <1>3, <3>1 DEF CacheInv, Floors
  <2>2. \A l \in Loads : In(l, "answered") => load[l].val <= Len(written'[load[l].key])
    <3>1. \A l \in Loads : In(l, "answered") => load[l].key \in Keys /\ load[l].val \in Nat
      BY RunningRec, SizeAssumption DEF In, CacheInv, LoadRec, Value
    <3> QED BY <1>3, <3>1 DEF CacheInv, Floors
  <2> QED BY <1>1, <2>1, <2>2 DEF CacheInv, Floors, In, Running
<1> QED BY <1>4, <1>5, <1>6 DEF CacheInv

LEMMA TickKeeps == ASSUME CacheInv, Tick PROVE CacheInv'
<1>1. UNCHANGED <<written, entries, inflight, load, generation, floor>> /\ now' \in 0..MaxTime
  BY SizeAssumption DEF Tick, CacheInv, Types
<1> QED BY <1>1 DEF CacheInv, Types, Slots, OneLoad, Floors, In, Running

THEOREM CacheInvInvariant == Spec => []CacheInv
<1>1. Init => CacheInv
  <2> SUFFICES ASSUME Init PROVE CacheInv
    OBVIOUS
  <2>1. Types
    BY SizeAssumption DEF Init, Types, Value
  <2>2. Slots /\ OneLoad /\ Floors
    BY DEF Init, Slots, OneLoad, Floors, In, Running
  <2> QED BY <2>1, <2>2 DEF CacheInv
<1>2. CacheInv /\ [Next]_vars => CacheInv'
  <2> SUFFICES ASSUME CacheInv, [Next]_vars PROVE CacheInv'
    OBVIOUS
  <2>1. CASE UNCHANGED vars
    BY <2>1 DEF vars, CacheInv, Types, Slots, OneLoad, Floors, In, Running
  <2>2. CASE Next
    BY <2>2, BeginKeeps, AnswerKeeps, FailKeeps, ThenKeeps, FinallyKeeps, ClearKeeps, WriteKeeps,
       TickKeeps DEF Next
  <2> QED BY <2>1, <2>2
<1> QED BY <1>1, <1>2, PTL DEF Spec

(***************************************************************************)
(* The properties                                                          *)
(***************************************************************************)

\* No key is queried twice at once between two clears, and no slot refers to a load that is over:
\* a failed load can never be joined after its .finally, so the next call retries.
THEOREM SingleFlightAlways == Spec => []SingleFlight
<1>1. CacheInv => SingleFlight
  BY DEF CacheInv, OneLoad, Slots, SingleFlight
<1> QED BY <1>1, CacheInvInvariant, PTL

\* No caller is given a value older than one the cache already replaced or dropped.
THEOREM NeverBackAlways == Spec => []NeverBack
<1>1. CacheInv => NeverBack
  <2> SUFFICES ASSUME CacheInv, NEW k \in Keys
               PROVE  /\ Hit(k) => entries[k].val >= floor[k]
                      /\ inflight[k] # None /\ load[inflight[k]].phase = "answered" =>
                            load[inflight[k]].val >= floor[k]
    BY DEF NeverBack
  <2>1. Hit(k) => entries[k].val >= floor[k]
    BY DEF Hit, CacheInv, Floors
  <2>2. inflight[k] # None => inflight[k] \in Loads
    BY DEF CacheInv, Types
  <2> QED BY <2>1, <2>2 DEF CacheInv, Floors, Slots, In
<1> QED BY <1>1, CacheInvInvariant, PTL

(***************************************************************************)
(* How stale a hit can be                                                  *)
(***************************************************************************)
\* The clock does not pass a running load's limit; a value that has been overtaken was overtaken
\* after its query began, so no sooner than MaxLoad and the TTL before its entry expires.
LoadsOnTime == \A l \in Loads : Running(l) =>
    /\ load[l].begun <= now /\ now <= load[l].begun + MaxLoad
    /\ load[l].phase = "answered" /\ load[l].val < Len(written[load[l].key]) =>
          written[load[l].key][load[l].val + 1] >= load[l].begun
EntriesOnTime == \A k \in DOMAIN entries :
    /\ entries[k].exp <= now + TTL
    /\ entries[k].val < Len(written[k]) => written[k][entries[k].val + 1] + MaxLoad + TTL >= entries[k].exp
Fresh == LoadsOnTime /\ EntriesOnTime

\* The numbers that are compared.
LEMMA Times ==
    ASSUME Types
    PROVE  /\ now \in Nat /\ TTL \in Nat /\ MaxLoad \in Nat
           /\ \A k \in Keys : /\ Len(written[k]) \in Nat
                              /\ \A i \in 1..Len(written[k]) : written[k][i] \in Nat
           /\ \A k \in DOMAIN entries : k \in Keys /\ entries[k].exp \in Nat /\ entries[k].val \in Nat
           /\ \A l \in Loads : Running(l) =>
                 load[l].begun \in Nat /\ load[l].val \in Nat /\ load[l].key \in Keys
<1>1. now \in Nat /\ TTL \in Nat /\ MaxLoad \in Nat
  BY SizeAssumption DEF Types
<1>2. ASSUME NEW k \in Keys
      PROVE  Len(written[k]) \in Nat /\ \A i \in 1..Len(written[k]) : written[k][i] \in Nat
  <2>1. written[k] \in Seq(0..MaxTime) /\ Len(written[k]) \in Nat
    BY SizeAssumption DEF Types, Value
  <2> QED BY <2>1, SizeAssumption
<1>3. \A k \in DOMAIN entries : k \in Keys /\ entries[k].exp \in Nat /\ entries[k].val \in Nat
  BY SizeAssumption DEF Types, Entry, Value
<1>4. \A l \in Loads : Running(l) => load[l].begun \in Nat /\ load[l].val \in Nat /\ load[l].key \in Keys
  BY RunningRec, SizeAssumption DEF LoadRec, Value
<1> QED BY <1>1, <1>2, <1>3, <1>4

LEMMA BeginFresh == ASSUME CacheInv, Fresh, NEW k \in Keys, NEW l \in Loads, Begin(k, l) PROVE Fresh'
<1>1. \A j \in DOMAIN entries' : j \in DOMAIN entries /\ entries'[j] = entries[j]
  BY DEF Begin, Without, Restrict
<1>2. UNCHANGED <<now, written>> /\ \A m \in Loads \ {l} : load'[m] = load[m]
  BY DEF Begin, CacheInv, Types
<1>3. load'[l].phase = "query" /\ load'[l].begun = now
  BY DEF Begin, CacheInv, Types
<1>4. LoadsOnTime'
  <2>1. now \in Nat /\ MaxLoad \in Nat
    BY Times DEF CacheInv
  <2>2. now <= now /\ now <= now + MaxLoad
    BY <2>1
  <2> QED BY <1>2, <1>3, <2>2 DEF Fresh, LoadsOnTime, Running
<1>5. EntriesOnTime'
  BY <1>1, <1>2 DEF Fresh, EntriesOnTime
<1> QED BY <1>4, <1>5 DEF Fresh

LEMMA AnswerFresh == ASSUME CacheInv, Fresh, NEW l \in Loads, Answer(l) PROVE Fresh'
<1>1. UNCHANGED <<now, written, entries>> /\ \A m \in Loads \ {l} : load'[m] = load[m]
  BY DEF Answer, CacheInv, Types
<1>2. load[l] \in LoadRec /\ Running(l)
  BY RunningRec DEF CacheInv, Answer, In
<1>3. /\ load'[l].begun = load[l].begun /\ load'[l].key = load[l].key
      /\ load'[l].val = Len(written[load[l].key])
  BY <1>2 DEF Answer, CacheInv, Types, LoadRec
<1>4. LoadsOnTime'
  <2>1. ~(load'[l].val < Len(written'[load'[l].key]))
    BY <1>1, <1>2, <1>3, Times DEF CacheInv
  <2> QED BY <1>1, <1>2, <1>3, <2>1 DEF Fresh, LoadsOnTime, Running
<1> QED BY <1>1, <1>4 DEF Fresh, EntriesOnTime

\* A load that fails, or whose .then has run, is answered no more.
LEMMA SettlingFresh ==
    ASSUME CacheInv, Fresh, NEW l \in Loads, Running(l), UNCHANGED <<now, written>>,
           load' = [load EXCEPT ![l].phase = "settling"]
    PROVE  LoadsOnTime'
<1>1. load[l] \in LoadRec
  BY RunningRec DEF CacheInv
<1>2. \A m \in Loads \ {l} : load'[m] = load[m]
  BY DEF CacheInv, Types
<1>3. load'[l].phase = "settling" /\ load'[l].begun = load[l].begun
  BY <1>1 DEF CacheInv, Types, LoadRec
<1> QED BY <1>2, <1>3 DEF Fresh, LoadsOnTime, Running

LEMMA ThenFresh == ASSUME CacheInv, Fresh, NEW l \in Loads, Then(l) PROVE Fresh'
<1> DEFINE k == load[l].key
           v == load[l].val
<1>1. Running(l) /\ load[l].phase = "answered" /\ UNCHANGED <<now, written>>
  BY DEF Then, In
<1>2. LoadsOnTime'
  BY <1>1, SettlingFresh DEF Then
<1>3. CASE UNCHANGED entries
  BY <1>1, <1>2, <1>3 DEF Fresh, EntriesOnTime
<1>4. CASE Store(k, v)
  <2>1. \A j \in DOMAIN entries' :
           \/ j = k /\ entries'[j] = [val |-> v, exp |-> now + TTL]
           \/ j \in DOMAIN entries /\ entries'[j] = entries[j]
    <3> HIDE DEF k, v
    <3> QED BY <1>4 DEF Store, Set, Restrict
  <2>2. v < Len(written[k]) => written[k][v + 1] + MaxLoad + TTL >= now + TTL
    <3>1. /\ load[l].begun <= now /\ now <= load[l].begun + MaxLoad
          /\ v < Len(written[k]) => written[k][v + 1] >= load[l].begun
      BY <1>1 DEF Fresh, LoadsOnTime
    <3>2. k \in Keys /\ load[l].begun \in Nat /\ now \in Nat /\ TTL \in Nat /\ MaxLoad \in Nat /\ v \in Nat
      BY <1>1, Times DEF CacheInv
    <3>3. v < Len(written[k]) => written[k][v + 1] \in Nat
      <4>1. Len(written[k]) \in Nat /\ \A i \in 1..Len(written[k]) : written[k][i] \in Nat
        BY <3>2, Times DEF CacheInv
      <4>2. v < Len(written[k]) => v + 1 \in 1..Len(written[k])
        BY <3>2, <4>1
      <4> QED BY <4>1, <4>2
    <3> DEFINE from == load[l].begun
               seen == written[k][v + 1]
    <3>4. \A w, b, n, m, t \in Nat : w >= b /\ n <= b + m => w + m + t >= n + t
      OBVIOUS
    <3>5. v < Len(written[k]) => seen \in Nat /\ seen >= from
      BY <3>1, <3>3
    <3>6. from \in Nat /\ now <= from + MaxLoad
      BY <3>1, <3>2
    <3> HIDE DEF k, v, from, seen
    <3>7. v < Len(written[k]) => seen + MaxLoad + TTL >= now + TTL
      BY <3>2, <3>4, <3>5, <3>6
    <3> QED BY <3>7 DEF seen
  <2>3. now \in Nat /\ TTL \in Nat /\ UNCHANGED <<now, written>>
    BY <1>1, Times DEF CacheInv
  <2> HIDE DEF k, v
  <2> QED BY <1>2, <2>1, <2>2, <2>3 DEF Fresh, EntriesOnTime
<1> QED BY <1>3, <1>4 DEF Then

LEMMA WriteFresh == ASSUME CacheInv, Fresh, NEW k \in Keys, Write(k) PROVE Fresh'
<1>1. UNCHANGED <<now, entries, load>> /\ (\A l \in Loads : Running(l)' <=> Running(l))
  BY DEF Write, Running
<1>2. /\ \A j \in Keys \ {k} : written'[j] = written[j]
      /\ Len(written'[k]) = Len(written[k]) + 1 /\ written'[k][Len(written[k]) + 1] = now
      /\ \A i \in 1..Len(written[k]) : written'[k][i] = written[k][i]
  BY DEF Write, CacheInv, Types
<1>3. \A v \in Nat : v < Len(written'[k]) =>
         \/ v < Len(written[k]) /\ written'[k][v + 1] = written[k][v + 1]
         \/ written'[k][v + 1] = now
  <2> SUFFICES ASSUME NEW v \in Nat, v < Len(written[k]) + 1
               PROVE  \/ v < Len(written[k]) /\ v + 1 \in 1..Len(written[k])
                      \/ v + 1 = Len(written[k]) + 1
    BY <1>2
  <2> QED BY Times DEF CacheInv
<1>4. LoadsOnTime'
  <2> SUFFICES ASSUME NEW l \in Loads, Running(l)
               PROVE  /\ load[l].begun <= now /\ now <= load[l].begun + MaxLoad
                      /\ load[l].phase = "answered" /\ load[l].val < Len(written'[load[l].key]) =>
                            written'[load[l].key][load[l].val + 1] >= load[l].begun
    BY <1>1 DEF LoadsOnTime
  <2>1. load[l].begun \in Nat /\ load[l].val \in Nat /\ load[l].key \in Keys /\ now \in Nat
    BY Times DEF CacheInv
  <2>2. CASE load[l].key = k
    BY <1>3, <2>1, <2>2 DEF Fresh, LoadsOnTime
  <2>3. CASE load[l].key # k
    BY <1>2, <2>1, <2>3 DEF Fresh, LoadsOnTime
  <2> QED BY <2>2, <2>3
<1>5. EntriesOnTime'
  <2> SUFFICES ASSUME NEW j \in DOMAIN entries
               PROVE  /\ entries[j].exp <= now + TTL
                      /\ entries[j].val < Len(written'[j]) =>
                            written'[j][entries[j].val + 1] + MaxLoad + TTL >= entries[j].exp
    BY <1>1 DEF EntriesOnTime
  <2>1. /\ j \in Keys /\ entries[j].exp \in Nat /\ entries[j].val \in Nat
        /\ now \in Nat /\ TTL \in Nat /\ MaxLoad \in Nat
    BY Times DEF CacheInv
  <2>2. CASE j = k
    <3>1. entries[k].exp <= now + TTL => now + MaxLoad + TTL >= entries[k].exp
      BY <2>1, <2>2
    <3> QED BY <1>3, <2>1, <2>2, <3>1 DEF Fresh, EntriesOnTime
  <2>3. CASE j # k
    BY <1>2, <2>1, <2>3 DEF Fresh, EntriesOnTime
  <2> QED BY <2>2, <2>3
<1> QED BY <1>4, <1>5 DEF Fresh

LEMMA TickFresh == ASSUME CacheInv, Fresh, Tick PROVE Fresh'
<1>1. UNCHANGED <<written, entries, load>> /\ now' = now + 1
  BY DEF Tick
<1>2. \A l \in Loads : Running(l) => now < load[l].begun + MaxLoad
  BY DEF Tick
<1>3. LoadsOnTime'
  <2> SUFFICES ASSUME NEW l \in Loads, Running(l)
               PROVE  load[l].begun <= now + 1 /\ now + 1 <= load[l].begun + MaxLoad
    BY <1>1 DEF Fresh, LoadsOnTime, Running
  <2>1. load[l].begun \in Nat /\ now \in Nat /\ MaxLoad \in Nat
    BY Times DEF CacheInv
  <2> QED BY <1>2, <2>1 DEF Fresh, LoadsOnTime
<1>4. EntriesOnTime'
  BY <1>1, Times DEF CacheInv, Fresh, EntriesOnTime
<1> QED BY <1>3, <1>4 DEF Fresh

LEMMA FreshStep == CacheInv /\ Fresh /\ [Next]_vars => Fresh'
<1> SUFFICES ASSUME CacheInv, Fresh, [Next]_vars PROVE Fresh'
  OBVIOUS
<1>1. ASSUME NEW l \in Loads, Fail(l) PROVE Fresh'
  BY <1>1, SettlingFresh DEF Fail, In, Fresh, EntriesOnTime
<1>2. ASSUME NEW l \in Loads, Finally(l) PROVE Fresh'
  <2>1. UNCHANGED <<now, written, entries>> /\ \A m \in Loads : Running(m)' => load'[m] = load[m] /\ Running(m)
    BY <1>2 DEF Finally, Running, CacheInv, Types
  <2> QED BY <2>1 DEF Fresh, LoadsOnTime, EntriesOnTime
<1>3. CASE Clear
  <2>1. UNCHANGED <<now, written, load>> /\ DOMAIN entries' = {}
    BY <1>3 DEF Clear
  <2> QED BY <2>1 DEF Fresh, LoadsOnTime, EntriesOnTime, Running
<1>4. CASE UNCHANGED vars
  BY <1>4 DEF vars, Fresh, LoadsOnTime, EntriesOnTime, Running
<1> QED BY <1>1, <1>2, <1>3, <1>4, BeginFresh, AnswerFresh, ThenFresh, WriteFresh, TickFresh DEF Next

\* A hit is stale by less than the TTL and the time its query took.
THEOREM FreshHitsAlways == Spec => []FreshHits
<1>1. Init => Fresh
  BY DEF Init, Fresh, LoadsOnTime, EntriesOnTime, Running
<1>2. CacheInv /\ Fresh => FreshHits
  <2> SUFFICES ASSUME CacheInv, Fresh, NEW k \in Keys, Hit(k), entries[k].val < Len(written[k])
               PROVE  now - written[k][entries[k].val + 1] < TTL + MaxLoad
    BY Times DEF FreshHits, Staleness, Hit, CacheInv
  <2>1. k \in DOMAIN entries /\ entries[k].exp > now
    BY DEF Hit
  <2>2. /\ now \in Nat /\ TTL \in Nat /\ MaxLoad \in Nat /\ entries[k].exp \in Nat
        /\ written[k][entries[k].val + 1] \in Nat
    BY <2>1, Times DEF CacheInv
  <2>3. written[k][entries[k].val + 1] + MaxLoad + TTL >= entries[k].exp
    BY <2>1 DEF Fresh, EntriesOnTime
  <2> DEFINE seen == written[k][entries[k].val + 1]
             exp  == entries[k].exp
  <2>4. \A w, e, n, m, t \in Nat : e > n /\ w + m + t >= e => n - w < t + m
    OBVIOUS
  <2>5. seen \in Nat /\ exp \in Nat /\ exp > now /\ seen + MaxLoad + TTL >= exp
    BY <2>1, <2>2, <2>3
  <2> HIDE DEF seen, exp
  <2>6. now - seen < TTL + MaxLoad
    BY <2>2, <2>4, <2>5
  <2> QED BY <2>6 DEF seen
<1> QED BY <1>1, <1>2, FreshStep, CacheInvInvariant, PTL DEF Spec

(***************************************************************************)
(* What store() evicts                                                     *)
(***************************************************************************)
\* A sequence that lists nothing twice.
Distinct(s) == \A i, j \in 1..Len(s) : s[i] = s[j] => i = j
\* The order lists the entries, each once, the first to expire first.
Ordered ==
    /\ order \in Seq(Keys) /\ Distinct(order) /\ Len(order) <= MaxEntries
    /\ Range(order) = DOMAIN entries
    /\ \A i, j \in 1..Len(order) : i < j => entries[order[i]].exp <= entries[order[j]].exp

LEMMA FunctionIsSeq ==
    ASSUME NEW S, NEW n \in Nat, NEW f \in [1..n -> S]
    PROVE  f \in Seq(S) /\ Len(f) = n
<1>1. f \in Seq(S)
  BY SeqDef
<1>2. DOMAIN f = 1..Len(f) /\ Len(f) \in Nat
  BY <1>1, LenProperties
<1>3. 1..n = 1..Len(f)
  BY <1>2
<1> QED BY <1>1, <1>2, <1>3

LEMMA ListedRange ==
    ASSUME NEW S, NEW s \in Seq(S)
    PROVE  /\ \A i \in 1..Len(s) : s[i] \in Range(s)
           /\ \A x \in Range(s) : \E i \in 1..Len(s) : s[i] = x
<1>1. DOMAIN s = 1..Len(s)
  BY LenProperties
<1> QED BY <1>1 DEF Range

\* What delete leaves of a sequence that lists nothing twice: every other key, in the same order.
LEMMA WithoutKey ==
    ASSUME order \in Seq(Keys), Distinct(order), NEW k \in Keys
    PROVE  /\ OrderWithout(k) \in Seq(Keys) /\ Distinct(OrderWithout(k))
           /\ Range(OrderWithout(k)) = Range(order) \ {k}
           /\ Len(OrderWithout(k)) <= Len(order)
           /\ \A i, j \in 1..Len(OrderWithout(k)) : i < j =>
                 \E a, b \in 1..Len(order) : a < b /\ OrderWithout(k)[i] = order[a] /\ OrderWithout(k)[j] = order[b]
<1>1. CASE k \notin Range(order)
  <2>1. OrderWithout(k) = order /\ Len(order) \in Nat
    BY <1>1, LenProperties DEF OrderWithout
  <2> QED BY <1>1, <2>1
<1>2. CASE k \in Range(order)
  <2> DEFINE at == CHOOSE i \in DOMAIN order : order[i] = k
             up(i) == IF i < at THEN i ELSE i + 1
             keys == [i \in 1..Len(order) - 1 |-> order[up(i)]]
  <2>1. OrderWithout(k) = keys
    BY <1>2 DEF OrderWithout
  <2>2. at \in 1..Len(order) /\ order[at] = k /\ Len(order) \in Nat
    BY <1>2, LenProperties DEF Range
  <2> HIDE DEF at
  <2>3. Len(order) - 1 \in Nat
    BY <2>2
  <2>4. \A i \in 1..Len(order) - 1 : up(i) \in 1..Len(order) /\ up(i) # at
    BY <2>2
  <2>5. keys \in [1..Len(order) - 1 -> Keys]
    BY <2>4
  <2>6. keys \in Seq(Keys) /\ Len(keys) = Len(order) - 1
    <3> HIDE DEF keys
    <3> QED BY <2>3, <2>5, FunctionIsSeq
  <2>7. \A i \in 1..Len(keys) : keys[i] = order[up(i)]
    BY <2>6
  <2>8. \A i, j \in 1..Len(keys) : (i < j => up(i) < up(j)) /\ (up(i) = up(j) => i = j)
    BY <2>2, <2>6
  <2>9. \A a \in 1..Len(order) : a # at => \E i \in 1..Len(keys) : up(i) = a
    <3> SUFFICES ASSUME NEW a \in 1..Len(order), a # at PROVE \E i \in 1..Len(keys) : up(i) = a
      OBVIOUS
    <3>1. CASE a < at
      BY <2>2, <2>6, <3>1
    <3>2. CASE a > at
      <4>1. a - 1 \in 1..Len(keys) /\ ~(a - 1 < at) /\ (a - 1) + 1 = a
        BY <2>2, <2>6, <3>2
      <4> QED BY <4>1
    <3> QED BY <2>2, <3>1, <3>2
  <2> HIDE DEF keys, up
  <2>10. Distinct(keys)
    BY <2>4, <2>6, <2>7, <2>8 DEF Distinct
  <2>11. Range(keys) = Range(order) \ {k}
    <3>1. /\ \A i \in 1..Len(keys) : keys[i] \in Range(keys)
          /\ \A x \in Range(keys) : \E i \in 1..Len(keys) : keys[i] = x
      BY <2>6, ListedRange
    <3>4. /\ \A i \in 1..Len(order) : order[i] \in Range(order)
          /\ \A x \in Range(order) : \E i \in 1..Len(order) : order[i] = x
      BY ListedRange
    <3>2. \A i \in 1..Len(keys) : keys[i] \in Range(order) /\ keys[i] # k
      BY <2>2, <2>4, <2>6, <2>7, <3>4 DEF Distinct
    <3>3. \A a \in 1..Len(order) : order[a] # k => order[a] \in Range(keys)
      BY <2>2, <2>7, <2>9, <3>1
    <3> QED BY <3>1, <3>2, <3>3, <3>4
  <2>12. \A i, j \in 1..Len(keys) : i < j =>
            \E a, b \in 1..Len(order) : a < b /\ keys[i] = order[a] /\ keys[j] = order[b]
    BY <2>4, <2>6, <2>7, <2>8
  <2> QED BY <2>1, <2>2, <2>6, <2>10, <2>11, <2>12
<1> QED BY <1>1, <1>2

\* What one step may do to an entry that is not expired: it is evicted only for its age.
EvictedOldest ==
    \A k \in Keys : Hit(k) /\ k \notin DOMAIN entries' =>
       \A j \in DOMAIN entries' : entries'[j].exp >= entries[k].exp

LEMMA BeginOrdered ==
    ASSUME CacheInv, Ordered, NEW k \in Keys, NEW l \in Loads, Begin(k, l)
    PROVE  Ordered' /\ EvictedOldest
<1>1. order' = OrderWithout(k) /\ ~Hit(k)
  BY DEF Begin
<1>2. DOMAIN entries' = DOMAIN entries \ {k} /\ \A j \in DOMAIN entries' : entries'[j] = entries[j]
  BY DEF Begin, Without, Restrict
<1>3. /\ order' \in Seq(Keys) /\ Distinct(order') /\ Range(order') = Range(order) \ {k}
      /\ Len(order') <= Len(order)
      /\ \A i, j \in 1..Len(order') : i < j =>
            \E a, b \in 1..Len(order) : a < b /\ order'[i] = order[a] /\ order'[j] = order[b]
  <2>1. order \in Seq(Keys) /\ Distinct(order)
    BY DEF Ordered
  <2>2. /\ OrderWithout(k) \in Seq(Keys) /\ Distinct(OrderWithout(k))
        /\ Range(OrderWithout(k)) = Range(order) \ {k}
        /\ Len(OrderWithout(k)) <= Len(order)
        /\ \A i, j \in 1..Len(OrderWithout(k)) : i < j =>
              \E a, b \in 1..Len(order) : a < b /\ OrderWithout(k)[i] = order[a] /\ OrderWithout(k)[j] = order[b]
    BY <2>1, WithoutKey
  <2> QED BY <1>1, <2>2
<1>4. Len(order') <= MaxEntries
  <2>1. Len(order') \in Nat /\ Len(order) \in Nat /\ MaxEntries \in Nat
    BY <1>3, LenProperties, SizeAssumption DEF Ordered
  <2> QED BY <1>3, <2>1 DEF Ordered
<1>5. \A i \in 1..Len(order') : order'[i] \in DOMAIN entries'
  BY <1>2, <1>3, ListedRange DEF Ordered
<1>6. \A i, j \in 1..Len(order') : i < j => entries'[order'[i]].exp <= entries'[order'[j]].exp
  <2> SUFFICES ASSUME NEW i \in 1..Len(order'), NEW j \in 1..Len(order'), i < j
               PROVE  entries'[order'[i]].exp <= entries'[order'[j]].exp
    OBVIOUS
  <2>1. PICK a \in 1..Len(order), b \in 1..Len(order) :
           a < b /\ order'[i] = order[a] /\ order'[j] = order[b]
    BY <1>3
  <2>2. entries'[order'[i]] = entries[order[a]] /\ entries'[order'[j]] = entries[order[b]]
    BY <1>2, <1>5, <2>1
  <2> QED BY <2>1, <2>2 DEF Ordered
<1>7. EvictedOldest
  BY <1>1, <1>2 DEF EvictedOldest, Hit
<1> QED BY <1>2, <1>3, <1>4, <1>6, <1>7 DEF Ordered

\* The keys as store() lists them before it evicts: k comes last, and the others keep their order.
Listed(k) == Append(OrderWithout(k), k)
LEMMA StoredOrder ==
    ASSUME CacheInv, Ordered, Fresh, NEW k \in Keys, NEW v \in Value
    PROVE  /\ Listed(k) \in Seq(Keys) /\ Distinct(Listed(k)) /\ Len(Listed(k)) \in Nat \ {0}
           /\ Listed(k)[Len(Listed(k))] = k
           /\ \A i \in 1..Len(Listed(k)) : Listed(k)[i] \in DOMAIN Set(k, v)
           /\ \A j \in DOMAIN Set(k, v) : \E i \in 1..Len(Listed(k)) : Listed(k)[i] = j
           /\ \A j \in DOMAIN Set(k, v) : j # k => Set(k, v)[j] = entries[j]
           /\ \A i, j \in 1..Len(Listed(k)) :
                 i < j => Set(k, v)[Listed(k)[i]].exp <= Set(k, v)[Listed(k)[j]].exp
<1> DEFINE keys == Listed(k)
           rest == OrderWithout(k)
           set == Set(k, v)
<1>1. /\ rest \in Seq(Keys) /\ Distinct(rest) /\ Range(rest) = Range(order) \ {k}
      /\ \A i, j \in 1..Len(rest) : i < j =>
            \E a, b \in 1..Len(order) : a < b /\ rest[i] = order[a] /\ rest[j] = order[b]
  BY WithoutKey DEF Ordered
<1>2. /\ DOMAIN set = DOMAIN entries \cup {k} /\ set[k].exp = now + TTL
      /\ \A j \in DOMAIN entries : j # k => set[j] = entries[j]
  BY DEF Set
<1>3. /\ Len(rest) \in Nat /\ keys \in Seq(Keys) /\ Len(keys) = Len(rest) + 1 /\ keys[Len(keys)] = k
      /\ \A i \in 1..Len(rest) : keys[i] = rest[i]
  BY <1>1, LenProperties DEF Listed
<1>4. \A i \in 1..Len(rest) : keys[i] \in DOMAIN entries /\ keys[i] # k
  BY <1>1, <1>3, ListedRange DEF Ordered
<1>5. \A j \in DOMAIN entries : j # k => \E i \in 1..Len(rest) : keys[i] = j
  BY <1>1, <1>3, ListedRange DEF Ordered
<1> HIDE DEF rest, set, keys
<1>6. \A i \in 1..Len(keys) : i \in 1..Len(rest) \/ i = Len(keys)
  BY <1>3
<1>7. Distinct(keys)
  <2> SUFFICES ASSUME NEW i \in 1..Len(keys), NEW j \in 1..Len(keys), keys[i] = keys[j] PROVE i = j
    BY DEF Distinct
  <2> QED BY <1>1, <1>3, <1>4, <1>6 DEF Distinct
<1>8. \A i, j \in 1..Len(keys) : i < j => set[keys[i]].exp <= set[keys[j]].exp
  <2> SUFFICES ASSUME NEW i \in 1..Len(keys), NEW j \in 1..Len(keys), i < j
               PROVE  set[keys[i]].exp <= set[keys[j]].exp
    OBVIOUS
  <2>1. i \in 1..Len(rest) /\ keys[i] \in DOMAIN entries /\ set[keys[i]] = entries[keys[i]]
    BY <1>2, <1>3, <1>4
  <2>2. CASE j = Len(keys)
    BY <1>2, <1>3, <2>1, <2>2 DEF Fresh, EntriesOnTime
  <2>3. CASE j # Len(keys)
    <3>1. j \in 1..Len(rest)
      BY <1>6, <2>3
    <3>2. PICK a \in 1..Len(order), b \in 1..Len(order) : a < b /\ rest[i] = order[a] /\ rest[j] = order[b]
      BY <1>1, <2>1, <3>1
    <3>3. set[keys[i]] = entries[order[a]] /\ set[keys[j]] = entries[order[b]]
      BY <1>2, <1>3, <1>4, <2>1, <3>1, <3>2
    <3> QED BY <3>2, <3>3 DEF Ordered
  <2> QED BY <2>2, <2>3
<1>9. \A i \in 1..Len(keys) : keys[i] \in DOMAIN set
  BY <1>2, <1>3, <1>4, <1>6
<1>10. \A j \in DOMAIN set : \E i \in 1..Len(keys) : keys[i] = j
  BY <1>2, <1>3, <1>5
<1> QED BY <1>2, <1>3, <1>7, <1>8, <1>9, <1>10 DEF set, keys

LEMMA StoreOrdered ==
    ASSUME CacheInv, Ordered, Fresh, NEW k \in Keys, NEW v \in Value, Store(k, v)
    PROVE  Ordered' /\ EvictedOldest
<1> DEFINE set  == Set(k, v)
           keys == Listed(k)
           over == IF Len(keys) > MaxEntries THEN Len(keys) - MaxEntries ELSE 0
<1>3. order' = SubSeq(keys, over + 1, Len(keys))
  BY DEF Store, Listed
<1>4. entries' = Restrict(set, DOMAIN set \ {keys[i] : i \in 1..over})
  BY DEF Store, Listed
<1>5. /\ keys \in Seq(Keys) /\ Distinct(keys) /\ Len(keys) \in Nat \ {0}
      /\ keys[Len(keys)] = k /\ \A i \in 1..Len(keys) : keys[i] \in DOMAIN set
      /\ \A j \in DOMAIN set : \E i \in 1..Len(keys) : keys[i] = j
      /\ \A j \in DOMAIN set : j # k => set[j] = entries[j]
      /\ \A i, j \in 1..Len(keys) : i < j => set[keys[i]].exp <= set[keys[j]].exp
  BY StoredOrder
<1>6. k \in DOMAIN set /\ DOMAIN entries \subseteq DOMAIN set
  BY DEF Set
<1>7. over \in 0..Len(keys) - 1 /\ Len(keys) - over <= MaxEntries
  <2> HIDE DEF keys
  <2> QED BY <1>5, SizeAssumption
<1> HIDE DEF set, keys, over
<1>8. /\ order' \in Seq(Keys) /\ Len(order') = Len(keys) - over
      /\ \A i \in 1..Len(order') : over + i \in 1..Len(keys) /\ order'[i] = keys[over + i]
  <2>1. \A i \in over + 1..Len(keys) : keys[i] \in Keys
    BY <1>5, <1>7, LenProperties
  <2> QED BY <1>3, <1>5, <1>7, <2>1, SubSeqProperties
<1>9. /\ DOMAIN entries' = DOMAIN set \ {keys[i] : i \in 1..over}
      /\ \A j \in DOMAIN entries' : entries'[j] = set[j]
  BY <1>4 DEF Restrict
<1>10. \A i \in over + 1..Len(keys) : keys[i] \in DOMAIN entries'
  <2> SUFFICES ASSUME NEW i \in over + 1..Len(keys), NEW m \in 1..over, keys[i] = keys[m] PROVE FALSE
    BY <1>5, <1>7, <1>9
  <2>1. i \in 1..Len(keys) /\ m \in 1..Len(keys) /\ i # m
    BY <1>5, <1>7
  <2> QED BY <1>5, <2>1 DEF Distinct
<1>11. \A j \in DOMAIN entries' : \E i \in over + 1..Len(keys) : keys[i] = j
  <2> SUFFICES ASSUME NEW j \in DOMAIN entries' PROVE \E i \in over + 1..Len(keys) : keys[i] = j
    OBVIOUS
  <2>1. PICK i \in 1..Len(keys) : keys[i] = j
    BY <1>5, <1>9
  <2>2. i \notin 1..over
    BY <1>9, <2>1
  <2> QED BY <1>5, <1>7, <2>1, <2>2
<1>12. Distinct(order')
  <2> SUFFICES ASSUME NEW i \in 1..Len(order'), NEW j \in 1..Len(order'), order'[i] = order'[j] PROVE i = j
    BY DEF Distinct
  <2>1. over + i \in 1..Len(keys) /\ over + j \in 1..Len(keys) /\ keys[over + i] = keys[over + j]
    BY <1>8
  <2>2. over + i = over + j
    BY <1>5, <2>1 DEF Distinct
  <2>3. over \in Nat /\ i \in Nat /\ j \in Nat
    BY <1>7, <1>8
  <2> QED BY <2>2, <2>3
<1>13. Range(order') = DOMAIN entries'
  <2>1. \A i \in 1..Len(order') : order'[i] \in DOMAIN entries'
    <3> SUFFICES ASSUME NEW i \in 1..Len(order') PROVE over + i \in over + 1..Len(keys)
      BY <1>8, <1>10
    <3> QED BY <1>5, <1>7, <1>8
  <2>2. \A j \in DOMAIN entries' : \E i \in 1..Len(order') : order'[i] = j
    <3> SUFFICES ASSUME NEW j \in DOMAIN entries' PROVE \E i \in 1..Len(order') : order'[i] = j
      OBVIOUS
    <3>1. PICK i \in over + 1..Len(keys) : keys[i] = j
      BY <1>11
    <3>2. i - over \in 1..Len(order') /\ over + (i - over) = i
      BY <1>5, <1>7, <1>8
    <3> QED BY <1>8, <3>1, <3>2
  <2>3. /\ \A i \in 1..Len(order') : order'[i] \in Range(order')
        /\ \A x \in Range(order') : \E i \in 1..Len(order') : order'[i] = x
    BY <1>8, ListedRange
  <2> QED BY <2>1, <2>2, <2>3
<1>14. \A i, j \in 1..Len(order') : i < j => entries'[order'[i]].exp <= entries'[order'[j]].exp
  <2> SUFFICES ASSUME NEW i \in 1..Len(order'), NEW j \in 1..Len(order'), i < j
               PROVE  entries'[order'[i]].exp <= entries'[order'[j]].exp
    OBVIOUS
  <2>1. /\ over + i \in over + 1..Len(keys) /\ over + j \in over + 1..Len(keys) /\ over + i < over + j
        /\ over + i \in 1..Len(keys) /\ over + j \in 1..Len(keys)
    <3>1. Len(keys) \in Nat /\ over \in Nat /\ i \in Nat /\ j \in Nat /\ i >= 1 /\ j >= 1
      BY <1>5, <1>7, <1>8
    <3>2. over + i \in 1..Len(keys) /\ over + j \in 1..Len(keys)
      BY <1>8
    <3> QED BY <3>1, <3>2
  <2>2. /\ entries'[order'[i]] = set[keys[over + i]]
        /\ entries'[order'[j]] = set[keys[over + j]]
    BY <1>8, <1>9, <1>10, <2>1
  <2> QED BY <1>5, <2>1, <2>2
<1>15. EvictedOldest
  <2> SUFFICES ASSUME NEW m \in Keys, Hit(m), m \notin DOMAIN entries', NEW j \in DOMAIN entries'
               PROVE  entries'[j].exp >= entries[m].exp
    BY DEF EvictedOldest
  <2>1. m \in DOMAIN set
    BY <1>6 DEF Hit
  <2>2. PICK a \in 1..over : keys[a] = m
    BY <1>9, <2>1
  <2>3. PICK b \in over + 1..Len(keys) : keys[b] = j
    BY <1>11
  <2>4. a \in 1..Len(keys) /\ b \in 1..Len(keys) /\ a < b /\ a # Len(keys)
    BY <1>5, <1>7
  <2>5. m # k /\ set[m] = entries[m]
    <3>1. Len(keys) \in 1..Len(keys) /\ keys[Len(keys)] = k /\ Distinct(keys)
      BY <1>5
    <3>2. keys[a] # keys[Len(keys)]
      BY <2>4, <3>1 DEF Distinct
    <3>3. m # k
      BY <2>2, <3>1, <3>2
    <3> QED BY <1>5, <2>1, <3>3
  <2>6. set[m].exp <= set[j].exp /\ entries'[j] = set[j] /\ m \in DOMAIN entries
    BY <1>5, <1>9, <2>2, <2>3, <2>4 DEF Hit
  <2>7. entries[m].exp \in Nat /\ entries'[j].exp \in Nat
    <3>1. j = k \/ (j \in DOMAIN entries /\ set[j] = entries[j])
      BY <1>9 DEF Set, set
    <3>2. set[k].exp = now + TTL
      BY DEF Set, set
    <3> QED BY <2>6, <3>1, <3>2, Times DEF CacheInv
  <2> QED BY <2>5, <2>6, <2>7
<1>16. Len(order') <= MaxEntries
  BY <1>7, <1>8
<1> QED BY <1>8, <1>12, <1>13, <1>14, <1>15, <1>16 DEF Ordered

LEMMA OrderedStep == CacheInv /\ Fresh /\ Ordered /\ [Next]_vars => Ordered' /\ EvictedOldest
<1> SUFFICES ASSUME CacheInv, Fresh, Ordered, [Next]_vars PROVE Ordered' /\ EvictedOldest
  OBVIOUS
<1>1. ASSUME UNCHANGED <<entries, order>> PROVE Ordered' /\ EvictedOldest
  BY <1>1 DEF Ordered, EvictedOldest, Hit
<1>2. CASE Clear
  <2>1. order' = << >> /\ DOMAIN entries' = {}
    BY <1>2 DEF Clear
  <2>2. << >> \in Seq(Keys) /\ Len(<< >>) = 0 /\ Range(<< >>) = {}
    BY EmptySeq DEF Range
  <2> QED BY <2>1, <2>2, SizeAssumption DEF Ordered, Distinct, EvictedOldest
<1>3. ASSUME NEW l \in Loads, Then(l) PROVE Ordered' /\ EvictedOldest
  <2>1. load[l].key \in Keys /\ load[l].val \in Value
    BY <1>3, RunningRec DEF Then, In, CacheInv, LoadRec
  <2>2. Store(load[l].key, load[l].val) \/ UNCHANGED <<entries, order>>
    BY <1>3 DEF Then
  <2> QED BY <1>1, <2>1, <2>2, StoreOrdered
<1> QED BY <1>1, <1>2, <1>3, BeginOrdered DEF Next, Answer, Fail, Finally, Write, Tick, vars

\* The cache is never over its size, its order lists exactly its entries, and an entry that is not
\* expired is evicted only for one that expires no sooner.
THEOREM EvictsOldestAlways == Spec => EvictsOldest
<1>1. Init => Fresh /\ Ordered
  <2>1. << >> \in Seq(Keys) /\ Len(<< >>) = 0 /\ Range(<< >>) = {} /\ DOMAIN << >> = {}
    BY EmptySeq DEF Range
  <2> QED BY <2>1, SizeAssumption DEF Init, Fresh, LoadsOnTime, EntriesOnTime, Running, Ordered, Distinct
<1>2. Ordered => Len(order) <= MaxEntries /\ Range(order) = DOMAIN entries
  BY DEF Ordered
<1>3. EvictsOldest <=> [][/\ (Len(order) <= MaxEntries /\ Range(order) = DOMAIN entries)'
                          /\ EvictedOldest]_vars
  <2>1. [/\ Len(order') <= MaxEntries /\ Range(order') = DOMAIN entries'
         /\ EvictedOldest]_vars
        <=> [/\ (Len(order) <= MaxEntries /\ Range(order) = DOMAIN entries)'
             /\ EvictedOldest]_vars
    BY DEF Range
  <2> QED BY <2>1, PTL DEF EvictsOldest, EvictedOldest
<1> QED BY <1>1, <1>2, <1>3, FreshStep, OrderedStep, CacheInvInvariant, PTL DEF Spec
=============================================================================
