------------------------------ MODULE ByteCache ------------------------------
(***************************************************************************)
(* The cache of artifact bytes by content hash (artifact-cache.ts): a miss *)
(* makes one trip to the source that everyone who asks meanwhile shares,   *)
(* an answer is verified and counted, the least recently used go over the  *)
(* budget, and clear() forgets the trips under way without ending them.    *)
(***************************************************************************)
EXTENDS Integers, Sequences, SequencesExt

CONSTANTS
    Hashes, SizeOf,     \* contents and their sizes
    MaxBytes,
    MaxTrips, MaxClears \* bounds

VARIABLES
    cached,     \* hashes held, the least recently used first
    totalBytes,
    inflight,   \* the trip that a miss of a hash would join, 0 when there is none
    trips,      \* trips: their hash, the generation they began in, "away" or "settled"
    generation

cacheVars == <<cached, totalBytes, inflight, trips, generation>>

CacheAssumption ==
    /\ SizeOf \in [Hashes -> Nat \ {0}] /\ MaxBytes \in Nat
    /\ MaxTrips \in Nat /\ MaxClears \in Nat

Init ==
    /\ cached = <<>> /\ totalBytes = 0 /\ generation = 0
    /\ inflight = [h \in Hashes |-> 0] /\ trips = <<>>

Holds(h) == h \in ToSet(cached)

\* A hit makes the content the most recently used.
Touched(h) == LET i == CHOOSE j \in DOMAIN cached : cached[j] = h IN Append(RemoveAt(cached, i), h)

Get(h) ==
    IF Holds(h)
    THEN cached' = Touched(h) /\ UNCHANGED <<totalBytes, inflight, trips, generation>>
    ELSE /\ inflight[h] = 0 /\ Len(trips) < MaxTrips
         /\ trips' = Append(trips, [hash |-> h, generation |-> generation, state |-> "away"])
         /\ inflight' = [inflight EXCEPT ![h] = Len(trips) + 1]
         /\ UNCHANGED <<cached, totalBytes, generation>>

\* The sizes of the first contents of s, 0 to all of them, together.
SumsOf(s) ==
    LET sum[n \in 0..Len(s)] == IF n = 0 THEN 0 ELSE sum[n - 1] + SizeOf[s[n]] IN sum
SumOf(s) == SumsOf(s)[Len(s)]

\* The oldest go until the rest is within the budget; the last one stays.
Suffices(s, total, n) == total - SumsOf(s)[n] <= MaxBytes \/ n >= Len(s) - 1
Dropped(s, total) ==
    CHOOSE n \in 0..Len(s) : Suffices(s, total, n) /\ \A m \in 0..(n - 1) : ~Suffices(s, total, m)

\* Mutant: an answer is kept whenever the trip began.
OfAnyGeneration(t) == TRUE
\* A trip of an earlier generation answers its callers only.
OfThisGeneration(t) == trips[t].generation = generation

Arrives(t) ==
    /\ trips[t].state = "away"
    /\ trips' = [trips EXCEPT ![t].state = "settled"]
    /\ IF OfThisGeneration(t)
       THEN LET h == trips[t].hash
                held == IF Holds(h) THEN cached ELSE Append(cached, h)
                total == totalBytes + SizeOf[h]
                n == Dropped(held, total)
            IN /\ cached' = SubSeq(held, n + 1, Len(held))
               /\ totalBytes' = total - SumsOf(held)[n]
       ELSE UNCHANGED <<cached, totalBytes>>
    /\ UNCHANGED <<inflight, generation>>

\* The source fails, or the bytes are not what their hash says.
TripFails(t) ==
    /\ trips[t].state = "away"
    /\ trips' = [trips EXCEPT ![t].state = "settled"]
    /\ UNCHANGED <<cached, totalBytes, inflight, generation>>

\* Mutant: whichever trip is on record for the hash is cleared.
AnyTrip(t) == TRUE
IsOnRecord(t) == inflight[trips[t].hash] = t

ClearInflight(t) ==
    /\ trips[t].state = "settled"
    /\ trips' = [trips EXCEPT ![t].state = "over"]
    /\ inflight' = IF IsOnRecord(t) THEN [inflight EXCEPT ![trips[t].hash] = 0] ELSE inflight
    /\ UNCHANGED <<cached, totalBytes, generation>>

Clear ==
    /\ generation < MaxClears /\ generation' = generation + 1
    /\ cached' = <<>> /\ totalBytes' = 0
    /\ inflight' = [h \in Hashes |-> 0]
    /\ UNCHANGED trips

Next ==
    \/ \E h \in Hashes : Get(h)
    \/ \E t \in DOMAIN trips : Arrives(t) \/ TripFails(t) \/ ClearInflight(t)
    \/ Clear

Spec == Init /\ [][Next]_cacheVars

-----------------------------------------------------------------------------
TypeOK ==
    /\ cached \in Seq(Hashes) /\ totalBytes \in Int /\ generation \in 0..MaxClears
    /\ inflight \in [Hashes -> 0..MaxTrips]
    /\ trips \in Seq([hash : Hashes, generation : Nat, state : {"away", "settled", "over"}])

\* The count is the size of what is held, once each, and within the budget unless one
\* content alone exceeds it; trips that a clear overtook count nothing
\* (artifact-cache.ts:60-82, 118-123).
LedgerIsExact ==
    /\ totalBytes = SumOf(cached)
    /\ IsInjective(cached)
    /\ totalBytes <= MaxBytes \/ Len(cached) = 1

\* One trip at a time fetches a content, of those that began since the last clear
\* (artifact-cache.ts:96-103).
OneTrip ==
    \A t, u \in DOMAIN trips :
        /\ trips[t].hash = trips[u].hash /\ t # u
        /\ trips[t].generation = generation /\ trips[u].generation = generation
        => "away" \notin {trips[t].state} \cap {trips[u].state}

\* A trip that is over is on nobody's record.
Settled == \A h \in Hashes : inflight[h] # 0 => trips[inflight[h]].state # "over"
=============================================================================
