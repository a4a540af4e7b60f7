---------------------------- MODULE DurableStore ----------------------------
(***************************************************************************)
(* A store whose replay line survives the process                          *)
(* (src/Common/Observe/store-durable.ts over store-replay.ts and the file  *)
(* log of server/fsReplayStorage.ts).  Writes wait for the store's drain;  *)
(* a drain is cut into batches, each batch is persisted under the next     *)
(* number before it is published; a keyframe of the store is archived now  *)
(* and then; a restart restores [keyframe + events] and continues the      *)
(* numbering.  Storage may fail, the process may die between any two       *)
(* steps, and a mirror follows the line across restarts.                   *)
(*                                                                         *)
(* Every write sets a path of its own, so a state is the set of the writes *)
(* folded into it, and folding a write twice changes nothing.              *)
(***************************************************************************)
EXTENDS Integers, Sequences, Functions

CONSTANTS
    EveryEvents,     \* cadence of the keyframes
    MaxItems,        \* the writes of one batch
    Pruned,          \* the log has a byte budget
    PruneRetried,    \* after a rewrite that failed the process goes on and tries again
    MaxWrites, MaxFaults, MaxRestarts     \* bounds

DurableAssumption ==
    /\ {EveryEvents, MaxItems} \subseteq Nat \ {0}
    /\ {MaxWrites, MaxFaults, MaxRestarts} \subseteq Nat
    /\ Pruned \in BOOLEAN /\ PruneRetried \in BOOLEAN

VARIABLES
    log,             \* the records of the file: events and keyframes
    store,           \* the state of the store
    undrained,       \* writes the store has not drained yet
    ready,           \* batches without a number
    head, lastKf,
    pc,              \* "down", "rest", "drain", "persisted" or "cadence"
    why,             \* what the drain is part of: "burst", "read" or "close"
    last, view,      \* the mirror: its number, its state
    link,            \* "off", "asked" or "live"
    wire,            \* what was published to it
    written,         \* the writes so far
    lost,            \* writes that a crash left without a number
    numbered,        \* the events that ever had a number
    faults, restarts

lineVars == <<store, undrained, ready, head, lastKf, pc, why>>
mirrorVars == <<last, view, link, wire>>
ghostVars == <<lost, numbered>>
vars == <<log, lineVars, mirrorVars, written, ghostVars, faults, restarts>>

Event(n, ws) == [kind |-> "event", seq |-> n, writes |-> ws]
Keyframe(n, ws) == [kind |-> "keyframe", seq |-> n, writes |-> ws]

Keyframes(l) == {i \in DOMAIN l : l[i].kind = "keyframe"}

\* openHistory(storage).at({}): the last keyframe and the events after it, none of which
\* may be missing or there twice.
Base(l) == CHOOSE i \in Keyframes(l) : \A j \in Keyframes(l) : j <= i
Later(l, n) == {i \in DOMAIN l : l[i].kind = "event" /\ l[i].seq > n}
Contiguous(l, n) ==
    /\ \A i, j \in Later(l, n) : i < j => l[i].seq < l[j].seq
    /\ \A i \in Later(l, n) : \A m \in (n + 1)..l[i].seq : \E j \in Later(l, n) : l[j].seq = m
Opens(l) == Keyframes(l) # {} /\ Contiguous(l, l[Base(l)].seq)
RestoredSeq(l) ==
    LET n == l[Base(l)].seq IN
    IF Later(l, n) = {} THEN n ELSE l[CHOOSE i \in Later(l, n) : \A j \in Later(l, n) : j <= i].seq
RestoredState(l) ==
    l[Base(l)].writes \cup UNION {l[i].writes : i \in Later(l, l[Base(l)].seq)}

\* Mutant: the budget cuts the log at any record.
CutsAnywhere(l) == {l} \cup (IF Pruned THEN {SubSeq(l, i, Len(l)) : i \in DOMAIN l} ELSE {})

\* maybePrune: a budget may cut the log, at one of its keyframes.
Cuts(l) == {l} \cup (IF Pruned THEN {SubSeq(l, i, Len(l)) : i \in Keyframes(l)} ELSE {})

\* Mutant: the mirror of an older lifetime is answered with what is left of the tail.
SinceUnchecked(n) == {log[i] : i \in Later(log, n)}

\* persistedSince: the events above n, the first of them being the next one, or {}.
Since(n) ==
    LET tail == Later(log, n) IN
    IF n < head /\ \E i \in tail : log[i].seq = n + 1 /\ \A j \in tail : i <= j
    THEN {log[i] : i \in tail} ELSE {}

Init ==
    /\ log = <<Keyframe(0, {})>> /\ lastKf = 0
    /\ store = {} /\ undrained = <<>> /\ ready = <<>> /\ head = 0
    /\ pc = "rest" /\ why = "burst"
    /\ last = -1 /\ view = {} /\ link = "off" /\ wire = <<>>
    /\ written = 0 /\ lost = {} /\ numbered = {}
    /\ faults = 0 /\ restarts = 0

\* The process ends: what is in the log under a number is safe.
Unnumbered(l) == store \ UNION {e.writes : e \in numbered \cup {l[i] : i \in Later(l, 0)}}

Die ==
    /\ pc' = "down" /\ store' = {} /\ undrained' = <<>> /\ ready' = <<>>
    /\ head' = 0 /\ lastKf' = 0 /\ why' = "burst"
    /\ link' = "off" /\ wire' = <<>>

-----------------------------------------------------------------------------
(* Writing and draining *)

\* The owner writes, also from a listener that runs while the line publishes.
Write ==
    /\ pc \in {"rest", "drain"} /\ written < MaxWrites
    /\ written' = written + 1
    /\ store' = store \cup {written'}
    /\ undrained' = Append(undrained, written')
    /\ UNCHANGED <<log, ready, head, lastKf, pc, why, mirrorVars, ghostVars, faults, restarts>>

\* push: a drain becomes batches of at most MaxItems writes.
Batches(ws) ==
    [i \in 1..((Len(ws) + MaxItems - 1) \div MaxItems) |->
        {ws[j] : j \in {k \in DOMAIN ws : (k - 1) \div MaxItems = i - 1}}]

\* The store's scheduled drain reaches the line.
Drain ==
    /\ pc = "rest" /\ undrained # <<>>
    /\ ready' = ready \o Batches(undrained) /\ undrained' = <<>>
    /\ pc' = "drain" /\ why' = "burst"
    /\ UNCHANGED <<log, store, head, lastKf, mirrorVars, written, ghostVars, faults, restarts>>

\* persistEvent, persistBatch: the next number is in the file, nobody knows it yet.
Persist ==
    /\ pc = "drain" /\ ready # <<>>
    /\ log' \in Cuts(Append(log, Event(head + 1, Head(ready))))
    /\ pc' = "persisted"
    /\ UNCHANGED <<store, undrained, ready, head, lastKf, why, mirrorVars, written, ghostVars,
                   faults, restarts>>

\* commitJournalEvent.
Commit ==
    /\ pc = "persisted"
    /\ LET e == Event(head + 1, Head(ready)) IN
        /\ wire' = IF link = "off" THEN wire ELSE Append(wire, e)
        /\ numbered' = numbered \cup {e}
    /\ head' = head + 1 /\ ready' = Tail(ready) /\ pc' = "drain"
    /\ UNCHANGED <<log, store, undrained, lastKf, why, last, view, link, written, lost,
                   faults, restarts>>

\* Storage refuses the append: the batch is retained, the burst ends without a
\* keyframe, a read or a close is refused.
PersistFails ==
    /\ pc = "drain" /\ ready # <<>> /\ faults < MaxFaults
    /\ faults' = faults + 1
    /\ pc' = "rest"
    /\ IF why = "read" THEN link' = "off" /\ wire' = <<>> ELSE UNCHANGED <<link, wire>>
    /\ UNCHANGED <<log, store, undrained, ready, head, lastKf, why, last, view, written,
                   ghostVars, restarts>>

\* The rewrite that follows an append within a budget fails: the call throws although
\* the record is in the file and in the index.
PruneFails ==
    /\ Pruned /\ pc = "drain" /\ ready # <<>> /\ faults < MaxFaults
    /\ faults' = faults + 1
    /\ log' = Append(log, Event(head + 1, Head(ready)))
    /\ IF PruneRetried
       THEN /\ pc' = "rest"
            /\ IF why = "read" THEN link' = "off" /\ wire' = <<>> ELSE UNCHANGED <<link, wire>>
            /\ UNCHANGED <<store, undrained, ready, head, lastKf, why, lost>>
       ELSE Die /\ lost' = lost \cup Unnumbered(log')
    /\ UNCHANGED <<last, view, written, numbered, restarts>>

\* drainReady is through.
BurstPublished ==
    /\ pc = "drain" /\ ready = <<>> /\ why = "burst"
    /\ pc' = IF head - lastKf >= EveryEvents THEN "cadence" ELSE "rest"
    /\ UNCHANGED <<log, store, undrained, ready, head, lastKf, why, mirrorVars, written,
                   ghostVars, faults, restarts>>

TakeKeyframe ==
    /\ pc = "cadence"
    /\ log' \in Cuts(Append(log, Keyframe(head, store)))
    /\ lastKf' = head /\ pc' = "rest"
    /\ UNCHANGED <<store, undrained, ready, head, why, mirrorVars, written, ghostVars,
                   faults, restarts>>

KeyframeFails ==
    /\ pc = "cadence" /\ faults < MaxFaults
    /\ log' \in {log} \cup (IF Pruned THEN {Append(log, Keyframe(head, store))} ELSE {})
    /\ faults' = faults + 1 /\ pc' = "rest"
    /\ UNCHANGED <<store, undrained, ready, head, lastKf, why, mirrorVars, written,
                   ghostVars, restarts>>

-----------------------------------------------------------------------------
(* The mirror *)

\* A subscription: the live line is tapped, then the frame after `last` is asked for.
Subscribe ==
    /\ pc = "rest" /\ link = "off"
    /\ link' = "asked"
    /\ UNCHANGED <<log, lineVars, last, view, wire, written, ghostVars, faults, restarts>>

\* prepareRead: a read publishes what is ready first, it does not drain the store.
ReadFlushes ==
    /\ pc = "rest" /\ link = "asked"
    /\ pc' = "drain" /\ why' = "read"
    /\ UNCHANGED <<log, store, undrained, ready, head, lastKf, mirrorVars, written, ghostVars,
                   faults, restarts>>

\* The answer: nothing, the tail, or a keyframe.  What was published meanwhile is on
\* the wire and is dropped by its number.
Answer ==
    /\ pc = "drain" /\ ready = <<>> /\ why = "read"
    /\ pc' = "rest" /\ link' = "live" /\ last' = head
    /\ view' = CASE last = head -> view
                 [] last \in 0..(head - 1) /\ Since(last) # {} ->
                        view \cup UNION {e.writes : e \in Since(last)}
                 [] OTHER -> store
    /\ UNCHANGED <<log, store, undrained, ready, head, lastKf, why, wire, written, ghostVars,
                   faults, restarts>>

Deliver ==
    /\ link = "live" /\ wire # <<>>
    /\ wire' = Tail(wire)
    /\ IF Head(wire).seq > last
       THEN last' = Head(wire).seq /\ view' = view \cup Head(wire).writes
       ELSE UNCHANGED <<last, view>>
    /\ UNCHANGED <<log, lineVars, link, written, ghostVars, faults, restarts>>

Disconnect ==
    /\ pc \in {"rest", "drain"} /\ ~(pc = "drain" /\ why = "read")
    /\ link # "off" /\ restarts < MaxRestarts
    /\ restarts' = restarts + 1
    /\ link' = "off" /\ wire' = <<>>
    /\ UNCHANGED <<log, lineVars, last, view, written, ghostVars, faults>>

-----------------------------------------------------------------------------
(* The process *)

Crash ==
    /\ pc # "down" /\ restarts < MaxRestarts
    /\ restarts' = restarts + 1
    /\ lost' = lost \cup Unnumbered(log)
    /\ Die
    /\ UNCHANGED <<log, last, view, written, numbered, faults>>

\* close: the store drains now, and the process ends when everything is published.
Close ==
    /\ pc = "rest" /\ restarts < MaxRestarts
    /\ ready' = ready \o Batches(undrained) /\ undrained' = <<>>
    /\ pc' = "drain" /\ why' = "close"
    /\ UNCHANGED <<log, store, head, lastKf, mirrorVars, written, ghostVars, faults, restarts>>

\* Mutant: close() ends the process although a batch could not be persisted.
ClosedAnyway ==
    /\ pc = "drain" /\ why = "close"
    /\ restarts' = restarts + 1
    /\ lost' = lost \cup Range(undrained)
    /\ Die
    /\ UNCHANGED <<log, last, view, written, numbered, faults>>

Closed ==
    /\ pc = "drain" /\ ready = <<>> /\ why = "close"
    /\ restarts' = restarts + 1
    /\ lost' = lost \cup Range(undrained)
    /\ Die
    /\ UNCHANGED <<log, last, view, written, numbered, faults>>

\* Mutant: a new lifetime numbers from the last keyframe.
RestartAtKeyframe ==
    /\ pc = "down" /\ Opens(log)
    /\ head' = log[Base(log)].seq /\ lastKf' = head'
    /\ store' = RestoredState(log) /\ pc' = "rest"
    /\ log' \in Cuts(Append(log, Keyframe(head', store')))
    /\ UNCHANGED <<undrained, ready, why, mirrorVars, written, ghostVars, faults, restarts>>

\* openDurableStore and attach: restore, continue the numbers, archive a keyframe.
Restart ==
    /\ pc = "down" /\ Opens(log)
    /\ head' = RestoredSeq(log) /\ lastKf' = head'
    /\ store' = RestoredState(log) /\ pc' = "rest"
    /\ numbered' = numbered \cup {log[i] : i \in Later(log, 0)}
    /\ log' \in Cuts(Append(log, Keyframe(head', store')))
    /\ UNCHANGED <<undrained, ready, why, mirrorVars, written, lost, faults, restarts>>

-----------------------------------------------------------------------------
Next ==
    \/ Write \/ Drain \/ Persist \/ Commit \/ PersistFails \/ PruneFails
    \/ BurstPublished \/ TakeKeyframe \/ KeyframeFails
    \/ Subscribe \/ ReadFlushes \/ Answer \/ Deliver \/ Disconnect
    \/ Crash \/ Close \/ Closed \/ Restart

Spec == Init /\ [][Next]_vars

-----------------------------------------------------------------------------
(* Properties *)

Writes == 1..written
Rec == [kind : {"event", "keyframe"}, seq : Nat, writes : SUBSET Writes]

\* Types; nothing is both numbered and waiting for a number.
TypeOK ==
    /\ log \in Seq(Rec) /\ store \subseteq Writes
    /\ undrained \in Seq(Writes) /\ ready \in Seq(SUBSET Writes)
    /\ {head, lastKf, written, faults, restarts} \subseteq Nat
    /\ pc \in {"down", "rest", "drain", "persisted", "cadence"}
    /\ why \in {"burst", "read", "close"}
    /\ last \in Nat \cup {-1} /\ view \subseteq Writes
    /\ link \in {"off", "asked", "live"} /\ wire \in Seq(Rec)
    /\ lost \subseteq Writes /\ numbered \subseteq Rec
    /\ \A e \in numbered : e.writes \cap (Range(undrained) \cup UNION Range(ready)) = {}

\* Whenever the process dies, the archive opens again, with every event that ever
\* had a number and under no lower number ("a replay line that survives a process
\* restart").
ArchiveHolds ==
    /\ Opens(log)
    /\ \A e \in numbered : e.seq <= RestoredSeq(log) /\ e.writes \subseteq RestoredState(log)

\* A number means the same event for ever: no lifetime gives it to other writes, so a
\* mirror of an older lifetime may resume by number.
NumbersKeepTheirMeaning ==
    \A d, e \in numbered : d.seq = e.seq => d.writes = e.writes

\* The mirror has every event up to its number, across restarts, prunes and resumes,
\* and it is never ahead of the line it resumes from.
MirrorHasAll ==
    /\ \A e \in numbered : e.seq <= last => e.writes \subseteq view
    /\ pc # "down" => last <= head

\* A mirror that is live and at the head of a line with nothing pending differs from
\* the store by writes only that a crash left without a number: a keyframe may have
\* shown them to the mirror, or kept them in the archive, before they were drained.
MirrorAgrees ==
    (link = "live" /\ wire = <<>> /\ pc = "rest" /\ undrained = <<>> /\ ready = <<>>)
        => (view \ store) \cup (store \ view) \subseteq lost

\* A close that succeeds leaves in the archive what was written before it, also what
\* a failing storage had retained; only a listener of the closing line can write later.
CloseLosesNothing ==
    [][(/\ pc = "drain" /\ why = "close" /\ pc' = "down" /\ restarts' > restarts
         /\ Range(undrained) \subseteq lost')
            => store \ lost' \subseteq RestoredState(log)]_vars

=============================================================================
