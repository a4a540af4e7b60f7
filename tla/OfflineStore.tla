----------------------------- MODULE OfflineStore -----------------------------
(***************************************************************************)
(* The persisted mirror of a remote store                                  *)
(* (src/Common/Observe/store-offline.ts): createOfflineStore loads the     *)
(* record of an earlier life, follows the remote from its number, and      *)
(* persistStore writes snapshot and number back, debounced and one write   *)
(* at a time.  Writes may fail, the process may die during one, and a      *)
(* reconnect supersedes the one before while that still waits for its      *)
(* schema or its catch-up.                                                 *)
(*                                                                         *)
(* The store is the event it shows and whether what it has reported is     *)
(* saved.  The subscription is that of ReplaySubscribe, reduced to its     *)
(* attach and its deliveries.                                              *)
(***************************************************************************)
EXTENDS Integers, Sequences, Functions

CONSTANTS
    Foreign,         \* a number beyond the line's, from a record of another line
    MaxEvents,
    MaxTurns         \* bound on writes, flushes, reconnects, ends of the store and faults,
                     \* together

OfflineAssumption ==
    /\ {MaxEvents, MaxTurns} \subseteq Nat
    /\ Foreign \in Nat /\ Foreign > MaxEvents

VARIABLES
    head,            \* the line of the remote: its last event
    disk,            \* the record of the storage; Fresh when there is none
    phase,           \* "off" (no process), "open" or "closed"
    shown,           \* the event that the store shows
    undrained,       \* it has changes that its drain has not reported
    noted,           \* persist's seq
    dirty, timer,
    queue,           \* the chain of flushes: the first is under way once it writes
    saving,          \* the record that is being written, or None
    gen,             \* reconnectGeneration
    runs,            \* the runReconnects that have not ended: generation -> what they await
    subs,            \* the open subscriptions, by generation
    status,
    content,         \* what was reported is "unsaved", "saving" or "saved" (observer)
    turns            \* what MaxTurns counts

storeVars == <<shown, undrained, noted, content>>
saveVars == <<dirty, timer, queue, saving>>
syncVars == <<gen, runs, subs, status>>
vars == <<head, disk, phase, storeVars, saveVars, syncVars, turns>>

\* The status of a store without a remote, or whose remote has failed.
Alone == [ready |-> TRUE, syncing |-> FALSE, offline |-> TRUE]

\* Nothing is being written; and what a store starts with when it loads nothing.
None == [seq |-> -1, shown |-> -1]
Fresh == [seq |-> -1, shown |-> 0]
Record == [seq |-> noted, shown |-> shown]

With(f, g, v) == [i \in DOMAIN f \cup {g} |-> IF i = g THEN v ELSE f[i]]
Without(f, g) == Restrict(f, DOMAIN f \ {g})

Turn == turns < MaxTurns /\ turns' = turns + 1

\* A record of an earlier program: one of another line, or one whose number is of an older
\* kind of coordinates, which is not read back.
Init ==
    /\ head = 0
    /\ \/ disk = Fresh
       \/ disk = [seq |-> Foreign, shown |-> Foreign]
       \/ disk = [seq |-> -1, shown |-> 1]
    /\ phase = "off" /\ shown = 0 /\ undrained = FALSE /\ noted = -1 /\ content = "saved"
    /\ dirty = FALSE /\ timer = FALSE /\ queue = <<>> /\ saving = None
    /\ gen = 0 /\ runs = <<>> /\ subs = <<>> /\ status = Alone
    /\ turns = 0

-----------------------------------------------------------------------------
(* The life of the store *)

\* runReconnect up to its first await: the old subscription is closed at once.
Superseded == [ready |-> FALSE, syncing |-> TRUE, offline |-> FALSE]

\* createOfflineStore over what was loaded, with or without a remote.
OpenWith(loaded) ==
    /\ phase # "open" /\ saving = None /\ queue = <<>> /\ runs = <<>>
    /\ phase' = "open"
    /\ shown' = loaded.shown /\ undrained' = FALSE /\ noted' = loaded.seq
    /\ content' = "saved"
    /\ dirty' = FALSE /\ timer' = FALSE
    /\ \/ /\ gen' = 1 /\ runs' = With(<<>>, 1, "schema") /\ status' = Superseded
       \/ /\ gen' = 0 /\ runs' = <<>>
          /\ status' = Alone
    /\ subs' = <<>>
    /\ UNCHANGED <<head, disk, queue, saving>>

\* loadSnapshot: the record, or the record of an older version after its migration.
Open ==
    /\ OpenWith(disk) /\ UNCHANGED turns

\* There is no migration for an older version.
OpenOutdated ==
    /\ disk # Fresh
    /\ OpenWith(Fresh) /\ UNCHANGED turns

\* The read or the migration fails: the store opens with what is given as initial.
LoadFails ==
    /\ OpenWith(Fresh) /\ Turn

\* close(): nothing is saved any more, a write that is under way ends.  What was owed is
\* not observed any further.
Close ==
    /\ phase = "open" /\ Turn
    /\ phase' = "closed" /\ timer' = FALSE
    /\ gen' = gen + 1 /\ subs' = <<>>
    /\ content' = "saved" /\ queue' = [i \in DOMAIN queue |-> [queue[i] EXCEPT !.owed = "saved"]]
    /\ UNCHANGED <<head, disk, shown, undrained, noted, dirty, saving, runs, status>>

\* The process dies, and what it was writing may be on the disk.
Die ==
    /\ phase # "off" /\ Turn
    /\ phase' = "off"
    /\ disk' \in {disk} \cup (IF saving = None THEN {} ELSE {saving})
    /\ dirty' = FALSE /\ timer' = FALSE /\ queue' = <<>> /\ saving' = None
    /\ gen' = 0 /\ runs' = <<>> /\ subs' = <<>> /\ status' = Alone
    /\ shown' = 0 /\ undrained' = FALSE /\ noted' = -1 /\ content' = "saved"
    /\ UNCHANGED head

-----------------------------------------------------------------------------
(* persistStore *)

\* scheduleSave, with the debounce starting again.
ScheduleSave == dirty' = TRUE /\ timer' = TRUE

\* What is saved by the record that is taken now, or by the one under way.
Advanced(from, to, flushes) ==
    /\ content' = IF content = from THEN to ELSE content
    /\ queue' = [i \in DOMAIN flushes |->
                    IF flushes[i].owed = from THEN [flushes[i] EXCEPT !.owed = to]
                    ELSE flushes[i]]

\* The flush that was writing settles.
Answered(outcome) == Advanced("saving", outcome, Tail(queue))

\* The application writes into the store, which reports it in its next drain.
Write ==
    /\ phase = "open" /\ Turn
    /\ undrained' = TRUE
    /\ UNCHANGED <<head, disk, phase, shown, noted, content, saveVars, syncVars>>

Report ==
    /\ phase = "open" /\ undrained
    /\ undrained' = FALSE /\ content' = "unsaved" /\ ScheduleSave
    /\ UNCHANGED <<head, disk, phase, shown, noted, queue, saving, syncVars, turns>>

Enqueue(force) == queue' = Append(queue, [owed |-> content, force |-> force])

\* The timer of scheduleSave: flush(), which drops the timer and joins the chain.
TimerFires ==
    /\ timer
    /\ timer' = FALSE /\ Enqueue(FALSE)
    /\ UNCHANGED <<head, disk, phase, storeVars, dirty, saving, syncVars, turns>>

\* flush() and forceFlush() of a caller; after the close they resolve and do nothing.
Flush(force) ==
    /\ phase = "open" /\ Turn
    /\ timer' = FALSE /\ Enqueue(force)
    /\ dirty' = (dirty \/ force)
    /\ UNCHANGED <<head, disk, phase, storeVars, saving, syncVars>>

\* runFlush has nothing to do.
Idle == phase = "closed" \/ (~dirty /\ ~queue[1].force)

FlushIsIdle ==
    /\ queue # <<>> /\ saving = None /\ Idle
    /\ queue' = Tail(queue)
    /\ UNCHANGED <<head, disk, phase, storeVars, dirty, timer, saving, syncVars, turns>>

\* runFlush up to its await: number and snapshot are taken together.
WriteStarts ==
    /\ queue # <<>> /\ saving = None /\ ~Idle
    /\ dirty' = FALSE /\ saving' = Record /\ Advanced("unsaved", "saving", queue)
    /\ UNCHANGED <<head, disk, phase, shown, undrained, noted, timer, syncVars, turns>>

\* The finally of runFlush.
Again(isDirty) == timer' = (timer \/ (isDirty /\ phase = "open"))

\* Mutant: a write that ends takes what was changed meanwhile for saved.
WriteEndsClean ==
    /\ saving # None
    /\ disk' = saving /\ saving' = None /\ dirty' = FALSE /\ timer' = FALSE
    /\ Answered("saved")
    /\ UNCHANGED <<head, phase, shown, undrained, noted, syncVars, turns>>

WriteEnds ==
    /\ saving # None
    /\ disk' = saving /\ saving' = None /\ Again(dirty)
    /\ Answered("saved")
    /\ UNCHANGED <<head, phase, shown, undrained, noted, dirty, syncVars, turns>>

\* Mutant: after a write that failed, only a new change makes the store dirty.
WriteFailsClean ==
    /\ saving # None /\ Turn
    /\ disk' \in {disk, saving} /\ saving' = None /\ Again(dirty)
    /\ Answered("unsaved")
    /\ UNCHANGED <<head, phase, shown, undrained, noted, dirty, syncVars>>

\* The storage rejects the write, which it may have made all the same.
WriteFails ==
    /\ saving # None /\ Turn
    /\ disk' \in {disk, saving} /\ saving' = None /\ dirty' = TRUE /\ Again(TRUE)
    /\ Answered("unsaved")
    /\ UNCHANGED <<head, phase, shown, undrained, noted, syncVars>>

-----------------------------------------------------------------------------
(* The reconnects *)

IsCurrent(g) == phase = "open" /\ g = gen

\* Mutant: the subscription of the reconnect before is left to that reconnect.
ReconnectBeside ==
    /\ phase = "open" /\ Turn
    /\ gen' = gen + 1
    /\ runs' = With(runs, gen', "schema")
    /\ status' = Superseded
    /\ UNCHANGED <<head, disk, phase, storeVars, saveVars, subs>>

Reconnect ==
    /\ phase = "open" /\ Turn
    /\ gen' = gen + 1
    /\ runs' = With(runs, gen', "schema")
    /\ subs' = <<>>
    /\ status' = Superseded
    /\ UNCHANGED <<head, disk, phase, storeVars, saveVars>>

\* Mutant: a reconnect that was superseded subscribes all the same.
SubscribesAnyway(g) ==
    /\ runs[g] = "schema"
    /\ runs' = [runs EXCEPT ![g] = "ready"]
    /\ subs' = With(subs, g, [last |-> noted, stage |-> "asked", answer |-> 0])
    /\ UNCHANGED <<head, disk, phase, storeVars, saveVars, gen, status, turns>>

\* The schema of the remote is there, or always was.
Subscribes(g) ==
    /\ runs[g] = "schema" /\ IsCurrent(g)
    /\ runs' = [runs EXCEPT ![g] = "ready"]
    /\ subs' = With(subs, g, [last |-> noted, stage |-> "asked", answer |-> 0])
    /\ UNCHANGED <<head, disk, phase, storeVars, saveVars, gen, status, turns>>

\* The schema is refused.
SchemaFails(g) ==
    /\ runs[g] = "schema" /\ IsCurrent(g)
    /\ runs' = Without(runs, g)
    /\ status' = Alone
    /\ UNCHANGED <<head, disk, phase, storeVars, saveVars, gen, subs, turns>>

\* Mutant: whoever ends is ready.
CancelledReady(g) ==
    /\ ~IsCurrent(g)
    /\ runs' = Without(runs, g) /\ subs' = Without(subs, g)
    /\ status' = [status EXCEPT !.ready = TRUE, !.syncing = FALSE]
    /\ UNCHANGED <<head, disk, phase, storeVars, saveVars, gen, turns>>

\* A superseded reconnect was cancelled, whatever it waited for.
Cancelled(g) ==
    /\ ~IsCurrent(g)
    /\ runs' = Without(runs, g) /\ subs' = Without(subs, g)
    /\ UNCHANGED <<head, disk, phase, storeVars, saveVars, gen, status, turns>>

\* The first catch-up has ended, or the subscription with it.
BecomesReady(g) ==
    /\ runs[g] = "ready" /\ IsCurrent(g)
    /\ g \in DOMAIN subs => subs[g].stage = "live"
    /\ runs' = Without(runs, g)
    /\ status' = [status EXCEPT !.ready = TRUE, !.syncing = FALSE]
    /\ UNCHANGED <<head, disk, phase, storeVars, saveVars, gen, subs, turns>>

-----------------------------------------------------------------------------
(* The remote and its subscriptions *)

Emit ==
    /\ head < MaxEvents
    /\ head' = head + 1
    /\ UNCHANGED <<disk, phase, storeVars, saveVars, syncVars, turns>>

Answer(g) ==
    /\ subs[g].stage = "asked"
    /\ subs' = [subs EXCEPT ![g].stage = "answered", ![g].answer = head]
    /\ UNCHANGED <<head, disk, phase, storeVars, saveVars, gen, runs, status, turns>>

\* Event n reaches the store over subscription g: onSeq counts for the current one only.
Apply(g, n) ==
    /\ shown' = n /\ undrained' = TRUE
    /\ IF IsCurrent(g)
       THEN noted' = n /\ content' = "unsaved" /\ ScheduleSave
       ELSE UNCHANGED <<noted, content, dirty, timer>>

\* The answer leads to the state it was given at: by its tail, or by a keyframe.
CatchUp(g) ==
    /\ subs[g].stage = "answered"
    /\ subs' = [subs EXCEPT ![g].stage = "live", ![g].last = subs[g].answer]
    /\ IF subs[g].answer = subs[g].last THEN UNCHANGED <<storeVars, dirty, timer>>
       ELSE Apply(g, subs[g].answer)
    /\ UNCHANGED <<head, disk, phase, queue, saving, gen, runs, status, turns>>

Deliver(g) ==
    /\ subs[g].stage = "live" /\ subs[g].last < head
    /\ subs' = [subs EXCEPT ![g].last = @ + 1]
    /\ Apply(g, subs[g].last + 1)
    /\ UNCHANGED <<head, disk, phase, queue, saving, gen, runs, status, turns>>

\* A terminal error of the subscription.
SubscriptionFails(g) ==
    /\ Turn
    /\ subs' = Without(subs, g)
    /\ status' = IF IsCurrent(g) THEN [status EXCEPT !.offline = TRUE, !.syncing = FALSE]
                 ELSE status
    /\ UNCHANGED <<head, disk, phase, storeVars, saveVars, gen, runs>>

-----------------------------------------------------------------------------
Saves == Report \/ TimerFires \/ FlushIsIdle \/ WriteStarts \/ WriteEnds

Follows ==
    \/ \E g \in DOMAIN runs : Subscribes(g) \/ Cancelled(g) \/ BecomesReady(g)
    \/ \E g \in DOMAIN subs : Answer(g) \/ CatchUp(g) \/ Deliver(g)

Next ==
    \/ Saves \/ Follows
    \/ Open \/ OpenOutdated \/ LoadFails \/ Close \/ Die
    \/ Write \/ Emit \/ Reconnect
    \/ \E force \in BOOLEAN : Flush(force)
    \/ WriteFails
    \/ \E g \in DOMAIN runs : SchemaFails(g)
    \/ \E g \in DOMAIN subs : SubscriptionFails(g)

Spec == Init /\ [][Next]_vars

\* Timers fire, writes end, and a remote that is there answers.
Fairness == WF_vars(Saves) /\ WF_vars(Follows)

FairSpec == Spec /\ Fairness

-----------------------------------------------------------------------------
(* Properties *)

Records == [seq : -1..Foreign, shown : -1..Foreign]
Content == {"unsaved", "saving", "saved"}

\* Types, with the bookkeeping of what is saved: only a write under way is saving.
TypeOK ==
    /\ head \in 0..MaxEvents /\ {disk, saving} \subseteq Records
    /\ phase \in {"off", "open", "closed"}
    /\ shown \in 0..Foreign /\ noted \in -1..Foreign
    /\ {undrained, dirty, timer} \subseteq BOOLEAN
    /\ content \in Content
    /\ \A i \in DOMAIN queue : queue[i] \in [owed : Content, force : BOOLEAN]
    /\ gen \in Nat /\ DOMAIN runs \subseteq 1..gen /\ DOMAIN subs \subseteq 1..gen
    /\ status \in [ready : BOOLEAN, syncing : BOOLEAN, offline : BOOLEAN]
    /\ saving = None =>
        content # "saving" /\ \A i \in DOMAIN queue : queue[i].owed # "saving"

\* Whatever was cut short, superseded or restarted, a record shows the event whose number
\* it has, so that resuming from it neither repeats nor skips an event
\* (store-offline.ts:187-215, 278-297).
RecordMeansItsNumber ==
    /\ disk.seq >= 0 => disk.shown = disk.seq
    /\ phase = "open" /\ noted >= 0 => shown = noted

\* A flush that resolves has saved everything that had been reported when it was called,
\* also when a write before it failed or was under way (store-offline.ts:187-230).
FlushMeansSaved ==
    [][phase = "open" /\ phase' = "open" /\ Len(queue') < Len(queue)
        => queue[1].owed # "unsaved"]_vars

\* Only the last reconnect has a subscription, and a closed store has none; what the status
\* calls ready and not offline has one, and what it calls syncing has a reconnect under way
\* (store-offline.ts:330-433).
OneSubscription ==
    /\ DOMAIN subs \subseteq {gen}
    /\ phase # "open" => subs = <<>>
    /\ (phase = "open" /\ status.ready /\ ~status.offline) => gen \in DOMAIN subs
    /\ (phase = "open" /\ status.syncing) => gen \in DOMAIN runs

\* A store that stays open, over a storage that does not fail for ever, saves everything,
\* without another change or call (store-offline.ts:166-215).
Saved == phase = "open" => content = "saved" /\ ~undrained
SavedInTheEnd == <>[]Saved
=============================================================================
