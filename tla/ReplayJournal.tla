---------------------------- MODULE ReplayJournal ----------------------------
(***************************************************************************)
(* The emission side of a replay line with a pre-commit journal            *)
(* (src/Common/events/replay-listen.ts, emitBatchJournaled and what it     *)
(* calls).  A bulk is stored before any of its events is published, with   *)
(* onJournalBatch at once and with onJournal event by event; listeners and *)
(* the journal may emit again, which is queued; storage may refuse.        *)
(***************************************************************************)
EXTENDS Integers, Sequences

CONSTANTS MaxBulk, MaxEmits, MaxFaults    \* bounds

JournalAssumption == {MaxBulk, MaxEmits, MaxFaults} \subseteq Nat

VARIABLES
    atomic,          \* whether there is an onJournalBatch
    emitted,         \* the bulks emitted so far; an event is a bulk and a place in it
    queued,          \* re-entrant bulks
    bulk,            \* the bulk being published, 0 = none
    todo,            \* its events without a place in storage
    staged,          \* its events that are stored and not published
    stored,          \* what the journal has, by number
    head,
    published,       \* what the listeners were given, with its number
    refused,         \* bulks the journal refused
    dropped,         \* bulks accepted into a queue that was then emptied
    faults

vars == <<atomic, emitted, queued, bulk, todo, staged, stored, head, published,
          refused, dropped, faults>>

\* The events of bulk b when it has n of them.
EventsOf(b, n) == [i \in 1..n |-> [bulk |-> b, at |-> i, of |-> n]]

Init ==
    /\ atomic \in BOOLEAN
    /\ emitted = 0 /\ queued = <<>> /\ bulk = 0 /\ todo = <<>> /\ staged = <<>>
    /\ stored = <<>> /\ head = 0 /\ published = <<>>
    /\ refused = {} /\ dropped = {} /\ faults = 0

\* emitBatch from outside: the bulk is next.
Emit(n) ==
    /\ bulk = 0 /\ emitted < MaxEmits
    /\ emitted' = emitted + 1 /\ bulk' = emitted' /\ todo' = EventsOf(emitted', n)
    /\ UNCHANGED <<atomic, queued, staged, stored, head, published, refused, dropped, faults>>

\* Mutant: a bulk emitted from within is published on the spot.
EmitInside(n) ==
    /\ bulk # 0 /\ emitted < MaxEmits
    /\ emitted' = emitted + 1
    /\ todo' = EventsOf(emitted', n) \o todo
    /\ UNCHANGED <<atomic, queued, bulk, staged, stored, head, published, refused, dropped, faults>>

\* emitBatch from a listener or from the journal itself: it returns, the bulk waits.
EmitAgain(n) ==
    /\ bulk # 0 /\ emitted < MaxEmits
    /\ emitted' = emitted + 1
    /\ queued' = Append(queued, EventsOf(emitted', n))
    /\ UNCHANGED <<atomic, bulk, todo, staged, stored, head, published, refused, dropped, faults>>

\* Mutant: a journal that takes single events stages the bulk.
StoreFirstOnly ==
    /\ bulk # 0 /\ staged = <<>> /\ todo # <<>>
    /\ staged' = todo /\ todo' = <<>>
    /\ stored' = stored \o (IF atomic THEN todo ELSE <<Head(todo)>>)
    /\ UNCHANGED <<atomic, emitted, queued, bulk, head, published, refused, dropped, faults>>

\* publishJournalBatch: the journal takes the whole bulk, or its next event.
Store ==
    /\ bulk # 0 /\ staged = <<>> /\ todo # <<>>
    /\ staged' = IF atomic THEN todo ELSE <<Head(todo)>>
    /\ todo' = IF atomic THEN <<>> ELSE Tail(todo)
    /\ stored' = stored \o staged'
    /\ UNCHANGED <<atomic, emitted, queued, bulk, head, published, refused, dropped, faults>>

\* Mutant: the queue stays behind.
StoreFailsKeepsQueue ==
    /\ bulk # 0 /\ staged = <<>> /\ todo # <<>> /\ faults < MaxFaults
    /\ faults' = faults + 1
    /\ refused' = refused \cup {todo[1].bulk}
    /\ todo' = <<>> /\ bulk' = 0
    /\ UNCHANGED <<atomic, emitted, queued, staged, stored, head, published, dropped>>

\* The journal throws: the rest of the bulk and the whole queue are given up, and the
\* outermost emit throws.
StoreFails ==
    /\ bulk # 0 /\ staged = <<>> /\ todo # <<>> /\ faults < MaxFaults
    /\ faults' = faults + 1
    /\ refused' = refused \cup {todo[1].bulk}
    /\ dropped' = dropped \cup {queued[i][1].bulk : i \in DOMAIN queued}
    /\ queued' = <<>> /\ todo' = <<>> /\ bulk' = 0
    /\ UNCHANGED <<atomic, emitted, staged, stored, head, published>>

\* commitJournalEvent: the next number, and the listeners, whose errors are put off.
Commit ==
    /\ staged # <<>>
    /\ head' = head + 1
    /\ published' = Append(published, Head(staged))
    /\ staged' = Tail(staged)
    /\ UNCHANGED <<atomic, emitted, queued, bulk, todo, stored, refused, dropped, faults>>

\* The bulk is through: the next one of the queue, or the emit returns.
Finish ==
    /\ bulk # 0 /\ todo = <<>> /\ staged = <<>>
    /\ IF queued = <<>> THEN bulk' = 0 /\ UNCHANGED <<queued, todo>>
       ELSE bulk' = queued[1][1].bulk /\ todo' = queued[1] /\ queued' = Tail(queued)
    /\ UNCHANGED <<atomic, emitted, staged, stored, head, published, refused, dropped, faults>>

Next ==
    \/ \E n \in 1..MaxBulk : Emit(n) \/ EmitAgain(n)
    \/ Store \/ StoreFails \/ Commit \/ Finish

Spec == Init /\ [][Next]_vars

-----------------------------------------------------------------------------
(* Properties *)

Place == [bulk : 1..emitted, at : 1..MaxBulk, of : 1..MaxBulk]

\* Types; only a bulk that is being published has events to store or to publish.
TypeOK ==
    /\ atomic \in BOOLEAN /\ {emitted, head, faults} \subseteq Nat /\ bulk \in 0..emitted
    /\ queued \in Seq(Seq(Place)) /\ {todo, staged, stored, published} \subseteq Seq(Place)
    /\ refused \subseteq 1..emitted /\ dropped \subseteq 1..emitted
    /\ bulk = 0 => todo = <<>> /\ staged = <<>>

\* Nothing is published that is not stored, under another number, or twice, and what is
\* stored is always published, whatever throws in between.
StoredThenPublished == stored = published \o staged /\ head = Len(published)

\* The events of a bulk have consecutive numbers, whatever was emitted from within, a
\* journal that takes bulks has all of them or none, and bulks come in the order in
\* which they were emitted.
BulksStayWhole ==
    \A i \in DOMAIN stored :
        /\ stored[i].at > 1 => i > 1 /\ stored[i - 1] = [stored[i] EXCEPT !.at = @ - 1]
        /\ atomic /\ stored[i].at < stored[i].of
                => i < Len(stored) /\ stored[i + 1] = [stored[i] EXCEPT !.at = @ + 1]
        /\ i > 1 => stored[i - 1].bulk <= stored[i].bulk

\* When the outermost emit is back, every bulk was published to its last event, refused,
\* or given up with the queue behind a refused one; nothing is left for a later emit.
AllAccountedFor ==
    bulk = 0 =>
        /\ queued = <<>>
        /\ \A b \in (1..emitted) \ (refused \cup dropped) :
            \E i \in DOMAIN published : published[i].bulk = b /\ published[i].at = published[i].of
=============================================================================
