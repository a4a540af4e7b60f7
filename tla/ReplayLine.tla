----------------------------- MODULE ReplayLine -----------------------------
(***************************************************************************)
(* The producer side of a replay line (src/Common/events/replay-listen.ts):*)
(* every emitted event gets the next sequence number and enters a bounded  *)
(* journal, a window that ends at the head.  A consumer that has everything*)
(* up to some number asks the journal for the rest; when the window no     *)
(* longer reaches back that far it is given a keyframe, the whole state at *)
(* the head.                                                               *)
(*                                                                         *)
(* The payload of an event is abstracted to its number: what matters is    *)
(* which events a consumer's state has folded in, and in which order.      *)
(***************************************************************************)
EXTENDS Integers, Sequences

CONSTANTS
    FirstSeq,     \* the number before the first event (0, or a restored head)
    MaxSeq,       \* bound: the producer stops emitting here
    History,      \* count cap of the journal, 0 = no count cap
    KeepMs,       \* TRUE when the journal is (also) an age window
    HasKeyframe   \* TRUE when the line has a current-provider

ASSUME LineAssumption ==
    /\ FirstSeq \in Nat
    /\ MaxSeq \in Nat
    /\ History \in Nat
    /\ KeepMs \in BOOLEAN
    /\ HasKeyframe \in BOOLEAN

VARIABLES
    head,         \* number of the last event
    oldest        \* the journal retains oldest..head (empty when oldest = head + 1)

lineVars == <<head, oldest>>

\* An envelope: an event of the line, or the whole state at its number.
Event(s) == [seq |-> s, keyframe |-> FALSE]
StateAt(s) == [seq |-> s, keyframe |-> TRUE]
Envelope == [seq : Nat, keyframe : BOOLEAN]

LineInit ==
    /\ head = FirstSeq
    /\ oldest = FirstSeq + 1

\* Mutant: the journal keeps one event less than its cap.
OldestOffByOne ==
    LET next == head + 1 IN
    IF History = 0
    THEN IF KeepMs THEN oldest ELSE next + 1
    ELSE IF next - oldest >= History THEN next - History + 2 ELSE oldest

\* Without a count cap or an age target the journal keeps nothing; the count
\* cap is applied last and wins.
OldestAfterEmit ==
    LET next == head + 1 IN
    IF History = 0
    THEN IF KeepMs THEN oldest ELSE next + 1
    ELSE IF next - oldest >= History THEN next - History + 1 ELSE oldest

Emit ==
    /\ head < MaxSeq
    /\ head' = head + 1
    /\ oldest' = OldestAfterEmit

\* Age eviction: lazy in the code (on a write and before every read), so at any
\* read any prefix of the window may be gone.
Expire ==
    /\ KeepMs
    /\ \E o \in (oldest + 1)..(head + 1) : oldest' = o
    /\ UNCHANGED head

\* journalSince(seq) has an answer: the consumer is at the head, or the window
\* still holds the event after seq.  A seq from the future is another lifetime
\* of the server and is never answered from the journal.
JournalHas(s) ==
    \/ s = head
    \/ s < head /\ oldest <= head /\ oldest <= s + 1

TailAfter(s) == [i \in 1..(head - s) |-> Event(s + i)]

\* frame(seq): exact tail, else a keyframe, else the loud failure of a line that
\* has neither.
FrameAnswers(s) == JournalHas(s) \/ HasKeyframe
FrameAfter(s) == IF JournalHas(s) THEN TailAfter(s) ELSE <<StateAt(head)>>

\* The window lies within the events emitted, is never longer than its cap, and
\* without an age target a capped journal keeps the last event.
LineTypeOK ==
    /\ head \in FirstSeq..(IF MaxSeq > FirstSeq THEN MaxSeq ELSE FirstSeq)
    /\ oldest \in (FirstSeq + 1)..(head + 1)
    /\ head > FirstSeq /\ History > 0 => head - oldest < History
    /\ head > FirstSeq /\ History > 0 /\ ~KeepMs => oldest <= head
=============================================================================
