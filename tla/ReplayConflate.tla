--------------------------- MODULE ReplayConflate ---------------------------
(***************************************************************************)
(* The conflation gate of one client                                       *)
(* (src/Common/events/replay-conflate.ts, conflateReplay).  While the      *)
(* client's outgoing buffer is above highWater no event is sent to it: the *)
(* gate keeps the last event of each key, up to maxKeys of them, or else   *)
(* nothing at all, and makes up for it with those events or with a         *)
(* keyframe once the buffer is down to lowWater.  The client drops what    *)
(* its number says it has seen, and may lose its connection at any moment, *)
(* also in the middle of what the gate makes up.                           *)
(***************************************************************************)
EXTENDS Integers, Sequences, SequencesExt

CONSTANTS
    Keys,            \* the keys an event may be absolute for
    Unkeyed,         \* the key of an event that is not absolute for any
    Limits,          \* maxKeys; 0 also stands for a gate without keyOf
    HighWater, LowWater,
    MaxSeq, MaxOther, MaxDrops            \* bounds

GateAssumption ==
    /\ Unkeyed \notin Keys
    /\ Limits \subseteq Nat /\ {HighWater, LowWater, MaxSeq, MaxOther, MaxDrops} \subseteq Nat
    /\ LowWater <= HighWater

VARIABLES
    maxKeys,
    keys,            \* the key of each event of the line
    conflating,
    held,            \* the numbers held back, by last touch; or Dropped
    sent,            \* what was sent and not yet received
    flushed,         \* how many of those have left the buffer
    other,           \* what else is in the buffer
    link,            \* "off", "asked", "answered" or "live"
    last, view,      \* the client: its number, the events behind its state
    queue,           \* its live queue
    drops

gateVars == <<conflating, held>>
bufferVars == <<sent, flushed, other>>
clientVars == <<link, last, view, queue, drops>>
vars == <<maxKeys, keys, gateVars, bufferVars, clientVars>>

head == Len(keys)
\* Mutant: the gate's own envelopes are not counted.
pendingOfOthers == other

pending == Len(sent) - flushed + other

\* The episode ends with a keyframe.
Dropped == <<0>>

\* An envelope and the events it folds in.
Event(s) == [kind |-> "event", seq |-> s, from |-> s]
Keyframe(s) == [kind |-> "keyframe", seq |-> s, from |-> 1]
Answer(from) == [kind |-> "answer", seq |-> head, from |-> from]
Folds(e) == e.from..e.seq

Init ==
    /\ maxKeys \in Limits /\ keys = <<>>
    /\ conflating = FALSE /\ held = Dropped
    /\ sent = <<>> /\ flushed = 0 /\ other = 0
    /\ link = "off" /\ last = 0 /\ view = {} /\ queue = <<>> /\ drops = 0

-----------------------------------------------------------------------------
(* The gate *)

\* Mutant: an envelope takes the place of the first one of its key.
AbsorbInPlace(h, s, k) ==
    LET at == {i \in DOMAIN h : keys[h[i]] = k} IN
    IF h = Dropped \/ k = Unkeyed \/ (at = {} /\ Len(h) >= maxKeys) THEN Dropped
    ELSE IF at = {} THEN Append(h, s) ELSE [i \in DOMAIN h |-> IF i \in at THEN s ELSE h[i]]

\* Mutant: the keys of an episode are not counted.
AbsorbAll(h, s, k) ==
    LET at == {i \in DOMAIN h : keys[h[i]] = k} IN
    IF h = Dropped \/ k = Unkeyed THEN Dropped
    ELSE Append(IF at = {} THEN h ELSE RemoveAt(h, CHOOSE i \in at : TRUE), s)

\* absorb: the envelope replaces the one of its key and goes to the end; an unkeyed
\* one, or one key too many, leaves the episode to a keyframe.
Absorb(h, s, k) ==
    LET at == {i \in DOMAIN h : keys[h[i]] = k} IN
    IF h = Dropped \/ k = Unkeyed \/ (at = {} /\ Len(h) >= maxKeys) THEN Dropped
    ELSE Append(IF at = {} THEN h ELSE RemoveAt(h, CHOOSE i \in at : TRUE), s)

\* recoverIfDrained, for a line whose head is s.
Recovery(h, s) == IF h = Dropped THEN <<Keyframe(s)>> ELSE [i \in DOMAIN h |-> Event(h[i])]

\* gateForward: send, or absorb and look whether the buffer has drained.
GateForward(k) ==
    LET s == head + 1
        h == Absorb(IF conflating THEN held ELSE <<>>, s, k)
    IN
    IF ~conflating /\ pending <= HighWater
    THEN sent' = Append(sent, Event(s)) /\ UNCHANGED gateVars
    ELSE IF pending <= LowWater
    THEN sent' = sent \o Recovery(h, s) /\ conflating' = FALSE /\ held' = Dropped
    ELSE conflating' = TRUE /\ held' = h /\ UNCHANGED sent

\* The line emits; the gate of a connected client hears of it at once.
Emit(k) ==
    /\ head < MaxSeq
    /\ keys' = Append(keys, k)
    /\ IF link = "off" THEN UNCHANGED <<sent, gateVars>> ELSE GateForward(k)
    /\ UNCHANGED <<maxKeys, flushed, other, clientVars>>

\* Mutant: without events nobody looks at the buffer.
PollNever == FALSE /\ UNCHANGED vars

\* The poll timer of an episode finds the buffer drained.
Poll ==
    /\ conflating /\ pending <= LowWater
    /\ sent' = sent \o Recovery(held, head) /\ conflating' = FALSE /\ held' = Dropped
    /\ UNCHANGED <<maxKeys, keys, flushed, other, clientVars>>

\* A connection and its gate; the client taps the gate's line and asks for the frame
\* after its number.
Connect ==
    /\ link = "off"
    /\ link' = "asked" /\ conflating' = FALSE /\ held' = Dropped
    /\ UNCHANGED <<maxKeys, keys, bufferVars, last, view, queue, drops>>

\* The facade's frame and keyframe go past the gate, to the line.
AnswerFrame ==
    /\ link = "asked"
    /\ link' = "answered"
    /\ \E from \in {1, last + 1} : sent' = Append(sent, Answer(from))
    /\ UNCHANGED <<maxKeys, keys, gateVars, flushed, other, last, view, queue, drops>>

\* close() of the gate: what was held or on its way is gone.
Drop ==
    /\ link # "off" /\ drops < MaxDrops
    /\ drops' = drops + 1
    /\ link' = "off" /\ queue' = <<>>
    /\ sent' = <<>> /\ flushed' = 0 /\ other' = 0
    /\ conflating' = FALSE /\ held' = Dropped
    /\ UNCHANGED <<maxKeys, keys, last, view>>

-----------------------------------------------------------------------------
(* The buffer and the client *)

Flush ==
    /\ flushed < Len(sent)
    /\ flushed' = flushed + 1
    /\ UNCHANGED <<maxKeys, keys, gateVars, sent, other, clientVars>>

OtherTraffic ==
    /\ link # "off" /\ other < MaxOther
    /\ other' = other + 1
    /\ UNCHANGED <<maxKeys, keys, gateVars, sent, flushed, clientVars>>

OtherFlushes ==
    /\ other > 0
    /\ other' = other - 1
    /\ UNCHANGED <<maxKeys, keys, gateVars, sent, flushed, clientVars>>

\* replaySubscribe: of a sequence of envelopes a client with the number n takes those
\* above n and above what came before them.
Taken(q, n) == {i \in DOMAIN q : q[i].seq > n /\ \A j \in 1..(i - 1) : q[j].seq < q[i].seq}
Contents(q, n) == UNION {Folds(q[i]) : i \in Taken(q, n)}
Number(q, n) ==
    IF Taken(q, n) = {} THEN n
    ELSE q[CHOOSE i \in Taken(q, n) : \A j \in Taken(q, n) : j <= i].seq

\* What the client works off when an envelope comes: until the answer of its catch-up
\* the live line waits in its queue.
Heard(e) ==
    IF e.kind = "answer" THEN <<e>> \o queue ELSE IF link = "live" THEN <<e>> ELSE <<>>

Receive ==
    /\ flushed > 0
    /\ sent' = Tail(sent) /\ flushed' = flushed - 1
    /\ LET e == Head(sent) IN
        /\ last' = Number(Heard(e), last) /\ view' = view \cup Contents(Heard(e), last)
        /\ queue' = IF e.kind = "answer" THEN <<>>
                    ELSE IF link = "live" THEN queue ELSE Append(queue, e)
        /\ link' = IF e.kind = "answer" THEN "live" ELSE link
    /\ UNCHANGED <<maxKeys, keys, gateVars, other, drops>>

Next ==
    \/ \E k \in Keys \cup {Unkeyed} : Emit(k)
    \/ Poll \/ Connect \/ AnswerFrame \/ Drop
    \/ Flush \/ OtherTraffic \/ OtherFlushes \/ Receive

Spec == Init /\ [][Next]_vars

\* The timer fires, the transport works, and now and then the rest of its traffic is
\* out of the way; nobody is obliged to emit.
Fairness ==
    /\ SF_vars(Poll) /\ WF_vars(Connect) /\ WF_vars(AnswerFrame)
    /\ WF_vars(Flush) /\ WF_vars(Receive)
    /\ SF_vars(OtherFlushes) /\ []<>(other = 0)

FairSpec == Spec /\ Fairness

-----------------------------------------------------------------------------
(* Properties *)

Envelope == [kind : {"event", "keyframe", "answer"}, seq : Nat, from : Nat]

\* Types; outside an episode nothing is held, and within one at most maxKeys events.
TypeOK ==
    /\ maxKeys \in Limits /\ keys \in Seq(Keys \cup {Unkeyed})
    /\ conflating \in BOOLEAN /\ held \in Seq(0..head)
    /\ held # Dropped => conflating /\ Len(held) <= maxKeys
    /\ sent \in Seq(Envelope) /\ flushed \in 0..Len(sent) /\ other \in Nat
    /\ link \in {"off", "asked", "answered", "live"}
    /\ last \in 0..head /\ view \subseteq 1..head /\ queue \in Seq(Envelope) /\ drops \in Nat

\* A state made of the events in seen is the line's state when every event is in it or
\* was overwritten by a later one of its key.
SameState(seen) ==
    \A e \in 1..head : e \in seen \/ (keys[e] # Unkeyed /\ \E f \in seen : f > e /\ keys[f] = keys[e])

\* What will still reach the client over this connection if nothing else happens.
OnItsWay ==
    sent \o (IF link = "asked" THEN <<Answer(last + 1)>> ELSE <<>>)
         \o (IF conflating THEN Recovery(held, head) ELSE <<>>)

\* In the order in which the client will have worked it off.
InTheEnd ==
    LET s == OnItsWay
        p == CHOOSE i \in DOMAIN s : s[i].kind = "answer"
    IN IF link = "live" THEN s ELSE <<s[p]>> \o queue \o RemoveAt(s, p)

\* Nothing the gate dropped is forgotten: at every moment, also in the middle of an
\* episode, what is on its way and what the gate will make up takes the client to the
\* line's state, whatever its number makes it drop, and although it may have resumed by
\* that number after a recovery it saw only half of.
NothingForgotten == link # "off" => SameState(view \cup Contents(InTheEnd, last))

\* What the gate puts into the buffer of a client that does not read is bounded by its
\* thresholds and keys, not by the events ("no queue").
BufferBounded ==
    LET most == IF HighWater + 1 > LowWater + maxKeys THEN HighWater + 1 ELSE LowWater + maxKeys
    IN Len(sent) - flushed <= most + 1

\* Every client that stays connected ends up with the state of the line, also when the
\* line falls silent in the middle of an episode.
UpToDate == link = "live" /\ SameState(view)
CatchesUp == <>[]UpToDate

=============================================================================
