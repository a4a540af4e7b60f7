-------------------------- MODULE ReplaySubscribe --------------------------
(***************************************************************************)
(* One consumer of a replay line over a transport that may drop            *)
(* (src/Common/events/replay-wire.ts, replaySubscribe).  The consumer taps *)
(* the live line first, then asks for what it missed; live events that     *)
(* arrive meanwhile wait in a queue, and are delivered after the answer,   *)
(* without duplicates.  A disconnect abandons the catch-up under way and   *)
(* the next connection starts a new one from the last delivered number.    *)
(***************************************************************************)
EXTENDS ReplayLine

CONSTANTS
    CatchUpMode,    \* "frame" | "tail"
    GapPolicy,      \* "keyframe" | "error"
    ForeignSince,   \* a resume point of another server lifetime, beyond MaxSeq
    CallbackThrows, \* TRUE when the consumer's callback may throw
    MaxDrops        \* bound on the number of disconnects

ASSUME SubscribeAssumption ==
    /\ CatchUpMode \in {"frame", "tail"}
    /\ GapPolicy \in {"keyframe", "error"}
    /\ ForeignSince \in Nat /\ ForeignSince > MaxSeq /\ ForeignSince > FirstSeq
    /\ CallbackThrows \in BOOLEAN
    /\ MaxDrops \in Nat

VARIABLES
    \* the transport
    up,             \* connected
    drops,          \* disconnects so far
    subscribed,     \* the server has the live line of this connection
    wire,           \* live events in flight, in order
    calls,          \* catch-up calls: asked, or answered and not yet resumed
    \* the subscriber
    last,           \* lastDelivered
    replaying,      \* live events are queued instead of delivered
    gen,            \* recoveryGeneration
    queue,          \* live events waiting for the catch-up to end
    deliveryQueue,  \* envelopes handed to deliver(), the next one first
    calling,        \* the event whose callback is running now, or NoCallback
    stage,          \* where the catch-up that runs now is: none, tail, drain
    stageGen,       \* the generation that catch-up belongs to
    ready,          \* readySettled
    closed,
    failed,         \* closed by failRecovery
    \* the consumer behind the callback
    seen,           \* the events its state has folded in
    foreign,        \* its state is of another lifetime of the line
    byKeyframe      \* its last update was a keyframe

netVars == <<up, drops, subscribed, wire, calls>>
subVars == <<last, replaying, gen, queue, deliveryQueue, calling, stage,
             stageGen, ready, closed, failed>>
appVars == <<seen, foreign, byKeyframe>>
vars == <<lineVars, netVars, subVars, appVars>>

NoCallback == -1

Call == [gen : Nat, kind : {"frame", "since", "keyframe"}, point : Nat \cup {-1},
         initial : BOOLEAN, status : {"asked", "answered", "missing", "refused"},
         envs : Seq(Envelope)]

Ask(g, kind, point, initial) ==
    [gen |-> g, kind |-> kind, point |-> point, initial |-> initial,
     status |-> "asked", envs |-> <<>>]

\* What a catch-up asks for first: nothing seen -> a keyframe.
FirstKind(point) ==
    IF point < 0 THEN "keyframe"
    ELSE IF CatchUpMode = "frame" THEN "frame" ELSE "since"

\* startCatchUp: a new generation, anchored at the last delivered number.
StartCatchUp(initial) ==
    /\ replaying' = TRUE
    /\ gen' = gen + 1
    /\ calls' = calls \cup {Ask(gen + 1, FirstKind(last), last, initial)}

Init ==
    /\ LineInit
    /\ up = TRUE /\ drops = 0 /\ subscribed = FALSE /\ wire = <<>>
    /\ \/ last = -1 /\ foreign = FALSE /\ seen = {}
       \/ last = FirstSeq /\ foreign = FALSE /\ seen = 1..FirstSeq
       \/ last = ForeignSince /\ foreign = TRUE /\ seen = {}
    /\ byKeyframe = FALSE
    /\ replaying = TRUE /\ gen = 1
    /\ queue = <<>> /\ deliveryQueue = <<>> /\ calling = NoCallback
    /\ calls = {Ask(1, FirstKind(last), last, TRUE)}
    /\ stage = "none" /\ stageGen = 0
    /\ ready = FALSE /\ closed = FALSE /\ failed = FALSE

\* closeSubscription: terminal; nothing that is queued is delivered any more.
CloseSubscription ==
    /\ closed' = TRUE
    /\ ready' = TRUE
    /\ gen' = gen + 1
    /\ queue' = <<>> /\ deliveryQueue' = <<>>
    /\ subscribed' = FALSE /\ wire' = <<>>

FailRecovery == CloseSubscription /\ failed' = TRUE

\* Nothing of the subscriber is on the stack: no callback, no delivery loop, no
\* catch-up continuation.
Settled == calling = NoCallback /\ deliveryQueue = <<>> /\ stage = "none"

\* When somebody else's code can call into the subscriber: between its own
\* turns, or from inside the consumer's callback.
Callable == Settled \/ calling # NoCallback

-----------------------------------------------------------------------------
(* The server and the transport *)

EmitLive ==
    /\ Emit
    /\ wire' = IF subscribed THEN Append(wire, head + 1) ELSE wire
    /\ UNCHANGED <<up, drops, subscribed, calls, subVars, appVars>>

ExpireJournal == Expire /\ UNCHANGED <<netVars, subVars, appVars>>

ServerSubscribes ==
    /\ up /\ ~subscribed /\ ~closed
    /\ subscribed' = TRUE
    /\ UNCHANGED <<lineVars, up, drops, wire, calls, subVars, appVars>>

Answer(c) ==
    IF c.kind = "keyframe"
    THEN IF HasKeyframe
         THEN [c EXCEPT !.status = "answered", !.envs = <<StateAt(head)>>]
         ELSE [c EXCEPT !.status = "missing"]
    ELSE IF c.kind = "since"
    THEN IF JournalHas(c.point)
         THEN [c EXCEPT !.status = "answered", !.envs = TailAfter(c.point)]
         ELSE [c EXCEPT !.status = "missing"]
    ELSE IF FrameAnswers(c.point)
         THEN [c EXCEPT !.status = "answered", !.envs = FrameAfter(c.point)]
         ELSE [c EXCEPT !.status = "refused"]

\* Mutant: the catch-up is asked for before the live line is tapped.
AnswersBeforeTap ==
    \E c \in calls :
        /\ c.status = "asked"
        /\ up
        /\ calls' = (calls \ {c}) \cup {Answer(c)}
        /\ UNCHANGED <<lineVars, up, drops, subscribed, wire, subVars, appVars>>

\* The transport is ordered: the call reaches the server after the subscription
\* of the same connection.
ServerAnswers ==
    \E c \in calls :
        /\ c.status = "asked"
        /\ up /\ subscribed
        /\ calls' = (calls \ {c}) \cup {Answer(c)}
        /\ UNCHANGED <<lineVars, up, drops, subscribed, wire, subVars, appVars>>

\* Unanswered calls are rejected by the transport; an answer that had already
\* resolved its promise is still resumed, in a generation that is over.
\* The consumer's own callback may be what drops the transport.
Disconnect ==
    /\ up /\ drops < MaxDrops /\ Callable
    /\ up' = FALSE /\ drops' = drops + 1
    /\ subscribed' = FALSE /\ wire' = <<>>
    /\ calls' = {c \in calls : c.status # "asked"}
    /\ IF closed THEN UNCHANGED subVars
       ELSE /\ replaying' = TRUE /\ gen' = gen + 1 /\ queue' = <<>>
            /\ UNCHANGED <<last, deliveryQueue, calling, stage, stageGen, ready, closed, failed>>
    /\ UNCHANGED <<lineVars, appVars>>

\* Mutant: only an unfinished first catch-up is started again.
ConnectOnce ==
    /\ ~up /\ Settled
    /\ up' = TRUE
    /\ IF closed \/ ready THEN UNCHANGED <<calls, subVars>>
       ELSE /\ StartCatchUp(TRUE)
            /\ UNCHANGED <<last, queue, deliveryQueue, calling, stage, stageGen, ready, closed, failed>>
    /\ UNCHANGED <<lineVars, drops, subscribed, wire, appVars>>

Connect ==
    /\ ~up /\ Settled
    /\ up' = TRUE
    /\ IF closed THEN UNCHANGED <<calls, subVars>>
       ELSE /\ StartCatchUp(~ready)
            /\ UNCHANGED <<last, queue, deliveryQueue, calling, stage, stageGen, ready, closed, failed>>
    /\ UNCHANGED <<lineVars, drops, subscribed, wire, appVars>>

\* The server ends the logical line (a gate that failed loudly, a closed line).
LineEnds ==
    /\ subscribed /\ ~closed /\ Callable
    /\ FailRecovery
    /\ UNCHANGED <<lineVars, up, drops, calls, last, replaying, calling, stage,
                   stageGen, appVars>>

-----------------------------------------------------------------------------
(* The subscriber *)

\* Mutant: live events are delivered during a catch-up.
LiveTapDirect ==
    /\ wire # <<>> /\ ~closed /\ Callable
    /\ wire' = Tail(wire)
    /\ deliveryQueue' = Append(deliveryQueue, Event(Head(wire)))
    /\ UNCHANGED <<lineVars, up, drops, subscribed, calls, last, replaying, gen, queue,
                   calling, stage, stageGen, ready, closed, failed, appVars>>

\* liveTap; a callback may emit synchronously, so it may run inside a delivery.
LiveTap ==
    /\ wire # <<>> /\ ~closed /\ Callable
    /\ wire' = Tail(wire)
    /\ IF replaying
       THEN queue' = Append(queue, Event(Head(wire))) /\ UNCHANGED deliveryQueue
       ELSE deliveryQueue' = Append(deliveryQueue, Event(Head(wire))) /\ UNCHANGED queue
    /\ UNCHANGED <<lineVars, up, drops, subscribed, calls, last, replaying, gen,
                   calling, stage, stageGen, ready, closed, failed, appVars>>

\* The callback: an event is folded into the consumer's state, a keyframe replaces it.
Fold(e) ==
    /\ seen' = IF e.keyframe THEN 1..e.seq ELSE seen \cup {e.seq}
    /\ foreign' = (foreign /\ ~e.keyframe)
    /\ byKeyframe' = e.keyframe

NonContiguous(e) == GapPolicy = "error" /\ last >= 0 /\ e.seq # last + 1

\* One turn of the delivery loop (deliver / deliverOne): what was delivered
\* already is dropped, else the callback runs and the number is committed after
\* it returned.
Delivering == calling = NoCallback /\ deliveryQueue # <<>> /\ ~closed

SkipDelivered ==
    /\ Delivering
    /\ Head(deliveryQueue).seq <= last
    /\ deliveryQueue' = Tail(deliveryQueue)
    /\ UNCHANGED <<lineVars, netVars, last, replaying, gen, queue, calling, stage,
                   stageGen, ready, closed, failed, appVars>>

\* Mutant: what was delivered already is not dropped.
CallbackStartsAgain ==
    /\ Delivering
    /\ LET e == Head(deliveryQueue) IN
        /\ ~NonContiguous(e)
        /\ calling' = e.seq
        /\ Fold(e)
    /\ deliveryQueue' = Tail(deliveryQueue)
    /\ UNCHANGED <<lineVars, netVars, last, replaying, gen, queue, stage, stageGen,
                   ready, closed, failed>>

CallbackStarts ==
    /\ Delivering
    /\ LET e == Head(deliveryQueue) IN
        /\ e.seq > last
        /\ ~NonContiguous(e)
        /\ calling' = e.seq
        /\ Fold(e)
    /\ deliveryQueue' = Tail(deliveryQueue)
    /\ UNCHANGED <<lineVars, netVars, last, replaying, gen, queue, stage, stageGen,
                   ready, closed, failed>>

CallbackReturns ==
    /\ calling # NoCallback
    /\ last' = calling
    /\ calling' = NoCallback
    /\ UNCHANGED <<lineVars, netVars, replaying, gen, queue, deliveryQueue, stage,
                   stageGen, ready, closed, failed, appVars>>

\* A sequence gap under the strict policy, or a callback that throws before it
\* changed anything: terminal, and the number of the event is not committed.
DeliveryFails ==
    /\ Delivering
    /\ LET e == Head(deliveryQueue) IN
        e.seq > last /\ (NonContiguous(e) \/ CallbackThrows)
    /\ FailRecovery
    /\ UNCHANGED <<lineVars, up, drops, calls, last, replaying, calling, stage,
                   stageGen, appVars>>

\* Mutant: a continuation checks only that the subscription is open.
IsOpen(g) == ~closed

IsCurrent(g) == ~closed /\ g = gen

\* deliverSorted(envelopes, initial) and the keyframe branch: an initial attach
\* accepts a restarted sequence space, a reconnect never does.
ResetPoint(c) ==
    IF c.initial /\ c.kind # "since" /\ c.envs # <<>> /\ c.envs[1].seq <= last
    THEN c.envs[1].seq - 1
    ELSE last

\* The answer of the current generation is delivered ...
ResumeAnswered ==
    \E c \in calls :
        /\ Settled /\ IsCurrent(c.gen)
        /\ c.status = "answered"
        /\ calls' = calls \ {c}
        /\ last' = ResetPoint(c)
        /\ deliveryQueue' = c.envs
        /\ stage' = "tail" /\ stageGen' = c.gen
        /\ UNCHANGED <<lineVars, up, drops, subscribed, wire, replaying, gen, queue,
                       calling, ready, closed, failed, appVars>>

\* Mutant: the gap policy is not asked.
ResumeMissingAnyway ==
    \E c \in calls :
        /\ Settled /\ IsCurrent(c.gen)
        /\ c.status = "missing" /\ c.kind = "since"
        /\ calls' = (calls \ {c}) \cup {Ask(c.gen, "keyframe", c.point, c.initial)}
        /\ UNCHANGED <<stage, stageGen>>
        /\ UNCHANGED <<lineVars, up, drops, subscribed, wire, last, replaying, gen,
                       queue, deliveryQueue, calling, ready, closed, failed, appVars>>

\* ... a missing tail falls back to a keyframe, a missing keyframe is fine for
\* a consumer that had nothing ...
ResumeMissing ==
    \E c \in calls :
        /\ Settled /\ IsCurrent(c.gen)
        /\ c.status = "missing"
        /\ \/ /\ c.kind = "since" /\ GapPolicy = "keyframe"
              /\ calls' = (calls \ {c}) \cup {Ask(c.gen, "keyframe", c.point, c.initial)}
              /\ UNCHANGED <<stage, stageGen>>
           \/ /\ c.kind = "keyframe" /\ c.point < 0
              /\ calls' = calls \ {c}
              /\ stage' = "tail" /\ stageGen' = c.gen
        /\ UNCHANGED <<lineVars, up, drops, subscribed, wire, last, replaying, gen,
                       queue, deliveryQueue, calling, ready, closed, failed, appVars>>

\* ... and everything else is the terminal error.
ResumeFails ==
    \E c \in calls :
        /\ Settled /\ IsCurrent(c.gen)
        /\ \/ c.status = "refused"
           \/ c.status = "missing" /\ c.kind = "since" /\ GapPolicy = "error"
           \/ c.status = "missing" /\ c.kind = "keyframe" /\ c.point >= 0
        /\ calls' = calls \ {c}
        /\ FailRecovery
        /\ UNCHANGED <<lineVars, up, drops, last, replaying, calling, stage, stageGen,
                       appVars>>

\* A continuation whose generation is over returns without a trace.
ResumeStale ==
    \E c \in calls :
        /\ Settled /\ ~IsCurrent(c.gen)
        /\ calls' = calls \ {c}
        /\ UNCHANGED <<lineVars, up, drops, subscribed, wire, subVars, appVars>>

\* After the answer: give up when the generation is over, else drain the queue
\* until nothing is left in it, then go live.
Returned(st) == stage = st /\ calling = NoCallback /\ deliveryQueue = <<>>

TailDelivered ==
    /\ Returned("tail")
    /\ stage' = IF IsCurrent(stageGen) THEN "drain" ELSE "none"
    /\ UNCHANGED <<lineVars, netVars, last, replaying, gen, queue, deliveryQueue,
                   calling, stageGen, ready, closed, failed, appVars>>

DrainQueue ==
    /\ Returned("drain") /\ queue # <<>>
    /\ deliveryQueue' = queue /\ queue' = <<>>
    /\ UNCHANGED <<lineVars, netVars, last, replaying, gen, calling, stage, stageGen,
                   ready, closed, failed, appVars>>

GoLive ==
    /\ Returned("drain") /\ queue = <<>>
    /\ stage' = "none"
    /\ replaying' = FALSE
    /\ ready' = TRUE
    /\ UNCHANGED <<lineVars, netVars, last, gen, queue, deliveryQueue, calling,
                   stageGen, closed, failed, appVars>>

Off ==
    /\ ~closed /\ Callable
    /\ CloseSubscription
    /\ UNCHANGED <<lineVars, up, drops, calls, last, replaying, calling, stage,
                   stageGen, failed, appVars>>

-----------------------------------------------------------------------------
Next ==
    \/ EmitLive \/ ExpireJournal
    \/ ServerSubscribes \/ ServerAnswers \/ LineEnds
    \/ Disconnect \/ Connect
    \/ LiveTap
    \/ SkipDelivered \/ CallbackStarts \/ CallbackReturns \/ DeliveryFails
    \/ ResumeAnswered \/ ResumeMissing \/ ResumeFails \/ ResumeStale
    \/ TailDelivered \/ DrainQueue \/ GoLive
    \/ Off

\* What the consumer's event loop runs: continuations of the catch-up, the delivery.
EventLoop ==
    \/ SkipDelivered \/ CallbackStarts \/ DeliveryFails \/ CallbackReturns
    \/ ResumeAnswered \/ ResumeMissing \/ ResumeFails \/ ResumeStale
    \/ TailDelivered \/ DrainQueue \/ GoLive

\* The event loop keeps running, the transport delivers while it is up and comes
\* back after a drop; nothing obliges the producer to emit or anyone to close.
Fairness ==
    /\ WF_vars(ServerSubscribes) /\ WF_vars(ServerAnswers) /\ WF_vars(Connect)
    /\ WF_vars(LiveTap) /\ WF_vars(EventLoop)

Spec == Init /\ [][Next]_vars
FairSpec == Spec /\ Fairness

-----------------------------------------------------------------------------
(* Properties *)

TypeOK ==
    /\ LineTypeOK
    /\ up \in BOOLEAN /\ drops \in 0..MaxDrops /\ subscribed \in BOOLEAN
    /\ wire \in Seq(Nat)
    /\ \A c \in calls : c \in Call
    /\ last \in Nat \cup {-1}
    /\ replaying \in BOOLEAN /\ gen \in Nat
    /\ queue \in Seq(Envelope) /\ deliveryQueue \in Seq(Envelope)
    /\ calling \in Nat \cup {NoCallback}
    /\ stage \in {"none", "tail", "drain"} /\ stageGen \in Nat
    /\ ready \in BOOLEAN /\ closed \in BOOLEAN /\ failed \in BOOLEAN
    /\ seen \subseteq Nat /\ foreign \in BOOLEAN /\ byKeyframe \in BOOLEAN

\* The number the consumer is at, the event its callback works on included.
Position == IF calling = NoCallback THEN last ELSE calling

\* The consumer's state has no hole: whatever it has folded in is everything
\* from some event up to its position, everything from the first one when the
\* line has keyframes; and no event of this line is ever folded into a state
\* that belongs to another lifetime of it.
NoHole ==
    /\ foreign => seen = {}
    /\ \A a \in seen : a <= Position /\ a..Position \subseteq seen
    /\ (HasKeyframe /\ ~foreign /\ Position >= 0) => seen = 1..Position

\* Nothing is lost while live: when the subscriber is live and at rest, every
\* event it has not delivered is still on the wire to it.  (A quiet line would
\* otherwise hide the loss until its next event.)
LiveIsComplete ==
    (~replaying /\ ~closed /\ up /\ Settled /\ last >= 0) =>
        \A s \in (last + 1)..head : \E i \in 1..Len(wire) : wire[i] = s

\* The resume point moves back only while the first catch-up replaces a state
\* of another lifetime; a reconnect is anchored at the last delivered number.
NeverBackwards == [][last' < last => (~ready /\ foreign)]_vars

\* Once the transport has stopped dropping, the subscriber ends up live at the
\* head, or closed: it is never stuck in a catch-up.
CatchesUp == <>[](closed \/ (up /\ ~replaying /\ last = head))

\* The subscriber keeps the promise made to every consumer of a line.
View == INSTANCE ReplicaView WITH produced <- head, view <- seen
KeepsPromise == View!Spec
=============================================================================
