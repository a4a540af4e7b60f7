---------------------------- MODULE ReplayRoute ----------------------------
(***************************************************************************)
(* A consumer over a replaceable route (src/Common/events/replay-route.ts, *)
(* replayRouteSubscribe).  Several routes carry the same line, each with a *)
(* lag and a journal of its own.  A switch attaches a new slot, catches up *)
(* over it from the last delivered number while the old slot stays live,   *)
(* and closes the old one when the new one is ready; events that both      *)
(* carry are dropped by number.  Switches are serialized; a line or a call *)
(* may fail, a remote may never answer, the user may leave at any moment,  *)
(* also from inside the callback.                                          *)
(***************************************************************************)
EXTENDS Integers, Sequences, Functions

CONSTANTS
    Routes,
    FrameRoutes,     \* the routes whose remote has a `frame` member
    LateRoutes,      \* those that are one event behind at the start
    FirstSeq, MaxSeq, HasKeyframe,
    Callbacks,       \* what callbacks may do: throw, have their line emit meanwhile
    MaxSwitches      \* bound on the switches

\* Some route carries all that was produced.  A callback that has its line emit and then
\* throws takes events of the other route with it: the two are taken apart.
RouteAssumption ==
    /\ FrameRoutes \subseteq Routes /\ LateRoutes \subseteq Routes /\ LateRoutes # Routes
    /\ FirstSeq \in Nat \ {0} /\ MaxSeq \in Nat /\ MaxSwitches \in Nat
    /\ HasKeyframe \in BOOLEAN
    /\ Callbacks \subseteq {{}, {"throws"}, {"reenters"}}

VARIABLES
    heads,           \* per route: the last event it carries
    callback,        \* what the consumer's callback may do
    chain,           \* switchChain: the routes of the switches that wait
    slot,            \* the slots that are open or have an answer to resume, by number
    attached,        \* number of the last slot
    pending,         \* the slot whose readiness doSwitch awaits, 0 = none
    outcome,         \* what settled slot.ready
    active,          \* 0 = null
    last,            \* lastDelivered
    closed,
    deliveryQueue,
    calling,         \* the envelope whose callback runs, or Nothing
    owner,           \* the slot whose deliver() runs the delivery loop
    working,         \* the slot whose catch-up continuation runs, 0 = none
    rest,            \* what that continuation has still to deliver of its answer
    seen             \* the events folded into the consumer's state

lineVars == <<heads, callback>>
switchVars == <<chain, attached, pending, outcome, active>>
loopVars == <<last, deliveryQueue, calling, owner, working, rest, seen>>
vars == <<lineVars, switchVars, slot, closed, loopVars>>

\* Each route is a replay line of its own, with a window whose left end is o.
Line(r, o) == INSTANCE ReplayLine WITH
    History <- 0, KeepMs <- TRUE, head <- heads[r], oldest <- o

\* The last event produced: the last one that any route carries.
Produced == CHOOSE h \in {heads[r] : r \in Routes} : \A r \in Routes : heads[r] <= h

Nothing == [seq |-> -1, keyframe |-> FALSE]
Slots == DOMAIN slot

\* The first call of a catch-up: everything, a frame, or the tail of a legacy remote.
FirstCall(r, since) ==
    IF since < 0 THEN "keyframe" ELSE IF r \in FrameRoutes THEN "frame" ELSE "since"

Attached(r, since, reset) ==
    [route |-> r, reset |-> reset, since |-> since,
     open |-> TRUE, replaying |-> TRUE, tapped |-> FALSE, wire |-> <<>>, queue |-> <<>>,
     call |-> FirstCall(r, since), status |-> "asked", envs |-> <<>>]

IsOpen(i) == i \in Slots /\ slot[i].open

\* disposeSlot: the slot and its call are gone, unless an answer came first or its
\* continuation is on the stack.
Dispose(i) ==
    IF i \notin Slots THEN slot
    ELSE IF slot[i].status = "answered" \/ i = working
    THEN [slot EXCEPT ![i].open = FALSE, ![i].tapped = FALSE, ![i].wire = <<>>, ![i].queue = <<>>]
    ELSE Restrict(slot, Slots \ {i})

Settle(i, how) == IF pending = i /\ outcome = "waiting" THEN how ELSE outcome

\* disposeSlot with a rejected slotEnd, or with a catch-up that threw.
FailSlot(i) == slot' = Dispose(i) /\ outcome' = Settle(i, "failed")

Init ==
    /\ callback \in Callbacks
    /\ heads = [r \in Routes |-> IF r \in LateRoutes THEN FirstSeq - 1 ELSE FirstSeq]
    /\ last \in {-1, FirstSeq} /\ seen = 1..last
    /\ \E r \in Routes : slot = <<Attached(r, last, TRUE)>>
    /\ attached = 1 /\ pending = 1 /\ outcome = "waiting" /\ active = 0 /\ chain = <<>>
    /\ closed = FALSE
    /\ deliveryQueue = <<>> /\ calling = Nothing /\ owner = 0 /\ working = 0 /\ rest = <<>>

\* Nothing of the subscriber is on the stack; or its caller is the user's callback.
Settled == calling = Nothing /\ deliveryQueue = <<>> /\ working = 0
Callable == Settled \/ calling # Nothing

-----------------------------------------------------------------------------
(* The routes *)

\* A route carries its next event, to the slots that tap it.
Forward(r) ==
    /\ heads[r] < MaxSeq
    /\ heads' = [heads EXCEPT ![r] = @ + 1]
    /\ slot' = [i \in Slots |->
                    IF slot[i].route = r /\ slot[i].tapped
                    THEN [slot[i] EXCEPT !.wire = Append(@, Line(r, 1)!Event(heads[r] + 1))]
                    ELSE slot[i]]
    /\ UNCHANGED <<callback, switchVars, closed, loopVars>>

AttachLiveLine(i) ==
    /\ slot[i].open /\ ~slot[i].tapped
    /\ slot' = [slot EXCEPT ![i].tapped = TRUE]
    /\ UNCHANGED <<lineVars, switchVars, closed, loopVars>>

Answered(s, envs) == [s EXCEPT !.status = "answered", !.envs = envs]

\* The answer of a journal whose window begins at o.
Answer(s, o) ==
    LET L == s.route IN
    CASE s.call = "frame" /\ Line(L, o)!FrameAnswers(s.since) ->
            Answered(s, Line(L, o)!FrameAfter(s.since))
      [] s.call = "since" /\ Line(L, o)!JournalHas(s.since) ->
            Answered(s, Line(L, o)!TailAfter(s.since))
      [] s.call = "keyframe" /\ HasKeyframe -> Answered(s, <<Line(L, o)!StateAt(heads[L])>>)
      [] OTHER -> [s EXCEPT !.status = IF s.call = "frame" THEN "refused" ELSE "missing"]

\* Mutant: the call is answered before the live line is tapped.
RemoteAnswersAnyTime(i) ==
    /\ slot[i].open /\ slot[i].call # "none" /\ slot[i].status = "asked"
    /\ \E o \in FirstSeq..(heads[slot[i].route] + 1) : slot' = [slot EXCEPT ![i] = Answer(@, o)]
    /\ UNCHANGED <<lineVars, switchVars, closed, loopVars>>

\* The call follows the subscription on the same ordered transport.  By then the
\* journal of the route has dropped any prefix of what it carried.
RemoteAnswers(i) ==
    /\ slot[i].tapped /\ slot[i].call # "none" /\ slot[i].status = "asked"
    /\ \E o \in FirstSeq..(heads[slot[i].route] + 1) : slot' = [slot EXCEPT ![i] = Answer(@, o)]
    /\ UNCHANGED <<lineVars, switchVars, closed, loopVars>>

\* failLine: the line ended or was rejected.
LineFails(i) ==
    /\ IsOpen(i) /\ Callable
    /\ FailSlot(i)
    /\ UNCHANGED <<lineVars, chain, attached, pending, active, closed, loopVars>>

\* A call of the catch-up is rejected, by the transport or by a line without keyframes.
CallFails(i) ==
    /\ slot[i].open /\ slot[i].call # "none" /\ slot[i].status \in {"asked", "refused"}
    /\ Settled
    /\ FailSlot(i)
    /\ UNCHANGED <<lineVars, chain, attached, pending, active, closed, loopVars>>

-----------------------------------------------------------------------------
(* Catch-up and delivery *)

\* liveTap: queue while the slot catches up, else deliver.
LiveTap(i) ==
    /\ slot[i].wire # <<>>
    /\ Settled \/ (calling # Nothing /\ "reenters" \in callback)
    /\ LET e == Head(slot[i].wire) IN
        IF slot[i].replaying
        THEN /\ slot' = [slot EXCEPT ![i].wire = Tail(@), ![i].queue = Append(@, e)]
             /\ UNCHANGED <<deliveryQueue, owner>>
        ELSE /\ slot' = [slot EXCEPT ![i].wire = Tail(@)]
             /\ deliveryQueue' = Append(deliveryQueue, e)
             /\ owner' = IF Settled THEN i ELSE owner
    /\ UNCHANGED <<lineVars, switchVars, closed, last, calling, working, rest, seen>>

\* Mutant: every switch may reset the number.
ResetAlways(s) ==
    IF s.call # "since" /\ s.envs # <<>> /\ s.envs[1].seq <= last
    THEN s.envs[1].seq - 1
    ELSE last

\* deliverMany: only a frame or a keyframe may reset the number, and only on a slot
\* that is allowed to.
ResetPoint(s) ==
    IF s.reset /\ s.call # "since" /\ s.envs # <<>> /\ s.envs[1].seq <= last
    THEN s.envs[1].seq - 1
    ELSE last

\* The continuation of catchUpRemote delivers its answer and then the queue, one
\* envelope at a time; a missing tail is replaced by a keyframe, a missing keyframe
\* by nothing.
ResumeAnswered(i) ==
    /\ Settled /\ ~closed
    /\ slot[i].call # "none" /\ slot[i].status = "answered"
    /\ last' = ResetPoint(slot[i])
    /\ rest' = slot[i].envs /\ working' = i
    /\ slot' = [slot EXCEPT ![i].call = "none", ![i].status = "asked", ![i].envs = <<>>]
    /\ UNCHANGED <<lineVars, switchVars, closed, deliveryQueue, calling, owner, seen>>

ResumeMissing(i) ==
    /\ Settled /\ slot[i].open
    /\ slot[i].call # "none" /\ slot[i].status = "missing"
    /\ IF slot[i].call = "since"
       THEN /\ slot' = [slot EXCEPT ![i].call = "keyframe", ![i].status = "asked"]
            /\ UNCHANGED working
       ELSE /\ slot' = [slot EXCEPT ![i].call = "none", ![i].status = "asked"]
            /\ working' = i
    /\ UNCHANGED <<lineVars, switchVars, closed, last, deliveryQueue, calling, owner,
                   rest, seen>>

Working == working # 0 /\ calling = Nothing /\ deliveryQueue = <<>>

DeliverNext ==
    /\ Working /\ (rest # <<>> \/ slot[working].queue # <<>>)
    /\ owner' = working
    /\ IF rest # <<>>
       THEN deliveryQueue' = <<Head(rest)>> /\ rest' = Tail(rest) /\ UNCHANGED slot
       ELSE /\ deliveryQueue' = <<Head(slot[working].queue)>>
            /\ slot' = [slot EXCEPT ![working].queue = Tail(@)]
            /\ UNCHANGED rest
    /\ UNCHANGED <<lineVars, switchVars, closed, last, calling, working, seen>>

\* Mutant: the slot goes live with its queue.
GoLiveEarly ==
    /\ Working /\ rest = <<>>
    /\ slot' = [slot EXCEPT ![working].replaying = FALSE, ![working].queue = <<>>]
    /\ outcome' = Settle(working, "ready")
    /\ working' = 0
    /\ UNCHANGED <<lineVars, chain, attached, pending, active, closed, last,
                   deliveryQueue, calling, owner, rest, seen>>

GoLive ==
    /\ Working /\ rest = <<>> /\ slot[working].queue = <<>>
    /\ IF slot[working].open
       THEN /\ slot' = [slot EXCEPT ![working].replaying = FALSE]
            /\ outcome' = Settle(working, "ready")
       ELSE slot' = Restrict(slot, Slots \ {working}) /\ UNCHANGED outcome
    /\ working' = 0
    /\ UNCHANGED <<lineVars, chain, attached, pending, active, closed, last,
                   deliveryQueue, calling, owner, rest, seen>>

\* The loop of deliver(): the number is committed after the callback returned.
Delivering == calling = Nothing /\ deliveryQueue # <<>>

SkipDelivered ==
    /\ Delivering /\ Head(deliveryQueue).seq <= last
    /\ deliveryQueue' = Tail(deliveryQueue)
    /\ UNCHANGED <<lineVars, switchVars, slot, closed, last, calling, owner, working,
                   rest, seen>>

\* Mutant: what the other route delivered is delivered again.
CallbackStartsAgain ==
    /\ Delivering
    /\ LET e == Head(deliveryQueue) IN
        calling' = e /\ seen' = IF e.keyframe THEN 1..e.seq ELSE seen \cup {e.seq}
    /\ deliveryQueue' = Tail(deliveryQueue)
    /\ UNCHANGED <<lineVars, switchVars, slot, closed, last, owner, working, rest>>

CallbackStarts ==
    /\ Delivering /\ Head(deliveryQueue).seq > last
    /\ LET e == Head(deliveryQueue) IN
        calling' = e /\ seen' = IF e.keyframe THEN 1..e.seq ELSE seen \cup {e.seq}
    /\ deliveryQueue' = Tail(deliveryQueue)
    /\ UNCHANGED <<lineVars, switchVars, slot, closed, last, owner, working, rest>>

CallbackReturns ==
    /\ calling # Nothing
    /\ last' = calling.seq /\ calling' = Nothing
    /\ UNCHANGED <<lineVars, switchVars, slot, closed, deliveryQueue, owner, working,
                   rest, seen>>

\* Mutant: a loop that threw leaves its slot open.
CallbackFailsAlone ==
    /\ "throws" \in callback
    /\ Delivering /\ Head(deliveryQueue).seq > last
    /\ deliveryQueue' = <<>> /\ rest' = <<>> /\ working' = 0
    /\ UNCHANGED <<lineVars, slot, switchVars, closed, last, calling, owner, seen>>

\* The callback throws before it changed anything: the loop drops its queue, and
\* the slot whose event began the loop fails.
CallbackFails ==
    /\ "throws" \in callback
    /\ Delivering /\ Head(deliveryQueue).seq > last
    /\ deliveryQueue' = <<>> /\ rest' = <<>> /\ working' = 0
    /\ slot' = Restrict(slot, Slots \ {owner}) /\ outcome' = Settle(owner, "failed")
    /\ UNCHANGED <<lineVars, chain, attached, pending, active, closed, last, calling,
                   owner, seen>>

-----------------------------------------------------------------------------
(* Switching *)

Switch(r) ==
    /\ Callable /\ attached + Len(chain) <= MaxSwitches
    /\ chain' = Append(chain, r)
    /\ UNCHANGED <<lineVars, slot, attached, pending, outcome, active, closed, loopVars>>

\* doSwitch: the number to resume from is read when the switch's turn has come.
DoSwitch ==
    /\ Settled /\ pending = 0 /\ chain # <<>>
    /\ chain' = Tail(chain)
    /\ IF closed THEN UNCHANGED <<slot, attached, pending>>
       ELSE /\ attached' = attached + 1 /\ pending' = attached + 1
            /\ slot' = [i \in Slots \cup {attached + 1} |->
                            IF i \in Slots THEN slot[i]
                            ELSE Attached(Head(chain), last, active = 0)]
    /\ UNCHANGED <<lineVars, outcome, active, closed, loopVars>>

\* The timeoutMs of the switch.
TimeoutFires ==
    /\ Settled /\ pending # 0 /\ outcome = "waiting"
    /\ ~(pending \in Slots /\ slot[pending].status = "answered")
    /\ FailSlot(pending)
    /\ UNCHANGED <<lineVars, chain, attached, pending, active, closed, loopVars>>

\* Mutant: the old route stays open beside the new one.
SwitchEndsBoth ==
    /\ Settled /\ pending # 0 /\ outcome # "waiting"
    /\ pending \in Slots => slot[pending].call = "none"
    /\ active' = IF outcome = "ready" /\ IsOpen(pending) THEN pending ELSE active
    /\ pending' = 0 /\ outcome' = "waiting"
    /\ UNCHANGED <<lineVars, slot, chain, attached, closed, loopVars>>

\* Mutant: a switch whose slot was closed while it waited never returns.
SwitchEndsOpenOnly ==
    /\ Settled /\ pending # 0 /\ outcome # "waiting" /\ IsOpen(pending)
    /\ active' = pending /\ slot' = Dispose(active)
    /\ pending' = 0 /\ outcome' = "waiting"
    /\ UNCHANGED <<lineVars, chain, attached, closed, loopVars>>

\* doSwitch after its await: the new route replaces the old one, unless it failed
\* or was closed in between.  An answer that won the race against the failure is
\* resumed earlier.
SwitchEnds ==
    /\ Settled /\ pending # 0 /\ outcome # "waiting"
    /\ pending \in Slots => slot[pending].call = "none"
    /\ IF outcome = "ready" /\ IsOpen(pending)
       THEN active' = pending /\ slot' = Dispose(active)
       ELSE UNCHANGED <<active, slot>>
    /\ pending' = 0 /\ outcome' = "waiting"
    /\ UNCHANGED <<lineVars, chain, attached, closed, loopVars>>

Off ==
    /\ ~closed /\ Callable
    /\ closed' = TRUE /\ active' = 0
    /\ slot' = <<>>
    /\ outcome' = Settle(pending, "ready")
    /\ deliveryQueue' = <<>> /\ rest' = <<>> /\ working' = 0
    /\ UNCHANGED <<lineVars, chain, attached, pending, last, calling, owner, seen>>

-----------------------------------------------------------------------------
EventLoop ==
    \/ SkipDelivered \/ CallbackStarts \/ CallbackReturns \/ CallbackFails
    \/ DeliverNext \/ GoLive \/ DoSwitch \/ SwitchEnds
    \/ \E i \in Slots : ResumeAnswered(i) \/ ResumeMissing(i)

Next ==
    \/ EventLoop
    \/ \E r \in Routes : Forward(r) \/ Switch(r)
    \/ \E i \in Slots : \/ AttachLiveLine(i) \/ RemoteAnswers(i) \/ LiveTap(i)
                        \/ LineFails(i) \/ CallFails(i)
    \/ TimeoutFires \/ Off

Spec == Init /\ [][Next]_vars

\* The event loop runs, lines deliver what they carry and carry what was produced,
\* and the timeout of a switch fires; a remote may never answer.
Fairness ==
    /\ WF_vars(EventLoop)
    /\ WF_vars(\E r \in Routes : heads[r] < Produced /\ Forward(r))
    /\ WF_vars(\E i \in Slots : LiveTap(i))
    /\ SF_vars(TimeoutFires)

FairSpec == Spec /\ Fairness

-----------------------------------------------------------------------------
(* Properties *)

Envelope == [seq : Nat, keyframe : BOOLEAN]
SlotType == [route : Routes, reset : BOOLEAN, since : Nat \cup {-1},
             open : BOOLEAN, replaying : BOOLEAN, tapped : BOOLEAN,
             wire : Seq(Envelope), queue : Seq(Envelope),
             call : {"none", "keyframe", "frame", "since"},
             status : {"asked", "answered", "missing", "refused"}, envs : Seq(Envelope)]

\* Types; a slot that is closed keeps no events, and only the active slot and the
\* one that is attaching are ever open.
TypeOK ==
    /\ heads \in [Routes -> Nat] /\ callback \in Callbacks
    /\ chain \in Seq(Routes)
    /\ \A i \in Slots : slot[i] \in SlotType
    /\ attached \in Nat /\ {pending, active, owner, working} \subseteq 0..attached
    /\ \A i \in Slots : slot[i].open => i \in {active, pending}
    /\ outcome \in {"waiting", "ready", "failed"} /\ closed \in BOOLEAN
    /\ last \in Nat \cup {-1} /\ deliveryQueue \in Seq(Envelope) /\ rest \in Seq(Envelope)
    /\ calling \in Envelope \cup {Nothing}
    /\ seen \subseteq 1..Produced

\* Whatever routes the events came over and however often they were switched, the
\* consumer's state is a run from the first event on ("without exposing gaps"), and
\* it has folded in all events up to the number it will resume from.
NoHole == HasKeyframe => \E k \in 0..Produced : seen = 1..k /\ last <= k

\* Nothing is lost while a slot is live: every event its route carries beyond the
\* consumer's position is still on its way, over that slot or in the running loop.  (Where
\* there is no keyframe to start from, what the journal has dropped is gone.)
LiveIsComplete ==
    HasKeyframe => \A i \in Slots :
        (slot[i].tapped /\ ~slot[i].replaying /\ Settled /\ last >= 0) =>
            \A s \in (last + 1)..heads[slot[i].route] :
                \E k \in DOMAIN slot[i].wire : slot[i].wire[k].seq = s

\* Every switch ends, even over a remote that never answers, so that the next one
\* in the chain gets its turn.
SwitchesSettle == pending # 0 ~> pending = 0

\* A consumer that keeps a live route ends up with every event.
CatchesUp == <>[](active # 0 /\ IsOpen(active)) => <>[](last = Produced)

\* A keyframe of a lagging route may take the number back before the first route is ready;
\* a callback that throws at it leaves a state that is ahead of its number.
Position == IF calling # Nothing THEN calling.seq ELSE last
Ahead == \E s \in seen : s > Position

\* The consumer's view, from the first route that became ready on.
Shown == IF (active = 0 /\ ~closed) \/ Ahead THEN {} ELSE seen
View == INSTANCE ReplicaView WITH produced <- Produced, view <- Shown
KeepsPromise == View!Spec

=============================================================================
