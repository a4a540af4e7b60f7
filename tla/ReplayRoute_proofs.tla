-------------------------- MODULE ReplayRoute_proofs --------------------------
(******************************************************************************)
(* The proofs about ReplayRoute, the consumer that switches between routes to *)
(* one producer.                                                              *)
(*                                                                            *)
(* The inductive invariant has three parts. Structure: which slots exist,     *)
(* which is active, pending or at work, and what a slot may hold in each of   *)
(* its states. Contents: the wire and the queue of a slot are a run of        *)
(* consecutive events that ends at the head of its route, an answer is a      *)
(* keyframe or such a run, and what waits for the callback was produced.      *)
(* Flow: the events that wait are chained, each behind one that was delivered *)
(* or waits before it, or behind a keyframe, and the run of a live slot       *)
(* begins no further than what waits reaches.                                 *)
(*                                                                            *)
(* Structure and Contents hold of any line. Flow needs a line that keeps      *)
(* keyframes; without them an answer of null makes the consumer go on behind  *)
(* a hole, as documented in the module, and LiveIsComplete and NoHole say so  *)
(* in their hypotheses.                                                       *)
(******************************************************************************)
EXTENDS ReplayRoute, SequenceTheorems, WellFoundedInduction, TLAPS

-----------------------------------------------------------------------------
(* The structure: routes, slots and who has them *)

Top == IF MaxSeq > FirstSeq THEN MaxSeq ELSE FirstSeq

Types ==
    /\ RouteAssumption
    /\ Routes # {} /\ heads \in [Routes -> 0..Top] /\ callback \in Callbacks
    /\ chain \in Seq(Routes)
    /\ \A i \in Slots : slot[i] \in SlotType
    /\ attached \in Nat /\ {pending, active, owner, working} \subseteq 0..attached
    /\ outcome \in {"waiting", "ready", "failed"} /\ closed \in BOOLEAN
    /\ last \in Nat \cup {-1} /\ deliveryQueue \in Seq(Envelope) /\ rest \in Seq(Envelope)
    /\ calling \in Envelope \cup {Nothing}

PlaceInv ==
    /\ Slots \subseteq 1..attached
    /\ Slots \subseteq {active, pending}
    /\ pending # 0 => pending = attached /\ active < pending
    /\ pending = 0 /\ ~closed => outcome = "waiting"
    /\ outcome = "failed" => ~IsOpen(pending)
    /\ outcome = "ready" /\ pending \in Slots => ~slot[pending].replaying
    /\ working # 0 => working = pending /\ pending \in Slots
    /\ working # 0 /\ (deliveryQueue # <<>> \/ calling # Nothing) => owner = working
    /\ deliveryQueue # <<>> \/ calling # Nothing => owner # 0
    /\ rest # <<>> => working # 0
    /\ closed => Slots = {} /\ deliveryQueue = <<>>

SlotRight(i) ==
    LET s == slot[i] IN
    /\ i # pending => s.open /\ ~s.replaying
    /\ ~s.replaying => s.call = "none" /\ s.queue = <<>> /\ i # working
    /\ s.call = "none" => s.status = "asked"
    /\ i = working => s.call = "none"
    /\ s.call \in {"frame", "since"} => s.since >= 0
    /\ ~s.open => ~s.tapped /\ (i = working \/ s.status = "answered")
    /\ s.open /\ ~s.tapped => s.status = "asked" /\ s.call # "none"
    /\ i = pending /\ s.reset => active = 0
    /\ ~s.tapped => s.wire = <<>> /\ s.queue = <<>>

Structure == Types /\ PlaceInv /\ \A i \in Slots : SlotRight(i)

ClosedSlot(s) ==
    [s EXCEPT !.open = FALSE, !.tapped = FALSE, !.wire = <<>>, !.queue = <<>>]

(* What Dispose leaves: every other slot untouched, and the disposed one only
   while somebody still waits for it, closed. *)
LEMMA DisposeFacts ==
    ASSUME NEW i
    PROVE  /\ DOMAIN Dispose(i) \subseteq Slots
           /\ \A j \in Slots \ {i} : j \in DOMAIN Dispose(i) /\ Dispose(i)[j] = slot[j]
           /\ i \in DOMAIN Dispose(i) =>
                /\ slot[i].status = "answered" \/ i = working
                /\ Dispose(i)[i] = ClosedSlot(slot[i])
           /\ i \in Slots /\ (slot[i].status = "answered" \/ i = working) => i \in DOMAIN Dispose(i)
    BY DEF Dispose, Restrict, Slots, ClosedSlot

(* A closed slot is a slot, without tap, wire and queue. *)
LEMMA ClosedTyped ==
    ASSUME NEW s \in SlotType
    PROVE  /\ ClosedSlot(s) \in SlotType
           /\ ~ClosedSlot(s).open /\ ~ClosedSlot(s).tapped
           /\ ClosedSlot(s).wire = <<>> /\ ClosedSlot(s).queue = <<>>
           /\ ClosedSlot(s).route = s.route /\ ClosedSlot(s).reset = s.reset
           /\ ClosedSlot(s).since = s.since /\ ClosedSlot(s).call = s.call
           /\ ClosedSlot(s).replaying = s.replaying /\ ClosedSlot(s).status = s.status
           /\ ClosedSlot(s).envs = s.envs
<1>1. <<>> \in Seq(Envelope)
    OBVIOUS
<1>2. ClosedSlot(s) \in SlotType
    BY <1>1 DEF ClosedSlot, SlotType
<1> QED BY <1>2 DEF ClosedSlot, SlotType

(* The initial state satisfies it: no slot is anywhere it must not be. *)
LEMMA InitStructure == RouteAssumption /\ Init => Structure
<1> SUFFICES ASSUME RouteAssumption, Init PROVE Structure
    OBVIOUS
<1>1. PICK r \in Routes : slot = <<Attached(r, last, TRUE)>>
    BY DEF Init
<1>2. last \in Nat \cup {-1}
    BY DEF Init, RouteAssumption
<1>3. Slots = {1} /\ slot[1] = Attached(r, last, TRUE)
    BY <1>1 DEF Slots
<1>4. FirstCall(r, last) \in {"none", "keyframe", "frame", "since"} /\ FirstCall(r, last) # "none"
      /\ (FirstCall(r, last) \in {"frame", "since"} => last >= 0)
    BY <1>2 DEF FirstCall
<1>5. <<>> \in Seq(Envelope)
    OBVIOUS
<1>6. slot[1] \in SlotType
    BY <1>2, <1>3, <1>4, <1>5 DEF Attached, SlotType
<1>7. heads \in [Routes -> 0..Top]
    BY DEF Init, RouteAssumption, Top
<1>8. Types
    <2>1. /\ callback \in Callbacks /\ chain \in Seq(Routes) /\ attached = 1
          /\ pending = 1 /\ active = 0 /\ owner = 0 /\ working = 0 /\ outcome = "waiting"
          /\ closed = FALSE /\ deliveryQueue = <<>> /\ rest = <<>> /\ calling = Nothing
        BY DEF Init
    <2>2. {pending, active, owner, working} \subseteq 0..attached /\ attached \in Nat
        BY <2>1
    <2>3. \A i \in Slots : slot[i] \in SlotType
        BY <1>3, <1>6
    <2> QED BY <1>1, <1>2, <1>5, <1>7, <2>1, <2>2, <2>3 DEF Types
<1>9. PlaceInv
    BY <1>3 DEF PlaceInv, Init, IsOpen, Attached
<1>10. SlotRight(1)
    BY <1>3, <1>4 DEF SlotRight, Init, Attached
<1> QED BY <1>3, <1>8, <1>9, <1>10 DEF Structure

\* The typed part of a step in which the slot i alone is changed.
(* Updating one slot by a slot leaves slots. *)
LEMMA OneSlotTyped ==
    ASSUME Types, NEW i \in Slots, NEW s \in SlotType, slot' = [slot EXCEPT ![i] = s]
    PROVE  /\ Slots' = Slots /\ slot'[i] = s /\ \A j \in Slots \ {i} : slot'[j] = slot[j]
           /\ \A j \in Slots' : slot'[j] \in SlotType
    BY DEF Slots, Types

(* Head, tail and append of a queue stay in its element type. *)
LEMMA QueueTyped ==
    ASSUME NEW S, NEW s \in Seq(S)
    PROVE  /\ s # <<>> => Head(s) \in S /\ Tail(s) \in Seq(S)
           /\ \A e \in S : Append(s, e) \in Seq(S) /\ Append(s, e) # <<>>
           /\ <<>> \in Seq(S)
<1>1. \A e \in S : Append(s, e) \in Seq(S) /\ Append(s, e) # <<>>
    BY AppendProperties
<1> QED BY <1>1

\* What the routes hand out.
(* The events and keyframes of a line are envelopes. *)
LEMMA EventTyped ==
    \A r, o : \A n \in Nat : /\ Line(r, o)!Event(n) = [seq |-> n, keyframe |-> FALSE]
                           /\ Line(r, o)!StateAt(n) = [seq |-> n, keyframe |-> TRUE]
                           /\ Line(r, o)!Event(n) \in Envelope
                           /\ Line(r, o)!StateAt(n) \in Envelope
    BY DEF Line!Event, Line!StateAt, Envelope

\* The tail of a route after s, as far as it goes.
(* The tail a line answers is a queue of the events after the place asked for. *)
LEMMA TailTyped ==
    ASSUME Types, NEW r \in Routes, NEW o, NEW s \in Nat, s <= heads[r]
    PROVE  /\ Line(r, o)!TailAfter(s) \in Seq(Envelope)
           /\ Len(Line(r, o)!TailAfter(s)) = heads[r] - s
           /\ \A k \in 1..(heads[r] - s) :
                Line(r, o)!TailAfter(s)[k] = [seq |-> s + k, keyframe |-> FALSE]
<1>1. heads[r] - s \in Nat
    BY DEF Types, Top, RouteAssumption
<1>2. \A k \in 1..(heads[r] - s) : s + k \in Nat
    BY <1>1
<1>3. Line(r, o)!TailAfter(s) = [k \in 1..(heads[r] - s) |-> [seq |-> s + k, keyframe |-> FALSE]]
    BY <1>2, EventTyped DEF Line!TailAfter
<1>4. \A k \in 1..(heads[r] - s) : [seq |-> s + k, keyframe |-> FALSE] \in Envelope
    BY <1>2 DEF Envelope
<1> QED BY <1>1, <1>3, <1>4

\* A step of a route, or of the loop, that leaves the slots and who has them alone.
(* A step that touches slots and places not at all keeps the places. *)
LEMMA PlacesRest ==
    ASSUME Structure, Types', slot' = slot, UNCHANGED <<attached, pending, outcome, active, working, closed>>,
           working # 0 /\ (deliveryQueue' # <<>> \/ calling' # Nothing) => owner' = working,
           deliveryQueue' # <<>> \/ calling' # Nothing => owner' # 0,
           rest' # <<>> => working # 0,
           closed => deliveryQueue' = <<>>
    PROVE  Structure'
<1>1. PlaceInv'
    BY DEF Structure, PlaceInv, Slots, IsOpen
<1>2. \A i \in Slots' : SlotRight(i)'
    BY DEF Structure, SlotRight, Slots
<1> QED BY <1>1, <1>2 DEF Structure

(* An event that reaches a route keeps the structure. *)
LEMMA ForwardStructure == ASSUME Structure, NEW r \in Routes, Forward(r) PROVE Structure'
<1> DEFINE e == Line(r, 1)!Event(heads[r] + 1)
<1>1. /\ heads' = [heads EXCEPT ![r] = @ + 1] /\ heads[r] < MaxSeq /\ Slots' = Slots
      /\ \A j \in Slots : slot'[j] = IF slot[j].route = r /\ slot[j].tapped
                                   THEN [slot[j] EXCEPT !.wire = Append(@, e)] ELSE slot[j]
      /\ UNCHANGED <<callback, switchVars, closed, loopVars>>
    BY DEF Forward, Slots
<1>2. heads' \in [Routes -> 0..Top]
    BY <1>1, SMTT(30) DEF Structure, Types, Top, RouteAssumption
<1>3. e \in Envelope
    <2>1. heads[r] + 1 \in Nat
        BY DEF Structure, Types, Top, RouteAssumption
    <2> QED BY <2>1, EventTyped
<1> HIDE DEF e
<1>4. \A j \in Slots :
        /\ slot'[j] \in SlotType
        /\ slot'[j].open = slot[j].open /\ slot'[j].replaying = slot[j].replaying
        /\ slot'[j].call = slot[j].call /\ slot'[j].status = slot[j].status
        /\ slot'[j].queue = slot[j].queue /\ slot'[j].tapped = slot[j].tapped
        /\ slot'[j].reset = slot[j].reset /\ slot'[j].since = slot[j].since
        /\ ~slot[j].tapped => slot'[j].wire = slot[j].wire
    <2> TAKE j \in Slots
    <2>1. slot[j] \in SlotType
        BY DEF Structure, Types
    <2>2. Append(slot[j].wire, e) \in Seq(Envelope)
        BY <1>3, <2>1, QueueTyped DEF SlotType
    <2>3. CASE slot[j].route = r /\ slot[j].tapped
        BY <1>1, <2>1, <2>2, <2>3, ZenonT(60) DEF SlotType
    <2>4. CASE ~(slot[j].route = r /\ slot[j].tapped)
        BY <1>1, <2>1, <2>4
    <2> QED BY <2>3, <2>4
<1>5. Types'
    BY <1>1, <1>2, <1>4 DEF Structure, Types, switchVars, loopVars
<1>6. PlaceInv'
    BY <1>1, <1>4 DEF Structure, PlaceInv, IsOpen, switchVars, loopVars
<1>7. \A i \in Slots' : SlotRight(i)'
    BY <1>1, <1>4 DEF Structure, SlotRight, switchVars, loopVars
<1> QED BY <1>5, <1>6, <1>7 DEF Structure

(* The server attaching the live line of a slot keeps the structure. *)
LEMMA AttachLiveLineStructure ==
    ASSUME Structure, NEW i \in Slots, AttachLiveLine(i) PROVE Structure'
<1>1. /\ slot' = [slot EXCEPT ![i] = [slot[i] EXCEPT !.tapped = TRUE]]
      /\ slot[i].open /\ UNCHANGED <<lineVars, switchVars, closed, loopVars>>
    BY DEF AttachLiveLine
<1>2. slot[i] \in SlotType
    BY DEF Structure, Types
<1> DEFINE t == [slot[i] EXCEPT !.tapped = TRUE]
<1>3. /\ t \in SlotType /\ t.tapped /\ t.open = slot[i].open /\ t.replaying = slot[i].replaying
      /\ t.call = slot[i].call /\ t.status = slot[i].status /\ t.queue = slot[i].queue
      /\ t.reset = slot[i].reset /\ t.wire = slot[i].wire
    BY <1>2 DEF SlotType
<1> HIDE DEF t
<1>4. slot' = [slot EXCEPT ![i] = t]
    BY <1>1 DEF t
<1>5. /\ Slots' = Slots /\ slot'[i] = t /\ \A j \in Slots \ {i} : slot'[j] = slot[j]
      /\ \A j \in Slots' : slot'[j] \in SlotType
    BY <1>3, <1>4, OneSlotTyped DEF Structure
<1>6. Types'
    BY <1>1, <1>5 DEF Structure, Types, lineVars, switchVars, loopVars
<1>7. PlaceInv'
    BY <1>1, <1>3, <1>5 DEF Structure, PlaceInv, IsOpen, switchVars, loopVars
<1>8. \A j \in Slots' : SlotRight(j)'
    BY <1>1, <1>3, <1>5 DEF Structure, SlotRight, switchVars, loopVars
<1> QED BY <1>6, <1>7, <1>8 DEF Structure

(* An answered slot is a slot, of the same route and with the same queues. *)
LEMMA AnswerTyped ==
    ASSUME Types, NEW s \in SlotType, s.call # "none", NEW o,
           s.call \in {"frame", "since"} => s.since >= 0
    PROVE  /\ Answer(s, o) \in SlotType
           /\ Answer(s, o).route = s.route /\ Answer(s, o).reset = s.reset
           /\ Answer(s, o).since = s.since /\ Answer(s, o).open = s.open
           /\ Answer(s, o).replaying = s.replaying /\ Answer(s, o).tapped = s.tapped
           /\ Answer(s, o).wire = s.wire /\ Answer(s, o).queue = s.queue
           /\ Answer(s, o).call = s.call
           /\ Answer(s, o).status \in {"answered", "missing", "refused"}
           /\ Answer(s, o).status = "missing" => s.call = "since" \/ ~HasKeyframe
           /\ Answer(s, o).status = "answered" =>
                \/ /\ s.call # "since" /\ HasKeyframe
                   /\ Answer(s, o).envs = <<[seq |-> heads[s.route], keyframe |-> TRUE]>>
                \/ /\ s.call # "keyframe" /\ s.since <= heads[s.route]
                   /\ Answer(s, o).envs = Line(s.route, o)!TailAfter(s.since)
<1> DEFINE L == s.route
           k == <<[seq |-> heads[L], keyframe |-> TRUE]>>
           tail == Line(L, o)!TailAfter(s.since)
<1>1. L \in Routes /\ heads[L] \in Nat /\ s.since \in Nat \cup {-1}
      /\ s.call \in {"keyframe", "frame", "since"} /\ HasKeyframe \in BOOLEAN
    BY DEF SlotType, Types, Top, RouteAssumption
<1>2. Line(L, o)!JournalHas(s.since) => s.since <= heads[L]
    BY <1>1 DEF Line!JournalHas
<1> DEFINE Reply(envs) == [s EXCEPT !.status = "answered", !.envs = envs]
           None(how) == [s EXCEPT !.status = how]
<1>3. \A envs \in Seq(Envelope) :
        /\ Reply(envs) \in SlotType
        /\ Reply(envs).route = s.route /\ Reply(envs).reset = s.reset
        /\ Reply(envs).since = s.since /\ Reply(envs).open = s.open
        /\ Reply(envs).replaying = s.replaying /\ Reply(envs).tapped = s.tapped
        /\ Reply(envs).wire = s.wire /\ Reply(envs).queue = s.queue
        /\ Reply(envs).call = s.call /\ Reply(envs).status = "answered" /\ Reply(envs).envs = envs
    BY DEF SlotType
<1>4. \A how \in {"missing", "refused"} :
        /\ None(how) \in SlotType
        /\ None(how).route = s.route /\ None(how).reset = s.reset
        /\ None(how).since = s.since /\ None(how).open = s.open
        /\ None(how).replaying = s.replaying /\ None(how).tapped = s.tapped
        /\ None(how).wire = s.wire /\ None(how).queue = s.queue
        /\ None(how).call = s.call /\ None(how).status = how
    BY DEF SlotType
<1>5. k \in Seq(Envelope) /\ <<Line(L, o)!StateAt(heads[L])>> = k
    <2>1. Line(L, o)!StateAt(heads[L]) = [seq |-> heads[L], keyframe |-> TRUE]
          /\ Line(L, o)!StateAt(heads[L]) \in Envelope
        BY <1>1, EventTyped
    <2> QED BY <2>1
<1>6. s.call # "keyframe" /\ s.since <= heads[L] => tail \in Seq(Envelope)
    BY <1>1, TailTyped
<1> HIDE DEF Reply, None, tail, k, L
<1>7. CASE s.call = "frame" /\ Line(L, o)!FrameAnswers(s.since)
    <2>1. Answer(s, o) = Reply(Line(L, o)!FrameAfter(s.since))
        BY <1>7 DEF Answer, Answered, Reply, L
    <2>2. CASE Line(L, o)!JournalHas(s.since)
        <3>1. Answer(s, o) = Reply(tail) /\ s.since <= heads[L]
            BY <1>2, <2>1, <2>2 DEF Line!FrameAfter, tail
        <3> QED BY <1>3, <1>6, <1>7, <3>1 DEF tail, L
    <2>3. CASE ~Line(L, o)!JournalHas(s.since)
        <3>1. Answer(s, o) = Reply(k) /\ HasKeyframe
            BY <1>5, <1>7, <2>1, <2>3 DEF Line!FrameAfter, Line!FrameAnswers
        <3>2. Answer(s, o) \in SlotType /\ Answer(s, o).envs = k
            BY <1>3, <1>5, <3>1
        <3>3. Answer(s, o).envs = <<[seq |-> heads[s.route], keyframe |-> TRUE]>>
            BY <3>2 DEF k, L
        <3>4. /\ Answer(s, o).route = s.route /\ Answer(s, o).reset = s.reset
              /\ Answer(s, o).since = s.since /\ Answer(s, o).open = s.open
              /\ Answer(s, o).replaying = s.replaying /\ Answer(s, o).tapped = s.tapped
              /\ Answer(s, o).wire = s.wire /\ Answer(s, o).queue = s.queue
              /\ Answer(s, o).call = s.call /\ Answer(s, o).status = "answered"
            BY <1>3, <1>5, <3>1
        <3>5. s.call # "since" /\ HasKeyframe
            BY <1>7, <3>1
        <3> QED BY <3>2, <3>3, <3>4, <3>5
    <2> QED BY <2>2, <2>3
<1>8. CASE s.call = "since" /\ Line(L, o)!JournalHas(s.since)
    <2>1. Answer(s, o) = Reply(tail) /\ s.since <= heads[L]
        BY <1>2, <1>8 DEF Answer, Answered, Reply, tail, L
    <2> QED BY <1>3, <1>6, <1>8, <2>1 DEF tail, L
<1>9. CASE s.call = "keyframe" /\ HasKeyframe
    <2>1. Answer(s, o) = Reply(k)
        BY <1>5, <1>9 DEF Answer, Answered, Reply, L
    <2>2. Answer(s, o) \in SlotType /\ Answer(s, o).envs = k
        BY <1>3, <1>5, <2>1
    <2>3. Answer(s, o).envs = <<[seq |-> heads[s.route], keyframe |-> TRUE]>>
        BY <2>2 DEF k, L
    <2>4. /\ Answer(s, o).route = s.route /\ Answer(s, o).reset = s.reset
          /\ Answer(s, o).since = s.since /\ Answer(s, o).open = s.open
          /\ Answer(s, o).replaying = s.replaying /\ Answer(s, o).tapped = s.tapped
          /\ Answer(s, o).wire = s.wire /\ Answer(s, o).queue = s.queue
          /\ Answer(s, o).call = s.call /\ Answer(s, o).status = "answered"
        BY <1>3, <1>5, <2>1
    <2>5. s.call # "since" /\ HasKeyframe
        BY <1>9, <2>1
    <2> QED BY <2>2, <2>3, <2>4, <2>5
<1>10. CASE /\ ~(s.call = "frame" /\ Line(L, o)!FrameAnswers(s.since))
            /\ ~(s.call = "since" /\ Line(L, o)!JournalHas(s.since))
            /\ ~(s.call = "keyframe" /\ HasKeyframe)
    <2>1. Answer(s, o) = None(IF s.call = "frame" THEN "refused" ELSE "missing")
        BY <1>10 DEF Answer, None, L
    <2>2. CASE s.call = "frame"
        <3>1. Answer(s, o) = None("refused")
            BY <2>1, <2>2
        <3> QED BY <1>4, <2>2, <3>1
    <2>3. CASE s.call # "frame"
        <3>1. Answer(s, o) = None("missing")
            BY <2>1, <2>3
        <3> QED BY <1>1, <1>4, <1>10, <2>3, <3>1
    <2> QED BY <2>2, <2>3
<1> QED BY <1>7, <1>8, <1>9, <1>10

\* A step that changes no more of the slot i than its call, its answer and what it has still
\* to queue, and of the rest only what is typed again.
(* An answer of the server keeps the structure. *)
LEMMA RemoteAnswersStructure ==
    ASSUME Structure, NEW i \in Slots, RemoteAnswers(i) PROVE Structure'
<1>1. PICK o \in FirstSeq..(heads[slot[i].route] + 1) :
        slot' = [slot EXCEPT ![i] = Answer(slot[i], o)]
    BY DEF RemoteAnswers
<1>2. /\ slot[i].tapped /\ slot[i].call # "none" /\ slot[i].status = "asked"
      /\ UNCHANGED <<lineVars, switchVars, closed, loopVars>>
    BY DEF RemoteAnswers
<1>3. slot[i] \in SlotType /\ (slot[i].call \in {"frame", "since"} => slot[i].since >= 0)
    BY DEF Structure, Types, SlotRight
<1> DEFINE t == Answer(slot[i], o)
<1>4. /\ t \in SlotType /\ t.tapped = slot[i].tapped /\ t.open = slot[i].open
      /\ t.replaying = slot[i].replaying /\ t.since = slot[i].since
      /\ t.call = slot[i].call /\ t.queue = slot[i].queue
      /\ t.reset = slot[i].reset /\ t.wire = slot[i].wire
    <2>1. Types
        BY DEF Structure
    <2> QED BY <1>2, <1>3, <2>1, AnswerTyped, ZenonT(60)
<1> HIDE DEF t
<1>4a. slot' = [slot EXCEPT ![i] = t]
    BY <1>1 DEF t
<1>5. /\ Slots' = Slots /\ slot'[i] = t /\ \A j \in Slots \ {i} : slot'[j] = slot[j]
      /\ \A j \in Slots' : slot'[j] \in SlotType
    BY <1>4, <1>4a, OneSlotTyped DEF Structure
<1>6. Types'
    BY <1>2, <1>5 DEF Structure, Types, lineVars, switchVars, loopVars
<1>7. PlaceInv'
    BY <1>2, <1>4, <1>5 DEF Structure, PlaceInv, IsOpen, switchVars, loopVars
<1>8. \A j \in Slots' : SlotRight(j)'
    <2>1. SlotRight(i) /\ \A j \in Slots : SlotRight(j)
        BY DEF Structure
    <2>2. SlotRight(i)'
        BY <1>2, <1>4, <1>5, <2>1 DEF SlotRight, switchVars, loopVars
    <2>3. \A j \in Slots \ {i} : SlotRight(j)'
        BY <1>2, <1>5, <2>1 DEF SlotRight, switchVars, loopVars
    <2> QED BY <1>5, <2>2, <2>3
<1> QED BY <1>6, <1>7, <1>8 DEF Structure

(* The failure of a slot and the disposal after it keeps the structure. *)
LEMMA FailSlotStructure ==
    ASSUME Structure, NEW i, i # 0, FailSlot(i),
           UNCHANGED <<lineVars, chain, attached, pending, active, closed, loopVars>>
    PROVE  Structure'
<1>1. slot' = Dispose(i) /\ outcome' = Settle(i, "failed")
    BY DEF FailSlot
<1>2. /\ Slots' \subseteq Slots
      /\ \A j \in Slots \ {i} : j \in Slots' /\ slot'[j] = slot[j]
      /\ i \in Slots' =>
           /\ slot[i].status = "answered" \/ i = working
           /\ slot'[i] = ClosedSlot(slot[i])
      /\ i \in Slots /\ (slot[i].status = "answered" \/ i = working) => i \in Slots'
    BY <1>1, DisposeFacts DEF Slots
<1>3. \A j \in Slots : slot[j] \in SlotType /\ SlotRight(j)
    BY DEF Structure, Types
<1>4. i \in Slots' =>
        /\ slot'[i] \in SlotType
        /\ ~slot'[i].open /\ ~slot'[i].tapped
        /\ slot'[i].wire = <<>> /\ slot'[i].queue = <<>>
        /\ slot'[i].route = slot[i].route /\ slot'[i].reset = slot[i].reset
        /\ slot'[i].since = slot[i].since /\ slot'[i].call = slot[i].call
        /\ slot'[i].replaying = slot[i].replaying /\ slot'[i].status = slot[i].status
        /\ slot'[i].envs = slot[i].envs
    BY <1>2, <1>3, ClosedTyped
<1>5. Types'
    <2>1. \A j \in Slots' : slot'[j] \in SlotType
        BY <1>2, <1>3, <1>4
    <2>2. outcome' \in {"waiting", "ready", "failed"}
        BY <1>1 DEF Settle, Structure, Types
    <2> QED BY <2>1, <2>2 DEF Structure, Types, lineVars, loopVars
<1>6. UNCHANGED <<attached, pending, active, closed, working, rest, owner, calling, deliveryQueue>>
    BY DEF loopVars
<1>7. i \in Slots' => i = pending
    BY <1>2, <1>3 DEF SlotRight
<1>8. PlaceInv'
    <2>1. PlaceInv
        BY DEF Structure
    <2>2. outcome' = "failed" => ~IsOpen(pending)'
        BY <1>1, <1>2, <1>4, <1>6, <2>1 DEF PlaceInv, IsOpen, Settle
    <2>3. outcome' = "ready" /\ pending' \in Slots' => ~slot'[pending'].replaying
        <3> SUFFICES ASSUME outcome' = "ready", pending \in Slots' PROVE ~slot'[pending].replaying
            BY <1>6
        <3>1. outcome = "ready" /\ pending \in Slots
            BY <1>1, <1>2 DEF Settle
        <3>2. ~slot[pending].replaying
            BY <2>1, <3>1 DEF PlaceInv
        <3>3. CASE i = pending
            BY <1>4, <3>2, <3>3
        <3>4. CASE i # pending
            BY <1>2, <3>1, <3>2, <3>4
        <3> QED BY <3>3, <3>4
    <2>4. pending' = 0 /\ ~closed' => outcome' = "waiting"
        BY <1>1, <1>6, <2>1 DEF PlaceInv, Settle
    <2>5. working' # 0 => working' = pending' /\ pending' \in Slots'
        BY <1>2, <1>6, <2>1 DEF PlaceInv
    <2> QED BY <1>2, <1>6, <2>1, <2>2, <2>3, <2>4, <2>5 DEF PlaceInv
<1>9. \A j \in Slots' : SlotRight(j)'
    <2>1. \A j \in Slots' \ {i} : SlotRight(j)'
        BY <1>2, <1>3, <1>6 DEF SlotRight
    <2>2. i \in Slots' => SlotRight(i)'
        BY <1>2, <1>3, <1>4, <1>6, <1>7 DEF SlotRight
    <2> QED BY <2>1, <2>2
<1> QED BY <1>5, <1>8, <1>9 DEF Structure

(* A line event on its way being delivered, or queued while the slot replays
   keeps the structure. *)
LEMMA LiveTapStructure == ASSUME Structure, NEW i \in Slots, LiveTap(i) PROVE Structure'
<1> DEFINE e == Head(slot[i].wire)
           t == IF slot[i].replaying
                THEN [slot[i] EXCEPT !.wire = Tail(@), !.queue = Append(@, e)]
                ELSE [slot[i] EXCEPT !.wire = Tail(@)]
<1>1. /\ slot[i].wire # <<>> /\ slot' = [slot EXCEPT ![i] = t]
      /\ Settled \/ calling # Nothing
      /\ UNCHANGED <<lineVars, switchVars, closed, last, calling, working, rest, seen>>
    BY DEF LiveTap
<1>2. \/ UNCHANGED <<deliveryQueue, owner>>
      \/ deliveryQueue' = Append(deliveryQueue, e) /\ owner' = (IF Settled THEN i ELSE owner)
    BY DEF LiveTap
<1>3. slot[i] \in SlotType /\ SlotRight(i)
    BY DEF Structure, Types
<1>4. e \in Envelope /\ Tail(slot[i].wire) \in Seq(Envelope)
      /\ Append(slot[i].queue, e) \in Seq(Envelope)
    BY <1>1, <1>3, QueueTyped DEF SlotType
<1>5. /\ t \in SlotType /\ t.tapped = slot[i].tapped /\ t.open = slot[i].open
      /\ t.replaying = slot[i].replaying /\ t.since = slot[i].since
      /\ t.call = slot[i].call /\ t.status = slot[i].status
      /\ t.reset = slot[i].reset /\ (~t.replaying => t.queue = slot[i].queue)
    <2> HIDE DEF e
    <2> QED BY <1>3, <1>4 DEF SlotType
<1> HIDE DEF t, e
<1>6. /\ Slots' = Slots /\ slot'[i] = t /\ \A j \in Slots \ {i} : slot'[j] = slot[j]
      /\ \A j \in Slots' : slot'[j] \in SlotType
    BY <1>1, <1>5, OneSlotTyped DEF Structure
<1>7. slot[i].tapped /\ ~closed
    BY <1>1, <1>3 DEF SlotRight, Structure, PlaceInv
<1>8. deliveryQueue' \in Seq(Envelope) /\ owner' \in 0..attached
    <2>1. i \in 0..attached /\ owner \in 0..attached
        BY DEF Structure, PlaceInv, Types
    <2>2. deliveryQueue \in Seq(Envelope)
        BY DEF Structure, Types
    <2> QED BY <1>2, <1>4, <2>1, <2>2, QueueTyped
<1>9. Types'
    BY <1>1, <1>6, <1>8 DEF Structure, Types, lineVars, switchVars
<1>10. working # 0 => owner' = working
    <2> SUFFICES ASSUME working # 0 PROVE owner' = working
        OBVIOUS
    <2>1. ~Settled /\ calling # Nothing
        BY <1>1 DEF Settled
    <2> QED BY <1>2, <2>1 DEF Structure, PlaceInv
<1>11. PlaceInv'
    <2>1. deliveryQueue' # <<>> \/ calling' # Nothing => owner' # 0
        BY <1>1, <1>2 DEF Structure, PlaceInv, Settled
    <2> QED BY <1>1, <1>5, <1>6, <1>7, <1>10, <2>1 DEF Structure, PlaceInv, IsOpen, switchVars
<1>12. \A j \in Slots' : SlotRight(j)'
    <2>1. SlotRight(i)'
        BY <1>1, <1>3, <1>5, <1>6, <1>7 DEF SlotRight, switchVars
    <2>2. \A j \in Slots \ {i} : SlotRight(j)'
        BY <1>1, <1>6 DEF SlotRight, switchVars, Structure
    <2> QED BY <1>6, <2>1, <2>2
<1> QED BY <1>9, <1>11, <1>12 DEF Structure

(* An answered keyframe, tail or replay being put before the consumer keeps the
   structure. *)
LEMMA ResumeAnsweredStructure ==
    ASSUME Structure, NEW i \in Slots, ResumeAnswered(i) PROVE Structure'
<1> DEFINE t == [slot[i] EXCEPT !.call = "none", !.status = "asked", !.envs = <<>>]
<1>1. /\ Settled /\ ~closed /\ slot[i].call # "none" /\ slot[i].status = "answered"
      /\ last' = ResetPoint(slot[i]) /\ rest' = slot[i].envs /\ working' = i
      /\ slot' = [slot EXCEPT ![i] = t]
      /\ UNCHANGED <<lineVars, switchVars, closed, deliveryQueue, calling, owner, seen>>
    BY DEF ResumeAnswered
<1>2. slot[i] \in SlotType /\ SlotRight(i)
    BY DEF Structure, Types
<1>3. /\ t \in SlotType /\ t.tapped = slot[i].tapped /\ t.open = slot[i].open
      /\ t.replaying = slot[i].replaying /\ t.since = slot[i].since
      /\ t.call = "none" /\ t.status = "asked" /\ t.queue = slot[i].queue
      /\ t.reset = slot[i].reset /\ t.wire = slot[i].wire
    <2>1. <<>> \in Seq(Envelope)
        OBVIOUS
    <2> QED BY <1>2, <2>1 DEF SlotType
<1> HIDE DEF t
<1>4. /\ Slots' = Slots /\ slot'[i] = t /\ \A j \in Slots \ {i} : slot'[j] = slot[j]
      /\ \A j \in Slots' : slot'[j] \in SlotType
    BY <1>1, <1>3, OneSlotTyped DEF Structure
<1>5. i = pending /\ slot[i].replaying
    BY <1>1, <1>2 DEF SlotRight
<1>6. last' \in Nat \cup {-1} /\ rest' \in Seq(Envelope)
    <2>1. slot[i].envs \in Seq(Envelope) /\ last \in Nat \cup {-1}
        BY <1>2 DEF SlotType, Structure, Types
    <2>2. slot[i].envs # <<>> => slot[i].envs[1].seq \in Nat
        <3>1. slot[i].envs # <<>> => slot[i].envs[1] \in Envelope
            BY <2>1, ElementOfSeq, EmptySeq
        <3> QED BY <3>1 DEF Envelope
    <2> QED BY <1>1, <2>1, <2>2 DEF ResetPoint
<1>7. Types'
    <2>1. working' \in 0..attached
        BY <1>1 DEF Structure, PlaceInv, Types
    <2> QED BY <1>1, <1>4, <1>6, <2>1 DEF Structure, Types, lineVars, switchVars
<1>8. PlaceInv'
    BY <1>1, <1>3, <1>4, <1>5 DEF Structure, PlaceInv, IsOpen, switchVars, Settled
<1>9. \A j \in Slots' : SlotRight(j)'
    <2>1. SlotRight(i)'
        BY <1>1, <1>2, <1>3, <1>4, <1>5 DEF SlotRight, switchVars
    <2>2. \A j \in Slots \ {i} : SlotRight(j)'
        BY <1>1, <1>4 DEF SlotRight, switchVars, Structure, Settled
    <2> QED BY <1>4, <2>1, <2>2
<1> QED BY <1>7, <1>8, <1>9 DEF Structure

(* An answer that has nothing to resume from keeps the structure. *)
LEMMA ResumeMissingStructure ==
    ASSUME Structure, NEW i \in Slots, ResumeMissing(i) PROVE Structure'
<1> DEFINE t == IF slot[i].call = "since"
                THEN [slot[i] EXCEPT !.call = "keyframe", !.status = "asked"]
                ELSE [slot[i] EXCEPT !.call = "none", !.status = "asked"]
<1>1. /\ Settled /\ slot[i].open /\ slot[i].call # "none" /\ slot[i].status = "missing"
      /\ slot' = [slot EXCEPT ![i] = t]
      /\ working' = IF slot[i].call = "since" THEN working ELSE i
      /\ UNCHANGED <<lineVars, switchVars, closed, last, deliveryQueue, calling, owner,
                     rest, seen>>
    BY DEF ResumeMissing
<1>2. slot[i] \in SlotType /\ SlotRight(i)
    BY DEF Structure, Types
<1>3. /\ t \in SlotType /\ t.tapped = slot[i].tapped /\ t.open = slot[i].open
      /\ t.replaying = slot[i].replaying /\ t.since = slot[i].since
      /\ t.call = (IF slot[i].call = "since" THEN "keyframe" ELSE "none")
      /\ t.status = "asked" /\ t.queue = slot[i].queue
      /\ t.reset = slot[i].reset /\ t.wire = slot[i].wire
    BY <1>2 DEF SlotType
<1> HIDE DEF t
<1>4. /\ Slots' = Slots /\ slot'[i] = t /\ \A j \in Slots \ {i} : slot'[j] = slot[j]
      /\ \A j \in Slots' : slot'[j] \in SlotType
    BY <1>1, <1>3, OneSlotTyped DEF Structure
<1>5. i = pending /\ slot[i].replaying
    BY <1>1, <1>2 DEF SlotRight
<1>7. Types'
    <2>1. working' \in 0..attached
        BY <1>1 DEF Structure, PlaceInv, Types
    <2> QED BY <1>1, <1>4, <2>1 DEF Structure, Types, lineVars, switchVars
<1>8. PlaceInv'
    BY <1>1, <1>3, <1>4, <1>5 DEF Structure, PlaceInv, IsOpen, switchVars, Settled
<1>9. \A j \in Slots' : SlotRight(j)'
    <2>1. SlotRight(i)'
        BY <1>1, <1>2, <1>3, <1>4, <1>5 DEF SlotRight, switchVars, Settled
    <2>2. \A j \in Slots \ {i} : SlotRight(j)'
        BY <1>1, <1>4 DEF SlotRight, switchVars, Structure, Settled
    <2> QED BY <1>4, <2>1, <2>2
<1> QED BY <1>7, <1>8, <1>9 DEF Structure

(* The move of one queued event to the delivery queue keeps the structure. *)
LEMMA DeliverNextStructure == ASSUME Structure, DeliverNext PROVE Structure'
<1>1. /\ working # 0 /\ calling = Nothing /\ deliveryQueue = <<>>
      /\ rest # <<>> \/ slot[working].queue # <<>>
      /\ owner' = working
      /\ UNCHANGED <<lineVars, switchVars, closed, last, calling, working, seen>>
    BY DEF DeliverNext, Working
<1>2. /\ working \in Slots /\ working = pending /\ slot[working] \in SlotType
      /\ SlotRight(working) /\ ~closed
    BY <1>1 DEF Structure, PlaceInv, Types
<1>3. CASE rest # <<>>
    <2>1. deliveryQueue' = <<Head(rest)>> /\ rest' = Tail(rest) /\ slot' = slot
        BY <1>3 DEF DeliverNext
    <2>2. rest' \in Seq(Envelope) /\ deliveryQueue' \in Seq(Envelope)
        BY <1>3, <2>1, QueueTyped DEF Structure, Types
    <2>3. Types'
        BY <1>1, <1>2, <2>1, <2>2 DEF Structure, Types, lineVars, switchVars, Slots
    <2> QED BY <1>1, <1>2, <2>1, <2>3, PlacesRest DEF switchVars
<1>4. CASE rest = <<>>
    <2> DEFINE t == [slot[working] EXCEPT !.queue = Tail(@)]
    <2>1. /\ deliveryQueue' = <<Head(slot[working].queue)>> /\ rest' = rest
          /\ slot' = [slot EXCEPT ![working] = t] /\ slot[working].queue # <<>>
        BY <1>1, <1>4 DEF DeliverNext
    <2>2. Head(slot[working].queue) \in Envelope /\ Tail(slot[working].queue) \in Seq(Envelope)
        BY <1>2, <2>1, QueueTyped DEF SlotType
    <2>3. /\ t \in SlotType /\ t.tapped = slot[working].tapped /\ t.open = slot[working].open
          /\ t.replaying = slot[working].replaying /\ t.since = slot[working].since
          /\ t.call = slot[working].call /\ t.status = slot[working].status
          /\ t.reset = slot[working].reset /\ t.wire = slot[working].wire
        BY <1>2, <2>2 DEF SlotType
    <2> HIDE DEF t
    <2>4. /\ Slots' = Slots /\ slot'[working] = t
          /\ \A j \in Slots \ {working} : slot'[j] = slot[j]
          /\ \A j \in Slots' : slot'[j] \in SlotType
        BY <1>2, <2>1, <2>3, OneSlotTyped DEF Structure
    <2>5. slot[working].tapped /\ slot[working].replaying
        BY <1>2, <2>1 DEF SlotRight
    <2>6. deliveryQueue' \in Seq(Envelope)
        BY <2>1, <2>2
    <2>7. Types'
        BY <1>1, <1>2, <2>1, <2>4, <2>6 DEF Structure, Types, lineVars, switchVars
    <2>8. PlaceInv'
        BY <1>1, <1>2, <1>4, <2>1, <2>3, <2>4 DEF Structure, PlaceInv, IsOpen, switchVars
    <2>9. \A j \in Slots' : SlotRight(j)'
        <3>1. SlotRight(working)'
            BY <1>1, <1>2, <2>3, <2>4, <2>5 DEF SlotRight, switchVars
        <3>2. \A j \in Slots \ {working} : SlotRight(j)'
            BY <1>1, <2>4 DEF SlotRight, switchVars, Structure
        <3> QED BY <1>1, <2>4, <3>1, <3>2
    <2> QED BY <2>7, <2>8, <2>9 DEF Structure
<1> QED BY <1>3, <1>4

(* A slot going live when its queue is empty keeps the structure. *)
LEMMA GoLiveStructure == ASSUME Structure, GoLive PROVE Structure'
<1>1. /\ working # 0 /\ calling = Nothing /\ deliveryQueue = <<>> /\ rest = <<>>
      /\ slot[working].queue = <<>> /\ working' = 0
      /\ UNCHANGED <<lineVars, chain, attached, pending, active, closed, last,
                     deliveryQueue, calling, owner, rest, seen>>
    BY DEF GoLive, Working
<1>2. /\ working \in Slots /\ working = pending /\ slot[working] \in SlotType
      /\ SlotRight(working) /\ ~closed
    BY <1>1 DEF Structure, PlaceInv, Types
<1>3. CASE slot[working].open
    <2> DEFINE t == [slot[working] EXCEPT !.replaying = FALSE]
    <2>1. slot' = [slot EXCEPT ![working] = t] /\ outcome' = Settle(working, "ready")
        BY <1>3 DEF GoLive
    <2>2. /\ t \in SlotType /\ t.tapped = slot[working].tapped /\ t.open = slot[working].open
          /\ ~t.replaying /\ t.since = slot[working].since /\ t.queue = slot[working].queue
          /\ t.call = slot[working].call /\ t.status = slot[working].status
          /\ t.reset = slot[working].reset /\ t.wire = slot[working].wire
        BY <1>2 DEF SlotType
    <2> HIDE DEF t
    <2>3. /\ Slots' = Slots /\ slot'[working] = t
          /\ \A j \in Slots \ {working} : slot'[j] = slot[j]
          /\ \A j \in Slots' : slot'[j] \in SlotType
        BY <1>2, <2>1, <2>2, OneSlotTyped DEF Structure
    <2>4. outcome' \in {outcome, "ready"}
        BY <2>1 DEF Settle
    <2>5. Types'
        <3>1. {pending', active', owner', working'} \subseteq 0..attached'
            BY <1>1 DEF Structure, Types
        <3> QED BY <1>1, <2>3, <2>4, <3>1 DEF Structure, Types, lineVars
    <2>6. PlaceInv'
        BY <1>1, <1>2, <1>3, <2>2, <2>3, <2>4 DEF Structure, PlaceInv, IsOpen
    <2>7. ASSUME NEW j \in Slots' PROVE SlotRight(j)'
        <3>0. j # 0
            BY <2>3 DEF Structure, PlaceInv
        <3>1. CASE j = working
            BY <1>1, <1>2, <1>3, <2>2, <2>3, <3>0, <3>1 DEF SlotRight
        <3>2. CASE j # working
            BY <1>1, <1>2, <2>3, <3>0, <3>2 DEF SlotRight, Structure
        <3> QED BY <3>1, <3>2
    <2> QED BY <2>5, <2>6, <2>7 DEF Structure
<1>4. CASE ~slot[working].open
    <2>1. slot' = Restrict(slot, Slots \ {working}) /\ outcome' = outcome
        BY <1>4 DEF GoLive
    <2>2. Slots' = Slots \ {working} /\ \A j \in Slots' : slot'[j] = slot[j]
        BY <2>1 DEF Restrict, Slots
    <2>3. Types'
        <3>1. {pending', active', owner', working'} \subseteq 0..attached'
            BY <1>1 DEF Structure, Types
        <3> QED BY <1>1, <2>1, <2>2, <3>1 DEF Structure, Types, lineVars
    <2>4. PlaceInv'
        BY <1>1, <1>2, <2>1, <2>2 DEF Structure, PlaceInv, IsOpen
    <2>5. ASSUME NEW j \in Slots' PROVE SlotRight(j)'
        <3>1. j # 0 /\ j # working /\ SlotRight(j) /\ slot'[j] = slot[j]
            BY <2>2 DEF Structure, PlaceInv
        <3> QED BY <1>1, <3>1 DEF SlotRight
    <2> QED BY <2>3, <2>4, <2>5 DEF Structure
<1> QED BY <1>3, <1>4

(* The delivery loop, skipping, calling or returning keeps the structure. *)
LEMMA LoopStructure ==
    ASSUME Structure, SkipDelivered \/ CallbackStarts \/ CallbackReturns PROVE Structure'
<1>1. /\ UNCHANGED <<lineVars, switchVars, slot, closed, owner, working, rest>>
      /\ deliveryQueue' = deliveryQueue \/ (deliveryQueue # <<>> /\ deliveryQueue' = Tail(deliveryQueue))
    BY DEF SkipDelivered, CallbackStarts, CallbackReturns, Delivering
<1>2. deliveryQueue' \in Seq(Envelope) /\ (deliveryQueue # <<>> => Head(deliveryQueue) \in Envelope)
    BY <1>1, QueueTyped DEF Structure, Types
<1>3. calling' \in Envelope \cup {Nothing} /\ last' \in Nat \cup {-1}
    <2>1. CASE SkipDelivered
        BY <2>1 DEF SkipDelivered, Structure, Types
    <2>2. CASE CallbackStarts
        BY <1>2, <2>2 DEF CallbackStarts, Delivering, Structure, Types
    <2>3. CASE CallbackReturns
        BY <2>3 DEF CallbackReturns, Structure, Types, Envelope
    <2> QED BY <2>1, <2>2, <2>3
<1>4. Types'
    BY <1>1, <1>2, <1>3 DEF Structure, Types, lineVars, switchVars, Slots
<1>5. closed => deliveryQueue' = <<>>
    BY <1>1 DEF Structure, PlaceInv
<1>6. deliveryQueue' # <<>> \/ calling' # Nothing =>
        deliveryQueue # <<>> \/ calling # Nothing
    BY DEF SkipDelivered, CallbackStarts, CallbackReturns, Delivering
<1> QED BY <1>1, <1>4, <1>5, <1>6, PlacesRest DEF switchVars, Structure, PlaceInv

(* A callback that throws keeps the structure. *)
LEMMA CallbackFailsStructure == ASSUME Structure, CallbackFails PROVE Structure'
<1>1. /\ deliveryQueue # <<>> /\ calling = Nothing
      /\ deliveryQueue' = <<>> /\ rest' = <<>> /\ working' = 0
      /\ slot' = Restrict(slot, Slots \ {owner}) /\ outcome' = Settle(owner, "failed")
      /\ UNCHANGED <<lineVars, chain, attached, pending, active, closed, last, calling,
                     owner, seen>>
    BY DEF CallbackFails, Delivering
<1>2. Slots' = Slots \ {owner} /\ \A j \in Slots' : slot'[j] = slot[j]
    BY <1>1 DEF Restrict, Slots
<1>3. outcome' = outcome \/ (pending = owner /\ outcome = "waiting" /\ outcome' = "failed")
    BY <1>1 DEF Settle
<1>4. Types'
    <2>1. <<>> \in Seq(Envelope)
        OBVIOUS
    <2>2. {pending', active', owner', working'} \subseteq 0..attached'
        BY <1>1 DEF Structure, Types
    <2>3. \A j \in Slots' : slot'[j] \in SlotType
        BY <1>2 DEF Structure, Types
    <2> QED BY <1>1, <1>3, <2>1, <2>2, <2>3 DEF Structure, Types, lineVars
<1>5. ~closed /\ (working # 0 => owner = working)
    BY <1>1 DEF Structure, PlaceInv
<1>6. PlaceInv'
    <2>1. owner # 0
        BY <1>1 DEF Structure, PlaceInv
    <2>2. outcome' = "failed" => ~IsOpen(pending)'
        BY <1>1, <1>2, <1>3 DEF Structure, PlaceInv, IsOpen
    <2>3. outcome' = "ready" /\ pending' \in Slots' => ~slot'[pending'].replaying
        BY <1>1, <1>2, <1>3 DEF Structure, PlaceInv
    <2>4. pending' = 0 /\ ~closed' => outcome' = "waiting"
        BY <1>1, <1>3, <2>1 DEF Structure, PlaceInv
    <2>5. Slots' \subseteq 1..attached' /\ Slots' \subseteq {active', pending'}
        BY <1>1, <1>2 DEF Structure, PlaceInv
    <2> QED BY <1>1, <1>5, <2>1, <2>2, <2>3, <2>4, <2>5 DEF Structure, PlaceInv
<1>7. \A j \in Slots' : SlotRight(j)'
    <2> TAKE j \in Slots'
    <2>1. j \in Slots /\ slot'[j] = slot[j] /\ j # owner
        BY <1>2
    <2>2. SlotRight(j)
        BY <2>1 DEF Structure
    <2>3. j # 0
        BY <2>1 DEF Structure, PlaceInv, Types
    <2>4. j # working
        BY <1>5, <2>1, <2>3
    <2> QED BY <1>1, <2>1, <2>2, <2>3, <2>4 DEF SlotRight
<1> QED BY <1>4, <1>6, <1>7 DEF Structure

(* The request of a switch keeps the structure. *)
LEMMA SwitchStructure == ASSUME Structure, NEW r \in Routes, Switch(r) PROVE Structure'
<1>1. /\ chain' = Append(chain, r)
      /\ UNCHANGED <<lineVars, slot, attached, pending, outcome, active, closed, loopVars>>
    BY DEF Switch
<1>2. chain' \in Seq(Routes)
    BY <1>1, QueueTyped DEF Structure, Types
<1>3. Types'
    BY <1>1, <1>2 DEF Structure, Types, lineVars, loopVars, Slots
<1> QED BY <1>1, <1>3, PlacesRest DEF loopVars, Structure, PlaceInv

(* The start of a switch keeps the structure. *)
LEMMA DoSwitchStructure == ASSUME Structure, DoSwitch PROVE Structure'
<1>1. /\ Settled /\ pending = 0 /\ chain # <<>> /\ chain' = Tail(chain)
      /\ UNCHANGED <<lineVars, outcome, active, closed, loopVars>>
    BY DEF DoSwitch
<1>2. chain' \in Seq(Routes) /\ Head(chain) \in Routes
    BY <1>1, QueueTyped DEF Structure, Types
<1>3. CASE closed
    <2>1. UNCHANGED <<slot, attached, pending>>
        BY <1>3 DEF DoSwitch
    <2>2. Types'
        BY <1>1, <1>2, <2>1 DEF Structure, Types, lineVars, loopVars, Slots
    <2> QED BY <1>1, <2>1, <2>2, PlacesRest DEF loopVars, Structure, PlaceInv
<1>4. CASE ~closed
    <2> DEFINE n == attached + 1
               t == Attached(Head(chain), last, active = 0)
    <2>1. attached' = n /\ pending' = n 
             /\ slot' = [i \in Slots \cup {n} |-> IF i \in Slots THEN slot[i] ELSE t]
        BY <1>4 DEF DoSwitch
    <2>2. attached \in Nat /\ n \notin Slots /\ Slots \subseteq 1..attached
        BY DEF Structure, PlaceInv, Types
    <2>3. /\ t \in SlotType /\ ~t.tapped /\ t.open /\ t.replaying /\ t.wire = <<>>
          /\ t.queue = <<>> /\ t.call # "none" /\ t.status = "asked" /\ t.reset = (active = 0)
          /\ (t.call \in {"frame", "since"} => t.since >= 0)
        <3>1. last \in Nat \cup {-1} /\ <<>> \in Seq(Envelope)
            BY DEF Structure, Types
        <3>2. FirstCall(Head(chain), last) \in {"keyframe", "frame", "since"}
              /\ (FirstCall(Head(chain), last) # "keyframe" => last >= 0)
            BY <3>1 DEF FirstCall
        <3>3. (active = 0) \in BOOLEAN
            OBVIOUS
        <3> QED BY <1>2, <3>1, <3>2, <3>3 DEF Attached, SlotType
    <2> HIDE DEF t
    <2>4. Slots' = Slots \cup {n} /\ slot'[n] = t /\ \A j \in Slots : slot'[j] = slot[j]
        BY <2>1, <2>2 DEF Slots
    <2>5. n # 0 /\ n \in Nat /\ active < n /\ outcome = "waiting"
        BY <1>1, <1>4, <2>2 DEF Structure, Types, PlaceInv
    <2>6. Types'
        <3>1. {pending', active', owner', working'} \subseteq 0..attached' /\ attached' \in Nat
            BY <1>1, <2>1, <2>2 DEF Structure, Types, loopVars
        <3>2. \A j \in Slots' : slot'[j] \in SlotType
            BY <2>3, <2>4 DEF Structure, Types
        <3> QED BY <1>1, <1>2, <3>1, <3>2 DEF Structure, Types, lineVars, loopVars
    <2>7. PlaceInv'
        <3>1. Slots' \subseteq 1..attached' /\ Slots' \subseteq {active', pending'}
            BY <1>1, <2>1, <2>2, <2>4 DEF Structure, PlaceInv
        <3>2. rest' = <<>> /\ working' = 0
            BY <1>1 DEF Structure, PlaceInv, Settled, loopVars
        <3> QED BY <1>1, <1>4, <2>1, <2>5, <3>1, <3>2 DEF Structure, PlaceInv, loopVars
    <2>8. \A j \in Slots' : SlotRight(j)'
        <3>1. ASSUME NEW j, j = n PROVE SlotRight(j)'
            <4>1. j # working /\ j = pending' /\ active' = active /\ working' = working /\ slot'[j] = t
                BY <1>1, <2>1, <2>4, <2>5, <3>1 DEF Settled, loopVars
            <4> QED BY <2>3, <4>1 DEF SlotRight
        <3>2. ASSUME NEW j \in Slots PROVE SlotRight(j)'
            <4>1. SlotRight(j) /\ j # pending /\ j # n
                BY <1>1, <2>2 DEF Structure, PlaceInv
            <4> QED BY <1>1, <2>1, <2>4, <4>1 DEF SlotRight, loopVars
        <3> QED BY <2>4, <3>1, <3>2
    <2> QED BY <2>6, <2>7, <2>8 DEF Structure
<1> QED BY <1>3, <1>4

(* The end of a switch keeps the structure. *)
LEMMA SwitchEndsStructure == ASSUME Structure, SwitchEnds PROVE Structure'
<1>1. /\ Settled /\ pending # 0 /\ outcome # "waiting"
      /\ pending \in Slots => slot[pending].call = "none"
      /\ pending' = 0 /\ outcome' = "waiting"
      /\ UNCHANGED <<lineVars, chain, attached, closed, loopVars>>
    BY DEF SwitchEnds
<1>2. working = 0 /\ active < pending /\ attached \in Nat /\ pending \in 0..attached
      /\ active \in 0..attached /\ Slots \subseteq 1..attached /\ Slots \subseteq {active, pending}
    BY <1>1 DEF Structure, PlaceInv, Types, Settled
<1>3. ASSUME pending \in Slots PROVE slot[pending].open /\ outcome = "ready" /\ ~slot[pending].replaying
    <2>1. SlotRight(pending)
        BY <1>3 DEF Structure
    <2>2. slot[pending].open
        BY <1>1, <1>2, <1>3, <2>1 DEF SlotRight
    <2> QED BY <1>1, <1>3, <2>2 DEF Structure, PlaceInv, IsOpen, Types
<1>4. CASE outcome = "ready" /\ IsOpen(pending)
    <2>1. active' = pending /\ slot' = Dispose(active) /\ pending \in Slots
        BY <1>4 DEF SwitchEnds, IsOpen
    <2>2. active \in Slots => slot[active].status # "answered" /\ active # working
        <3>1. active \in Slots => SlotRight(active) /\ active # pending
            BY <1>2 DEF Structure
        <3> QED BY <3>1 DEF SlotRight
    <2>3. Slots' = {pending} /\ slot'[pending] = slot[pending]
        BY <1>2, <2>1, <2>2, DisposeFacts DEF Slots
    <2>4. Types'
        <3>1. \A j \in Slots' : slot'[j] \in SlotType
            BY <2>1, <2>3 DEF Structure, Types
        <3> QED BY <1>1, <1>2, <2>1, <3>1 DEF Structure, Types, lineVars, loopVars
    <2>5. PlaceInv'
        BY <1>1, <1>2, <2>1, <2>3 DEF Structure, PlaceInv, IsOpen, loopVars, Settled
    <2>6. ASSUME NEW j \in Slots' PROVE SlotRight(j)'
        <3>1. j = pending /\ SlotRight(j) /\ slot[j].open /\ ~slot[j].replaying
            BY <1>3, <2>1, <2>3 DEF Structure
        <3> QED BY <1>1, <1>2, <2>1, <2>3, <3>1 DEF SlotRight, loopVars
    <2> QED BY <2>4, <2>5, <2>6 DEF Structure
<1>5. CASE ~(outcome = "ready" /\ IsOpen(pending))
    <2>1. UNCHANGED <<active, slot>> /\ Slots' = Slots /\ pending \notin Slots
        BY <1>3, <1>5 DEF SwitchEnds, IsOpen, Slots
    <2>2. Types'
        BY <1>1, <2>1 DEF Structure, Types, lineVars, loopVars
    <2>3. PlaceInv'
        BY <1>1, <1>2, <2>1 DEF Structure, PlaceInv, IsOpen, loopVars
    <2>4. \A j \in Slots' : SlotRight(j)'
        BY <1>1, <1>2, <2>1 DEF SlotRight, Structure, loopVars
    <2> QED BY <2>2, <2>3, <2>4 DEF Structure
<1> QED BY <1>4, <1>5

(* off() keeps the structure. *)
LEMMA OffStructure == ASSUME Structure, Off PROVE Structure'
<1>1. /\ ~closed /\ closed' = TRUE /\ active' = 0 /\ slot' = <<>>
      /\ outcome' = Settle(pending, "ready")
      /\ deliveryQueue' = <<>> /\ rest' = <<>> /\ working' = 0
      /\ UNCHANGED <<lineVars, chain, attached, pending, last, calling, owner, seen>>
    BY DEF Off
<1>2. Slots' = {}
    BY <1>1 DEF Slots
<1>3. outcome' \in {"waiting", "ready", "failed"} /\ <<>> \in Seq(Envelope)
    BY <1>1 DEF Settle, Structure, Types
<1>4. Types'
    BY <1>1, <1>2, <1>3 DEF Structure, Types, lineVars
<1>5. PlaceInv'
    BY <1>1, <1>2, <1>3 DEF Structure, PlaceInv, IsOpen, Types
<1> QED BY <1>2, <1>4, <1>5 DEF Structure

(* A step, whichever it is, keeps the structure. *)
LEMMA NextStructure == Structure /\ [Next]_vars => Structure'
<1> SUFFICES ASSUME Structure, [Next]_vars PROVE Structure'
    OBVIOUS
<1>1. CASE SkipDelivered \/ CallbackStarts \/ CallbackReturns
    BY <1>1, LoopStructure
<1>2. CASE CallbackFails
    BY <1>2, CallbackFailsStructure
<1>3. CASE DeliverNext
    BY <1>3, DeliverNextStructure
<1>4. CASE GoLive
    BY <1>4, GoLiveStructure
<1>5. CASE DoSwitch
    BY <1>5, DoSwitchStructure
<1>6. CASE SwitchEnds
    BY <1>6, SwitchEndsStructure
<1>7. ASSUME NEW i \in Slots, ResumeAnswered(i) \/ ResumeMissing(i) PROVE Structure'
    BY <1>7, ResumeAnsweredStructure, ResumeMissingStructure
<1>8. ASSUME NEW r \in Routes, Forward(r) \/ Switch(r) PROVE Structure'
    BY <1>8, ForwardStructure, SwitchStructure
<1>9. ASSUME NEW i \in Slots, AttachLiveLine(i) \/ RemoteAnswers(i) \/ LiveTap(i) PROVE Structure'
    BY <1>9, AttachLiveLineStructure, RemoteAnswersStructure, LiveTapStructure
<1>10. ASSUME NEW i \in Slots, LineFails(i) \/ CallFails(i) PROVE Structure'
    <2>1. i # 0
        BY DEF Structure, PlaceInv, Types
    <2> QED BY <1>10, <2>1, FailSlotStructure DEF LineFails, CallFails
<1>11. CASE TimeoutFires
    BY <1>11, FailSlotStructure DEF TimeoutFires
<1>12. CASE Off
    BY <1>12, OffStructure
<1>13. CASE UNCHANGED vars
    <2>1. Types'
        BY <1>13 DEF vars, Structure, Types, lineVars, switchVars, loopVars, Slots
    <2> QED BY <1>13, <2>1, PlacesRest DEF vars, lineVars, switchVars, loopVars, Structure, PlaceInv
<1> QED BY <1>1, <1>2, <1>3, <1>4, <1>5, <1>6, <1>7, <1>8, <1>9, <1>10, <1>11, <1>12, <1>13
        DEF Next, EventLoop

-----------------------------------------------------------------------------
(* What is on its way *)

Ev(n) == [seq |-> n, keyframe |-> FALSE]

\* The queue and then the wire are the events that end at h.
Run(w, q, h) ==
    /\ h - Len(w) - Len(q) >= 0
    /\ \A k \in 1..Len(w) : w[k] = Ev(h - Len(w) + k)
    /\ \A k \in 1..Len(q) : q[k] = Ev(h - Len(w) - Len(q) + k)

HeadOf(i) == heads[slot[i].route]
Base(i) == HeadOf(i) - Len(slot[i].wire) - Len(slot[i].queue)

WireRight(i) == slot[i].tapped => Run(slot[i].wire, slot[i].queue, HeadOf(i))

Given(e) == e.seq <= Produced /\ (IF e.keyframe THEN HasKeyframe ELSE e.seq >= 1)

\* What a catch-up is answered: a keyframe, or a run of events after its number.
AnswerShape(s) ==
    \/ /\ s.call # "since" /\ HasKeyframe
       /\ Len(s.envs) = 1 /\ s.envs[1].keyframe /\ s.envs[1].seq <= Produced
    \/ /\ s.since >= 0 /\ s.since + Len(s.envs) <= Produced
       /\ \A j \in 1..Len(s.envs) : s.envs[j] = Ev(s.since + j)

CallRight(i) ==
    LET s == slot[i] IN
    s.call # "none" =>
        /\ s.since <= last
        /\ s.reset => s.since = last /\ deliveryQueue = <<>> /\ calling = Nothing
        /\ s.status = "missing" /\ HasKeyframe => s.call = "since"
        /\ s.status = "answered" =>
            /\ AnswerShape(s)
            /\ s.tapped => \/ s.envs = <<>> /\ s.since >= Base(i)
                          \/ \E j \in 1..Len(s.envs) : s.envs[j].seq >= Base(i)

Contents ==
    /\ last <= Produced /\ seen \subseteq 1..Produced
    /\ calling # Nothing => calling.seq >= last /\ Given(calling)
    /\ \A k \in 1..Len(deliveryQueue) : Given(deliveryQueue[k])
    /\ \A k \in 1..Len(rest) : Given(rest[k])
    /\ \A i \in Slots : WireRight(i) /\ CallRight(i)

\* A set of natural numbers with a member has a least one.
(* A set of numbers that is not empty has a least one. *)
LEMMA Least ==
    ASSUME NEW T \in SUBSET Nat, T # {}
    PROVE  \E x \in T : \A y \in T : x <= y
<1> DEFINE R == OpToRel(<, Nat)
<1>1. IsWellFoundedOn(R, Nat)
    BY NatLessThanWellFounded
<1>2. R = {ss \in Nat \X Nat : ss[1] < ss[2]}
    BY DEF OpToRel
<1>3. \A a, b \in Nat : a < b => <<a, b>> \in R
    BY <1>2
<1> HIDE DEF R
<1>4. PICK x \in T : \A y \in T : ~(<<y, x>> \in R)
    BY <1>1, WFMin
<1>5. \A y \in T : x <= y
    <2> TAKE y \in T
    <2>1. y \in Nat /\ x \in Nat
        OBVIOUS
    <2>2. ~(y < x)
        BY <1>3, <1>4, <2>1
    <2> QED BY <2>1, <2>2
<1> QED BY <1>5

\* Among the routes one has come furthest.
Furthest(h) == CHOOSE x \in {h[r] : r \in Routes} : \A r \in Routes : h[r] <= x

(* The furthest of finitely many heads bounds them and is one of them. *)
LEMMA FurthestFacts ==
    ASSUME Top \in Nat, Routes # {}, NEW h \in [Routes -> 0..Top]
    PROVE  /\ Furthest(h) \in Nat /\ \A r \in Routes : h[r] <= Furthest(h)
           /\ \E r \in Routes : Furthest(h) = h[r]
<1> DEFINE T == {Top - h[r] : r \in Routes}
           H == {h[r] : r \in Routes}
           Is(x) == \A r \in Routes : h[r] <= x
<1>1. \A r \in Routes : h[r] \in 0..Top
    OBVIOUS
<1>2. T \in SUBSET Nat /\ T # {}
    BY <1>1
<1>3. PICK x \in T : \A y \in T : x <= y
    BY <1>2, Least
<1>4. PICK m \in Routes : x = Top - h[m]
    BY <1>3
<1>5. \A r \in Routes : h[r] <= h[m]
    <2> TAKE r \in Routes
    <2>1. Top - h[r] \in T
        OBVIOUS
    <2>2. Top - h[m] <= Top - h[r]
        BY <1>3, <1>4, <2>1
    <2> QED BY <1>1, <2>2
<1>6. \E v \in H : Is(v)
    BY <1>5
<1>7. Furthest(h) = CHOOSE v \in H : Is(v)
    BY DEF Furthest
<1>8. Furthest(h) \in H /\ Is(Furthest(h))
    <2> HIDE DEF Is, H
    <2> QED BY <1>6, <1>7
<1> QED BY <1>1, <1>8

(* Produced is the head of the furthest route. *)
LEMMA ProducedFacts ==
    ASSUME Types
    PROVE  /\ Produced \in Nat /\ \A r \in Routes : heads[r] <= Produced
           /\ \E r \in Routes : Produced = heads[r]
<1>1. Top \in Nat /\ Routes # {} /\ heads \in [Routes -> 0..Top]
    BY DEF Types, Top, RouteAssumption
<1>2. Produced = Furthest(heads)
    BY DEF Produced, Furthest
<1> QED BY <1>1, <1>2, FurthestFacts

(* Appending the next event to a run of consecutive events leaves a run. *)
LEMMA RunAppend ==
    ASSUME NEW w \in Seq(Envelope), NEW q \in Seq(Envelope), NEW h \in Nat, Run(w, q, h)
    PROVE  /\ Run(Append(w, Ev(h + 1)), q, h + 1)
           /\ Len(Append(w, Ev(h + 1))) = Len(w) + 1
<1> DEFINE e == Ev(h + 1)
           v == Append(w, e)
<1>1. e \in Envelope
    BY DEF Ev, Envelope
<1>2. Len(v) = Len(w) + 1 /\ Len(w) \in Nat /\ Len(q) \in Nat /\ v[Len(w) + 1] = e
      /\ \A k \in 1..Len(w) : v[k] = w[k]
    BY <1>1, AppendProperties, LenProperties
<1> HIDE DEF v
<1>3. ASSUME NEW k \in 1..Len(v) PROVE v[k] = Ev((h + 1) - Len(v) + k)
    <2>1. (h + 1) - Len(v) + k = h - Len(w) + k
        BY <1>2
    <2>2. CASE k \in 1..Len(w)
        BY <1>2, <2>1, <2>2 DEF Run
    <2>3. CASE k = Len(w) + 1
        <3>1. h - Len(w) + k = h + 1
            BY <1>2, <2>3
        <3> QED BY <1>2, <2>1, <2>3, <3>1
    <2> QED BY <1>2, <2>2, <2>3
<1>4. ASSUME NEW k \in 1..Len(q) PROVE q[k] = Ev((h + 1) - Len(v) - Len(q) + k)
    <2>1. (h + 1) - Len(v) - Len(q) + k = h - Len(w) - Len(q) + k
        BY <1>2
    <2> QED BY <2>1 DEF Run
<1>5. (h + 1) - Len(v) - Len(q) >= 0
    BY <1>2 DEF Run
<1>6. Run(v, q, h + 1)
    BY <1>3, <1>4, <1>5 DEF Run
<1> QED BY <1>2, <1>6 DEF v

(* Head and tail of a queue, by position. *)
LEMMA HeadTailFacts ==
    ASSUME NEW s \in Seq(Envelope), s # <<>>
    PROVE  /\ Head(s) = s[1] /\ Head(s) \in Envelope /\ Tail(s) \in Seq(Envelope)
           /\ Len(s) \in Nat /\ Len(s) >= 1 /\ Len(Tail(s)) = Len(s) - 1
           /\ \A k \in 1..(Len(s) - 1) : Tail(s)[k] = s[k + 1]
<1>1. Len(s) \in Nat /\ Len(s) >= 1
    BY EmptySeq, LenProperties
<1>2. s[1] \in Envelope
    BY <1>1, ElementOfSeq
<1> QED BY <1>1, <1>2, HeadTailProperties

(* Moving the first event of the wire to the end of the queue leaves the run
   they make together. *)
LEMMA RunMove ==
    ASSUME NEW w \in Seq(Envelope), NEW q \in Seq(Envelope), NEW h \in Nat, Run(w, q, h), w # <<>>
    PROVE  /\ Head(w) = Ev(h - Len(w) + 1) /\ h - Len(w) - Len(q) \in Nat
           /\ Run(Tail(w), Append(q, Head(w)), h)
           /\ q = <<>> => Run(Tail(w), <<>>, h)
           /\ Len(Tail(w)) = Len(w) - 1 /\ Len(Append(q, Head(w))) = Len(q) + 1
<1> DEFINE e == Head(w)
           v == Tail(w)
           p == Append(q, e)
<1>1. /\ e = w[1] /\ e \in Envelope /\ Len(w) \in Nat /\ Len(w) >= 1 /\ Len(v) = Len(w) - 1
      /\ \A k \in 1..(Len(w) - 1) : v[k] = w[k + 1]
    BY HeadTailFacts
<1> HIDE DEF e, v
<1>2. Len(p) = Len(q) + 1 /\ Len(q) \in Nat /\ p[Len(q) + 1] = e /\ \A k \in 1..Len(q) : p[k] = q[k]
    BY <1>1, AppendProperties, LenProperties
<1> HIDE DEF p
<1>3. e = Ev(h - Len(w) + 1)
    BY <1>1 DEF Run
<1>4. ASSUME NEW k \in 1..Len(v) PROVE v[k] = Ev(h - Len(v) + k)
    <2>1. k + 1 \in 1..Len(w) /\ h - Len(v) + k = h - Len(w) + (k + 1)
        BY <1>1
    <2> QED BY <1>1, <2>1 DEF Run
<1>5. ASSUME NEW k \in 1..Len(p) PROVE p[k] = Ev(h - Len(v) - Len(p) + k)
    <2>1. h - Len(v) - Len(p) + k = h - Len(w) - Len(q) + k
        BY <1>1, <1>2
    <2>2. CASE k \in 1..Len(q)
        BY <1>2, <2>1, <2>2 DEF Run
    <2>3. CASE k = Len(q) + 1
        <3>1. h - Len(w) - Len(q) + k = h - Len(w) + 1
            BY <1>1, <1>2, <2>3
        <3> QED BY <1>2, <1>3, <2>1, <2>3, <3>1
    <2> QED BY <1>2, <2>2, <2>3
<1>6. h - Len(v) - Len(p) >= 0 /\ h - Len(w) - Len(q) \in Nat
    BY <1>1, <1>2 DEF Run
<1>7. Run(v, p, h)
    BY <1>4, <1>5, <1>6 DEF Run
<1>8. q = <<>> => Run(v, <<>>, h)
    <2>1. Len(<<>>) = 0 /\ (q = <<>> => Len(q) = 0)
        OBVIOUS
    <2>2. q = <<>> => h - Len(v) - Len(<<>>) >= 0
        BY <1>1, <1>6, <2>1
    <2> QED BY <1>4, <2>1, <2>2 DEF Run
<1> QED BY <1>1, <1>2, <1>3, <1>6, <1>7, <1>8 DEF e, v, p

(* Taking the first event of the queue leaves a run. *)
LEMMA RunPop ==
    ASSUME NEW w \in Seq(Envelope), NEW q \in Seq(Envelope), NEW h \in Nat, Run(w, q, h), q # <<>>
    PROVE  /\ Head(q) = Ev(h - Len(w) - Len(q) + 1) /\ h - Len(w) - Len(q) \in Nat
           /\ Run(w, Tail(q), h) /\ Len(Tail(q)) = Len(q) - 1
<1> DEFINE p == Tail(q)
<1>1. /\ Head(q) = q[1] /\ Len(q) \in Nat /\ Len(q) >= 1 /\ Len(p) = Len(q) - 1 /\ Len(w) \in Nat
      /\ \A k \in 1..(Len(q) - 1) : p[k] = q[k + 1]
    BY HeadTailFacts, LenProperties
<1> HIDE DEF p
<1>2. Head(q) = Ev(h - Len(w) - Len(q) + 1)
    BY <1>1 DEF Run
<1>3. ASSUME NEW k \in 1..Len(p) PROVE p[k] = Ev(h - Len(w) - Len(p) + k)
    <2>1. k + 1 \in 1..Len(q) /\ h - Len(w) - Len(p) + k = h - Len(w) - Len(q) + (k + 1)
        BY <1>1
    <2> QED BY <1>1, <2>1 DEF Run
<1>4. h - Len(w) - Len(p) >= 0 /\ h - Len(w) - Len(q) \in Nat
    BY <1>1 DEF Run
<1>5. Run(w, p, h)
    BY <1>3, <1>4 DEF Run
<1> QED BY <1>1, <1>2, <1>4, <1>5 DEF p

\* Only the slot that is attaching has a call, and then no continuation runs.
(* A call is under way for the pending slot only. *)
LEMMA CallsArePending ==
    ASSUME Structure, NEW i \in Slots
    PROVE  /\ slot[i].call # "none" => i = pending /\ slot[i].replaying /\ working = 0
           /\ slot[i].call # "none" /\ slot[i].reset => Slots = {i} /\ active = 0
           /\ i # 0 /\ i \in {active, pending} /\ slot[i] \in SlotType /\ SlotRight(i)
<1>1. SlotRight(i) /\ slot[i] \in SlotType /\ Slots \subseteq 1..attached
      /\ Slots \subseteq {active, pending} /\ (working # 0 => working = pending)
    BY DEF Structure, PlaceInv, Types
<1>2. i # 0 /\ i \in {active, pending}
    BY <1>1
<1>3. slot[i].call # "none" => i = pending /\ slot[i].replaying /\ working = 0
    BY <1>1, <1>2 DEF SlotRight
<1>4. slot[i].call # "none" /\ slot[i].reset => active = 0
    BY <1>1, <1>3 DEF SlotRight
<1>5. slot[i].call # "none" /\ slot[i].reset => Slots = {i}
    <2>1. 0 \notin Slots
        BY <1>1
    <2> QED BY <1>1, <1>3, <1>4, <2>1
<1> QED BY <1>1, <1>2, <1>3, <1>4, <1>5

(* Produced is a function of the heads. *)
LEMMA ProducedSame == heads' = heads => Produced' = Produced
    BY DEF Produced

(* What is known of a slot a step leaves alone stays known. *)
LEMMA SlotKept ==
    ASSUME NEW i \in Slots, i \in Slots', slot'[i] = slot[i], heads' = heads,
           WireRight(i), CallRight(i), slot[i].since \in Int, last \in Int, last' \in Int,
           slot[i].call = "none" \/ last <= last',
           slot[i].call # "none" /\ slot[i].reset => UNCHANGED <<last, deliveryQueue, calling>>
    PROVE  WireRight(i)' /\ CallRight(i)'
<1>1. HeadOf(i)' = HeadOf(i) /\ Base(i)' = Base(i) /\ Produced' = Produced
    BY ProducedSame DEF HeadOf, Base
<1>2. WireRight(i)'
    BY <1>1 DEF WireRight, Run
<1>3. AnswerShape(slot[i])' <=> AnswerShape(slot[i])
    BY <1>1 DEF AnswerShape
<1>4. CallRight(i)'
    <2> SUFFICES ASSUME slot[i].call # "none" PROVE CallRight(i)'
        BY DEF CallRight
    <2>1. last <= last' /\ slot[i].since <= last'
        BY DEF CallRight
    <2>2. slot[i].reset => slot[i].since = last' /\ deliveryQueue' = <<>> /\ calling' = Nothing
        BY DEF CallRight, Nothing
    <2>3. slot[i].status = "answered" => AnswerShape(slot[i])'
        BY <1>3 DEF CallRight
    <2>4. slot[i].status = "missing" /\ HasKeyframe => slot[i].call = "since"
        BY DEF CallRight
    <2>5. slot[i].status = "answered" /\ slot[i].tapped =>
            \/ slot[i].envs = <<>> /\ slot[i].since >= Base(i)'
            \/ \E j \in 1..Len(slot[i].envs) : slot[i].envs[j].seq >= Base(i)'
        BY <1>1 DEF CallRight
    <2> QED BY <2>1, <2>2, <2>3, <2>4, <2>5 DEF CallRight
<1> QED BY <1>2, <1>4

\* A step that changes no more than the slots of T.
(* What a step has to keep, slot by slot, for the contents to stay right. *)
LEMMA ContentsStep ==
    ASSUME Structure, Structure', Contents, heads' = heads, NEW T,
           last' <= Produced, seen' \subseteq 1..Produced,
           calling' # Nothing => calling'.seq >= last' /\ Given(calling'),
           \A k \in 1..Len(deliveryQueue') : Given(deliveryQueue'[k]),
           \A k \in 1..Len(rest') : Given(rest'[k]),
           \A i \in Slots' \ T : i \in Slots /\ slot'[i] = slot[i],
           \A i \in Slots' \ T : slot[i].call # "none" => last <= last',
           \A i \in Slots' \ T : slot[i].call # "none" /\ slot[i].reset =>
                UNCHANGED <<last, deliveryQueue, calling>>,
           \A i \in Slots' \cap T : WireRight(i)' /\ CallRight(i)'
    PROVE  Contents'
<1>1. Produced' = Produced /\ \A e : Given(e)' <=> Given(e)
    BY ProducedSame DEF Given
<1>2. last \in Int /\ last' \in Int /\ Slots' = DOMAIN slot'
    BY DEF Structure, Types, Slots
<1>3. ASSUME NEW i \in Slots' PROVE WireRight(i)' /\ CallRight(i)'
    <2>1. CASE i \in T
        BY <2>1
    <2>2. CASE i \notin T
        <3>1. i \in Slots /\ slot'[i] = slot[i] /\ WireRight(i) /\ CallRight(i)
            BY <2>2 DEF Contents
        <3>2. slot[i].since \in Int
            <4>1. slot[i] \in SlotType
                BY <3>1 DEF Structure, Types
            <4> QED BY <4>1 DEF SlotType
        <3> QED BY <1>2, <2>2, <3>1, <3>2, SlotKept
    <2> QED BY <2>1, <2>2
<1>4. /\ last' <= Produced' /\ seen' \subseteq 1..Produced'
      /\ calling' # Nothing' => calling'.seq >= last' /\ Given(calling)'
      /\ \A k \in 1..Len(deliveryQueue') : Given(deliveryQueue[k])'
      /\ \A k \in 1..Len(rest') : Given(rest[k])'
    BY <1>1 DEF Nothing, Given
<1> QED BY <1>3, <1>4 DEF Contents

(* The initial state satisfies it: nothing is on its way. *)
LEMMA InitContents == RouteAssumption /\ Init => Contents
<1> SUFFICES ASSUME RouteAssumption, Init PROVE Contents
    OBVIOUS
<1>0. Structure
    BY InitStructure
<1>1. PICK r \in Routes : slot = <<Attached(r, last, TRUE)>>
    BY DEF Init
<1>2. last \in {-1, FirstSeq} /\ seen = 1..last /\ FirstSeq \in Nat \ {0}
    BY DEF Init, RouteAssumption
<1>3. \E m \in Routes : heads[m] = FirstSeq
    BY DEF Init, RouteAssumption
<1>4. FirstSeq <= Produced /\ Produced \in Nat
    BY <1>0, <1>3, ProducedFacts DEF Structure
<1>5. Slots = {1} /\ slot[1] = Attached(r, last, TRUE)
    BY <1>1 DEF Slots
<1>6. WireRight(1) /\ CallRight(1)
    BY <1>2, <1>5 DEF WireRight, CallRight, Attached, Init
<1>7. deliveryQueue = <<>> /\ rest = <<>> /\ calling = Nothing
    BY DEF Init
<1> QED BY <1>2, <1>4, <1>5, <1>6, <1>7 DEF Contents

\* What a route carries next is produced by then.
(* An event that reaches a route keeps what is known of wires, queues and
   answers. *)
LEMMA ForwardContents ==
    ASSUME Structure, Structure', Contents, NEW r \in Routes, Forward(r) PROVE Contents'
<1> DEFINE e == Line(r, 1)!Event(heads[r] + 1)
<1>1. /\ heads' = [heads EXCEPT ![r] = @ + 1] /\ Slots' = Slots
      /\ \A j \in Slots : slot'[j] = IF slot[j].route = r /\ slot[j].tapped
                                   THEN [slot[j] EXCEPT !.wire = Append(@, e)] ELSE slot[j]
      /\ UNCHANGED <<last, seen, calling, deliveryQueue, rest>>
    BY DEF Forward, Slots, loopVars
<1>2. heads[r] \in Nat /\ heads \in [Routes -> 0..Top]
    BY DEF Structure, Types, Top, RouteAssumption
<1>3. e = Ev(heads[r] + 1)
    <2>1. heads[r] + 1 \in Nat
        BY <1>2
    <2> QED BY <2>1, EventTyped DEF Ev
<1> HIDE DEF e
<1>4. Produced <= Produced' /\ Produced \in Nat /\ Produced' \in Nat
    <2>1. PICK m \in Routes : Produced = heads[m]
        BY ProducedFacts DEF Structure
    <2>2. Top \in Nat /\ Routes # {} /\ heads' \in [Routes -> 0..Top]
        BY DEF Structure, Types, Top, RouteAssumption
    <2>3. Produced' \in Nat /\ \A q \in Routes : heads'[q] <= Produced'
        <3>1. Produced' = Furthest(heads')
            BY DEF Produced, Furthest
        <3> QED BY <2>2, <3>1, FurthestFacts
    <2>4. heads[m] <= heads'[m] /\ heads[m] \in Nat /\ heads'[m] \in Nat
        BY <1>1, <1>2
    <2> QED BY <2>1, <2>3, <2>4
<1>5. \A f \in Envelope : Given(f) => Given(f)'
    BY <1>4 DEF Given, Envelope
<1>6. /\ last' <= Produced' /\ seen' \subseteq 1..Produced'
      /\ calling' # Nothing' => calling'.seq >= last' /\ Given(calling)'
      /\ \A k \in 1..Len(deliveryQueue') : Given(deliveryQueue[k])'
      /\ \A k \in 1..Len(rest') : Given(rest[k])'
    <2>1. /\ last \in Int /\ calling \in Envelope \cup {Nothing}
          /\ deliveryQueue \in Seq(Envelope) /\ rest \in Seq(Envelope)
        BY SMTT(30) DEF Structure, Types
    <2>2. last' <= Produced' /\ seen' \subseteq 1..Produced'
        BY <1>1, <1>4, <2>1 DEF Contents
    <2>3. calling # Nothing => calling.seq >= last /\ Given(calling)'
        BY <1>1, <1>5, <2>1 DEF Contents, Given
    <2>4. ASSUME NEW k \in 1..Len(deliveryQueue) PROVE Given(deliveryQueue[k])'
        <3>1. deliveryQueue[k] \in Envelope
            BY <2>1, ElementOfSeq
        <3> QED BY <1>1, <1>5, <3>1 DEF Contents, Given
    <2>5. ASSUME NEW k \in 1..Len(rest) PROVE Given(rest[k])'
        <3>1. rest[k] \in Envelope
            BY <2>1, ElementOfSeq
        <3> QED BY <1>1, <1>5, <3>1 DEF Contents, Given
    <2> QED BY <1>1, <2>2, <2>3, <2>4, <2>5 DEF Nothing
<1>7. ASSUME NEW i \in Slots PROVE WireRight(i)' /\ CallRight(i)'
    <2>1. WireRight(i) /\ CallRight(i) /\ slot[i] \in SlotType /\ SlotRight(i)
        BY DEF Contents, Structure, Types
    <2>2. /\ slot[i].wire \in Seq(Envelope) /\ slot[i].queue \in Seq(Envelope)
          /\ slot[i].route \in Routes /\ HeadOf(i) \in Nat /\ slot[i].since \in Int
          /\ slot[i].envs \in Seq(Envelope)
        <3>1. /\ slot[i].wire \in Seq(Envelope) /\ slot[i].queue \in Seq(Envelope)
              /\ slot[i].route \in Routes /\ slot[i].since \in Nat \cup {-1}
              /\ slot[i].envs \in Seq(Envelope)
            BY <2>1 DEF SlotType
        <3>2. \A q \in Routes : heads[q] \in Nat
            BY DEF Structure, Types, Top, RouteAssumption
        <3> QED BY <3>1, <3>2 DEF HeadOf
    <2>3. /\ slot'[i].since = slot[i].since /\ slot'[i].call = slot[i].call
          /\ slot'[i].status = slot[i].status /\ slot'[i].envs = slot[i].envs
          /\ slot'[i].reset = slot[i].reset /\ slot'[i].tapped = slot[i].tapped
          /\ slot'[i].route = slot[i].route /\ slot'[i].queue = slot[i].queue
        BY <1>1, <2>1 DEF SlotType
    <2>4. WireRight(i)' /\ (slot[i].tapped => Base(i)' = Base(i))
        <3>1. CASE ~slot[i].tapped
            BY <2>3, <3>1 DEF WireRight
        <3>2. CASE slot[i].tapped /\ slot[i].route = r
            <4>1. slot'[i].wire = Append(slot[i].wire, Ev(HeadOf(i) + 1)) /\ HeadOf(i)' = HeadOf(i) + 1
                BY <1>1, <1>2, <1>3, <2>1, <2>3, <3>2, ZenonT(60) DEF SlotType, HeadOf
            <4>2. /\ Run(slot'[i].wire, slot[i].queue, HeadOf(i) + 1)
                  /\ Len(slot'[i].wire) = Len(slot[i].wire) + 1
                BY <2>1, <2>2, <3>2, <4>1, RunAppend DEF WireRight
            <4>3. Len(slot[i].wire) \in Nat /\ Len(slot[i].queue) \in Nat
                BY <2>2, LenProperties
            <4>4. WireRight(i)'
                BY <2>3, <4>1, <4>2 DEF WireRight, Run
            <4>5. Base(i)' = Base(i)
                <5>1. Base(i)' = (HeadOf(i) + 1) - (Len(slot[i].wire) + 1) - Len(slot[i].queue)
                    BY <2>3, <4>1, <4>2 DEF Base
                <5>2. Base(i) = HeadOf(i) - Len(slot[i].wire) - Len(slot[i].queue)
                    BY DEF Base
                <5> HIDE DEF HeadOf
                <5> QED BY <2>2, <4>3, <5>1, <5>2, SMTT(30)
            <4> QED BY <4>4, <4>5
        <3>3. CASE slot[i].tapped /\ slot[i].route # r
            <4>1. slot'[i] = slot[i] /\ HeadOf(i)' = HeadOf(i)
                BY <1>1, <1>2, <2>2, <2>3, <3>3 DEF HeadOf
            <4>2. WireRight(i)'
                BY <2>1, <4>1 DEF WireRight, Run
            <4> QED BY <4>1, <4>2 DEF Base, HeadOf
        <3> QED BY <3>1, <3>2, <3>3
    <2>5. slot[i].call # "none" /\ slot[i].status = "answered" =>
            /\ AnswerShape(slot[i])'
            /\ slot[i].tapped => \/ slot[i].envs = <<>> /\ slot[i].since >= Base(i)'
                                \/ \E j \in 1..Len(slot[i].envs) : slot[i].envs[j].seq >= Base(i)'
        <3> SUFFICES ASSUME slot[i].call # "none", slot[i].status = "answered"
                     PROVE  /\ AnswerShape(slot[i])'
                            /\ slot[i].tapped =>
                                \/ slot[i].envs = <<>> /\ slot[i].since >= Base(i)'
                                \/ \E j \in 1..Len(slot[i].envs) : slot[i].envs[j].seq >= Base(i)'
            OBVIOUS
        <3>1. AnswerShape(slot[i])
            BY <2>1 DEF CallRight
        <3>2. Len(slot[i].envs) \in Nat /\ (Len(slot[i].envs) = 1 => slot[i].envs[1].seq \in Nat)
            <4>1. Len(slot[i].envs) \in Nat
                BY <2>2, LenProperties
            <4>2. Len(slot[i].envs) = 1 => slot[i].envs[1] \in Envelope
                BY <2>2, ElementOfSeq
            <4> QED BY <4>1, <4>2 DEF Envelope
        <3>3. AnswerShape(slot[i])'
            BY <1>4, <2>2, <2>3, <3>1, <3>2, SMTT(30) DEF AnswerShape
        <3> QED BY <2>1, <2>4, <3>3 DEF CallRight
    <2>6. CallRight(i)'
        <3> SUFFICES ASSUME slot[i].call # "none" PROVE CallRight(i)'
            BY <2>3 DEF CallRight
        <3>1. slot[i].since <= last'
              /\ (slot[i].reset => slot[i].since = last' /\ deliveryQueue' = <<>> /\ calling' = Nothing)
              /\ (slot[i].status = "missing" /\ HasKeyframe => slot[i].call = "since")
            BY <1>1, <2>1 DEF CallRight
        <3>2. slot'[i].status = "answered" => AnswerShape(slot[i])'
            BY <2>3, <2>5
        <3>3. slot'[i].status = "answered" /\ slot'[i].tapped =>
                \/ slot'[i].envs = <<>> /\ slot'[i].since >= Base(i)'
                \/ \E j \in 1..Len(slot'[i].envs) : slot'[i].envs[j].seq >= Base(i)'
            BY <2>3, <2>5
        <3> QED BY <2>3, <3>1, <3>2, <3>3 DEF CallRight, Nothing
    <2> QED BY <2>4, <2>6
<1> QED BY <1>1, <1>6, <1>7 DEF Contents

\* What a step leaves of the contents when it changes no more than one slot.
(* A step that changes one slot keeps what is known of wires, queues and
   answers. *)
LEMMA OneSlotContents ==
    ASSUME Structure, Structure', Contents, heads' = heads,
           UNCHANGED <<last, seen, calling, deliveryQueue, rest>>, NEW i,
           \A j \in Slots' \ {i} : j \in Slots /\ slot'[j] = slot[j],
           i \in Slots' => WireRight(i)' /\ CallRight(i)'
    PROVE  Contents'
<1>1. last \in Int
    BY DEF Structure, Types
<1>2. /\ last' <= Produced /\ seen' \subseteq 1..Produced
      /\ calling' # Nothing => calling'.seq >= last' /\ Given(calling')
      /\ \A k \in 1..Len(deliveryQueue') : Given(deliveryQueue'[k])
      /\ \A k \in 1..Len(rest') : Given(rest'[k])
    BY DEF Contents
<1>3. last <= last'
    BY <1>1
<1> DEFINE T == {i}
<1>4. /\ \A j \in Slots' \ T : j \in Slots /\ slot'[j] = slot[j]
      /\ \A j \in Slots' \ T : slot[j].call # "none" => last <= last'
      /\ \A j \in Slots' \ T : slot[j].call # "none" /\ slot[j].reset =>
            UNCHANGED <<last, deliveryQueue, calling>>
    BY <1>3
<1>5. \A j \in Slots' \cap T : WireRight(j)' /\ CallRight(j)'
    <2> TAKE j \in Slots' \cap T
    <2>1. j = i
        OBVIOUS
    <2> QED BY <2>1
<1> HIDE DEF T
<1> QED BY <1>2, <1>4, <1>5, ContentsStep

(* The server attaching the live line of a slot keeps what is known of wires,
   queues and answers. *)
LEMMA AttachLiveLineContents ==
    ASSUME Structure, Structure', Contents, NEW i \in Slots, AttachLiveLine(i) PROVE Contents'
<1>1. /\ slot' = [slot EXCEPT ![i] = [slot[i] EXCEPT !.tapped = TRUE]]
      /\ slot[i].open /\ ~slot[i].tapped
      /\ heads' = heads /\ UNCHANGED <<last, seen, calling, deliveryQueue, rest>>
    BY DEF AttachLiveLine, lineVars, loopVars
<1>2. slot[i] \in SlotType /\ SlotRight(i) /\ CallRight(i)
    BY DEF Structure, Types, Contents
<1>3. /\ Slots' = Slots /\ \A j \in Slots \ {i} : slot'[j] = slot[j]
      /\ slot'[i].wire = <<>> /\ slot'[i].queue = <<>> /\ slot'[i].route = slot[i].route
      /\ slot'[i].since = slot[i].since /\ slot'[i].call = slot[i].call
      /\ slot'[i].reset = slot[i].reset /\ slot'[i].status = "asked"
    BY <1>1, <1>2 DEF SlotType, SlotRight, Slots
<1>4. WireRight(i)'
    <2>1. HeadOf(i)' \in Nat
        <3>1. \A q \in Routes : heads[q] \in Nat
            BY DEF Structure, Types, Top, RouteAssumption
        <3>2. slot[i].route \in Routes
            BY <1>2 DEF SlotType
        <3> QED BY <1>1, <1>3, <3>1, <3>2 DEF HeadOf
    <2>2. Run(<<>>, <<>>, HeadOf(i)')
        BY <2>1 DEF Run
    <2> QED BY <1>3, <2>2 DEF WireRight, Run
<1>5. CallRight(i)'
    BY <1>1, <1>2, <1>3 DEF CallRight, Nothing
<1> QED BY <1>1, <1>3, <1>4, <1>5, OneSlotContents

(* An answer of the server keeps what is known of wires, queues and answers. *)
LEMMA RemoteAnswersContents ==
    ASSUME Structure, Structure', Contents, NEW i \in Slots, RemoteAnswers(i) PROVE Contents'
<1>1. PICK o \in FirstSeq..(heads[slot[i].route] + 1) :
        slot' = [slot EXCEPT ![i] = Answer(slot[i], o)]
    BY DEF RemoteAnswers
<1>2. /\ slot[i].tapped /\ slot[i].call # "none" /\ slot[i].status = "asked"
      /\ heads' = heads /\ UNCHANGED <<last, seen, calling, deliveryQueue, rest>>
    BY DEF RemoteAnswers, lineVars, loopVars
<1>3. slot[i] \in SlotType /\ (slot[i].call \in {"frame", "since"} => slot[i].since >= 0)
      /\ WireRight(i) /\ CallRight(i)
    BY DEF Structure, Types, SlotRight, Contents
<1> DEFINE s == slot[i]
           t == Answer(s, o)
           h == heads[s.route]
<1>4. /\ t \in SlotType /\ t.tapped = s.tapped /\ t.since = s.since /\ t.route = s.route
      /\ t.call = s.call /\ t.queue = s.queue /\ t.reset = s.reset /\ t.wire = s.wire
      /\ t.status = "missing" => s.call = "since" \/ ~HasKeyframe
      /\ t.status = "answered" =>
           \/ /\ s.call # "since" /\ HasKeyframe
              /\ t.envs = <<[seq |-> h, keyframe |-> TRUE]>>
           \/ /\ s.call # "keyframe" /\ s.since <= h
              /\ t.envs = Line(s.route, o)!TailAfter(s.since)
    <2>1. Types
        BY DEF Structure
    <2> QED BY <1>2, <1>3, <2>1, AnswerTyped, ZenonT(60)
<1>5. h \in Nat /\ h <= Produced /\ s.route \in Routes /\ Produced \in Nat
    <2>1. s.route \in Routes
        BY <1>3 DEF SlotType
    <2>2. \A q \in Routes : heads[q] \in Nat
        BY DEF Structure, Types, Top, RouteAssumption
    <2> QED BY <2>1, <2>2, ProducedFacts DEF Structure
<1> HIDE DEF t
<1>6. slot' = [slot EXCEPT ![i] = t]
    BY <1>1 DEF t
<1>7. Slots' = Slots /\ slot'[i] = t /\ \A j \in Slots \ {i} : slot'[j] = slot[j]
    BY <1>6 DEF Slots
<1>8. HeadOf(i)' = h /\ HeadOf(i) = h /\ Base(i)' = Base(i) /\ Produced' = Produced
    BY <1>2, <1>4, <1>7, ProducedSame DEF HeadOf, Base
<1>9. WireRight(i)'
    BY <1>2, <1>3, <1>4, <1>7, <1>8, SMTT(30) DEF WireRight, Run
<1>10. Base(i) \in Int /\ Base(i) <= h
    <2>1. Len(s.wire) \in Nat /\ Len(s.queue) \in Nat
        BY <1>3, LenProperties DEF SlotType
    <2>2. Base(i) = h - Len(s.wire) - Len(s.queue)
        BY <1>8 DEF Base
    <2>3. \A n, a, b \in Nat : n - a - b \in Int /\ n - a - b <= n
        OBVIOUS
    <2>4. h \in Nat
        BY <1>5
    <2> HIDE DEF h, s
    <2> QED BY <2>1, <2>2, <2>3, <2>4
<1>11. t.status = "answered" =>
        /\ AnswerShape(t)
        /\ \/ t.envs = <<>> /\ t.since >= Base(i)
           \/ \E j \in 1..Len(t.envs) : t.envs[j].seq >= Base(i)
    <2>1. CASE s.call # "since" /\ HasKeyframe /\ t.envs = <<[seq |-> h, keyframe |-> TRUE]>>
        <3>1. Len(t.envs) = 1 /\ t.envs[1].seq = h /\ t.envs[1].keyframe
            BY <2>1
        <3> HIDE DEF h
        <3> QED BY <1>4, <1>5, <1>10, <2>1, <3>1 DEF AnswerShape
    <2>2. CASE s.call # "keyframe" /\ s.since <= h /\ t.envs = Line(s.route, o)!TailAfter(s.since)
        <3>1. s.since \in Nat /\ s.since >= 0
            BY <1>2, <1>3, <2>2 DEF SlotType
        <3>2. /\ Len(t.envs) = h - s.since
              /\ \A k \in 1..(h - s.since) : t.envs[k] = Ev(s.since + k)
            BY <1>5, <2>2, <3>1, TailTyped, SMTT(30) DEF Structure, Ev
        <3> HIDE DEF h
        <3>3. h - s.since \in Nat /\ s.since + Len(t.envs) = h
            BY <1>5, <2>2, <3>1, <3>2
        <3>4. AnswerShape(t)
            BY <1>4, <1>5, <3>1, <3>2, <3>3 DEF AnswerShape
        <3>5. CASE s.since = h
            <4>1. t.envs = <<>>
                <5>1. Len(t.envs) = 0 /\ t.envs \in Seq(Envelope)
                    BY <1>4, <1>5, <3>2, <3>5 DEF SlotType
                <5> QED BY <5>1, EmptySeq
            <4> QED BY <1>4, <1>5, <1>10, <3>1, <3>4, <3>5, <4>1
        <3>6. CASE s.since # h
            <4>1. h - s.since \in 1..Len(t.envs)
                BY <1>5, <2>2, <3>1, <3>2, <3>3, <3>6
            <4>2. t.envs[h - s.since].seq = s.since + (h - s.since)
                <5>1. t.envs[h - s.since] = Ev(s.since + (h - s.since))
                    BY <3>2, <4>1
                <5> QED BY <5>1 DEF Ev
            <4>3. t.envs[h - s.since].seq >= Base(i)
                BY <1>5, <1>10, <3>1, <4>2
            <4> QED BY <3>4, <4>1, <4>3
        <3> QED BY <3>5, <3>6
    <2>3. CASE t.status # "answered"
        BY <2>3
    <2> HIDE DEF s, h
    <2> QED BY <1>4, <2>1, <2>2, <2>3
<1>12. CallRight(i)'
    <2>1. t.status = "answered" => AnswerShape(slot[i])'
        BY <1>7, <1>8, <1>11 DEF AnswerShape
    <2>2. /\ t.since <= last'
          /\ t.reset => t.since = last' /\ deliveryQueue' = <<>> /\ calling' = Nothing
          /\ t.status = "missing" /\ HasKeyframe => t.call = "since"
        BY <1>2, <1>3, <1>4 DEF CallRight
    <2>3. t.status = "answered" /\ t.tapped =>
            \/ (t.envs = <<>> /\ t.since >= Base(i)') \/ \E j \in 1..Len(t.envs) : t.envs[j].seq >= Base(i)'
        BY <1>8, <1>11
    <2> QED BY <1>7, <2>1, <2>2, <2>3 DEF CallRight, Nothing
<1> QED BY <1>2, <1>7, <1>9, <1>12, OneSlotContents

(* The failure of a slot and the disposal after it keeps what is known of
   wires, queues and answers. *)
LEMMA FailSlotContents ==
    ASSUME Structure, Structure', Contents, NEW i, FailSlot(i),
           UNCHANGED <<lineVars, chain, attached, pending, active, closed, loopVars>>
    PROVE  Contents'
<1>1. /\ Slots' \subseteq Slots
      /\ \A j \in Slots \ {i} : j \in Slots' /\ slot'[j] = slot[j]
      /\ i \in Slots' => slot'[i] = ClosedSlot(slot[i])
    BY DisposeFacts DEF Slots, FailSlot
<1>2. heads' = heads /\ UNCHANGED <<last, seen, calling, deliveryQueue, rest>>
    BY DEF lineVars, loopVars
<1>3. ASSUME i \in Slots' PROVE WireRight(i)' /\ CallRight(i)'
    <2>1. i \in Slots /\ slot[i] \in SlotType /\ CallRight(i)
        BY <1>1, <1>3 DEF Structure, Types, Contents
    <2>2. /\ ~slot'[i].tapped /\ slot'[i].reset = slot[i].reset /\ slot'[i].since = slot[i].since
          /\ slot'[i].call = slot[i].call /\ slot'[i].status = slot[i].status
          /\ slot'[i].envs = slot[i].envs
        BY <1>1, <1>3, <2>1, ClosedTyped
    <2>3. AnswerShape(slot[i])' <=> AnswerShape(slot[i])
        BY <1>2, <2>2, ProducedSame DEF AnswerShape
    <2> QED BY <1>2, <2>1, <2>2, <2>3 DEF WireRight, CallRight, Nothing
<1> QED BY <1>1, <1>2, <1>3, OneSlotContents

\* What a slot taps next is produced.
(* The first event on a wire, and where the slot's run begins. *)
LEMMA TapFacts ==
    ASSUME Structure, Contents, NEW i \in Slots, slot[i].wire # <<>>
    PROVE  /\ slot[i].tapped /\ slot[i] \in SlotType /\ Len(slot[i].wire) \in Nat
           /\ Len(slot[i].queue) \in Nat /\ HeadOf(i) \in Nat /\ Base(i) \in Nat
           /\ Head(slot[i].wire) = Ev(HeadOf(i) - Len(slot[i].wire) + 1)
           /\ HeadOf(i) - Len(slot[i].wire) \in Nat
           /\ Head(slot[i].wire) \in Envelope /\ Given(Head(slot[i].wire))
           /\ Run(Tail(slot[i].wire), Append(slot[i].queue, Head(slot[i].wire)), HeadOf(i))
           /\ slot[i].queue = <<>> => Run(Tail(slot[i].wire), <<>>, HeadOf(i))
           /\ Len(Tail(slot[i].wire)) = Len(slot[i].wire) - 1
           /\ Len(Append(slot[i].queue, Head(slot[i].wire))) = Len(slot[i].queue) + 1
<1> DEFINE w == slot[i].wire
           q == slot[i].queue
           h == HeadOf(i)
<1>1. slot[i] \in SlotType /\ SlotRight(i) /\ WireRight(i)
    BY DEF Structure, Types, Contents
<1>2. slot[i].tapped /\ w \in Seq(Envelope) /\ q \in Seq(Envelope) /\ slot[i].route \in Routes
    BY <1>1 DEF SlotRight, SlotType
<1>3. h \in Nat /\ h <= Produced /\ Produced \in Nat
    <2>1. \A r \in Routes : heads[r] \in Nat
        BY DEF Structure, Types, Top, RouteAssumption
    <2> QED BY <1>2, <2>1, ProducedFacts DEF HeadOf, Structure
<1>4. Run(w, q, h) /\ w # <<>>
    BY <1>1, <1>2 DEF WireRight
<1>5. Base(i) = h - Len(w) - Len(q)
    BY DEF Base
<1> HIDE DEF w, q, h
<1>6. /\ Head(w) = Ev(h - Len(w) + 1) /\ h - Len(w) - Len(q) \in Nat
      /\ Run(Tail(w), Append(q, Head(w)), h)
      /\ q = <<>> => Run(Tail(w), <<>>, h)
      /\ Len(Tail(w)) = Len(w) - 1 /\ Len(Append(q, Head(w))) = Len(q) + 1
      /\ Head(w) \in Envelope
    BY <1>2, <1>3, <1>4, RunMove, HeadTailFacts
<1>7. Len(w) \in Nat /\ Len(q) \in Nat /\ Len(w) >= 1
    BY <1>2, <1>4, HeadTailFacts, LenProperties
<1>8. h - Len(w) \in Nat
    BY <1>3, <1>6, <1>7
<1>9. Head(w).seq = h - Len(w) + 1 /\ ~Head(w).keyframe
    BY <1>6 DEF Ev
<1>10. Given(Head(w))
    BY <1>3, <1>7, <1>8, <1>9 DEF Given
<1> QED BY <1>1, <1>2, <1>3, <1>5, <1>6, <1>7, <1>8, <1>10 DEF w, q, h

(* A line event on its way being delivered, or queued while the slot replays
   keeps what is known of wires, queues and answers. *)
LEMMA LiveTapContents ==
    ASSUME Structure, Structure', Contents, NEW i \in Slots, LiveTap(i) PROVE Contents'
<1> DEFINE e == Head(slot[i].wire)
           t == IF slot[i].replaying
                THEN [slot[i] EXCEPT !.wire = Tail(@), !.queue = Append(@, e)]
                ELSE [slot[i] EXCEPT !.wire = Tail(@)]
<1>1. /\ slot[i].wire # <<>> /\ slot' = [slot EXCEPT ![i] = t]
      /\ heads' = heads /\ UNCHANGED <<last, calling, rest, seen>>
      /\ IF slot[i].replaying THEN UNCHANGED deliveryQueue
                            ELSE deliveryQueue' = Append(deliveryQueue, e)
    BY DEF LiveTap, lineVars
<1>2. /\ slot[i].tapped /\ slot[i] \in SlotType /\ Len(slot[i].wire) \in Nat
      /\ Len(slot[i].queue) \in Nat /\ HeadOf(i) \in Nat /\ e \in Envelope /\ Given(e)
      /\ Run(Tail(slot[i].wire), Append(slot[i].queue, e), HeadOf(i))
      /\ slot[i].queue = <<>> => Run(Tail(slot[i].wire), <<>>, HeadOf(i))
      /\ Len(Tail(slot[i].wire)) = Len(slot[i].wire) - 1
      /\ Len(Append(slot[i].queue, e)) = Len(slot[i].queue) + 1
    BY <1>1, TapFacts
<1> HIDE DEF e
<1>3. SlotRight(i) /\ CallRight(i) /\ \A j \in Slots : slot[j].call # "none" => slot[j].replaying
    BY CallsArePending DEF Contents
<1>4. /\ t.tapped /\ t.since = slot[i].since /\ t.route = slot[i].route
      /\ t.call = slot[i].call /\ t.status = slot[i].status /\ t.envs = slot[i].envs
      /\ t.reset = slot[i].reset /\ t.wire = Tail(slot[i].wire)
      /\ t.queue = IF slot[i].replaying THEN Append(slot[i].queue, e) ELSE slot[i].queue
    BY <1>2 DEF SlotType
<1> HIDE DEF t
<1>5. Slots' = Slots /\ slot'[i] = t /\ \A j \in Slots \ {i} : slot'[j] = slot[j]
    BY <1>1 DEF Slots
<1>6. HeadOf(i)' = HeadOf(i) /\ Produced' = Produced
    BY <1>1, <1>4, <1>5, ProducedSame DEF HeadOf
<1>7. CASE slot[i].replaying
    <2>1. WireRight(i)'
        BY <1>2, <1>4, <1>5, <1>6, <1>7, ZenonT(60) DEF WireRight, Run
    <2>2. Base(i)' = Base(i)
        <3>1. Base(i)' = HeadOf(i) - (Len(slot[i].wire) - 1) - (Len(slot[i].queue) + 1)
            BY <1>2, <1>4, <1>5, <1>6, <1>7 DEF Base
        <3>2. Base(i) = HeadOf(i) - Len(slot[i].wire) - Len(slot[i].queue)
            BY DEF Base
        <3>3. \A n, a, b \in Nat : n - (a - 1) - (b + 1) = n - a - b
            OBVIOUS
        <3> QED BY <1>2, <3>1, <3>2, <3>3
    <2>3. t.status = "answered" /\ t.call # "none" => AnswerShape(slot[i])'
        <3>1. t.status = "answered" /\ t.call # "none" => AnswerShape(slot[i])
            BY <1>3, <1>4 DEF CallRight
        <3> QED BY <1>4, <1>5, <1>6, <3>1 DEF AnswerShape
    <2>4. CallRight(i)'
        <3> SUFFICES ASSUME t.call # "none" PROVE CallRight(i)'
            BY <1>5 DEF CallRight
        <3>1. /\ t.since <= last'
              /\ t.reset => t.since = last' /\ deliveryQueue' = <<>> /\ calling' = Nothing
              /\ t.status = "missing" /\ HasKeyframe => t.call = "since"
            BY <1>1, <1>3, <1>4, <1>7 DEF CallRight
        <3>2. t.status = "answered" /\ t.tapped =>
                \/ (t.envs = <<>> /\ t.since >= Base(i)') \/ \E j \in 1..Len(t.envs) : t.envs[j].seq >= Base(i)'
            <4>1. t.status = "answered" /\ t.tapped =>
                    \/ (t.envs = <<>> /\ t.since >= Base(i)) \/ \E j \in 1..Len(t.envs) : t.envs[j].seq >= Base(i)
                BY <1>2, <1>3, <1>4 DEF CallRight
            <4> QED BY <2>2, <4>1
        <3> QED BY <1>5, <2>3, <3>1, <3>2 DEF CallRight, Nothing
    <2> QED BY <1>1, <1>5, <1>7, <2>1, <2>4, OneSlotContents
<1>8. CASE ~slot[i].replaying
    <2>1. slot[i].queue = <<>> /\ slot[i].call = "none"
        BY <1>3, <1>8 DEF SlotRight
    <2>2. WireRight(i)' /\ CallRight(i)'
        <3>1. WireRight(i)'
            <4>1. slot'[i].wire = Tail(slot[i].wire) /\ slot'[i].queue = <<>>
                BY <1>4, <1>5, <1>8, <2>1
            <4>2. Run(slot'[i].wire, slot'[i].queue, HeadOf(i)')
                BY <1>2, <1>6, <2>1, <4>1
            <4> QED BY <4>2 DEF WireRight, Run
        <3>2. CallRight(i)'
            BY <1>4, <1>5, <2>1 DEF CallRight
        <3> QED BY <3>1, <3>2
    <2>3. \A j \in Slots : ~(slot[j].call # "none" /\ slot[j].reset)
        <3> SUFFICES ASSUME NEW j \in Slots, slot[j].call # "none", slot[j].reset PROVE FALSE
            OBVIOUS
        <3>1. Slots = {j}
            BY CallsArePending
        <3> QED BY <2>1, <3>1
    <2>4. \A k \in 1..Len(deliveryQueue') : Given(deliveryQueue'[k])
        <3>1. deliveryQueue \in Seq(Envelope)
            BY DEF Structure, Types
        <3>2. /\ Len(deliveryQueue') = Len(deliveryQueue) + 1 /\ Len(deliveryQueue) \in Nat
              /\ deliveryQueue'[Len(deliveryQueue) + 1] = e
              /\ \A k \in 1..Len(deliveryQueue) : deliveryQueue'[k] = deliveryQueue[k]
            BY <1>1, <1>2, <1>8, <3>1, AppendProperties, LenProperties
        <3> TAKE k \in 1..Len(deliveryQueue')
        <3>3. CASE k \in 1..Len(deliveryQueue)
            BY <3>2, <3>3 DEF Contents
        <3>4. CASE k = Len(deliveryQueue) + 1
            BY <1>2, <3>2, <3>4
        <3> QED BY <3>2, <3>3, <3>4
    <2> DEFINE T == {i}
    <2>5. /\ \A j \in Slots' \ T : j \in Slots /\ slot'[j] = slot[j]
          /\ \A j \in Slots' \ T : slot[j].call # "none" => last <= last'
          /\ \A j \in Slots' \ T : slot[j].call # "none" /\ slot[j].reset =>
                UNCHANGED <<last, deliveryQueue, calling>>
        <3>1. last <= last'
            BY <1>1 DEF Structure, Types
        <3> QED BY <1>5, <2>3, <3>1
    <2>6. \A j \in Slots' \cap T : WireRight(j)' /\ CallRight(j)'
        <3> TAKE j \in Slots' \cap T
        <3>1. j = i
            OBVIOUS
        <3> QED BY <2>2, <3>1
    <2>7. /\ last' <= Produced /\ seen' \subseteq 1..Produced
          /\ calling' # Nothing => calling'.seq >= last' /\ Given(calling')
          /\ \A k \in 1..Len(rest') : Given(rest'[k])
        BY <1>1 DEF Contents
    <2> HIDE DEF T
    <2> QED BY <1>1, <2>4, <2>5, <2>6, <2>7, ContentsStep
<1> QED BY <1>7, <1>8

\* A step after which no slot has a call.
(* A step that leaves heads and wires alone keeps what is known of wires,
   queues and answers. *)
LEMMA QuietContents ==
    ASSUME Structure, Structure', Contents, heads' = heads,
           last' <= Produced, seen' \subseteq 1..Produced,
           calling' # Nothing => calling'.seq >= last' /\ Given(calling'),
           \A k \in 1..Len(deliveryQueue') : Given(deliveryQueue'[k]),
           \A k \in 1..Len(rest') : Given(rest'[k]),
           \A j \in Slots' : slot'[j].call = "none",
           NEW i, \A j \in Slots' \ {i} : j \in Slots /\ slot'[j] = slot[j],
           i \in Slots' => WireRight(i)'
    PROVE  Contents'
<1> DEFINE T == {i}
<1>1. \A j \in Slots' : CallRight(j)'
    BY DEF CallRight
<1>2. \A j \in Slots' \ T : slot[j].call = "none" /\ j \in Slots /\ slot'[j] = slot[j]
    OBVIOUS
<1>3. \A j \in Slots' \cap T : WireRight(j)' /\ CallRight(j)'
    <2> TAKE j \in Slots' \cap T
    <2>1. j = i /\ j \in Slots'
        OBVIOUS
    <2> QED BY <1>1, <2>1
<1> HIDE DEF T
<1> QED BY <1>2, <1>3, ContentsStep

(* An answered keyframe, tail or replay being put before the consumer keeps
   what is known of wires, queues and answers. *)
LEMMA ResumeAnsweredContents ==
    ASSUME Structure, Structure', Contents, NEW i \in Slots, ResumeAnswered(i) PROVE Contents'
<1> DEFINE s == slot[i]
           t == [slot[i] EXCEPT !.call = "none", !.status = "asked", !.envs = <<>>]
<1>1. /\ Settled /\ s.call # "none" /\ s.status = "answered"
      /\ last' = ResetPoint(s) /\ rest' = s.envs
      /\ slot' = [slot EXCEPT ![i] = t] /\ heads' = heads
      /\ UNCHANGED <<deliveryQueue, calling, seen>>
    BY DEF ResumeAnswered, lineVars
<1>2. s \in SlotType /\ WireRight(i) /\ CallRight(i) /\ i = pending
    BY <1>1, CallsArePending DEF Structure, Types, Contents
<1>3. AnswerShape(s)
    BY <1>1, <1>2 DEF CallRight
<1>4. s.envs \in Seq(Envelope) /\ Len(s.envs) \in Nat /\ s.since \in Int
      /\ (\A k \in 1..Len(s.envs) : s.envs[k] \in Envelope)
    <2>1. s.envs \in Seq(Envelope) /\ s.since \in Nat \cup {-1}
        BY <1>2 DEF SlotType
    <2> HIDE DEF s
    <2> QED BY <2>1, LenProperties, ElementOfSeq
<1>5. t.wire = s.wire /\ t.queue = s.queue /\ t.route = s.route /\ t.tapped = s.tapped
      /\ t.call = "none"
    BY <1>2 DEF SlotType
<1> HIDE DEF t
<1>6. Slots' = Slots /\ slot'[i] = t /\ \A j \in Slots \ {i} : slot'[j] = slot[j]
    BY <1>1 DEF Slots
<1>7. WireRight(i)'
    BY <1>1, <1>2, <1>5, <1>6 DEF WireRight, HeadOf, Run
<1>8. \A j \in Slots' : slot'[j].call = "none"
    <2>1. \A j \in Slots \ {i} : slot[j].call = "none"
        BY <1>2, CallsArePending
    <2> QED BY <1>5, <1>6, <2>1
<1>9. Produced \in Nat /\ last <= Produced /\ last \in Int
    <2>1. Types
        BY DEF Structure
    <2>2. last \in Int
        BY <2>1 DEF Types
    <2> QED BY <2>1, <2>2, ProducedFacts DEF Contents
<1> HIDE DEF s
<1>10. last' <= Produced
    <2>1. s.envs # <<>> => s.envs[1].seq \in Nat
        <3>1. s.envs # <<>> => 1 \in 1..Len(s.envs)
            BY <1>4, EmptySeq
        <3> QED BY <1>4, <3>1 DEF Envelope
    <2> QED BY <1>1, <1>9, <2>1 DEF ResetPoint
<1>11. \A k \in 1..Len(rest') : Given(rest'[k])
    <2> SUFFICES ASSUME NEW k \in 1..Len(s.envs) PROVE Given(s.envs[k])
        BY <1>1
    <2>1. CASE /\ s.call # "since" /\ HasKeyframe
               /\ Len(s.envs) = 1 /\ s.envs[1].keyframe /\ s.envs[1].seq <= Produced
        <3>1. k = 1
            BY <2>1
        <3> QED BY <2>1, <3>1 DEF Given
    <2>2. CASE /\ s.since >= 0 /\ s.since + Len(s.envs) <= Produced
               /\ \A j \in 1..Len(s.envs) : s.envs[j] = Ev(s.since + j)
        <3>1. s.envs[k].seq = s.since + k /\ ~s.envs[k].keyframe
            <4>1. s.envs[k] = Ev(s.since + k)
                BY <2>2
            <4> QED BY <4>1 DEF Ev
        <3>2. s.since + k <= Produced /\ s.since + k >= 1
            BY <1>4, <1>9, <2>2
        <3> QED BY <3>1, <3>2 DEF Given
    <2> QED BY <1>3, <2>1, <2>2 DEF AnswerShape
<1>12. calling' = Nothing /\ deliveryQueue' = <<>>
    BY <1>1 DEF Settled
<1> QED BY <1>1, <1>6, <1>7, <1>8, <1>10, <1>11, <1>12, QuietContents DEF Contents

(* An answer that has nothing to resume from keeps what is known of wires,
   queues and answers. *)
LEMMA ResumeMissingContents ==
    ASSUME Structure, Structure', Contents, NEW i \in Slots, ResumeMissing(i) PROVE Contents'
<1> DEFINE t == IF slot[i].call = "since"
                THEN [slot[i] EXCEPT !.call = "keyframe", !.status = "asked"]
                ELSE [slot[i] EXCEPT !.call = "none", !.status = "asked"]
<1>1. /\ slot[i].call # "none" /\ slot' = [slot EXCEPT ![i] = t] /\ heads' = heads
      /\ UNCHANGED <<last, deliveryQueue, calling, rest, seen>>
    BY DEF ResumeMissing, lineVars
<1>2. slot[i] \in SlotType /\ WireRight(i) /\ CallRight(i)
    BY DEF Structure, Types, Contents
<1>3. /\ t.tapped = slot[i].tapped /\ t.since = slot[i].since /\ t.route = slot[i].route
      /\ t.status = "asked" /\ t.queue = slot[i].queue
      /\ t.reset = slot[i].reset /\ t.wire = slot[i].wire
    BY <1>2 DEF SlotType
<1> HIDE DEF t
<1>4. Slots' = Slots /\ slot'[i] = t /\ \A j \in Slots \ {i} : slot'[j] = slot[j]
    BY <1>1 DEF Slots
<1>5. WireRight(i)'
    BY <1>1, <1>2, <1>3, <1>4 DEF WireRight, HeadOf, Run
<1>6. CallRight(i)'
    BY <1>1, <1>2, <1>3, <1>4 DEF CallRight, Nothing
<1> QED BY <1>1, <1>4, <1>5, <1>6, OneSlotContents

\* A continuation runs while no slot has a call.
(* While a replayed answer is delivered, no call is under way. *)
LEMMA NoCallsAtWork == Structure /\ working # 0 => \A j \in Slots : slot[j].call = "none"
    BY CallsArePending

\* What a slot has queued first is produced.
(* The first event queued at a slot, and where the slot's run begins. *)
LEMMA QueuedFacts ==
    ASSUME Structure, Contents, NEW i \in Slots, slot[i].queue # <<>>
    PROVE  /\ slot[i].tapped /\ slot[i] \in SlotType /\ Len(slot[i].wire) \in Nat
           /\ Len(slot[i].queue) \in Nat /\ HeadOf(i) \in Nat /\ Base(i) \in Nat
           /\ Head(slot[i].queue) = Ev(Base(i) + 1) /\ Head(slot[i].queue) \in Envelope
           /\ Given(Head(slot[i].queue))
           /\ Run(slot[i].wire, Tail(slot[i].queue), HeadOf(i))
           /\ Len(Tail(slot[i].queue)) = Len(slot[i].queue) - 1
<1> DEFINE w == slot[i].wire
           q == slot[i].queue
           h == HeadOf(i)
<1>1. slot[i] \in SlotType /\ SlotRight(i) /\ WireRight(i)
    BY DEF Structure, Types, Contents
<1>2. slot[i].tapped /\ w \in Seq(Envelope) /\ q \in Seq(Envelope) /\ slot[i].route \in Routes
    BY <1>1 DEF SlotRight, SlotType
<1>3. h \in Nat /\ h <= Produced /\ Produced \in Nat
    <2>1. \A r \in Routes : heads[r] \in Nat
        BY DEF Structure, Types, Top, RouteAssumption
    <2> QED BY <1>2, <2>1, ProducedFacts DEF HeadOf, Structure
<1>4. Run(w, q, h) /\ q # <<>>
    BY <1>1, <1>2 DEF WireRight
<1>5. Base(i) = h - Len(w) - Len(q)
    BY DEF Base
<1> HIDE DEF w, q, h
<1>6. /\ Head(q) = Ev(h - Len(w) - Len(q) + 1) /\ h - Len(w) - Len(q) \in Nat
      /\ Run(w, Tail(q), h) /\ Len(Tail(q)) = Len(q) - 1 /\ Head(q) \in Envelope
    BY <1>2, <1>3, <1>4, RunPop, HeadTailFacts
<1>7. Len(w) \in Nat /\ Len(q) \in Nat /\ Len(q) >= 1
    BY <1>2, <1>4, HeadTailFacts, LenProperties
<1>8. Head(q) = Ev(Base(i) + 1) /\ Base(i) \in Nat /\ Base(i) + 1 <= h
    <2>1. \A a, b \in Nat : b >= 1 => (h - a - b) + 1 <= h
        BY <1>3
    <2> QED BY <1>5, <1>6, <1>7, <2>1
<1>9. Head(q).seq = Base(i) + 1 /\ ~Head(q).keyframe
    BY <1>8 DEF Ev
<1>10. Given(Head(q))
    BY <1>3, <1>8, <1>9 DEF Given
<1> QED BY <1>1, <1>2, <1>3, <1>6, <1>7, <1>8, <1>10 DEF w, q, h

(* The move of one queued event to the delivery queue keeps what is known of
   wires, queues and answers. *)
LEMMA DeliverNextContents ==
    ASSUME Structure, Structure', Contents, DeliverNext PROVE Contents'
<1>1. /\ working # 0 /\ calling = Nothing /\ working' = working /\ heads' = heads
      /\ rest # <<>> \/ slot[working].queue # <<>>
      /\ UNCHANGED <<last, calling, seen>>
    BY DEF DeliverNext, Working, lineVars
<1>2. \A j \in Slots' : slot'[j].call = "none"
    <2>1. \A j \in Slots : slot[j].call = "none" /\ slot[j] \in SlotType
        BY <1>1, NoCallsAtWork DEF Structure, Types
    <2>2. \/ slot' = slot
          \/ slot' = [slot EXCEPT ![working] = [slot[working] EXCEPT !.queue = Tail(@)]]
        BY DEF DeliverNext
    <2> DEFINE u == [slot[working] EXCEPT !.queue = Tail(@)]
    <2>3. working \in Slots => u.call = "none"
        BY <2>1 DEF SlotType
    <2> HIDE DEF u
    <2>4. slot' = slot \/ slot' = [slot EXCEPT ![working] = u]
        BY <2>2 DEF u
    <2> QED BY <2>1, <2>3, <2>4 DEF Slots
<1>3. working \in Slots /\ slot[working] \in SlotType /\ rest \in Seq(Envelope)
      /\ WireRight(working)
    BY <1>1 DEF Structure, PlaceInv, Types, Contents
<1>4. last' <= Produced /\ seen' \subseteq 1..Produced /\ calling' = Nothing
    BY <1>1 DEF Contents
<1>5. CASE rest # <<>>
    <2>1. deliveryQueue' = <<Head(rest)>> /\ rest' = Tail(rest) /\ slot' = slot
        BY <1>5 DEF DeliverNext
    <2>2. /\ Head(rest) = rest[1] /\ Len(rest) \in Nat /\ Len(rest) >= 1
          /\ Len(Tail(rest)) = Len(rest) - 1
          /\ \A k \in 1..(Len(rest) - 1) : Tail(rest)[k] = rest[k + 1]
        BY <1>3, <1>5, HeadTailFacts
    <2>3. \A k \in 1..Len(rest') : Given(rest'[k])
        <3> TAKE k \in 1..Len(rest')
        <3>1. k + 1 \in 1..Len(rest) /\ rest'[k] = rest[k + 1]
            BY <2>1, <2>2
        <3> QED BY <3>1 DEF Contents
    <2>4. \A k \in 1..Len(deliveryQueue') : Given(deliveryQueue'[k])
        <3>1. Given(rest[1]) /\ Len(deliveryQueue') = 1 /\ deliveryQueue'[1] = rest[1]
            BY <2>1, <2>2 DEF Contents
        <3> QED BY <3>1
    <2>5. Slots' = Slots /\ WireRight(working)' /\ \A j \in Slots' : slot'[j] = slot[j]
        BY <1>1, <1>3, <2>1 DEF Slots, WireRight, HeadOf, Run
    <2> QED BY <1>1, <1>2, <1>4, <2>3, <2>4, <2>5, QuietContents
<1>6. CASE rest = <<>>
    <2> DEFINE t == [slot[working] EXCEPT !.queue = Tail(@)]
               i == working
    <2>1. /\ deliveryQueue' = <<Head(slot[i].queue)>> /\ rest' = rest
          /\ slot' = [slot EXCEPT ![i] = t] /\ slot[i].queue # <<>>
        BY <1>1, <1>6 DEF DeliverNext
    <2>2. /\ slot[i].tapped /\ Given(Head(slot[i].queue))
          /\ Run(slot[i].wire, Tail(slot[i].queue), HeadOf(i))
        BY <1>3, <2>1, QueuedFacts
    <2>3. t.tapped = slot[i].tapped /\ t.wire = slot[i].wire /\ t.route = slot[i].route
          /\ t.queue = Tail(slot[i].queue)
        BY <1>3 DEF SlotType
    <2> HIDE DEF t
    <2>4. Slots' = Slots /\ slot'[i] = t /\ \A j \in Slots \ {i} : slot'[j] = slot[j]
        BY <1>3, <2>1 DEF Slots
    <2>5. WireRight(working)'
        <3>1. HeadOf(working)' = HeadOf(working)
            BY <1>1, <2>3, <2>4 DEF HeadOf
        <3>2. Run(slot'[working].wire, slot'[working].queue, HeadOf(working)')
            BY <2>2, <2>3, <2>4, <3>1
        <3> QED BY <1>1, <3>2 DEF WireRight, Run
    <2>6. \A k \in 1..Len(deliveryQueue') : Given(deliveryQueue'[k])
        <3>1. Len(deliveryQueue') = 1 /\ deliveryQueue'[1] = Head(slot[i].queue)
            BY <2>1
        <3> QED BY <2>2, <3>1
    <2>7. \A k \in 1..Len(rest') : Given(rest'[k])
        BY <2>1 DEF Contents
    <2> QED BY <1>1, <1>2, <1>4, <2>4, <2>5, <2>6, <2>7, QuietContents
<1> QED BY <1>5, <1>6

(* A slot going live when its queue is empty keeps what is known of wires,
   queues and answers. *)
LEMMA GoLiveContents == ASSUME Structure, Structure', Contents, GoLive PROVE Contents'
<1>1. /\ working # 0 /\ heads' = heads
      /\ UNCHANGED <<last, deliveryQueue, calling, rest, seen>>
    BY DEF GoLive, Working, lineVars
<1>2. /\ working \in Slots /\ slot[working] \in SlotType /\ WireRight(working)
      /\ \A j \in Slots : slot[j].call = "none"
    BY <1>1, NoCallsAtWork DEF Structure, PlaceInv, Types, Contents
<1>3. /\ last' <= Produced /\ seen' \subseteq 1..Produced
      /\ calling' # Nothing => calling'.seq >= last' /\ Given(calling')
      /\ \A k \in 1..Len(deliveryQueue') : Given(deliveryQueue'[k])
      /\ \A k \in 1..Len(rest') : Given(rest'[k])
    BY <1>1 DEF Contents
<1> DEFINE t == [slot[working] EXCEPT !.replaying = FALSE]
           i == working
<1>4. /\ Slots' \subseteq Slots /\ \A j \in Slots' \ {i} : slot'[j] = slot[j]
      /\ i \in Slots' => slot'[i] = t
    <2>1. CASE slot[i].open
        BY <1>2, <2>1 DEF GoLive, Slots
    <2>2. CASE ~slot[i].open
        BY <2>2 DEF GoLive, Slots, Restrict
    <2> QED BY <2>1, <2>2
<1>5. t.tapped = slot[i].tapped /\ t.wire = slot[i].wire /\ t.route = slot[i].route
      /\ t.queue = slot[i].queue /\ t.call = slot[i].call
    BY <1>2 DEF SlotType
<1> HIDE DEF t
<1>6. ASSUME NEW j, j = i, j \in Slots' PROVE WireRight(j)'
    <2>1. slot'[j].tapped = slot[j].tapped /\ slot'[j].wire = slot[j].wire
          /\ slot'[j].route = slot[j].route /\ slot'[j].queue = slot[j].queue /\ WireRight(j)
        BY <1>2, <1>4, <1>5, <1>6
    <2>2. HeadOf(j)' = HeadOf(j)
        BY <1>1, <2>1 DEF HeadOf
    <2> QED BY <2>1, <2>2 DEF WireRight, Run
<1>7. \A j \in Slots' : slot'[j].call = "none"
    BY <1>2, <1>4, <1>5
<1>8. ASSUME NEW j, j = i PROVE Contents'
    <2>1. \A k \in Slots' \ {j} : k \in Slots /\ slot'[k] = slot[k]
        BY <1>4, <1>8
    <2>2. j \in Slots' => WireRight(j)'
        BY <1>6, <1>8
    <2> QED BY <1>1, <1>3, <1>7, <2>1, <2>2, QuietContents
<1> QED BY <1>8

(* The first event of the delivery queue is one the producer gave. *)
LEMMA DeliveringFacts ==
    ASSUME Structure, Contents, deliveryQueue # <<>>
    PROVE  /\ Given(Head(deliveryQueue)) /\ Head(deliveryQueue) \in Envelope
           /\ \A k \in 1..Len(Tail(deliveryQueue)) : Given(Tail(deliveryQueue)[k])
           /\ \A i \in Slots : ~(slot[i].call # "none" /\ slot[i].reset)
<1>1. /\ Head(deliveryQueue) = deliveryQueue[1] /\ Len(deliveryQueue) \in Nat
      /\ Head(deliveryQueue) \in Envelope
      /\ Len(deliveryQueue) >= 1 /\ Len(Tail(deliveryQueue)) = Len(deliveryQueue) - 1
      /\ \A k \in 1..(Len(deliveryQueue) - 1) : Tail(deliveryQueue)[k] = deliveryQueue[k + 1]
    BY HeadTailFacts DEF Structure, Types
<1>2. \A k \in 1..Len(Tail(deliveryQueue)) : Given(Tail(deliveryQueue)[k])
    <2> TAKE k \in 1..Len(Tail(deliveryQueue))
    <2>1. k + 1 \in 1..Len(deliveryQueue) /\ Tail(deliveryQueue)[k] = deliveryQueue[k + 1]
        BY <1>1
    <2> QED BY <2>1 DEF Contents
<1>3. Given(Head(deliveryQueue))
    BY <1>1 DEF Contents
<1> QED BY <1>1, <1>2, <1>3 DEF Contents, CallRight

\* A step of the loop leaves the slots as they are.
(* The delivery loop, skipping, calling or returning keeps what is known of
   wires, queues and answers. *)
LEMMA LoopContents ==
    ASSUME Structure, Structure', Contents, SkipDelivered \/ CallbackStarts \/ CallbackReturns
    PROVE  Contents'
<1>1. slot' = slot /\ heads' = heads /\ rest' = rest /\ Slots' = Slots
    BY DEF SkipDelivered, CallbackStarts, CallbackReturns, lineVars, Slots
<1>2. last \in Int /\ Produced \in Nat /\ calling \in Envelope \cup {Nothing}
    BY ProducedFacts, SMTT(30) DEF Structure, Types
<1>3. \A i \in Slots : ~(slot[i].call # "none" /\ slot[i].reset)
    <2>1. CASE deliveryQueue # <<>>
        BY <2>1, DeliveringFacts
    <2>2. CASE calling # Nothing
        BY <2>2 DEF Contents, CallRight
    <2> QED BY <2>1, <2>2 DEF SkipDelivered, CallbackStarts, CallbackReturns, Delivering
<1>4. \A k \in 1..Len(deliveryQueue') : Given(deliveryQueue'[k])
    <2>1. CASE deliveryQueue # <<>> /\ deliveryQueue' = Tail(deliveryQueue)
        BY <2>1, DeliveringFacts
    <2>2. CASE deliveryQueue' = deliveryQueue
        BY <2>2 DEF Contents
    <2> QED BY <2>1, <2>2 DEF SkipDelivered, CallbackStarts, CallbackReturns, Delivering
<1>5. /\ last' <= Produced /\ last <= last' /\ seen' \subseteq 1..Produced
      /\ calling' # Nothing => calling'.seq >= last' /\ Given(calling')
    <2>1. CASE SkipDelivered
        BY <1>2, <2>1 DEF SkipDelivered, Contents
    <2>2. CASE CallbackStarts
        <3> DEFINE e == Head(deliveryQueue)
        <3>1. /\ deliveryQueue # <<>> /\ e.seq > last /\ calling' = e /\ last' = last
              /\ seen' = IF e.keyframe THEN 1..e.seq ELSE seen \cup {e.seq}
            BY <2>2 DEF CallbackStarts, Delivering
        <3>2. Given(e) /\ e \in Envelope
            BY <3>1, DeliveringFacts
        <3> HIDE DEF e
        <3>3. e.seq \in Nat /\ e.seq <= Produced /\ (~e.keyframe => e.seq >= 1)
            BY <3>2 DEF Given, Envelope
        <3>4. last <= Produced /\ seen \subseteq 1..Produced
            BY DEF Contents
        <3>5. seen' \subseteq 1..Produced
            <4>1. 1..e.seq \subseteq 1..Produced
                BY <1>2, <3>3
            <4>2. ~e.keyframe => {e.seq} \subseteq 1..Produced
                BY <1>2, <3>3
            <4> QED BY <3>1, <3>4, <4>1, <4>2
        <3>6. last' <= Produced /\ last <= last' /\ e.seq >= last'
            BY <1>2, <3>1, <3>3, <3>4
        <3> QED BY <3>1, <3>2, <3>5, <3>6
    <2>3. CASE CallbackReturns
        <3>1. calling # Nothing /\ last' = calling.seq /\ calling' = Nothing /\ seen' = seen
            BY <2>3 DEF CallbackReturns
        <3> QED BY <1>2, <3>1 DEF Contents, Given
    <2> QED BY <2>1, <2>2, <2>3
<1>6. \A k \in 1..Len(rest') : Given(rest'[k])
    BY <1>1 DEF Contents
<1> DEFINE T == {}
<1>7. /\ \A i \in Slots' \ T : i \in Slots /\ slot'[i] = slot[i]
      /\ \A i \in Slots' \ T : slot[i].call # "none" => last <= last'
      /\ \A i \in Slots' \ T : slot[i].call # "none" /\ slot[i].reset =>
            UNCHANGED <<last, deliveryQueue, calling>>
      /\ \A i \in Slots' \cap T : WireRight(i)' /\ CallRight(i)'
    BY <1>1, <1>3, <1>5
<1> HIDE DEF T
<1> QED BY <1>1, <1>4, <1>5, <1>6, <1>7, ContentsStep

(* A callback that throws keeps what is known of wires, queues and answers. *)
LEMMA CallbackFailsContents ==
    ASSUME Structure, Structure', Contents, CallbackFails PROVE Contents'
<1>1. /\ deliveryQueue # <<>> /\ calling = Nothing
      /\ deliveryQueue' = <<>> /\ rest' = <<>> /\ heads' = heads
      /\ slot' = Restrict(slot, Slots \ {owner}) /\ UNCHANGED <<last, calling, seen>>
    BY DEF CallbackFails, Delivering, lineVars
<1>2. \A j \in Slots' : j \in Slots /\ slot'[j] = slot[j]
    BY <1>1 DEF Restrict, Slots
<1>3. \A j \in Slots : ~(slot[j].call # "none" /\ slot[j].reset)
    BY <1>1, DeliveringFacts
<1>4. last <= last' /\ last' <= Produced /\ seen' \subseteq 1..Produced /\ calling' = Nothing
    BY <1>1 DEF Structure, Types, Contents
<1>5. /\ \A k \in 1..Len(deliveryQueue') : Given(deliveryQueue'[k])
      /\ \A k \in 1..Len(rest') : Given(rest'[k])
    BY <1>1
<1> DEFINE T == {}
<1>6. /\ \A j \in Slots' \ T : j \in Slots /\ slot'[j] = slot[j]
      /\ \A j \in Slots' \ T : slot[j].call # "none" => last <= last'
      /\ \A j \in Slots' \ T : slot[j].call # "none" /\ slot[j].reset =>
            UNCHANGED <<last, deliveryQueue, calling>>
      /\ \A j \in Slots' \cap T : WireRight(j)' /\ CallRight(j)'
    BY <1>2, <1>3, <1>4
<1> HIDE DEF T
<1> QED BY <1>1, <1>4, <1>5, <1>6, ContentsStep

\* A step that leaves no slot but those there were, as they were.
(* A step that only drops slots keeps what is known of wires, queues and
   answers. *)
LEMMA FewerContents ==
    ASSUME Structure, Structure', Contents, heads' = heads,
           UNCHANGED <<last, seen, calling, deliveryQueue, rest>>,
           \A j \in Slots' : j \in Slots /\ slot'[j] = slot[j]
    PROVE  Contents'
<1>1. 0 \notin Slots'
    BY DEF Structure, PlaceInv, Types
<1>2. \A j \in Slots' \ {0} : j \in Slots /\ slot'[j] = slot[j]
    OBVIOUS
<1>3. 0 \in Slots' => WireRight(0)' /\ CallRight(0)'
    BY <1>1
<1> QED BY <1>2, <1>3, OneSlotContents

(* The start of a switch keeps what is known of wires, queues and answers. *)
LEMMA DoSwitchContents ==
    ASSUME Structure, Structure', Contents, DoSwitch PROVE Contents'
<1>1. /\ Settled /\ heads' = heads /\ UNCHANGED <<last, seen, calling, deliveryQueue, rest>>
    BY DEF DoSwitch, lineVars, loopVars
<1>2. CASE closed
    BY <1>1, <1>2, FewerContents DEF DoSwitch, Slots
<1>3. CASE ~closed
    <2> DEFINE n == attached + 1
               t == Attached(Head(chain), last, active = 0)
    <2>1. slot' = [i \in Slots \cup {n} |-> IF i \in Slots THEN slot[i] ELSE t]
        BY <1>3 DEF DoSwitch
    <2>2. n \notin Slots
        BY DEF Structure, PlaceInv, Types
    <2>3. ~t.tapped /\ t.since = last /\ t.status = "asked"
        BY DEF Attached
    <2> HIDE DEF t
    <2>4. Slots' = Slots \cup {n} /\ slot'[n] = t /\ \A j \in Slots : slot'[j] = slot[j]
        BY <2>1, <2>2 DEF Slots
    <2>5. calling' = Nothing /\ deliveryQueue' = <<>> /\ last' = last /\ last <= last'
        BY <1>1 DEF Settled, Structure, Types
    <2>6. ASSUME NEW j, j = n PROVE Contents'
        <3>1. ~slot'[j].tapped /\ slot'[j].since = last' /\ slot'[j].status = "asked"
            BY <2>3, <2>4, <2>5, <2>6
        <3>2. WireRight(j)' /\ CallRight(j)'
            BY <2>5, <3>1 DEF WireRight, CallRight, Nothing
        <3>3. \A k \in Slots' \ {j} : k \in Slots /\ slot'[k] = slot[k]
            BY <2>4, <2>6
        <3> QED BY <1>1, <3>2, <3>3, OneSlotContents
    <2> QED BY <2>6
<1> QED BY <1>2, <1>3

(* The end of a switch keeps what is known of wires, queues and answers. *)
LEMMA SwitchEndsContents ==
    ASSUME Structure, Structure', Contents, SwitchEnds PROVE Contents'
<1>1. /\ Settled /\ heads' = heads /\ UNCHANGED <<last, seen, calling, deliveryQueue, rest>>
      /\ pending # 0
    BY DEF SwitchEnds, lineVars, loopVars
<1>2. \A j \in Slots' : j \in Slots /\ slot'[j] = slot[j]
    <2>1. CASE outcome = "ready" /\ IsOpen(pending)
        <3>1. slot' = Dispose(active)
            BY <2>1 DEF SwitchEnds
        <3>2. active \in Slots => slot[active].status # "answered" /\ active # working
            <4>1. active \in Slots => SlotRight(active) /\ active # pending
                BY <1>1 DEF Structure, PlaceInv, Types
            <4> QED BY <4>1 DEF SlotRight
        <3> QED BY <3>1, <3>2, DisposeFacts DEF Slots
    <2>2. CASE ~(outcome = "ready" /\ IsOpen(pending))
        BY <2>2 DEF SwitchEnds, Slots
    <2> QED BY <2>1, <2>2
<1> QED BY <1>1, <1>2, FewerContents

(* off() keeps what is known of wires, queues and answers. *)
LEMMA OffContents == ASSUME Structure, Structure', Contents, Off PROVE Contents'
<1>1. /\ slot' = <<>> /\ deliveryQueue' = <<>> /\ rest' = <<>> /\ heads' = heads
      /\ UNCHANGED <<last, calling, seen>>
    BY DEF Off, lineVars
<1>2. Slots' = {} /\ Produced' = Produced
    BY <1>1, ProducedSame DEF Slots
<1>3. calling' # Nothing' => calling'.seq >= last' /\ Given(calling)'
    BY <1>1, <1>2 DEF Contents, Given, Nothing
<1> QED BY <1>1, <1>2, <1>3 DEF Contents

(* A step, whichever it is, keeps what is known of wires, queues and answers. *)
LEMMA NextContents ==
    ASSUME Structure, Structure', Contents, [Next]_vars PROVE Contents'
<1>1. CASE SkipDelivered \/ CallbackStarts \/ CallbackReturns
    BY <1>1, LoopContents
<1>2. CASE CallbackFails
    BY <1>2, CallbackFailsContents
<1>3. CASE DeliverNext
    BY <1>3, DeliverNextContents
<1>4. CASE GoLive
    BY <1>4, GoLiveContents
<1>5. CASE DoSwitch
    BY <1>5, DoSwitchContents
<1>6. CASE SwitchEnds
    BY <1>6, SwitchEndsContents
<1>7. ASSUME NEW i \in Slots, ResumeAnswered(i) \/ ResumeMissing(i) PROVE Contents'
    BY <1>7, ResumeAnsweredContents, ResumeMissingContents
<1>8. ASSUME NEW r \in Routes, Forward(r) PROVE Contents'
    BY <1>8, ForwardContents
<1>9. ASSUME NEW r \in Routes, Switch(r) PROVE Contents'
    BY <1>9, FewerContents DEF Switch, lineVars, loopVars, Slots
<1>10. ASSUME NEW i \in Slots, AttachLiveLine(i) \/ RemoteAnswers(i) \/ LiveTap(i)
       PROVE  Contents'
    BY <1>10, AttachLiveLineContents, RemoteAnswersContents, LiveTapContents
<1>11. ASSUME NEW i \in Slots, LineFails(i) \/ CallFails(i) PROVE Contents'
    BY <1>11, FailSlotContents DEF LineFails, CallFails
<1>12. CASE TimeoutFires
    BY <1>12, FailSlotContents DEF TimeoutFires
<1>13. CASE Off
    BY <1>13, OffContents
<1>14. CASE UNCHANGED vars
    BY <1>14, FewerContents DEF vars, lineVars, switchVars, loopVars, Slots
<1> QED BY <1>1, <1>2, <1>3, <1>4, <1>5, <1>6, <1>7, <1>8, <1>9, <1>10, <1>11, <1>12, <1>13,
           <1>14 DEF Next, EventLoop

\* What a step finds: the structure and the contents, before and after.
(* The type invariant follows from structure and contents. *)
LEMMA TypeFromParts == Structure /\ Contents => TypeOK
<1> SUFFICES ASSUME Structure, Contents PROVE TypeOK
    OBVIOUS
<1>1. heads \in [Routes -> Nat]
    BY DEF Structure, Types, Top, RouteAssumption
<1>2. \A i \in Slots : slot[i].open => i \in {active, pending}
    BY DEF Structure, PlaceInv
<1> QED BY <1>1, <1>2 DEF Structure, Types, Contents, TypeOK

-----------------------------------------------------------------------------
(* Nothing is skipped *)

AtLeast(S, n) == \E x \in S : x >= n
Numbers(s) == {s[k].seq : k \in 1..Len(s)}

\* Each is a keyframe, or the one before it is in S or earlier in the sequence.
Chained(s, S) ==
    \A j \in 1..Len(s) : \/ s[j].keyframe \/ AtLeast(S, s[j].seq - 1)
                         \/ \E k \in 1..(j - 1) : s[k].seq >= s[j].seq - 1

\* How far the consumer is, and how far the running loop takes it.
Sofar == {Position} \cup Numbers(deliveryQueue)

SeenIsRun == \E k \in 0..Produced : seen = 1..k /\ last <= k /\ Position <= k

Covered(i) ==
    slot[i].tapped =>
        /\ ~slot[i].replaying =>
            /\ AtLeast(Sofar, Base(i))
            /\ "reenters" \notin callback /\ i # owner => Position >= Base(i)
        /\ i = working => AtLeast(Sofar \cup Numbers(rest), Base(i))

Flow ==
    /\ SeenIsRun
    /\ Chained(deliveryQueue, {Position}) /\ Chained(rest, Sofar)
    /\ \A i \in Slots : Covered(i)

(* The numbers of a queue are its events' numbers. *)
LEMMA NumbersTyped ==
    ASSUME NEW s \in Seq(Envelope)
    PROVE  /\ Numbers(s) \subseteq Nat /\ Len(s) \in Nat
           /\ \A k \in 1..Len(s) : s[k].seq \in Nat /\ s[k].seq \in Numbers(s)
           /\ s = <<>> => Numbers(s) = {}
<1>1. Len(s) \in Nat
    BY LenProperties
<1>2. \A k \in 1..Len(s) : s[k].seq \in Nat
    <2>1. \A k \in 1..Len(s) : s[k] \in Envelope
        BY ElementOfSeq
    <2> QED BY <2>1 DEF Envelope
<1>3. s = <<>> => Len(s) = 0
    OBVIOUS
<1> QED BY <1>1, <1>2, <1>3 DEF Numbers

(* Having something at least as far is transitive. *)
LEMMA AtLeastGrows ==
    ASSUME NEW S \in SUBSET Int, NEW Z \in SUBSET Int, \A x \in S : AtLeast(Z, x),
           NEW n \in Int, AtLeast(S, n)
    PROVE  AtLeast(Z, n)
<1>1. PICK x \in S : x >= n
    BY DEF AtLeast
<1>2. PICK z \in Z : z >= x
    BY <1>1 DEF AtLeast
<1>3. x \in Int /\ z \in Int /\ z >= n
    BY <1>1, <1>2
<1> QED BY <1>3 DEF AtLeast

(* A chained queue stays chained behind anything that is as far. *)
LEMMA ChainGrows ==
    ASSUME NEW s \in Seq(Envelope), NEW S \in SUBSET Int, NEW Z \in SUBSET Int,
           \A x \in S : AtLeast(Z, x), Chained(s, S)
    PROVE  Chained(s, Z)
<1>1. \A j \in 1..Len(s) : s[j].seq - 1 \in Int
    BY NumbersTyped
<1>2. \A j \in 1..Len(s) : AtLeast(S, s[j].seq - 1) => AtLeast(Z, s[j].seq - 1)
    BY <1>1, AtLeastGrows
<1> QED BY <1>2 DEF Chained

(* What is left of a chained queue is chained behind its first event. *)
LEMMA ChainTail ==
    ASSUME NEW s \in Seq(Envelope), s # <<>>, NEW S \in SUBSET Int, NEW Z \in SUBSET Int,
           \A x \in S : AtLeast(Z, x), AtLeast(Z, Head(s).seq), Chained(s, S)
    PROVE  /\ Chained(Tail(s), Z)
           /\ Head(s).keyframe \/ AtLeast(S, Head(s).seq - 1)
           /\ Head(s).seq \in Nat
           /\ Numbers(s) = {Head(s).seq} \cup Numbers(Tail(s))
<1> DEFINE t == Tail(s)
<1>1. /\ Head(s) = s[1] /\ t \in Seq(Envelope) /\ Len(s) \in Nat /\ Len(s) >= 1
      /\ Len(t) = Len(s) - 1 /\ \A k \in 1..(Len(s) - 1) : t[k] = s[k + 1]
    BY HeadTailFacts
<1>2. \A k \in 1..Len(s) : s[k].seq \in Nat
    BY NumbersTyped
<1> HIDE DEF t
<1>3. Chained(t, Z)
    <2> SUFFICES ASSUME NEW j \in 1..Len(t), ~t[j].keyframe
                 PROVE  AtLeast(Z, t[j].seq - 1) \/ \E k \in 1..(j - 1) : t[k].seq >= t[j].seq - 1
        BY DEF Chained
    <2>1. j + 1 \in 1..Len(s) /\ t[j] = s[j + 1] /\ s[j + 1].seq \in Nat /\ (j + 1) - 1 = j
        BY <1>1, <1>2
    <2>2. \/ AtLeast(S, s[j + 1].seq - 1)
          \/ \E k \in 1..j : s[k].seq >= s[j + 1].seq - 1
        BY <2>1 DEF Chained
    <2>3. CASE AtLeast(S, s[j + 1].seq - 1)
        <3>1. s[j + 1].seq - 1 \in Int
            BY <2>1
        <3> QED BY <2>1, <2>3, <3>1, AtLeastGrows
    <2>4. ASSUME NEW k \in 1..j, s[k].seq >= s[j + 1].seq - 1
          PROVE  AtLeast(Z, t[j].seq - 1) \/ \E m \in 1..(j - 1) : t[m].seq >= t[j].seq - 1
        <3>1. CASE k = 1
            <4>1. PICK z \in Z : z >= s[1].seq
                BY <1>1 DEF AtLeast
            <4>2. s[1].seq \in Nat /\ s[1].seq >= s[j + 1].seq - 1
                BY <1>1, <1>2, <2>4, <3>1
            <4>3. z \in Int /\ z >= s[j + 1].seq - 1
                BY <2>1, <4>1, <4>2
            <4> QED BY <2>1, <4>3 DEF AtLeast
        <3>2. CASE k # 1
            <4>1. k - 1 \in 1..(j - 1) /\ k - 1 \in 1..(Len(s) - 1) /\ (k - 1) + 1 = k
                BY <1>1, <2>1, <3>2
            <4>2. t[k - 1] = s[k]
                BY <1>1, <4>1
            <4> QED BY <2>1, <2>4, <4>1, <4>2
        <3> QED BY <3>1, <3>2
    <2> QED BY <2>2, <2>3, <2>4
<1>4. s[1].keyframe \/ AtLeast(S, s[1].seq - 1)
    <2>1. 1 \in 1..Len(s) /\ 1..(1 - 1) = {}
        BY <1>1
    <2> QED BY <2>1 DEF Chained
<1>5. Numbers(s) = {s[1].seq} \cup Numbers(t)
    <2>1. ASSUME NEW k \in 1..Len(s) PROVE s[k].seq \in {s[1].seq} \cup Numbers(t)
        <3>1. CASE k = 1
            BY <3>1
        <3>2. CASE k # 1
            <4>1. k - 1 \in 1..Len(t) /\ t[k - 1] = s[k]
                <5>1. k - 1 \in 1..(Len(s) - 1) /\ (k - 1) + 1 = k
                    BY <1>1, <3>2
                <5> QED BY <1>1, <5>1
            <4> QED BY <4>1 DEF Numbers
        <3> QED BY <3>1, <3>2
    <2>2. ASSUME NEW k \in 1..Len(t) PROVE t[k].seq \in Numbers(s)
        <3>1. k + 1 \in 1..Len(s) /\ t[k] = s[k + 1]
            BY <1>1
        <3> QED BY <3>1 DEF Numbers
    <2>3. s[1].seq \in Numbers(s)
        BY <1>1 DEF Numbers
    <2> QED BY <2>1, <2>2, <2>3 DEF Numbers
<1>6. Head(s).seq \in Nat
    BY <1>1, <1>2
<1> QED BY <1>1, <1>3, <1>4, <1>5, <1>6 DEF t

(* An event whose predecessor is covered can be chained at the end. *)
LEMMA ChainAppend ==
    ASSUME NEW s \in Seq(Envelope), NEW e \in Envelope, NEW S \in SUBSET Int, Chained(s, S),
           AtLeast(S \cup Numbers(s), e.seq - 1)
    PROVE  /\ Chained(Append(s, e), S)
           /\ Numbers(Append(s, e)) = Numbers(s) \cup {e.seq}
<1> DEFINE t == Append(s, e)
<1>1. /\ Len(s) \in Nat /\ Len(t) = Len(s) + 1 /\ t[Len(s) + 1] = e
      /\ \A k \in 1..Len(s) : t[k] = s[k]
    BY AppendProperties, LenProperties
<1> HIDE DEF t
<1>2. Numbers(t) = Numbers(s) \cup {e.seq}
    <2>1. \A k \in 1..Len(t) : k \in 1..Len(s) \/ k = Len(s) + 1
        BY <1>1
    <2>2. \A k \in 1..Len(s) : k \in 1..Len(t)
        BY <1>1
    <2>3. Len(s) + 1 \in 1..Len(t)
        BY <1>1
    <2> QED BY <1>1, <2>1, <2>2, <2>3 DEF Numbers
<1>3. ASSUME NEW j \in 1..Len(t)
      PROVE  \/ t[j].keyframe \/ AtLeast(S, t[j].seq - 1)
             \/ \E k \in 1..(j - 1) : t[k].seq >= t[j].seq - 1
    <2>1. CASE j \in 1..Len(s)
        <3>1. \A k \in 1..(j - 1) : t[k] = s[k]
            BY <1>1, <2>1
        <3> QED BY <1>1, <2>1, <3>1 DEF Chained
    <2>2. CASE j = Len(s) + 1
        <3>1. t[j] = e /\ j - 1 = Len(s)
            BY <1>1, <2>2
        <3>2. AtLeast(S, e.seq - 1) \/ \E k \in 1..Len(s) : s[k].seq >= e.seq - 1
            BY DEF AtLeast, Numbers
        <3> QED BY <1>1, <3>1, <3>2
    <2> QED BY <1>1, <2>1, <2>2
<1> QED BY <1>2, <1>3 DEF Chained, t

(* The numbers the loop still has to deliver or has delivered are integers. *)
LEMMA SofarTyped ==
    ASSUME Structure
    PROVE  /\ Position \in Nat \cup {-1} /\ Sofar \in SUBSET Int /\ Numbers(rest) \in SUBSET Int
           /\ deliveryQueue \in Seq(Envelope) /\ rest \in Seq(Envelope) /\ last \in Nat \cup {-1}
           /\ deliveryQueue = <<>> => Sofar = {Position}
           /\ rest = <<>> => Numbers(rest) = {}
<1>1. /\ deliveryQueue \in Seq(Envelope) /\ rest \in Seq(Envelope) /\ last \in Nat \cup {-1}
      /\ calling \in Envelope \cup {Nothing}
    BY DEF Structure, Types
<1>2. Position \in Nat \cup {-1}
    BY <1>1 DEF Position, Envelope
<1>3. Numbers(deliveryQueue) \subseteq Nat /\ Numbers(rest) \subseteq Nat
      /\ (deliveryQueue = <<>> => Numbers(deliveryQueue) = {})
      /\ (rest = <<>> => Numbers(rest) = {})
    BY <1>1, NumbersTyped
<1> QED BY <1>1, <1>2, <1>3 DEF Sofar

(* The number before a tapped slot's run is a natural number. *)
LEMMA BaseTyped ==
    ASSUME Structure, Contents, NEW i \in Slots, slot[i].tapped
    PROVE  Base(i) \in Nat /\ slot[i] \in SlotType
<1>1. WireRight(i) /\ slot[i] \in SlotType
    BY DEF Structure, Types, Contents
<1>2. Base(i) >= 0 /\ slot[i].wire \in Seq(Envelope) /\ slot[i].queue \in Seq(Envelope)
      /\ slot[i].route \in Routes
    BY <1>1 DEF WireRight, Run, Base, SlotType
<1>3. \A r \in Routes : heads[r] \in Nat
    BY DEF Structure, Types, Top, RouteAssumption
<1>4. Len(slot[i].wire) \in Nat /\ Len(slot[i].queue) \in Nat /\ HeadOf(i) \in Nat
    BY <1>2, <1>3, LenProperties DEF HeadOf
<1>5. \A n, a, b \in Nat : n - a - b \in Int
    OBVIOUS
<1>6. Base(i) \in Int
    BY <1>4, <1>5 DEF Base
<1> QED BY <1>1, <1>2, <1>6

(* The initial state satisfies it: nothing was delivered. *)
LEMMA InitFlow == RouteAssumption /\ Init => Flow
<1> SUFFICES ASSUME RouteAssumption, Init PROVE Flow
    OBVIOUS
<1>0. Structure /\ Contents
    BY InitStructure, InitContents
<1>1. PICK r \in Routes : slot = <<Attached(r, last, TRUE)>>
    BY DEF Init
<1>2. /\ last \in {-1, FirstSeq} /\ seen = 1..last /\ FirstSeq \in Nat \ {0}
      /\ deliveryQueue = <<>> /\ rest = <<>> /\ calling = Nothing
    BY DEF Init, RouteAssumption
<1>3. last <= Produced /\ Produced \in Nat
    BY <1>0, ProducedFacts DEF Structure, Contents
<1>4. SeenIsRun
    <2>1. Position = last
        BY <1>2 DEF Position
    <2>2. CASE last = -1
        <3>1. seen = 1..0 /\ 0 \in 0..Produced /\ last <= 0
            BY <1>2, <1>3, <2>2
        <3> QED BY <2>1, <3>1 DEF SeenIsRun
    <2>3. CASE last = FirstSeq
        <3>1. last \in 0..Produced /\ last <= last
            BY <1>2, <1>3, <2>3
        <3> QED BY <1>2, <2>1, <3>1 DEF SeenIsRun
    <2> QED BY <1>2, <2>2, <2>3
<1>5. Slots = {1} /\ ~slot[1].tapped
    BY <1>1 DEF Slots, Attached
<1>6. Chained(deliveryQueue, {Position}) /\ Chained(rest, Sofar)
    BY <1>2 DEF Chained
<1> QED BY <1>4, <1>5, <1>6 DEF Flow, Covered

\* A step that leaves alone what is being delivered, and how far each tapped slot covers.
(* A step that leaves the consumer and the delivery queue alone skips nothing. *)
LEMMA FlowSame ==
    ASSUME Structure, Structure', Contents, Flow,
           UNCHANGED <<callback, last, calling, deliveryQueue, rest, seen, owner, working>>,
           Produced <= Produced',
           \A i \in Slots' : slot'[i].tapped =>
                \/ slot'[i].replaying /\ i # working
                \/ /\ i \in Slots /\ slot[i].tapped /\ slot'[i].replaying = slot[i].replaying
                   /\ Base(i)' = Base(i)
    PROVE  Flow'
<1>1. Position' = Position /\ Sofar' = Sofar
    BY DEF Position, Sofar, Numbers, Nothing
<1>2. Produced \in Nat /\ Produced' \in Nat
    <2>1. Top \in Nat /\ Routes # {} /\ heads \in [Routes -> 0..Top] /\ heads' \in [Routes -> 0..Top]
        BY DEF Structure, Types, Top, RouteAssumption
    <2>2. Produced = Furthest(heads) /\ Produced' = Furthest(heads')
        BY DEF Produced, Furthest
    <2> QED BY <2>1, <2>2, FurthestFacts
<1>3. SeenIsRun'
    <2>1. PICK k \in 0..Produced : seen = 1..k /\ last <= k /\ Position <= k
        BY DEF Flow, SeenIsRun
    <2>2. k \in 0..Produced'
        BY <1>2
    <2> QED BY <1>1, <2>1, <2>2 DEF SeenIsRun
<1>4. Chained(deliveryQueue, {Position})' /\ Chained(rest, Sofar)'
    BY <1>1 DEF Flow, Chained, AtLeast
<1>5. ASSUME NEW i \in Slots' PROVE Covered(i)'
    <2>1. CASE ~slot'[i].tapped
        BY <2>1 DEF Covered
    <2>2. CASE slot'[i].replaying /\ i # working
        BY <2>2 DEF Covered
    <2>3. CASE /\ i \in Slots /\ slot[i].tapped /\ slot'[i].replaying = slot[i].replaying
               /\ Base(i)' = Base(i)
        <3>1. Covered(i)
            BY <2>3 DEF Flow
        <3> QED BY <1>1, <2>3, <3>1 DEF Covered, AtLeast, Numbers
    <2> QED BY <2>1, <2>2, <2>3
<1> QED BY <1>3, <1>4, <1>5 DEF Flow

(* When no head goes back, neither does Produced. *)
LEMMA ProducedGrows ==
    ASSUME Structure, Structure', \A r \in Routes : heads[r] <= heads'[r]
    PROVE  Produced <= Produced'
<1>1. Top \in Nat /\ Routes # {} /\ heads \in [Routes -> 0..Top] /\ heads' \in [Routes -> 0..Top]
    BY DEF Structure, Types, Top, RouteAssumption
<1>2. Produced = Furthest(heads) /\ Produced' = Furthest(heads')
    BY DEF Produced, Furthest
<1>3. PICK m \in Routes : Produced = heads[m]
    BY <1>1, <1>2, FurthestFacts
<1>4. heads'[m] <= Produced' /\ Produced' \in Nat
    BY <1>1, <1>2, FurthestFacts
<1>5. heads[m] \in Nat /\ heads'[m] \in Nat
    BY <1>1
<1> QED BY <1>3, <1>4, <1>5

(* An event that reaches a route skips no event. *)
LEMMA ForwardFlow ==
    ASSUME Structure, Structure', Contents, Flow, NEW r \in Routes, Forward(r) PROVE Flow'
<1> DEFINE e == Line(r, 1)!Event(heads[r] + 1)
<1>1. /\ heads' = [heads EXCEPT ![r] = @ + 1] /\ Slots' = Slots
      /\ \A j \in Slots : slot'[j] = IF slot[j].route = r /\ slot[j].tapped
                                   THEN [slot[j] EXCEPT !.wire = Append(@, e)] ELSE slot[j]
      /\ UNCHANGED <<callback, last, calling, deliveryQueue, rest, seen, owner, working>>
    BY DEF Forward, Slots, loopVars
<1>2. heads \in [Routes -> 0..Top] /\ \A q \in Routes : heads[q] \in Nat
    <2>1. heads \in [Routes -> 0..Top]
        BY DEF Structure, Types
    <2> QED BY <2>1
<1>3. Produced <= Produced'
    BY <1>1, <1>2, ProducedGrows
<1>4. e \in Envelope
    <2>1. heads[r] + 1 \in Nat
        BY <1>2
    <2> QED BY <2>1, EventTyped
<1> HIDE DEF e
<1>5. ASSUME NEW i \in Slots, slot'[i].tapped
      PROVE  slot[i].tapped /\ slot'[i].replaying = slot[i].replaying /\ Base(i)' = Base(i)
    <2>1. slot[i] \in SlotType
        BY DEF Structure, Types
    <2>2. slot[i].wire \in Seq(Envelope) /\ Len(slot[i].wire) \in Nat /\ slot[i].route \in Routes
          /\ Len(slot[i].queue) \in Nat /\ HeadOf(i) \in Nat
        BY <1>2, <2>1, LenProperties DEF SlotType, HeadOf
    <2>3. CASE slot[i].route = r /\ slot[i].tapped
        <3>1. /\ slot'[i].wire = Append(slot[i].wire, e) /\ slot'[i].replaying = slot[i].replaying
              /\ slot'[i].queue = slot[i].queue /\ slot'[i].route = slot[i].route
            BY <1>1, <2>1, <2>3 DEF SlotType
        <3>2. HeadOf(i)' = HeadOf(i) + 1
            BY <1>1, <1>2, <2>3, <3>1 DEF HeadOf
        <3>3. Len(slot'[i].wire) = Len(slot[i].wire) + 1
            BY <1>4, <2>2, <3>1, AppendProperties
        <3>4. Base(i)' = (HeadOf(i) + 1) - (Len(slot[i].wire) + 1) - Len(slot[i].queue)
            BY <3>1, <3>2, <3>3 DEF Base
        <3>5. \A n, a, b \in Nat : (n + 1) - (a + 1) - b = n - a - b
            OBVIOUS
        <3> QED BY <2>2, <2>3, <3>1, <3>4, <3>5 DEF Base
    <2>4. CASE ~(slot[i].route = r /\ slot[i].tapped)
        <3>1. slot'[i] = slot[i] /\ slot[i].tapped /\ slot[i].route # r
            BY <1>1, <1>5, <2>4
        <3>2. HeadOf(i)' = HeadOf(i)
            BY <1>1, <1>2, <2>2, <3>1 DEF HeadOf
        <3> QED BY <3>1, <3>2 DEF Base
    <2> QED BY <2>3, <2>4
<1> QED BY <1>1, <1>3, <1>5, FlowSame

\* A slot that differs at most in its call and its answer.
(* The place before a slot's run depends on its wire, its queue and its route's
   head. *)
LEMMA BaseSame ==
    ASSUME NEW i \in Slots, heads' = heads, slot'[i].route = slot[i].route,
           slot'[i].wire = slot[i].wire, slot'[i].queue = slot[i].queue
    PROVE  Base(i)' = Base(i)
    BY DEF Base, HeadOf

(* The server attaching the live line of a slot skips no event. *)
LEMMA AttachLiveLineFlow ==
    ASSUME Structure, Structure', Contents, Flow, NEW i \in Slots, AttachLiveLine(i) PROVE Flow'
<1>1. /\ slot' = [slot EXCEPT ![i] = [slot[i] EXCEPT !.tapped = TRUE]]
      /\ slot[i].open /\ ~slot[i].tapped /\ heads' = heads
      /\ UNCHANGED <<callback, last, calling, deliveryQueue, rest, seen, owner, working>>
    BY DEF AttachLiveLine, lineVars, loopVars
<1>2. slot[i] \in SlotType /\ SlotRight(i)
    BY DEF Structure, Types
<1>3. /\ Slots' = Slots /\ \A j \in Slots \ {i} : slot'[j] = slot[j]
      /\ slot'[i].replaying = slot[i].replaying
    BY <1>1, <1>2 DEF SlotType, Slots
<1>4. slot[i].replaying /\ i # working
    BY <1>1, <1>2 DEF SlotRight
<1>5. \A j \in Slots \ {i} : Base(j)' = Base(j)
    BY <1>1, <1>3, BaseSame
<1>6. Produced <= Produced'
    <2>1. \A r \in Routes : heads[r] <= heads'[r]
        BY <1>1 DEF Structure, Types, Top, RouteAssumption
    <2> QED BY <2>1, ProducedGrows
<1> QED BY <1>1, <1>3, <1>4, <1>5, <1>6, FlowSame

(* An answer of the server skips no event. *)
LEMMA RemoteAnswersFlow ==
    ASSUME Structure, Structure', Contents, Flow, NEW i \in Slots, RemoteAnswers(i) PROVE Flow'
<1>1. PICK o \in FirstSeq..(heads[slot[i].route] + 1) :
        slot' = [slot EXCEPT ![i] = Answer(slot[i], o)]
    BY DEF RemoteAnswers
<1>2. /\ slot[i].tapped /\ slot[i].call # "none" /\ heads' = heads
      /\ UNCHANGED <<callback, last, calling, deliveryQueue, rest, seen, owner, working>>
    BY DEF RemoteAnswers, lineVars, loopVars
<1>3. slot[i] \in SlotType /\ (slot[i].call \in {"frame", "since"} => slot[i].since >= 0)
    BY DEF Structure, Types, SlotRight
<1> DEFINE t == Answer(slot[i], o)
<1>4. /\ t.route = slot[i].route /\ t.queue = slot[i].queue /\ t.wire = slot[i].wire
      /\ t.replaying = slot[i].replaying
    <2>1. Types
        BY DEF Structure
    <2> DEFINE v == slot[i]
    <2>2. v \in SlotType /\ v.call # "none" /\ (v.call \in {"frame", "since"} => v.since >= 0)
        BY <1>2, <1>3
    <2> HIDE DEF v
    <2>3. /\ Answer(v, o).route = v.route /\ Answer(v, o).queue = v.queue
          /\ Answer(v, o).wire = v.wire /\ Answer(v, o).replaying = v.replaying
        BY <2>1, <2>2, AnswerTyped
    <2> QED BY <2>3 DEF v
<1> HIDE DEF t
<1>5. slot' = [slot EXCEPT ![i] = t]
    BY <1>1 DEF t
<1>6. Slots' = Slots /\ slot'[i] = t /\ \A j \in Slots \ {i} : slot'[j] = slot[j]
    BY <1>5 DEF Slots
<1>7. \A j \in Slots : Base(j)' = Base(j) /\ slot'[j].replaying = slot[j].replaying
                       /\ (slot'[j].tapped => slot[j].tapped)
    <2>1. Base(i)' = Base(i)
        BY <1>2, <1>4, <1>6, BaseSame
    <2>2. \A j \in Slots \ {i} : Base(j)' = Base(j)
        BY <1>2, <1>6, BaseSame
    <2> QED BY <1>2, <1>4, <1>6, <2>1, <2>2
<1>8. Produced <= Produced'
    <2>1. \A r \in Routes : heads[r] <= heads'[r]
        BY <1>2 DEF Structure, Types, Top, RouteAssumption
    <2> QED BY <2>1, ProducedGrows
<1> QED BY <1>2, <1>6, <1>7, <1>8, FlowSame

(* When no head moves, Produced stays. *)
LEMMA ProducedStays ==
    ASSUME Structure, heads' = heads
    PROVE  Produced' = Produced /\ Produced <= Produced' /\ Produced \in Nat
    BY ProducedSame, ProducedFacts DEF Structure

\* A step that leaves no tapped slot but those there were, as they were.
(* A step that only drops slots skips no event. *)
LEMMA FewerFlow ==
    ASSUME Structure, Structure', Contents, Flow, heads' = heads,
           UNCHANGED <<callback, last, calling, deliveryQueue, rest, seen, owner, working>>,
           \A j \in Slots' : slot'[j].tapped => j \in Slots /\ slot'[j] = slot[j]
    PROVE  Flow'
<1>1. Produced <= Produced'
    BY ProducedStays
<1>2. \A j \in Slots' : slot'[j].tapped =>
        j \in Slots /\ slot[j].tapped /\ slot'[j].replaying = slot[j].replaying /\ Base(j)' = Base(j)
    BY BaseSame
<1> QED BY <1>1, <1>2, FlowSame

(* The failure of a slot and the disposal after it skips no event. *)
LEMMA FailSlotFlow ==
    ASSUME Structure, Structure', Contents, Flow, NEW i, FailSlot(i),
           UNCHANGED <<lineVars, chain, attached, pending, active, closed, loopVars>>
    PROVE  Flow'
<1>1. /\ Slots' \subseteq Slots
      /\ \A j \in Slots \ {i} : j \in Slots' /\ slot'[j] = slot[j]
      /\ i \in Slots' => slot'[i] = ClosedSlot(slot[i])
    BY DisposeFacts DEF Slots, FailSlot
<1>2. i \in Slots' => ~slot'[i].tapped
    <2> SUFFICES ASSUME i \in Slots' PROVE ~slot'[i].tapped
        OBVIOUS
    <2>1. slot[i] \in SlotType
        BY <1>1 DEF Structure, Types
    <2> QED BY <1>1, <2>1, ClosedTyped
<1>3. \A j \in Slots' : slot'[j].tapped => j \in Slots /\ slot'[j] = slot[j]
    BY <1>1, <1>2
<1> QED BY <1>3, FewerFlow DEF lineVars, loopVars

(* A line event on its way being delivered, or queued while the slot replays
   skips no event. *)
LEMMA LiveTapFlow ==
    ASSUME Structure, Structure', Contents, Flow, NEW i \in Slots, LiveTap(i) PROVE Flow'
<1> DEFINE e == Head(slot[i].wire)
           t == IF slot[i].replaying
                THEN [slot[i] EXCEPT !.wire = Tail(@), !.queue = Append(@, e)]
                ELSE [slot[i] EXCEPT !.wire = Tail(@)]
<1>1. /\ slot[i].wire # <<>> /\ slot' = [slot EXCEPT ![i] = t]
      /\ heads' = heads /\ UNCHANGED <<callback, last, calling, working, rest, seen>>
      /\ Settled \/ (calling # Nothing /\ "reenters" \in callback)
      /\ IF slot[i].replaying THEN UNCHANGED <<deliveryQueue, owner>>
         ELSE deliveryQueue' = Append(deliveryQueue, e) /\ owner' = IF Settled THEN i ELSE owner
    BY DEF LiveTap, lineVars
<1>2. /\ slot[i].tapped /\ slot[i] \in SlotType /\ Len(slot[i].wire) \in Nat
      /\ Len(slot[i].queue) \in Nat /\ HeadOf(i) \in Nat /\ Base(i) \in Nat
      /\ e = Ev(HeadOf(i) - Len(slot[i].wire) + 1) /\ e \in Envelope
      /\ Len(Tail(slot[i].wire)) = Len(slot[i].wire) - 1
      /\ Len(Append(slot[i].queue, e)) = Len(slot[i].queue) + 1
    BY <1>1, TapFacts
<1> HIDE DEF e
<1>3. /\ t.route = slot[i].route /\ t.wire = Tail(slot[i].wire)
      /\ t.replaying = slot[i].replaying
      /\ t.queue = IF slot[i].replaying THEN Append(slot[i].queue, e) ELSE slot[i].queue
    BY <1>2 DEF SlotType
<1> HIDE DEF t
<1>4. Slots' = Slots /\ slot'[i] = t /\ \A j \in Slots \ {i} : slot'[j] = slot[j]
    BY <1>1 DEF Slots
<1>5. HeadOf(i)' = HeadOf(i) /\ Base(i) = HeadOf(i) - Len(slot[i].wire) - Len(slot[i].queue)
    BY <1>1, <1>3, <1>4 DEF HeadOf, Base
<1>6. \A j \in Slots \ {i} : Base(j)' = Base(j)
    BY <1>1, <1>4, BaseSame
<1>7. CASE slot[i].replaying
    <2>1. Base(i)' = HeadOf(i) - (Len(slot[i].wire) - 1) - (Len(slot[i].queue) + 1)
        BY <1>2, <1>3, <1>4, <1>5, <1>7 DEF Base
    <2>2. \A n, a, b \in Nat : n - (a - 1) - (b + 1) = n - a - b
        OBVIOUS
    <2>3. Base(i)' = Base(i)
        BY <1>2, <1>5, <2>1, <2>2
    <2> QED BY <1>1, <1>2, <1>3, <1>4, <1>6, <1>7, <2>3, ProducedStays, FlowSame
<1>8. CASE ~slot[i].replaying
    <2>1. SlotRight(i) /\ Covered(i)
        BY DEF Structure, Flow
    <2>2. slot[i].queue = <<>> /\ i # working /\ Len(slot[i].queue) = 0
        BY <1>8, <2>1 DEF SlotRight
    <2>3. Base(i)' = Base(i) + 1 /\ e.seq = Base(i) + 1
        <3>1. Base(i)' = HeadOf(i) - (Len(slot[i].wire) - 1) - Len(slot[i].queue)
            BY <1>2, <1>3, <1>4, <1>5, <1>8 DEF Base
        <3>2. \A n, a \in Nat : n - (a - 1) - 0 = (n - a - 0) + 1 /\ n - a + 1 = (n - a - 0) + 1
            OBVIOUS
        <3>3. e.seq = HeadOf(i) - Len(slot[i].wire) + 1
            BY <1>2 DEF Ev
        <3> QED BY <1>2, <1>5, <2>2, <3>1, <3>2, <3>3
    <2>4. AtLeast(Sofar, Base(i))
        BY <1>2, <1>8, <2>1 DEF Covered
    <2>5. /\ Position \in Int /\ Sofar \in SUBSET Int /\ Numbers(rest) \in SUBSET Int
          /\ deliveryQueue \in Seq(Envelope) /\ rest \in Seq(Envelope)
          /\ deliveryQueue = <<>> => Sofar = {Position}
        BY SofarTyped
    <2>6. /\ Chained(Append(deliveryQueue, e), {Position})
          /\ Numbers(Append(deliveryQueue, e)) = Numbers(deliveryQueue) \cup {e.seq}
        <3>1. {Position} \cup Numbers(deliveryQueue) = Sofar /\ e.seq - 1 = Base(i)
            BY <1>2, <2>3 DEF Sofar
        <3>2. Chained(deliveryQueue, {Position}) /\ {Position} \in SUBSET Int
            BY <2>5 DEF Flow
        <3> QED BY <1>2, <2>4, <2>5, <3>1, <3>2, ChainAppend
    <2>7. Position' = Position /\ Sofar' = Sofar \cup {e.seq} /\ Numbers(rest)' = Numbers(rest)
        <3>1. deliveryQueue' = Append(deliveryQueue, e) /\ Position' = Position
            BY <1>1, <1>8 DEF Position, Nothing
        <3>2. Numbers(deliveryQueue') = Numbers(deliveryQueue) \cup {e.seq}
            BY <2>6, <3>1
        <3> QED BY <1>1, <3>1, <3>2 DEF Sofar, Numbers
    <2>8. SeenIsRun'
        BY <1>1, <2>7, ProducedStays DEF Flow, SeenIsRun
    <2>9. Chained(deliveryQueue, {Position})'
        BY <1>1, <1>8, <2>6, <2>7 DEF Chained, AtLeast
    <2>10. Chained(rest, Sofar)'
        BY <1>1, <2>7 DEF Flow, Chained, AtLeast
    <2>11. ASSUME NEW j \in Slots', slot'[j].tapped PROVE Covered(j)'
        <3>1. CASE j = i
            <4>1. AtLeast(Sofar', Base(j)')
                <5>1. Base(j)' = Base(i)'
                    BY <3>1
                <5>2. Base(j)' = e.seq /\ e.seq \in Sofar' /\ e.seq \in Nat
                    BY <1>2, <2>3, <2>7, <5>1
                <5>3. e.seq >= e.seq
                    BY <5>2
                <5> QED BY <5>2, <5>3 DEF AtLeast
            <4>2. "reenters" \notin callback' /\ j # owner' => FALSE
                BY <1>1, <1>8, <3>1
            <4>3. j # working'
                BY <1>1, <2>2, <3>1
            <4> QED BY <4>1, <4>2, <4>3 DEF Covered
        <3>2. CASE j # i
            <4>1. j \in Slots /\ slot'[j] = slot[j] /\ Base(j)' = Base(j) /\ Covered(j) /\ slot[j].tapped
                BY <1>4, <1>6, <2>11, <3>2 DEF Flow
            <4>2. ~slot[j].replaying => AtLeast(Sofar', Base(j)) /\ AtLeast(Sofar, Base(j))
                BY <2>7, <4>1 DEF Covered, AtLeast
            <4>3. ~slot[j].replaying /\ "reenters" \notin callback => Position' >= Base(j)
                <5> SUFFICES ASSUME ~slot[j].replaying, "reenters" \notin callback
                             PROVE  Position >= Base(j)
                    BY <2>7
                <5>1. deliveryQueue = <<>>
                    BY <1>1 DEF Settled
                <5> QED BY <2>5, <4>2, <5>1 DEF AtLeast
            <4>4. j = working => AtLeast(Sofar' \cup Numbers(rest)', Base(j))
                BY <2>7, <4>1 DEF Covered, AtLeast
            <4> QED BY <1>1, <4>1, <4>2, <4>3, <4>4 DEF Covered
        <3> QED BY <3>1, <3>2
    <2>12. \A j \in Slots' : Covered(j)'
        BY <2>11 DEF Covered
    <2> QED BY <2>8, <2>9, <2>10, <2>12 DEF Flow
<1> QED BY <1>7, <1>8

\* The number is taken back to just before a keyframe, or not at all.
(* The place an answered reset begins from is the consumer's, or the slot asked
   for a reset. *)
LEMMA ResetFacts ==
    ASSUME Structure, Contents, NEW i \in Slots, slot[i].call # "none",
           slot[i].status = "answered"
    PROVE  /\ ResetPoint(slot[i]) <= last /\ ResetPoint(slot[i]) \in Int
           /\ \/ ResetPoint(slot[i]) = last
              \/ slot[i].reset /\ Len(slot[i].envs) = 1 /\ slot[i].envs[1].keyframe
                 /\ slot[i].envs # <<>>
           /\ \A k \in 1..Len(slot[i].envs) : slot[i].envs[k] \in Envelope
           /\ Len(slot[i].envs) \in Nat
<1> DEFINE s == slot[i]
<1>1. s \in SlotType /\ AnswerShape(s) /\ (s.reset => s.since = last) /\ last \in Int
    BY DEF Structure, Types, Contents, CallRight
<1>2. s.envs \in Seq(Envelope)
    BY <1>1 DEF SlotType
<1> HIDE DEF s
<1>3. Len(s.envs) \in Nat /\ \A k \in 1..Len(s.envs) : s.envs[k] \in Envelope
    BY <1>2, LenProperties, ElementOfSeq
<1>4. ASSUME s.reset, s.envs # <<>>, s.envs[1].seq <= last
      PROVE  Len(s.envs) = 1 /\ s.envs[1].keyframe /\ s.envs[1].seq \in Nat
    <2>1. 1 \in 1..Len(s.envs)
        BY <1>2, <1>3, <1>4, EmptySeq
    <2>2. s.envs[1].seq \in Nat
        BY <1>3, <2>1 DEF Envelope
    <2>3. ~(s.since >= 0 /\ \A j \in 1..Len(s.envs) : s.envs[j] = Ev(s.since + j))
        <3> SUFFICES ASSUME s.envs[1] = Ev(s.since + 1) PROVE FALSE
            BY <2>1
        <3>1. s.envs[1].seq = last + 1
            BY <1>1, <1>4 DEF Ev
        <3> QED BY <1>1, <1>4, <3>1
    <2> QED BY <1>1, <2>2, <2>3 DEF AnswerShape
<1> QED BY <1>1, <1>3, <1>4 DEF ResetPoint, s

(* An answered keyframe, tail or replay being put before the consumer skips no
   event. *)
LEMMA ResumeAnsweredFlow ==
    ASSUME Structure, Structure', Contents, Flow, NEW i \in Slots, ResumeAnswered(i) PROVE Flow'
<1> DEFINE s == slot[i]
           t == [slot[i] EXCEPT !.call = "none", !.status = "asked", !.envs = <<>>]
<1>1. /\ calling = Nothing /\ deliveryQueue = <<>> /\ s.call # "none" /\ s.status = "answered"
      /\ last' = ResetPoint(s) /\ rest' = s.envs /\ working' = i
      /\ slot' = [slot EXCEPT ![i] = t] /\ heads' = heads
      /\ UNCHANGED <<callback, deliveryQueue, calling, owner, seen>>
    BY DEF ResumeAnswered, Settled, lineVars
<1>2. /\ s \in SlotType /\ CallRight(i) /\ AnswerShape(s) /\ i = pending /\ s.replaying
      /\ s.reset => Slots = {i}
    BY <1>1, CallsArePending DEF Structure, Types, Contents, CallRight
<1>3. /\ last' <= last /\ last' \in Int
      /\ last' = last \/ (s.reset /\ Len(s.envs) = 1 /\ s.envs[1].keyframe /\ s.envs # <<>>)
      /\ \A k \in 1..Len(s.envs) : s.envs[k] \in Envelope
      /\ Len(s.envs) \in Nat
    BY <1>1, ResetFacts
<1>4. /\ last \in Int /\ Position = last /\ Position' = last' /\ Sofar = {last} /\ Sofar' = {last'}
      /\ s.since \in Int /\ s.since <= last
    <2>1. s.since \in Nat \cup {-1} /\ s.since <= last
        BY <1>1, <1>2 DEF SlotType, CallRight
    <2>2. Position = last /\ Position' = last'
        BY <1>1 DEF Position, Nothing
    <2>3. deliveryQueue' = <<>> /\ Len(<<>>) = 0
        BY <1>1
    <2> QED BY <1>1, <2>1, <2>2, <2>3, SMTT(30) DEF Sofar, Numbers, Structure, Types
<1>5. t.wire = s.wire /\ t.queue = s.queue /\ t.route = s.route /\ t.replaying = s.replaying
      /\ t.tapped = s.tapped
    BY <1>2 DEF SlotType
<1> HIDE DEF t
<1>6. Slots' = Slots /\ slot'[i] = t /\ \A j \in Slots \ {i} : slot'[j] = slot[j]
    BY <1>1 DEF Slots
<1>7. \A j \in Slots : Base(j)' = Base(j)
    <2>1. Base(i)' = Base(i)
        BY <1>1, <1>5, <1>6, BaseSame
    <2>2. \A j \in Slots \ {i} : Base(j)' = Base(j)
        BY <1>1, <1>6, BaseSame
    <2> QED BY <2>1, <2>2
<1>8. SeenIsRun'
    <2>1. PICK k \in 0..Produced : seen = 1..k /\ last <= k /\ Position <= k
        BY DEF Flow, SeenIsRun
    <2>2. last' <= k /\ k \in 0..Produced'
        BY <1>1, <1>3, <1>4, <2>1, ProducedStays
    <2> QED BY <1>1, <1>4, <2>1, <2>2 DEF SeenIsRun
<1>9. Chained(deliveryQueue, {Position})'
    <2>1. deliveryQueue' = <<>> /\ Len(<<>>) = 0
        BY <1>1
    <2> QED BY <2>1 DEF Chained
<1>10. Chained(s.envs, {last'})
    <2>1. CASE Len(s.envs) = 1 /\ s.envs[1].keyframe
        BY <2>1 DEF Chained
    <2>2. CASE /\ s.since >= 0 /\ \A j \in 1..Len(s.envs) : s.envs[j] = Ev(s.since + j)
               /\ ~(Len(s.envs) = 1 /\ s.envs[1].keyframe)
        <3>1. last' = last
            BY <1>3, <2>2
        <3>2. \A j \in 1..Len(s.envs) : s.envs[j].seq = s.since + j
            <4>1. \A n : Ev(n).seq = n
                BY DEF Ev
            <4> QED BY <2>2, <4>1
        <3> HIDE DEF s
        <3>3. ASSUME NEW j \in 1..Len(s.envs)
              PROVE  AtLeast({last'}, s.envs[j].seq - 1)
                     \/ \E k \in 1..(j - 1) : s.envs[k].seq >= s.envs[j].seq - 1
            <4>1. CASE j = 1
                <5>1. last' >= s.envs[j].seq - 1
                    BY <1>3, <1>4, <3>1, <3>2, <4>1
                <5> QED BY <5>1 DEF AtLeast
            <4>2. CASE j # 1
                <5>1. j - 1 \in 1..(j - 1) /\ j - 1 \in 1..Len(s.envs)
                    BY <1>3, <4>2
                <5>2. s.envs[j - 1].seq = s.since + (j - 1) /\ s.envs[j].seq = s.since + j
                    BY <3>2, <5>1
                <5>3. s.envs[j - 1].seq >= s.envs[j].seq - 1
                    BY <1>4, <5>2
                <5> QED BY <5>1, <5>3
            <4> QED BY <4>1, <4>2
        <3> QED BY <3>3 DEF Chained
    <2> QED BY <1>2, <2>1, <2>2 DEF AnswerShape
<1>11. Chained(rest, Sofar)'
    BY <1>1, <1>4, <1>10 DEF Chained, AtLeast
<1>12. ASSUME NEW j \in Slots', slot'[j].tapped PROVE Covered(j)'
    <2>1. CASE j = i
        <3>1. slot'[j].replaying /\ slot[j].tapped
            BY <1>2, <1>5, <1>6, <1>12, <2>1
        <3>2. Base(j) \in Nat
            BY <2>1, <3>1, BaseTyped
        <3>3. \/ s.envs = <<>> /\ s.since >= Base(j)
              \/ \E k \in 1..Len(s.envs) : s.envs[k].seq >= Base(j)
            BY <1>1, <1>2, <2>1, <3>1 DEF CallRight
        <3>4. AtLeast({last'} \cup Numbers(s.envs), Base(j))
            <4>1. CASE s.envs = <<>> /\ s.since >= Base(j)
                <5>1. last' >= Base(j)
                    BY <1>3, <1>4, <3>2, <4>1
                <5> QED BY <5>1 DEF AtLeast
            <4>2. CASE \E k \in 1..Len(s.envs) : s.envs[k].seq >= Base(j)
                BY <4>2 DEF AtLeast, Numbers
            <4> QED BY <3>3, <4>1, <4>2
        <3>5. Sofar' \cup Numbers(rest)' = {last'} \cup Numbers(s.envs)
            BY <1>1, <1>4 DEF Numbers
        <3>6. Base(j)' = Base(j)
            BY <1>6, <1>7
        <3>7. AtLeast(Sofar' \cup Numbers(rest)', Base(j)')
            BY <3>4, <3>5, <3>6
        <3> QED BY <3>1, <3>7 DEF Covered
    <2>2. CASE j # i
        <3>1. /\ last' = last /\ j \in Slots /\ slot'[j] = slot[j] /\ Base(j)' = Base(j)
              /\ Covered(j) /\ j # working'
            BY <1>1, <1>2, <1>3, <1>6, <1>7, <2>2 DEF Flow
        <3>2. Sofar' = Sofar /\ Position' = Position
            BY <1>4, <3>1
        <3> QED BY <1>1, <3>1, <3>2 DEF Covered
    <2> QED BY <2>1, <2>2
<1>13. \A j \in Slots' : Covered(j)'
    BY <1>12 DEF Covered
<1> QED BY <1>8, <1>9, <1>11, <1>13 DEF Flow

\* Where there are keyframes, only a tail is ever missing.
(* An answer that has nothing to resume from skips no event. *)
LEMMA ResumeMissingFlow ==
    ASSUME HasKeyframe, Structure, Structure', Contents, Flow, NEW i \in Slots, ResumeMissing(i)
    PROVE  Flow'
<1> DEFINE t == [slot[i] EXCEPT !.call = "keyframe", !.status = "asked"]
<1>1. slot[i] \in SlotType /\ CallRight(i)
    BY DEF Structure, Types, Contents
<1>2. slot[i].call = "since"
    BY <1>1 DEF ResumeMissing, CallRight
<1>3. /\ slot' = [slot EXCEPT ![i] = t] /\ heads' = heads
      /\ UNCHANGED <<callback, last, calling, deliveryQueue, rest, seen, owner, working>>
    BY <1>2 DEF ResumeMissing, lineVars
<1>4. t.wire = slot[i].wire /\ t.queue = slot[i].queue /\ t.route = slot[i].route
      /\ t.tapped = slot[i].tapped /\ t.replaying = slot[i].replaying
    BY <1>1 DEF SlotType
<1> HIDE DEF t
<1>5. Slots' = Slots /\ slot'[i] = t /\ \A j \in Slots \ {i} : slot'[j] = slot[j]
    BY <1>3 DEF Slots
<1>6. Base(i)' = Base(i) /\ \A j \in Slots \ {i} : Base(j)' = Base(j)
    BY <1>3, <1>4, <1>5, BaseSame
<1> QED BY <1>3, <1>4, <1>5, <1>6, ProducedStays, FlowSame

(* off() skips no event. *)
LEMMA OffFlow == ASSUME Structure, Structure', Contents, Flow, Off PROVE Flow'
<1>1. /\ slot' = <<>> /\ deliveryQueue' = <<>> /\ rest' = <<>> /\ heads' = heads
      /\ UNCHANGED <<last, calling, seen>>
    BY DEF Off, lineVars
<1>2. Slots' = {} /\ Position' = Position /\ Produced' = Produced
    BY <1>1, ProducedSame DEF Slots, Position, Nothing
<1>3. Chained(deliveryQueue, {Position})' /\ Chained(rest, Sofar)'
    <2>1. Len(<<>>) = 0
        OBVIOUS
    <2> QED BY <1>1, <2>1 DEF Chained
<1> QED BY <1>1, <1>2, <1>3 DEF Flow, SeenIsRun

(* The move of one queued event to the delivery queue skips no event. *)
LEMMA DeliverNextFlow ==
    ASSUME Structure, Structure', Contents, Flow, DeliverNext PROVE Flow'
<1>1. /\ working # 0 /\ calling = Nothing /\ deliveryQueue = <<>> /\ heads' = heads
      /\ rest # <<>> \/ slot[working].queue # <<>>
      /\ owner' = working /\ UNCHANGED <<callback, last, calling, working, seen>>
    BY DEF DeliverNext, Working, lineVars
<1>2. working \in Slots /\ slot[working] \in SlotType /\ slot[working].replaying
    BY <1>1 DEF Structure, PlaceInv, Types, SlotRight
<1>3. /\ Position' = Position /\ Position \in Int /\ Sofar = {Position} /\ rest \in Seq(Envelope)
      /\ rest = <<>> => Numbers(rest) = {}
    BY <1>1, SofarTyped DEF Position, Nothing
<1>4. SeenIsRun'
    BY <1>1, <1>3, ProducedStays DEF Flow, SeenIsRun
\* What is live is behind the consumer: the loop was empty.
<1>5. ASSUME NEW j \in Slots, slot[j].tapped, ~slot[j].replaying PROVE Position >= Base(j)
    <2>1. AtLeast(Sofar, Base(j))
        BY <1>5 DEF Flow, Covered
    <2> QED BY <1>3, <2>1 DEF AtLeast
<1>6. CASE rest # <<>>
    <2> DEFINE e == Head(rest)
    <2>1. deliveryQueue' = <<e>> /\ rest' = Tail(rest) /\ slot' = slot
        BY <1>6 DEF DeliverNext
    <2>2. e.seq \in Nat
        <3>1. e \in Envelope
            BY <1>3, <1>6, HeadTailFacts
        <3> QED BY <3>1 DEF Envelope
    <2>3. /\ Chained(Tail(rest), Sofar \cup {e.seq})
          /\ e.keyframe \/ AtLeast(Sofar, e.seq - 1)
          /\ Numbers(rest) = {e.seq} \cup Numbers(Tail(rest))
        <3> DEFINE Z == Sofar \cup {e.seq}
        <3>1. \A x \in Sofar : AtLeast(Z, x)
            BY <1>3 DEF AtLeast
        <3>2. AtLeast(Z, e.seq) /\ Z \in SUBSET Int /\ Sofar \in SUBSET Int
            BY <1>3, <2>2 DEF AtLeast
        <3>3. Chained(rest, Sofar)
            BY DEF Flow
        <3> HIDE DEF Z
        <3> USE <1>3, <1>6
        <3>4. Chained(Tail(rest), Z) /\ (e.keyframe \/ AtLeast(Sofar, e.seq - 1))
              /\ Numbers(rest) = {e.seq} \cup Numbers(Tail(rest))
            BY <3>1, <3>2, <3>3, ChainTail
        <3> QED BY <3>4 DEF Z
    <2> HIDE DEF e
    <2>4. Numbers(deliveryQueue') = {e.seq} /\ Sofar' = Sofar \cup {e.seq}
        <3>1. Len(<<e>>) = 1 /\ <<e>>[1] = e
            OBVIOUS
        <3>2. Numbers(deliveryQueue') = {e.seq}
            BY <2>1, <3>1 DEF Numbers
        <3> QED BY <1>3, <3>2 DEF Sofar, Numbers
    <2>5. Chained(deliveryQueue, {Position})'
        <3>1. Len(deliveryQueue') = 1 /\ deliveryQueue'[1] = e
            BY <2>1
        <3>2. e.keyframe \/ AtLeast({Position}, e.seq - 1)
            BY <1>3, <2>3
        <3> QED BY <1>3, <3>1, <3>2 DEF Chained, AtLeast
    <2>6. Chained(rest, Sofar)'
        <3>1. Chained(Tail(rest), Sofar')
            BY <2>3, <2>4
        <3> QED BY <2>1, <3>1 DEF Chained, AtLeast
    <2>7. Numbers(rest)' = Numbers(Tail(rest))
        BY <2>1 DEF Numbers
    <2>8. Slots' = Slots
        BY <2>1 DEF Slots
    <2>9. ASSUME NEW j \in Slots', slot[j].tapped PROVE Covered(j)'
        <3>1. Base(j)' = Base(j) /\ Covered(j) /\ slot'[j] = slot[j] /\ j \in Slots
            BY <1>1, <2>1, <2>8, BaseSame DEF Flow
        <3>2. ~slot[j].replaying => AtLeast(Sofar', Base(j)) /\ Position' >= Base(j)
            BY <1>3, <1>5, <2>4, <2>9, <3>1 DEF AtLeast
        <3>3. j = working => AtLeast(Sofar' \cup Numbers(rest)', Base(j))
            <4>1. Sofar' \cup Numbers(rest)' = Sofar \cup Numbers(rest)
                BY <2>3, <2>4, <2>7
            <4> QED BY <2>9, <3>1, <4>1 DEF Covered
        <3> QED BY <1>1, <3>1, <3>2, <3>3 DEF Covered
    <2>10. \A j \in Slots' : Covered(j)'
        BY <2>1, <2>9 DEF Covered
    <2> QED BY <1>4, <2>5, <2>6, <2>10 DEF Flow
<1>7. CASE rest = <<>>
    <2> DEFINE t == [slot[working] EXCEPT !.queue = Tail(@)]
               i == working
               e == Head(slot[working].queue)
    <2>1. /\ deliveryQueue' = <<e>> /\ rest' = <<>>
          /\ slot' = [slot EXCEPT ![i] = t] /\ slot[i].queue # <<>>
        BY <1>1, <1>7 DEF DeliverNext
    <2>2. /\ slot[i].tapped /\ e = Ev(Base(i) + 1) /\ Base(i) \in Nat
          /\ Len(Tail(slot[i].queue)) = Len(slot[i].queue) - 1
          /\ Len(slot[i].wire) \in Nat /\ Len(slot[i].queue) \in Nat /\ HeadOf(i) \in Nat
        BY <1>2, <2>1, QueuedFacts
    <2>3. t.tapped = slot[i].tapped /\ t.wire = slot[i].wire /\ t.route = slot[i].route
          /\ t.queue = Tail(slot[i].queue) /\ t.replaying = slot[i].replaying
        BY <1>2 DEF SlotType
    <2> HIDE DEF t, e
    <2>4. Slots' = Slots /\ slot'[i] = t /\ \A j \in Slots \ {i} : slot'[j] = slot[j]
        BY <1>2, <2>1 DEF Slots
    <2>5. e.seq = Base(i) + 1
        BY <2>2 DEF Ev
    <2>6. Position >= Base(i)
        <3>1. AtLeast(Sofar \cup Numbers(rest), Base(i))
            BY <1>2, <2>2 DEF Flow, Covered
        <3> QED BY <1>3, <1>7, <3>1 DEF AtLeast
    <2>7. Sofar' = {Position, e.seq}
        <3>1. Len(<<e>>) = 1 /\ <<e>>[1] = e
            OBVIOUS
        <3>2. Numbers(deliveryQueue') = {e.seq}
            BY <2>1, <3>1 DEF Numbers
        <3> QED BY <1>3, <3>2 DEF Sofar, Numbers
    <2>8. Chained(deliveryQueue, {Position})'
        <3>1. Len(deliveryQueue') = 1 /\ deliveryQueue'[1] = e
            BY <2>1
        <3>2. Position >= e.seq - 1
            BY <1>3, <2>2, <2>5, <2>6
        <3> QED BY <1>3, <3>1, <3>2 DEF Chained, AtLeast
    <2>9. Chained(rest, Sofar)'
        <3>1. Len(<<>>) = 0
            OBVIOUS
        <3> QED BY <2>1, <3>1 DEF Chained
    <2>10. ASSUME NEW j \in Slots', slot'[j].tapped PROVE Covered(j)'
        <3>1. CASE j = i
            <4>1. slot'[j].replaying
                BY <1>2, <2>3, <2>4, <3>1
            <4>2. Base(j)' = e.seq
                <5>1. HeadOf(j)' = HeadOf(i) /\ slot'[j].wire = slot[i].wire
                      /\ slot'[j].queue = Tail(slot[i].queue)
                    BY <1>1, <2>3, <2>4, <3>1 DEF HeadOf
                <5>2. Base(j)' = HeadOf(i) - Len(slot[i].wire) - (Len(slot[i].queue) - 1)
                    BY <2>2, <5>1 DEF Base
                <5>3. Base(i) = HeadOf(i) - Len(slot[i].wire) - Len(slot[i].queue)
                    BY DEF Base
                <5>4. \A n, a, b \in Nat : n - a - (b - 1) = (n - a - b) + 1
                    OBVIOUS
                <5>5. HeadOf(i) - Len(slot[i].wire) - (Len(slot[i].queue) - 1)
                        = (HeadOf(i) - Len(slot[i].wire) - Len(slot[i].queue)) + 1
                    BY <2>2, <5>4
                <5>6. Base(j)' = Base(i) + 1
                    BY <5>2, <5>3, <5>5
                <5> QED BY <2>5, <5>6
            <4>3. AtLeast(Sofar' \cup Numbers(rest)', Base(j)')
                <5>1. e.seq \in Sofar' \cup Numbers(rest)' /\ e.seq >= e.seq
                    BY <2>2, <2>5, <2>7
                <5> QED BY <4>2, <5>1 DEF AtLeast
            <4> QED BY <4>1, <4>3 DEF Covered
        <3>2. CASE j # i
            <4>1. j \in Slots /\ slot'[j] = slot[j] /\ j # working' /\ slot[j].tapped
                BY <1>1, <2>4, <2>10, <3>2
            <4>2. Base(j)' = Base(j)
                BY <1>1, <4>1, BaseSame
            <4>3. ~slot[j].replaying => Position >= Base(j)
                BY <1>5, <4>1
            <4>4. ~slot[j].replaying => AtLeast(Sofar', Base(j)) /\ Position' >= Base(j)
                BY <1>3, <2>7, <4>3 DEF AtLeast
            <4> QED BY <4>1, <4>2, <4>4 DEF Covered
        <3> QED BY <3>1, <3>2
    <2>11. \A j \in Slots' : Covered(j)'
        BY <2>10 DEF Covered
    <2> QED BY <1>4, <2>8, <2>9, <2>11 DEF Flow
<1> QED BY <1>6, <1>7

(* A slot going live when its queue is empty skips no event. *)
LEMMA GoLiveFlow == ASSUME Structure, Structure', Contents, Flow, GoLive PROVE Flow'
<1>1. /\ working # 0 /\ calling = Nothing /\ deliveryQueue = <<>> /\ rest = <<>> /\ heads' = heads
      /\ working' = 0
      /\ UNCHANGED <<callback, last, deliveryQueue, calling, owner, rest, seen>>
    BY DEF GoLive, Working, lineVars
<1>2. working \in Slots /\ slot[working] \in SlotType
    BY <1>1 DEF Structure, PlaceInv, Types
<1>3. /\ Position' = Position /\ Sofar' = Sofar /\ Sofar = {Position} /\ Numbers(rest) = {}
      /\ Position \in Int
    BY <1>1, SofarTyped DEF Position, Nothing, Sofar, Numbers
<1> DEFINE t == [slot[working] EXCEPT !.replaying = FALSE]
           i == working
<1>4. /\ Slots' \subseteq Slots /\ \A j \in Slots' \ {i} : slot'[j] = slot[j]
      /\ i \in Slots' => slot'[i] = t
    <2>1. CASE slot[i].open
        BY <1>2, <2>1 DEF GoLive, Slots
    <2>2. CASE ~slot[i].open
        BY <2>2 DEF GoLive, Slots, Restrict
    <2> QED BY <2>1, <2>2
<1>5. t.tapped = slot[i].tapped /\ t.wire = slot[i].wire /\ t.route = slot[i].route
      /\ t.queue = slot[i].queue
    BY <1>2 DEF SlotType
<1> HIDE DEF t
<1>6. SeenIsRun'
    BY <1>1, <1>3, ProducedStays DEF Flow, SeenIsRun
<1>7. Chained(deliveryQueue, {Position})' /\ Chained(rest, Sofar)'
    <2>1. Len(<<>>) = 0
        OBVIOUS
    <2> QED BY <1>1, <2>1 DEF Chained
<1>8. ASSUME NEW j \in Slots', slot'[j].tapped PROVE Covered(j)'
    <2>1. j \in Slots /\ slot[j].tapped /\ Covered(j)
        BY <1>4, <1>5, <1>8 DEF Flow
    <2>2. Base(j)' = Base(j)
        <3>1. slot'[j].wire = slot[j].wire /\ slot'[j].route = slot[j].route
              /\ slot'[j].queue = slot[j].queue
            BY <1>4, <1>5
        <3> QED BY <1>1, <2>1, <3>1, BaseSame
    <2>3. j = i \/ slot'[j] = slot[j]
        BY <1>4
    <2>4. ~slot'[j].replaying => AtLeast(Sofar, Base(j))
        <3>1. CASE j = i
            <4>1. Sofar \cup Numbers(rest) = Sofar
                BY <1>3
            <4> QED BY <2>1, <3>1, <4>1 DEF Covered
        <3>2. CASE slot'[j] = slot[j]
            BY <2>1, <3>2 DEF Covered
        <3> QED BY <2>3, <3>1, <3>2
    <2>5. ~slot'[j].replaying => Position >= Base(j)
        BY <1>3, <2>4 DEF AtLeast
    <2>6. j # working'
        BY <1>1, <2>1 DEF Structure, PlaceInv, Types
    <2> QED BY <1>3, <2>2, <2>4, <2>5, <2>6 DEF Covered
<1>9. \A j \in Slots' : Covered(j)'
    BY <1>8 DEF Covered
<1> QED BY <1>6, <1>7, <1>9 DEF Flow

\* A step of the running loop: it leaves the slots as they are and takes nothing back.
(* A step of the delivery loop skips no event. *)
LEMMA LoopStepFlow ==
    ASSUME Structure, Structure', Contents, Flow,
           UNCHANGED <<heads, slot, callback, rest, owner, working>>,
           SeenIsRun', Chained(deliveryQueue, {Position})',
           \A x \in Sofar : AtLeast(Sofar', x), Position <= Position'
    PROVE  Flow'
<1>1. /\ Sofar \in SUBSET Int /\ Numbers(rest) \in SUBSET Int /\ rest \in Seq(Envelope)
      /\ Position \in Int
    BY SofarTyped
<1>2. Sofar' \in SUBSET Int /\ Position' \in Int
    <2>1. deliveryQueue' \in Seq(Envelope) /\ last' \in Int /\ calling' \in Envelope \cup {Nothing}
        BY DEF Structure, Types, Nothing
    <2>2. Numbers(deliveryQueue') \subseteq Int
        BY <2>1, NumbersTyped
    <2>3. Position' \in Int
        BY <2>1 DEF Position, Envelope, Nothing
    <2> QED BY <2>2, <2>3 DEF Sofar, Numbers
<1>3. Chained(rest, Sofar)'
    <2> DEFINE Z == Sofar'
    <2>1. \A x \in Sofar : AtLeast(Z, x)
        OBVIOUS
    <2>2. Z \in SUBSET Int /\ Chained(rest, Sofar)
        BY <1>2 DEF Flow
    <2> HIDE DEF Z
    <2>3. Chained(rest, Z)
        BY <1>1, <2>1, <2>2, ChainGrows
    <2>4. Chained(rest, Sofar')
        BY <2>3 DEF Z
    <2> QED BY <2>4 DEF Chained, AtLeast
<1>4. ASSUME NEW i \in Slots', slot'[i].tapped PROVE Covered(i)'
    <2>1. i \in Slots /\ slot'[i] = slot[i] /\ Covered(i) /\ slot[i].tapped
        BY <1>4 DEF Flow, Slots
    <2>2. Base(i)' = Base(i) /\ Base(i) \in Int
        BY <2>1, BaseSame, BaseTyped
    <2>3. ~slot[i].replaying => AtLeast(Sofar', Base(i))
        <3> DEFINE Z == Sofar'
        <3>1. \A x \in Sofar : AtLeast(Z, x)
            OBVIOUS
        <3>2. Z \in SUBSET Int
            BY <1>2
        <3> HIDE DEF Z
        <3>3. AtLeast(Sofar, Base(i)) => AtLeast(Z, Base(i))
            BY <1>1, <2>2, <3>1, <3>2, AtLeastGrows
        <3>4. ~slot[i].replaying => AtLeast(Z, Base(i))
            BY <2>1, <3>3 DEF Covered
        <3> QED BY <3>4 DEF Z
    <2>4. i = working => AtLeast(Sofar' \cup Numbers(rest), Base(i))
        <3> DEFINE Z == Sofar' \cup Numbers(rest)
                   S == Sofar \cup Numbers(rest)
        <3>1. \A x \in S : AtLeast(Z, x)
            BY <1>1 DEF AtLeast
        <3>2. Z \in SUBSET Int /\ S \in SUBSET Int
            BY <1>1, <1>2
        <3>3. i = working => AtLeast(S, Base(i))
            BY <2>1 DEF Covered
        <3> HIDE DEF Z, S
        <3>4. AtLeast(S, Base(i)) => AtLeast(Z, Base(i))
            BY <2>2, <3>1, <3>2, AtLeastGrows
        <3>5. i = working => AtLeast(Z, Base(i))
            BY <3>3, <3>4
        <3> QED BY <3>5 DEF Z
    <2>5. "reenters" \notin callback /\ i # owner /\ ~slot[i].replaying => Position' >= Base(i)
        BY <1>1, <1>2, <2>1, <2>2 DEF Covered
    <2>6. Numbers(rest)' = Numbers(rest)
        BY DEF Numbers
    <2> QED BY <2>1, <2>2, <2>3, <2>4, <2>5, <2>6 DEF Covered
<1>5. \A i \in Slots' : Covered(i)'
    BY <1>4 DEF Covered
<1> QED BY <1>3, <1>5 DEF Flow

(* An event that was delivered before skips no event. *)
LEMMA SkipDeliveredFlow ==
    ASSUME Structure, Structure', Contents, Flow, SkipDelivered PROVE Flow'
<1> DEFINE e == Head(deliveryQueue)
           d == deliveryQueue
<1>1. /\ calling = Nothing /\ d # <<>> /\ e.seq <= last /\ d' = Tail(d)
      /\ UNCHANGED <<heads, slot, callback, rest, owner, working, last, calling, seen>>
    BY DEF SkipDelivered, Delivering, lineVars
<1>2. d \in Seq(Envelope) /\ last \in Int /\ Position = last /\ Position' = Position
    BY <1>1, SofarTyped DEF Position, Nothing
<1>3. e.seq \in Nat
    BY <1>1, <1>2, HeadTailFacts DEF Envelope
<1>4. SeenIsRun'
    BY <1>1, <1>2, ProducedStays DEF Flow, SeenIsRun
<1> DEFINE Z == {Position}
<1>5. Chained(d, Z) /\ Z \in SUBSET Int /\ AtLeast(Z, e.seq) /\ \A x \in Z : AtLeast(Z, x)
    BY <1>1, <1>2, <1>3 DEF Flow, AtLeast
<1> HIDE DEF Z, d
<1>6. Chained(Tail(d), Z) /\ Numbers(d) = {Head(d).seq} \cup Numbers(Tail(d))
    BY <1>1, <1>2, <1>5, ChainTail DEF d
<1> USE DEF d
<1>7. Chained(deliveryQueue, {Position})'
    <2>1. Chained(d', Z)
        BY <1>1, <1>6
    <2> QED BY <1>2, <2>1 DEF Chained, AtLeast, Z
<1>8. Sofar' = {Position} \cup Numbers(Tail(d))
    BY <1>1, <1>2 DEF Sofar, Numbers
<1>9. \A x \in Sofar : AtLeast(Sofar', x)
    <2>1. \A x \in Numbers(d) : x \in Int
        BY <1>2, NumbersTyped
    <2>2. \A x \in Sofar : x = e.seq \/ x \in Sofar'
        BY <1>6, <1>8 DEF Sofar
    <2>3. Position \in Sofar' /\ Position >= e.seq /\ \A x \in Sofar : x >= x
        BY <1>1, <1>2, <1>3, <1>8, <2>1 DEF Sofar
    <2> QED BY <2>2, <2>3 DEF AtLeast
<1>10. Position <= Position'
    BY <1>2
<1> QED BY <1>1, <1>4, <1>7, <1>9, <1>10, LoopStepFlow

(* The start of a callback skips no event. *)
LEMMA CallbackStartsFlow ==
    ASSUME Structure, Structure', Contents, Flow, CallbackStarts PROVE Flow'
<1> DEFINE e == Head(deliveryQueue)
           d == deliveryQueue
<1>1. /\ calling = Nothing /\ d # <<>> /\ e.seq > last /\ d' = Tail(d)
      /\ calling' = e /\ seen' = IF e.keyframe THEN 1..e.seq ELSE seen \cup {e.seq}
      /\ UNCHANGED <<heads, slot, callback, rest, owner, working, last>>
    BY DEF CallbackStarts, Delivering, lineVars
<1>2. d \in Seq(Envelope) /\ last \in Int /\ Position = last
    BY <1>1, SofarTyped DEF Position
<1>3. e.seq \in Nat /\ Given(e)
    BY <1>1, <1>2, DeliveringFacts DEF Envelope
<1>4. Position' = e.seq
    <2>1. e # Nothing
        BY <1>3 DEF Nothing
    <2> QED BY <1>1, <2>1 DEF Position, Nothing
<1> DEFINE S == {Position}
           Z == {e.seq}
<1>5. /\ Chained(d, S) /\ S \in SUBSET Int /\ Z \in SUBSET Int
      /\ AtLeast(Z, e.seq) /\ \A x \in S : AtLeast(Z, x)
    BY <1>1, <1>2, <1>3 DEF Flow, AtLeast
<1> HIDE DEF S, Z, d
<1>6. /\ Chained(Tail(d), Z) /\ Numbers(d) = {Head(d).seq} \cup Numbers(Tail(d))
      /\ Head(d).keyframe \/ AtLeast(S, Head(d).seq - 1)
    BY <1>1, <1>2, <1>5, ChainTail DEF d
<1> USE DEF d
<1>7. Chained(deliveryQueue, {Position})'
    <2>1. Chained(d', Z) /\ {Position'} = Z
        BY <1>1, <1>4, <1>6 DEF Z
    <2> QED BY <2>1 DEF Chained, AtLeast
<1>8. Sofar' = {e.seq} \cup Numbers(Tail(d))
    BY <1>1, <1>4 DEF Sofar, Numbers
<1>9. \A x \in Sofar : AtLeast(Sofar', x)
    <2>1. \A x \in Numbers(d) : x \in Int
        BY <1>2, NumbersTyped
    <2>2. \A x \in Sofar : x = Position \/ x \in Sofar'
        BY <1>6, <1>8 DEF Sofar
    <2>3. e.seq \in Sofar' /\ e.seq >= Position /\ \A x \in Sofar : x >= x
        BY <1>1, <1>2, <1>3, <1>8, <2>1 DEF Sofar
    <2> QED BY <2>2, <2>3 DEF AtLeast
<1>10. Position <= Position'
    BY <1>1, <1>2, <1>3, <1>4
<1>11. SeenIsRun'
    <2>1. PICK k \in 0..Produced : seen = 1..k /\ last <= k
        BY DEF Flow, SeenIsRun
    <2>2. Produced' = Produced /\ Produced \in Nat /\ e.seq <= Produced
        BY <1>1, <1>3, ProducedStays DEF Given
    <2> HIDE DEF e
    <2>3. CASE e.keyframe
        <3>1. e.seq \in 0..Produced' /\ seen' = 1..e.seq /\ last' <= e.seq /\ Position' <= e.seq
            BY <1>1, <1>2, <1>3, <1>4, <2>2, <2>3
        <3> QED BY <3>1 DEF SeenIsRun
    <2>4. CASE ~e.keyframe
        <3>1. last >= e.seq - 1
            BY <1>2, <1>6, <2>4 DEF AtLeast, S, e
        <3>2. CASE e.seq <= k
            <4>1. e.seq \in 1..k
                BY <1>3, <2>1, <2>4, <3>2 DEF Given
            <4>2. seen' = 1..k /\ k \in 0..Produced' /\ last' <= k /\ Position' <= k
                BY <1>1, <1>4, <2>1, <2>2, <2>4, <3>2, <4>1
            <4> QED BY <4>2 DEF SeenIsRun
        <3>3. CASE e.seq > k
            <4>1. k = e.seq - 1 /\ e.seq >= 1
                BY <1>2, <1>3, <2>1, <2>4, <3>1, <3>3 DEF Given
            <4>2. 1..e.seq = (1..k) \cup {e.seq}
                BY <1>3, <4>1
            <4>3. seen' = 1..e.seq /\ e.seq \in 0..Produced' /\ last' <= e.seq /\ Position' <= e.seq
                BY <1>1, <1>2, <1>3, <1>4, <2>1, <2>2, <2>4, <4>2
            <4> QED BY <4>3 DEF SeenIsRun
        <3> QED BY <1>3, <3>2, <3>3
    <2> QED BY <2>3, <2>4
<1> QED BY <1>1, <1>7, <1>9, <1>10, <1>11, LoopStepFlow

(* The return of a callback skips no event. *)
LEMMA CallbackReturnsFlow ==
    ASSUME Structure, Structure', Contents, Flow, CallbackReturns PROVE Flow'
<1>1. /\ calling # Nothing /\ last' = calling.seq /\ calling' = Nothing
      /\ UNCHANGED <<heads, slot, callback, rest, owner, working, deliveryQueue, seen>>
    BY DEF CallbackReturns, lineVars
<1>2. Position' = Position /\ last' = Position
    BY <1>1 DEF Position, Nothing
<1>3. Sofar' = Sofar
    BY <1>1, <1>2 DEF Sofar, Numbers
<1>4. Position <= Position' /\ \A x \in Sofar : AtLeast(Sofar', x)
    <2>1. Position \in Int /\ Sofar \in SUBSET Int
        BY SofarTyped
    <2> QED BY <1>2, <1>3, <2>1 DEF AtLeast
<1>5. SeenIsRun'
    BY <1>1, <1>2, ProducedStays DEF Flow, SeenIsRun
<1>6. Chained(deliveryQueue, {Position})'
    BY <1>1, <1>2 DEF Flow, Chained, AtLeast
<1> QED BY <1>1, <1>4, <1>5, <1>6, LoopStepFlow

(* A callback that throws skips no event. *)
LEMMA CallbackFailsFlow ==
    ASSUME Structure, Structure', Contents, Flow, CallbackFails PROVE Flow'
<1>1. /\ calling = Nothing /\ "throws" \in callback /\ heads' = heads
      /\ deliveryQueue' = <<>> /\ rest' = <<>> /\ working' = 0
      /\ slot' = Restrict(slot, Slots \ {owner})
      /\ UNCHANGED <<callback, last, calling, owner, seen>>
    BY DEF CallbackFails, Delivering, lineVars
<1>2. \A j \in Slots' : j \in Slots /\ j # owner /\ slot'[j] = slot[j]
    BY <1>1 DEF Restrict, Slots
\* RouteAssumption: a callback that throws does not have its line emit.
<1>3. "reenters" \notin callback
    <2>1. callback \in {{}, {"throws"}, {"reenters"}}
        BY DEF Structure, Types, RouteAssumption
    <2>2. callback = {"throws"}
        BY <1>1, <2>1
    <2> QED BY <2>2
<1>4. Position' = Position /\ Position \in Int
    BY <1>1, SofarTyped DEF Position, Nothing
<1>5. SeenIsRun'
    BY <1>1, <1>4, ProducedStays DEF Flow, SeenIsRun
<1>6. Sofar' = {Position}
    <2>1. 1..Len(<<>>) = {}
        OBVIOUS
    <2> QED BY <1>1, <1>4, <2>1 DEF Sofar, Numbers
<1>7. Chained(deliveryQueue, {Position})' /\ Chained(rest, Sofar)'
    <2>1. 1..Len(<<>>) = {}
        OBVIOUS
    <2> QED BY <1>1, <2>1 DEF Chained
<1>8. ASSUME NEW j \in Slots', slot'[j].tapped PROVE Covered(j)'
    <2>1. j \in Slots /\ j # owner /\ slot'[j] = slot[j] /\ Covered(j) /\ slot[j].tapped
        BY <1>2, <1>8 DEF Flow
    <2>2. Base(j)' = Base(j)
        BY <1>1, <2>1, BaseSame
    <2>3. ~slot[j].replaying => Position >= Base(j)
        BY <1>3, <2>1 DEF Covered
    <2>4. j # working'
        BY <1>1, <2>1 DEF Structure, PlaceInv, Types
    <2> QED BY <1>4, <1>6, <2>1, <2>2, <2>3, <2>4 DEF Covered, AtLeast
<1>9. \A j \in Slots' : Covered(j)'
    BY <1>8 DEF Covered
<1> QED BY <1>5, <1>7, <1>9 DEF Flow

(* The start of a switch skips no event. *)
LEMMA DoSwitchFlow ==
    ASSUME Structure, Structure', Contents, Flow, DoSwitch PROVE Flow'
<1>1. heads' = heads
      /\ UNCHANGED <<callback, last, calling, deliveryQueue, rest, seen, owner, working>>
    BY DEF DoSwitch, lineVars, loopVars
<1>2. \A j \in Slots' : slot'[j].tapped => j \in Slots /\ slot'[j] = slot[j]
    <2>1. CASE closed
        BY <2>1 DEF DoSwitch, Slots
    <2>2. CASE ~closed
        <3> DEFINE n == attached + 1
                   t == Attached(Head(chain), last, active = 0)
        <3>1. slot' = [i \in Slots \cup {n} |-> IF i \in Slots THEN slot[i] ELSE t]
            BY <2>2 DEF DoSwitch
        <3>2. ~t.tapped
            BY DEF Attached
        <3> HIDE DEF t, n
        <3> QED BY <3>1, <3>2 DEF Slots
    <2> QED BY <2>1, <2>2
<1> QED BY <1>1, <1>2, FewerFlow

(* The end of a switch skips no event. *)
LEMMA SwitchEndsFlow ==
    ASSUME Structure, Structure', Contents, Flow, SwitchEnds PROVE Flow'
<1>1. /\ heads' = heads /\ pending # 0
      /\ UNCHANGED <<callback, last, calling, deliveryQueue, rest, seen, owner, working>>
    BY DEF SwitchEnds, lineVars, loopVars
<1>2. \A j \in Slots' : j \in Slots /\ slot'[j] = slot[j]
    <2>1. CASE outcome = "ready" /\ IsOpen(pending)
        <3>1. slot' = Dispose(active)
            BY <2>1 DEF SwitchEnds
        <3>2. active \in Slots => slot[active].status # "answered" /\ active # working
            <4>1. active \in Slots => SlotRight(active) /\ active # pending
                BY <1>1 DEF Structure, PlaceInv, Types
            <4> QED BY <4>1 DEF SlotRight
        <3> QED BY <3>1, <3>2, DisposeFacts DEF Slots
    <2>2. CASE ~(outcome = "ready" /\ IsOpen(pending))
        BY <2>2 DEF SwitchEnds, Slots
    <2> QED BY <2>1, <2>2
<1> QED BY <1>1, <1>2, FewerFlow

(* A step, whichever it is, skips no event. *)
LEMMA NextFlow ==
    ASSUME HasKeyframe, Structure, Structure', Contents, Flow, [Next]_vars PROVE Flow'
<1>1. CASE SkipDelivered
    BY <1>1, SkipDeliveredFlow
<1>2. CASE CallbackStarts
    BY <1>2, CallbackStartsFlow
<1>3. CASE CallbackReturns
    BY <1>3, CallbackReturnsFlow
<1>4. CASE CallbackFails
    BY <1>4, CallbackFailsFlow
<1>5. CASE DeliverNext
    BY <1>5, DeliverNextFlow
<1>6. CASE GoLive
    BY <1>6, GoLiveFlow
<1>7. CASE DoSwitch
    BY <1>7, DoSwitchFlow
<1>8. CASE SwitchEnds
    BY <1>8, SwitchEndsFlow
<1>9. ASSUME NEW i \in Slots, ResumeAnswered(i) \/ ResumeMissing(i) PROVE Flow'
    BY <1>9, ResumeAnsweredFlow, ResumeMissingFlow
<1>10. ASSUME NEW r \in Routes, Forward(r) PROVE Flow'
    BY <1>10, ForwardFlow
<1>11. ASSUME NEW r \in Routes, Switch(r) PROVE Flow'
    BY <1>11, FewerFlow DEF Switch, lineVars, loopVars, Slots
<1>12. ASSUME NEW i \in Slots, AttachLiveLine(i) \/ RemoteAnswers(i) \/ LiveTap(i) PROVE Flow'
    BY <1>12, AttachLiveLineFlow, RemoteAnswersFlow, LiveTapFlow
<1>13. ASSUME NEW i \in Slots, LineFails(i) \/ CallFails(i) PROVE Flow'
    BY <1>13, FailSlotFlow DEF LineFails, CallFails
<1>14. CASE TimeoutFires
    BY <1>14, FailSlotFlow DEF TimeoutFires
<1>15. CASE Off
    BY <1>15, OffFlow
<1>16. CASE UNCHANGED vars
    BY <1>16, FewerFlow DEF vars, lineVars, switchVars, loopVars, Slots
<1> QED BY <1>1, <1>2, <1>3, <1>4, <1>5, <1>6, <1>7, <1>8, <1>9, <1>10, <1>11, <1>12, <1>13,
           <1>14, <1>15, <1>16 DEF Next, EventLoop

-----------------------------------------------------------------------------
(* What is known of the consumer in every reachable state *)

\* Of any route at all, whether or not it has keyframes.
(* Whatever is switched, answered, refused or thrown, each slot is where
   replay-route.ts:86-160 keeps it and wires, queues and answers are runs of
   the producer's events. *)
THEOREM Safety == RouteAssumption => (Spec => [](Structure /\ Contents))
<1> SUFFICES ASSUME RouteAssumption PROVE Spec => [](Structure /\ Contents)
    OBVIOUS
<1>1. Init => Structure /\ Contents
    BY InitStructure, InitContents
<1>2. (Structure /\ Contents) /\ [Next]_vars => (Structure /\ Contents)'
    BY NextStructure, NextContents
<1> QED BY <1>1, <1>2, PTL DEF Spec

(* Where the producer keeps keyframes, the consumer is never behind what the
   loop (replay-route.ts:78-123) still has to give it: no event is skipped
   between a queue, the delivery queue and the callback. *)
THEOREM FlowSafety ==
    RouteAssumption /\ HasKeyframe => (Spec => [](Structure /\ Contents /\ Flow))
<1> SUFFICES ASSUME RouteAssumption, HasKeyframe
             PROVE  Spec => [](Structure /\ Contents /\ Flow)
    OBVIOUS
<1>1. Init => Structure /\ Contents /\ Flow
    BY InitStructure, InitContents, InitFlow
<1>2. (Structure /\ Contents /\ Flow) /\ [Next]_vars => (Structure /\ Contents /\ Flow)'
    BY NextStructure, NextContents, NextFlow
<1> QED BY <1>1, <1>2, PTL DEF Spec

(* The type invariant of the route, for any routes, history, numbering and
   budgets. *)
THEOREM TypeCorrect == RouteAssumption => (Spec => []TypeOK)
<1> SUFFICES ASSUME RouteAssumption PROVE Spec => []TypeOK
    OBVIOUS
<1>1. Spec => [](Structure /\ Contents)
    BY Safety
<1>2. Structure /\ Contents => TypeOK
    BY TypeFromParts
<1> QED BY <1>1, <1>2, PTL

(* What the consumer was given has no hole: behind the first event it saw there
   is each event up to its position, through any number of switches (replay-
   route.ts:200-247). *)
THEOREM NoHoleHolds == RouteAssumption => (Spec => []NoHole)
<1> SUFFICES ASSUME RouteAssumption PROVE Spec => []NoHole
    OBVIOUS
<1>1. CASE HasKeyframe
    <2>1. Spec => [](Structure /\ Contents /\ Flow)
        BY <1>1, FlowSafety
    <2>2. Flow => NoHole
        BY DEF Flow, SeenIsRun, NoHole
    <2> QED BY <2>1, <2>2, PTL
<1>2. CASE ~HasKeyframe
    <2>1. NoHole
        BY <1>2 DEF NoHole
    <2> QED BY <2>1, PTL
<1> QED BY <1>1, <1>2

\* While nothing runs, the wire of a live slot holds all that its route carries beyond
\* the consumer: the slot's base is behind the consumer, and its queue is empty.
(* When nothing is under way, each event the consumer misses is on the wire of
   a live slot. *)
LEMMA CompleteWhenSettled ==
    ASSUME Structure, Contents, Flow, NEW i \in Slots, slot[i].tapped, ~slot[i].replaying, Settled,
           last >= 0, NEW n \in (last + 1)..heads[slot[i].route]
    PROVE  \E k \in DOMAIN slot[i].wire : slot[i].wire[k].seq = n
<1>1. SlotRight(i) /\ Covered(i) /\ WireRight(i) /\ slot[i] \in SlotType
    BY DEF Structure, Types, Contents, Flow
<1>2. slot[i].queue = <<>> /\ AtLeast(Sofar, Base(i))
    BY <1>1 DEF SlotRight, Covered
<1>3. last \in Int /\ Position = last /\ Sofar = {last}
    BY SofarTyped DEF Settled, Position
<1>4. last >= Base(i)
    BY <1>2, <1>3 DEF AtLeast
<1>5. HeadOf(i) \in Nat /\ Len(slot[i].wire) \in Nat /\ slot[i].wire \in Seq(Envelope)
    <2>1. slot[i].wire \in Seq(Envelope) /\ slot[i].route \in Routes
        BY <1>1 DEF SlotType
    <2> QED BY <2>1, LenProperties DEF HeadOf, Structure, Types, Top, RouteAssumption
<1> DEFINE m == Len(slot[i].wire)
           h == HeadOf(i)
<1>6. Base(i) = h - m - Len(<<>>)
    BY <1>2 DEF Base
<1>7. \A k \in 1..m : slot[i].wire[k] = Ev(h - m + k)
    BY <1>1 DEF WireRight, Run
<1>8. DOMAIN slot[i].wire = 1..m /\ n \in (last + 1)..h
    BY <1>5, LenProperties DEF HeadOf
<1>9. m \in Nat /\ h \in Nat
    BY <1>5
<1> HIDE DEF m, h
<1>10. Base(i) = h - m
    BY <1>6, <1>9
<1> DEFINE k == n - (h - m)
<1>11. k \in 1..m /\ h - m + k = n /\ n \in Int
    BY <1>3, <1>4, <1>8, <1>9, <1>10
<1>12. slot[i].wire[k] = Ev(n)
    BY <1>7, <1>11
<1>13. slot[i].wire[k].seq = n
    BY <1>12 DEF Ev
<1> QED BY <1>8, <1>11, <1>13

(* When a route is live and nothing is under way, the consumer has everything
   the route has forwarded, or it is still on the wire (replay-route.ts:78-123,
   159-198). *)
THEOREM LiveIsCompleteHolds == RouteAssumption => (Spec => []LiveIsComplete)
<1> SUFFICES ASSUME RouteAssumption PROVE Spec => []LiveIsComplete
    OBVIOUS
<1>1. CASE HasKeyframe
    <2>1. Spec => [](Structure /\ Contents /\ Flow)
        BY <1>1, FlowSafety
    <2>2. Structure /\ Contents /\ Flow => LiveIsComplete
        BY CompleteWhenSettled DEF LiveIsComplete
    <2> QED BY <2>1, <2>2, PTL
<1>2. CASE ~HasKeyframe
    <2>1. LiveIsComplete
        BY <1>2 DEF LiveIsComplete
    <2> QED BY <2>1, PTL
<1> QED BY <1>1, <1>2

-----------------------------------------------------------------------------
(* The promise *)

\* The state of a consumer that is not ahead of its number ends at the number.
ShownRun(k) == seen = 1..k /\ k \in Nat /\ (Ahead \/ k = (IF Position >= 0 THEN Position ELSE 0))

(* What the abstract replica is shown is a run of events that ends at the
   consumer's position, or nothing. *)
LEMMA SeenEndsAtPosition ==
    ASSUME Structure, Contents, Flow
    PROVE  /\ \E k \in 0..Produced : ShownRun(k)
           /\ Shown \subseteq seen /\ (Shown = {} \/ Shown = seen) /\ Produced \in Nat
<1>1. PICK k \in 0..Produced : seen = 1..k /\ last <= k /\ Position <= k
    BY DEF Flow, SeenIsRun
<1>2. Position \in Nat \cup {-1} /\ Produced \in Nat
    BY SofarTyped, ProducedFacts DEF Structure
<1>3. ASSUME ~Ahead PROVE k = IF Position >= 0 THEN Position ELSE 0
    <2>1. \A s \in 1..k : s <= Position
        BY <1>1, <1>2, <1>3 DEF Ahead
    <2> QED BY <1>1, <1>2, <2>1
<1>4. ShownRun(k)
    BY <1>1, <1>2, <1>3 DEF ShownRun
<1> QED BY <1>2, <1>4 DEF Shown

\* The number of a first keyframe may be taken back only while nothing is shown; in all
\* other steps that change no event the consumer's state stays, or is shown at last.
(* A step that leaves heads and wires alone is a step of the abstract replica,
   or no step of it. *)
LEMMA QuietPromise ==
    ASSUME HasKeyframe, Structure, Contents, Flow, heads' = heads, seen' = seen,
           Position' = Position, active # 0 \/ closed => active' # 0 \/ closed'
    PROVE  View!Next \/ UNCHANGED <<Produced, Shown>>
<1>1. Produced' = Produced /\ Ahead' = Ahead
    BY ProducedSame DEF Ahead
<1>2. PICK k \in 0..Produced : ShownRun(k)
    BY SeenEndsAtPosition
<1>3. Shown' = Shown \/ (Shown = {} /\ Shown' = seen)
    BY <1>1 DEF Shown
<1>4. CASE Shown = {} /\ Shown' = seen
    <2>1. Shown \subseteq 1..k /\ Shown' = 1..k
        BY <1>2, <1>4 DEF ShownRun
    <2> QED BY <1>1, <2>1 DEF View!Next, View!Replace
<1> QED BY <1>1, <1>3, <1>4

(* An event that reaches a route is a step of the abstract replica, or no step
   of it. *)
LEMMA ForwardPromise ==
    ASSUME Structure, Structure', Contents, NEW r \in Routes, Forward(r)
    PROVE  View!Next \/ UNCHANGED <<Produced, Shown>>
<1>1. /\ heads' = [heads EXCEPT ![r] = @ + 1]
      /\ UNCHANGED <<seen, last, calling, active, closed>>
    BY DEF Forward, switchVars, loopVars
<1>2. Shown' = Shown
    BY <1>1 DEF Shown, Ahead, Position, Nothing
<1>3. heads \in [Routes -> 0..Top] /\ Routes # {} /\ Top \in Nat /\ heads' \in [Routes -> 0..Top]
    BY DEF Structure, Types, Top, RouteAssumption
<1>4. Produced = Furthest(heads) /\ Produced' = Furthest(heads')
    BY DEF Produced, Furthest
<1>5. PICK m \in Routes : Produced' = heads'[m] /\ \A q \in Routes : heads'[q] <= Produced'
    BY <1>3, <1>4, FurthestFacts
<1>6. PICK p \in Routes : Produced = heads[p] /\ \A q \in Routes : heads[q] <= Produced
    BY <1>3, <1>4, FurthestFacts
<1>7. \A q \in Routes : heads[q] \in Nat /\ heads'[q] \in Nat
    BY <1>3
<1>8. \A q \in Routes : heads'[q] = IF q = r THEN heads[q] + 1 ELSE heads[q]
    BY <1>1, <1>3
<1>9. Produced' <= Produced + 1
    <2>1. heads'[m] <= heads[m] + 1 /\ heads[m] <= Produced
        BY <1>6, <1>7, <1>8
    <2> QED BY <1>5, <1>6, <1>7, <2>1
<1>10. Produced <= Produced'
    <2>1. heads'[p] >= heads[p] /\ heads'[p] <= Produced'
        BY <1>5, <1>7, <1>8
    <2> QED BY <1>5, <1>6, <1>7, <2>1
<1>11. Produced' = Produced \/ Produced' = Produced + 1
    BY <1>5, <1>6, <1>7, <1>9, <1>10
<1> QED BY <1>2, <1>11 DEF View!Next, View!Produce

(* The start of a callback is a step of the abstract replica, or no step of it. *)
LEMMA CallbackStartsPromise ==
    ASSUME HasKeyframe, Structure, Structure', Contents, Flow, Flow', Contents', CallbackStarts
    PROVE  View!Next \/ UNCHANGED <<Produced, Shown>>
<1> DEFINE e == Head(deliveryQueue)
<1>1. /\ deliveryQueue # <<>> /\ calling = Nothing /\ e.seq > last /\ calling' = e
      /\ seen' = IF e.keyframe THEN 1..e.seq ELSE seen \cup {e.seq}
      /\ UNCHANGED <<heads, last, active, closed>>
    BY DEF CallbackStarts, Delivering, lineVars, switchVars
<1>2. /\ last \in Nat \cup {-1} /\ Position = last /\ deliveryQueue \in Seq(Envelope)
      /\ Produced' = Produced /\ Produced \in Nat
    BY <1>1, SofarTyped, ProducedStays DEF Position
<1>3. e.seq \in Nat /\ Given(e)
    BY <1>1, <1>2, DeliveringFacts DEF Envelope
<1>4. Position' = e.seq
    BY <1>1, <1>3 DEF Position, Nothing
<1>5. e.keyframe \/ last >= e.seq - 1
    <2>1. Chained(deliveryQueue, {Position})
        BY DEF Flow
    <2>2. deliveryQueue[1] = e /\ Len(deliveryQueue) \in Nat /\ Len(deliveryQueue) >= 1
        BY <1>1, <1>2, HeadTailFacts
    <2>3. 1 \in 1..Len(deliveryQueue) /\ 1..(1 - 1) = {}
        BY <2>2
    <2>4. deliveryQueue[1].keyframe \/ AtLeast({Position}, deliveryQueue[1].seq - 1)
        BY <2>1, <2>3 DEF Chained
    <2> QED BY <1>2, <2>2, <2>4 DEF AtLeast
<1> HIDE DEF e
<1>6. CASE active = 0
    <2>1. ~closed
        BY <1>1 DEF Structure, PlaceInv
    <2> QED BY <1>1, <1>2, <1>6, <2>1 DEF Shown
<1>7. CASE active # 0 /\ Ahead
    <2>1. Shown = {} /\ (Shown' = {} \/ Shown' = seen')
        BY <1>7 DEF Shown
    <2>2. PICK k \in 0..Produced : seen' = 1..k
        BY <1>2 DEF Flow, SeenIsRun
    <2> QED BY <1>2, <2>1, <2>2 DEF View!Next, View!Replace
<1>8. CASE active # 0 /\ ~Ahead
    <2>1. PICK k \in 0..Produced : seen = 1..k /\ k = IF last >= 0 THEN last ELSE 0
        BY <1>2, <1>8, SeenEndsAtPosition DEF ShownRun
    <2>2. Shown = 1..k
        BY <1>8, <2>1 DEF Shown
    <2>3. CASE e.keyframe
        <3>1. seen' = 1..e.seq
            BY <1>1, <2>3
        <3>2. ~Ahead'
            BY <1>3, <1>4, <3>1 DEF Ahead
        <3>3. Shown' = 1..e.seq
            BY <1>1, <1>8, <3>1, <3>2 DEF Shown
        <3>4. e.seq \in 0..Produced /\ 1..k \subseteq 1..e.seq
            BY <1>1, <1>2, <1>3, <2>1 DEF Given
        <3> QED BY <1>2, <2>2, <3>3, <3>4 DEF View!Next, View!Replace
    <2>4. CASE ~e.keyframe
        <3>1. e.seq >= 1 /\ e.seq <= Produced
            BY <1>3, <2>4 DEF Given
        <3>2. e.seq = k + 1
            BY <1>1, <1>2, <1>3, <1>5, <2>1, <2>4, <3>1
        <3>3. seen' = (1..k) \cup {e.seq}
            BY <1>1, <2>1, <2>4
        <3>4. ~Ahead'
            BY <1>3, <1>4, <3>2, <3>3 DEF Ahead
        <3>5. Shown' = (1..k) \cup {e.seq}
            BY <1>1, <1>8, <3>3, <3>4 DEF Shown
        <3>6. /\ e.seq \in 1..Produced /\ \A v \in 1..k : v < e.seq
              /\ 1..k # {} /\ e.seq > 1 => e.seq - 1 \in 1..k
              /\ 1..k = {} => e.seq = 1
            <4>1. k \in Nat /\ (1..k = {} => k = 0)
                BY <2>1
            <4> QED BY <1>3, <3>1, <3>2, <4>1
        <3>7. View!Extend
            BY <1>2, <2>2, <3>5, <3>6 DEF View!Extend
        <3> QED BY <3>7 DEF View!Next
    <2> QED BY <2>3, <2>4
<1> QED BY <1>6, <1>7, <1>8

(* An answered keyframe, tail or replay being put before the consumer is a step
   of the abstract replica, or no step of it. *)
LEMMA ResumeAnsweredPromise ==
    ASSUME HasKeyframe, Structure, Contents, Flow, NEW i \in Slots, ResumeAnswered(i)
    PROVE  View!Next \/ UNCHANGED <<Produced, Shown>>
<1>1. /\ heads' = heads /\ seen' = seen /\ active' = active /\ closed' = closed /\ ~closed
      /\ calling' = calling /\ calling = Nothing /\ last' = ResetPoint(slot[i])
      /\ slot[i].call # "none"
    BY DEF ResumeAnswered, lineVars, switchVars, Settled
<1>2. CASE slot[i].reset
    <2>1. SlotRight(i)
        BY DEF Structure
    <2>2. active = 0
        BY <1>1, <1>2, <2>1 DEF SlotRight
    <2> QED BY <1>1, <2>2, ProducedSame DEF Shown
<1>3. CASE ~slot[i].reset
    <2>1. last' = last /\ Position' = Position
        BY <1>1, <1>3 DEF ResetPoint, Position, Nothing
    <2> QED BY <1>1, <2>1, QuietPromise
<1> QED BY <1>2, <1>3

(* The end of a switch is a step of the abstract replica, or no step of it. *)
LEMMA SwitchEndsPromise ==
    ASSUME HasKeyframe, Structure, Contents, Flow, SwitchEnds
    PROVE  View!Next \/ UNCHANGED <<Produced, Shown>>
<1>1. /\ heads' = heads /\ UNCHANGED <<seen, last, calling, closed>> /\ pending # 0
      /\ active' = pending \/ active' = active
    BY DEF SwitchEnds, lineVars, loopVars
<1>2. Position' = Position
    BY <1>1 DEF Position, Nothing
<1> QED BY <1>1, <1>2, QuietPromise

(* A step, whichever it is, is a step of the abstract replica, or no step of it. *)
LEMMA NextPromise ==
    ASSUME HasKeyframe, Structure, Structure', Contents, Contents', Flow, Flow', [Next]_vars
    PROVE  View!Next \/ UNCHANGED <<Produced, Shown>>
<1>1. CASE CallbackStarts
    BY <1>1, CallbackStartsPromise
<1>2. CASE CallbackReturns
    <2>1. heads' = heads /\ seen' = seen /\ UNCHANGED <<active, closed>>
        BY <1>2 DEF CallbackReturns, lineVars, switchVars
    <2>2. Position' = Position
        BY <1>2 DEF CallbackReturns, Position, Nothing
    <2> QED BY <2>1, <2>2, QuietPromise
<1>3. ASSUME UNCHANGED <<heads, seen, last, calling, active, closed>>
      PROVE  View!Next \/ UNCHANGED <<Produced, Shown>>
    <2>1. Position' = Position
        BY <1>3 DEF Position, Nothing
    <2> QED BY <1>3, <2>1, QuietPromise
<1>4. CASE SkipDelivered \/ CallbackFails \/ DeliverNext \/ GoLive \/ DoSwitch
    <2>1. UNCHANGED <<heads, seen, last, calling, active, closed>>
        BY <1>4 DEF SkipDelivered, CallbackFails, DeliverNext, GoLive, DoSwitch, lineVars,
                    switchVars, loopVars
    <2> QED BY <1>3, <2>1
<1>5. CASE SwitchEnds
    BY <1>5, SwitchEndsPromise
<1>6. ASSUME NEW i \in Slots, ResumeAnswered(i) PROVE View!Next \/ UNCHANGED <<Produced, Shown>>
    BY <1>6, ResumeAnsweredPromise
<1>7. ASSUME NEW i \in Slots, \/ ResumeMissing(i) \/ AttachLiveLine(i) \/ RemoteAnswers(i)
                              \/ LiveTap(i) \/ LineFails(i) \/ CallFails(i)
      PROVE  View!Next \/ UNCHANGED <<Produced, Shown>>
    <2>1. UNCHANGED <<heads, seen, last, calling, active, closed>>
        BY <1>7 DEF ResumeMissing, AttachLiveLine, RemoteAnswers, LiveTap, LineFails, CallFails,
                    lineVars, switchVars, loopVars
    <2> QED BY <1>3, <2>1
<1>8. ASSUME NEW r \in Routes, Forward(r) PROVE View!Next \/ UNCHANGED <<Produced, Shown>>
    BY <1>8, ForwardPromise
<1>9. ASSUME NEW r \in Routes, Switch(r) PROVE View!Next \/ UNCHANGED <<Produced, Shown>>
    <2>1. UNCHANGED <<heads, seen, last, calling, active, closed>>
        BY <1>9 DEF Switch, lineVars, loopVars
    <2> QED BY <1>3, <2>1
<1>10. CASE TimeoutFires \/ UNCHANGED vars
    <2>1. UNCHANGED <<heads, seen, last, calling, active, closed>>
        BY <1>10 DEF TimeoutFires, vars, lineVars, switchVars, loopVars
    <2> QED BY <1>3, <2>1
<1>11. CASE Off
    <2>1. heads' = heads /\ seen' = seen /\ closed' = TRUE /\ UNCHANGED <<last, calling>>
        BY <1>11 DEF Off, lineVars
    <2>2. Position' = Position
        BY <2>1 DEF Position, Nothing
    <2> QED BY <2>1, <2>2, QuietPromise
<1> QED BY <1>1, <1>2, <1>4, <1>5, <1>6, <1>7, <1>8, <1>9, <1>10, <1>11 DEF Next, EventLoop

(* The route implements ReplicaView: each step extends the consumer's state by
   published events in their order, replaces it by a keyframe, or leaves it
   alone, except while a reset's keyframe was thrown at (operator Ahead;
   replay-route.ts:91-111). *)
THEOREM PromiseKept == RouteAssumption /\ HasKeyframe => (Spec => KeepsPromise)
<1> SUFFICES ASSUME RouteAssumption, HasKeyframe PROVE Spec => KeepsPromise
    OBVIOUS
<1>1. Spec => [](Structure /\ Contents /\ Flow)
    BY FlowSafety
<1>2. Init => View!Init
    <2> SUFFICES ASSUME Init PROVE View!Init
        OBVIOUS
    <2>1. Shown = 1..0 /\ Produced \in Nat
        <3>1. active = 0 /\ ~closed
            BY DEF Init
        <3>2. Shown = {} /\ 1..0 = {}
            BY <3>1 DEF Shown
        <3>3. Structure
            BY InitStructure
        <3> QED BY <3>2, <3>3, ProducedFacts DEF Structure
    <2>2. 0 \in 0..Produced
        BY <2>1
    <2> QED BY <2>1, <2>2 DEF View!Init
<1>3. /\ Structure /\ Contents /\ Flow /\ (Structure /\ Contents /\ Flow)' /\ [Next]_vars
      => [View!Next]_<<Produced, Shown>>
    BY NextPromise
<1> QED BY <1>1, <1>2, <1>3, PTL DEF Spec, KeepsPromise, View!Spec
=============================================================================
