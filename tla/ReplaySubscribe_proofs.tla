----------------------- MODULE ReplaySubscribe_proofs -----------------------
(***************************************************************************)
(* Proofs about ReplaySubscribe, for every journal size, every bound on the*)
(* events and the disconnects, and every policy: type correctness, then    *)
(* one inductive invariant from which NoHole and LiveIsComplete follow.    *)
(*                                                                         *)
(* The argument.  Base is the number up to which everything was sent before*)
(* what is now queued or on the wire.  While the subscriber catches up, an *)
(* answer of the current generation ends at Base or later, because the     *)
(* live line was tapped before the call reached the server; when the answer*)
(* and then the queue are delivered, the delivery ends at Base or later    *)
(* again, and the hand-over to live finds the wire to continue it.         *)
(***************************************************************************)
EXTENDS ReplaySubscribe, SequenceTheorems, TLAPS

Base == head - Len(wire) - Len(queue)

\* Where the delivery will end: the last envelope handed over, or the position.
DeliveryEnd ==
    IF deliveryQueue = <<>> THEN Position ELSE deliveryQueue[Len(deliveryQueue)].seq

\* Only the first of a run of envelopes may be a keyframe, the others are the
\* events that follow it without a gap.
Consecutive(s) ==
    \A i \in 1..(Len(s) - 1) : s[i + 1].seq = s[i].seq + 1 /\ ~s[i + 1].keyframe

WireInv ==
    /\ subscribed => up /\ ~closed
    /\ ~subscribed => wire = <<>> /\ queue = <<>>
    /\ \A i \in 1..Len(wire) : wire[i] = head - Len(wire) + i
    /\ \A i \in 1..Len(queue) : queue[i] = Event(Base + i)

\* What the server has answered to the call of the current generation.
Answered(c) ==
    /\ Consecutive(c.envs)
    /\ c.envs = <<>> => Base <= c.point /\ ~foreign /\ c.point # -1
    /\ c.envs # <<>> =>
        /\ Base <= c.envs[Len(c.envs)].seq
        /\ c.envs[1].keyframe \/ (c.envs[1].seq = c.point + 1 /\ c.point # -1)
        /\ ~foreign => c.envs[1].seq > c.point
        /\ foreign => Len(c.envs) = 1 /\ c.envs[1].keyframe /\ c.kind # "since"
                      /\ c.envs[1].seq <= head
        /\ \A i \in 1..Len(c.envs) : c.envs[i].seq <= head

CurrentCall(c) ==
    /\ Settled /\ replaying /\ c.point = last /\ (c.initial <=> ~ready)
    /\ \A d \in calls : d.gen = c.gen => d = c
    /\ c.status # "asked" => subscribed
    /\ c.status = "answered" => Answered(c)
    /\ c.status = "missing" /\ c.kind = "keyframe" => ~HasKeyframe
    /\ c.kind # "keyframe" => c.point >= 0
    /\ (~foreign /\ c.point >= 0 /\ (c.kind = "keyframe" \/ (c.kind = "since" /\ c.status = "missing")))
            => c.point < head

CallsInv ==
    /\ \A c \in calls : c.gen <= gen
    /\ ~closed => \A c \in calls : c.gen = gen => CurrentCall(c)

DeliveryInv == ~closed =>
    /\ Consecutive(deliveryQueue)
    /\ \A i \in 1..Len(deliveryQueue) : deliveryQueue[i].seq <= head
    /\ deliveryQueue # <<>> /\ ~deliveryQueue[1].keyframe =>
            deliveryQueue[1].seq <= Position + 1 \/ (Position = -1 /\ ~HasKeyframe)
    /\ ~foreign => Position <= head
    /\ HasKeyframe /\ Position = -1 =>
            \/ replaying /\ stage = "none" /\ deliveryQueue = <<>>
            \/ deliveryQueue # <<>> /\ deliveryQueue[1].keyframe

CoverInv == ~closed =>
    /\ ~replaying => queue = <<>> /\ stage = "none" /\ (up => subscribed)
    /\ stageGen <= gen
    /\ stage # "none" => IF stageGen = gen THEN subscribed ELSE ~up
    /\ subscribed /\ (~replaying \/ stage # "none") =>
            Base <= DeliveryEnd \/ (DeliveryEnd = -1 /\ ~HasKeyframe)
    /\ subscribed /\ ~replaying /\ deliveryQueue # <<>> => Base = DeliveryEnd

ForeignInv == foreign /\ ~closed =>
    /\ ~ready /\ calling = NoCallback /\ replaying
    /\ \/ stage = "none" /\ deliveryQueue = <<>> /\ last = ForeignSince
       \/ /\ stage = "tail" /\ Len(deliveryQueue) = 1
          /\ deliveryQueue[1].keyframe /\ deliveryQueue[1].seq = last + 1

IInv == TypeOK /\ WireInv /\ CallsInv /\ DeliveryInv /\ CoverInv /\ ForeignInv /\ NoHole

-----------------------------------------------------------------------------
(* Type correctness *)

\* Emitting and expiring keep the journal a window of at most History events
\* that ends at the head (commitJournalEvent, pruneJournal).
LEMMA LineTypePreserved ==
    LineTypeOK /\ (Emit \/ Expire \/ UNCHANGED lineVars) => LineTypeOK'
<1> SUFFICES ASSUME LineTypeOK, Emit \/ Expire \/ UNCHANGED lineVars PROVE LineTypeOK'
    OBVIOUS
<1> USE LineAssumption
<1>1. CASE Emit
    BY <1>1 DEF LineTypeOK, Emit, OldestAfterEmit
<1>2. CASE Expire
    BY <1>2 DEF LineTypeOK, Expire
<1>3. CASE UNCHANGED lineVars
    BY <1>3 DEF LineTypeOK, lineVars
<1> QED BY <1>1, <1>2, <1>3

\* Whatever the server answers is a call record again.
LEMMA AnswerTyped ==
    ASSUME LineTypeOK, NEW c \in Call PROVE Answer(c) \in Call
<1> USE LineAssumption
<1>1. head \in Nat /\ c.point \in Nat \cup {-1}
    BY DEF LineTypeOK, Call
<1>2. <<StateAt(head)>> \in Seq(Envelope)
    BY <1>1 DEF StateAt, Envelope
<1>3. ASSUME JournalHas(c.point) PROVE TailAfter(c.point) \in Seq(Envelope)
    <2>1. head - c.point \in Nat
        BY <1>1, <1>3 DEF JournalHas
    <2>2. \A i \in 1..(head - c.point) : Event(c.point + i) \in Envelope
        BY <1>1 DEF Event, Envelope
    <2> QED BY <2>1, <2>2 DEF TailAfter
<1> QED BY <1>1, <1>2, <1>3 DEF Answer, Call, FrameAfter

\* A new catch-up call is a call record.
LEMMA AskTyped ==
    ASSUME NEW g \in Nat, NEW k \in {"frame", "since", "keyframe"},
           NEW p \in Nat \cup {-1}, NEW i \in BOOLEAN
    PROVE  Ask(g, k, p, i) \in Call
    BY DEF Ask, Call

\* Taking the first element off, or adding one at the end, keeps a sequence.
LEMMA QueueTyped ==
    ASSUME NEW S, NEW s \in Seq(S)
    PROVE  /\ s # <<>> => Head(s) \in S /\ Tail(s) \in Seq(S)
           /\ \A e \in S : Append(s, e) \in Seq(S)
           /\ <<>> \in Seq(S)
    OBVIOUS

\* Ending the subscription leaves typed state behind.
LEMMA CloseTyped ==
    ASSUME TypeOK, CloseSubscription
    PROVE  /\ closed' \in BOOLEAN /\ ready' \in BOOLEAN /\ gen' \in Nat
           /\ queue' \in Seq(Envelope) /\ deliveryQueue' \in Seq(Envelope)
           /\ subscribed' \in BOOLEAN /\ wire' \in Seq(Nat)
<1>1. queue' \in Seq(Envelope) /\ deliveryQueue' \in Seq(Envelope) /\ wire' \in Seq(Nat)
    BY QueueTyped DEF CloseSubscription
<1>2. gen' \in Nat
    BY DEF TypeOK, CloseSubscription
<1>3. closed' \in BOOLEAN /\ ready' \in BOOLEAN /\ subscribed' \in BOOLEAN
    BY Zenon DEF CloseSubscription
<1> QED BY <1>1, <1>2, <1>3

\* Starting a catch-up does too.
LEMMA StartTyped ==
    ASSUME TypeOK, NEW i \in BOOLEAN, StartCatchUp(i)
    PROVE  /\ replaying' \in BOOLEAN /\ gen' \in Nat
           /\ \A c \in calls' : c \in Call
<1>1. FirstKind(last) \in {"frame", "since", "keyframe"}
    BY DEF FirstKind
<1>2. Ask(gen + 1, FirstKind(last), last, i) \in Call
    BY <1>1, AskTyped DEF TypeOK
<1> QED BY <1>2 DEF TypeOK, StartCatchUp

\* What the callback folds in is typed.
LEMMA FoldTyped ==
    ASSUME TypeOK, NEW e \in Envelope, Fold(e)
    PROVE  seen' \subseteq Nat /\ foreign' \in BOOLEAN /\ byKeyframe' \in BOOLEAN
<1>1. e.keyframe \in BOOLEAN /\ e.seq \in Nat
    BY DEF Envelope
<1>2. foreign' \in BOOLEAN /\ byKeyframe' \in BOOLEAN
    BY <1>1, Zenon DEF Fold, TypeOK
<1>3. 1..e.seq \subseteq Nat /\ seen \cup {e.seq} \subseteq Nat
    <2>1. 1..e.seq \subseteq Nat
        BY <1>1
    <2>2. seen \cup {e.seq} \subseteq Nat
        BY <1>1, Zenon DEF TypeOK
    <2> QED BY <2>1, <2>2
<1>4. seen' \subseteq Nat
    BY <1>3, Zenon DEF Fold
<1> QED BY <1>2, <1>4

\* The reset point of a catch-up is a resume point.
LEMMA ResetTyped ==
    ASSUME TypeOK, NEW c \in calls
    PROVE  ResetPoint(c) \in Nat \cup {-1}
<1>1. c.envs \in Seq(Envelope)
    BY DEF TypeOK, Call
<1>2. c.envs # <<>> => c.envs[1].seq \in Nat
    <2> SUFFICES ASSUME c.envs # <<>> PROVE c.envs[1].seq \in Nat
        OBVIOUS
    <2>1. c.envs[1] \in Envelope
        BY <1>1, ElementOfSeq, EmptySeq
    <2> QED BY <2>1 DEF Envelope
<1> QED BY <1>2 DEF ResetPoint, TypeOK

LEMMA InitTyped == Init => TypeOK
<1> USE LineAssumption, SubscribeAssumption
<1> SUFFICES ASSUME Init PROVE TypeOK
    OBVIOUS
<1>1. LineTypeOK
    BY DEF Init, LineInit, LineTypeOK
<1>2. last \in Nat \cup {-1} /\ FirstKind(last) \in {"frame", "since", "keyframe"}
    BY DEF Init, FirstKind
<1>3. Ask(1, FirstKind(last), last, TRUE) \in Call
    BY <1>2, AskTyped
<1>4. wire \in Seq(Nat) /\ queue \in Seq(Envelope) /\ deliveryQueue \in Seq(Envelope)
    BY QueueTyped DEF Init
<1>5. seen \subseteq Nat
    <2>1. 1..FirstSeq \subseteq Nat
        OBVIOUS
    <2> QED BY <2>1, Zenon DEF Init
<1>7. foreign \in BOOLEAN /\ byKeyframe \in BOOLEAN /\ up \in BOOLEAN
      /\ subscribed \in BOOLEAN /\ replaying \in BOOLEAN
      /\ ready \in BOOLEAN /\ closed \in BOOLEAN /\ failed \in BOOLEAN
    BY Zenon DEF Init
<1>8. drops \in 0..MaxDrops /\ gen \in Nat /\ stageGen \in Nat
      /\ calling \in Nat \cup {NoCallback} /\ stage \in {"none", "tail", "drain"}
    BY DEF Init
<1>6. \A c \in calls : c \in Call
    BY <1>3 DEF Init
<1> QED BY <1>1, <1>2, <1>4, <1>5, <1>6, <1>7, <1>8 DEF TypeOK

LEMMA NextTyped == TypeOK /\ [Next]_vars => TypeOK'
<1> SUFFICES ASSUME TypeOK, [Next]_vars PROVE TypeOK'
    OBVIOUS
<1>1. CASE EmitLive
    <2>1. LineTypeOK' /\ head + 1 \in Nat
        BY <1>1, LineTypePreserved, LineAssumption DEF EmitLive, TypeOK, LineTypeOK
    <2> QED BY <1>1, <2>1, QueueTyped DEF EmitLive, TypeOK, subVars, appVars
<1>2. CASE ExpireJournal
    BY <1>2, LineTypePreserved DEF ExpireJournal, TypeOK, netVars, subVars, appVars
<1>3. CASE ServerSubscribes
    BY <1>3, LineTypePreserved DEF ServerSubscribes, TypeOK, subVars, appVars
<1>4. CASE ServerAnswers
    BY <1>4, LineTypePreserved, AnswerTyped DEF ServerAnswers, TypeOK, subVars, appVars
<1>5. CASE LineEnds
    BY <1>5, LineTypePreserved, CloseTyped
       DEF LineEnds, FailRecovery, TypeOK, appVars
<1>6. CASE Disconnect
    <2>1. UNCHANGED lineVars /\ UNCHANGED appVars /\ drops' \in 0..MaxDrops
        BY <1>6, SubscribeAssumption DEF Disconnect, TypeOK
    <2>2. up' \in BOOLEAN /\ subscribed' \in BOOLEAN /\ wire' \in Seq(Nat)
          /\ \A c \in calls' : c \in Call
        BY <1>6, QueueTyped DEF Disconnect, TypeOK
    <2>3. CASE closed
        BY <1>6, <2>1, <2>2, <2>3, LineTypePreserved DEF Disconnect, TypeOK, subVars, appVars
    <2>4. CASE ~closed
        BY <1>6, <2>1, <2>2, <2>4, LineTypePreserved, QueueTyped
           DEF Disconnect, TypeOK, appVars
    <2> QED BY <2>3, <2>4
<1>7. CASE Connect
    BY <1>7, LineTypePreserved, StartTyped DEF Connect, TypeOK, subVars, appVars
<1>8. CASE LiveTap
    <2>1. Event(Head(wire)) \in Envelope /\ Tail(wire) \in Seq(Nat)
        BY <1>8 DEF LiveTap, TypeOK, Event, Envelope
    <2> QED BY ZenonT(30), <1>8, <2>1, LineTypePreserved, QueueTyped DEF LiveTap, TypeOK, appVars
<1>9. CASE SkipDelivered
    BY <1>9, LineTypePreserved, QueueTyped
       DEF SkipDelivered, Delivering, TypeOK, netVars, appVars
<1>10. CASE CallbackStarts
    <2>1. Head(deliveryQueue) \in Envelope /\ Tail(deliveryQueue) \in Seq(Envelope)
        BY <1>10 DEF CallbackStarts, Delivering, TypeOK
    <2>2. Fold(Head(deliveryQueue)) /\ calling' = Head(deliveryQueue).seq
        BY <1>10 DEF CallbackStarts
    <2>3. calling' \in Nat
        BY <2>1, <2>2 DEF Envelope
    <2> QED BY <1>10, <2>1, <2>2, <2>3, LineTypePreserved, FoldTyped
            DEF CallbackStarts, TypeOK, netVars
<1>11. CASE CallbackReturns
    BY <1>11, LineTypePreserved DEF CallbackReturns, TypeOK, netVars, appVars, NoCallback
<1>12. CASE DeliveryFails
    BY <1>12, LineTypePreserved, CloseTyped DEF DeliveryFails, FailRecovery, TypeOK, appVars
<1>13. CASE ResumeAnswered
    <2>1. PICK c \in calls : ResumeAnswered!(c)
        BY <1>13 DEF ResumeAnswered
    <2>2. c.envs \in Seq(Envelope) /\ c.gen \in Nat
        BY DEF TypeOK, Call
    <2> QED BY <2>1, <2>2, LineTypePreserved, ResetTyped DEF TypeOK, appVars
<1>14. CASE ResumeMissing
    <2>1. PICK c \in calls : ResumeMissing!(c)
        BY <1>14 DEF ResumeMissing
    <2>2. Ask(c.gen, "keyframe", c.point, c.initial) \in Call /\ c.gen \in Nat
        BY SMTT(30), AskTyped DEF TypeOK, Call
    <2> QED BY <2>1, <2>2, LineTypePreserved DEF TypeOK, appVars
<1>15. CASE ResumeFails
    BY <1>15, LineTypePreserved, CloseTyped DEF ResumeFails, FailRecovery, TypeOK, appVars
<1>16. CASE ResumeStale
    BY <1>16, LineTypePreserved DEF ResumeStale, TypeOK, subVars, appVars
<1>17. CASE TailDelivered
    BY <1>17, LineTypePreserved DEF TailDelivered, TypeOK, netVars, appVars
<1>18. CASE DrainQueue
    BY <1>18, LineTypePreserved DEF DrainQueue, TypeOK, netVars, appVars
<1>19. CASE GoLive
    BY <1>19, LineTypePreserved DEF GoLive, TypeOK, netVars, appVars
<1>20. CASE Off
    BY <1>20, LineTypePreserved, CloseTyped DEF Off, TypeOK, appVars
<1>21. CASE UNCHANGED vars
    BY <1>21, LineTypePreserved DEF vars, TypeOK, netVars, subVars, appVars
<1> QED
    BY <1>1, <1>2, <1>3, <1>4, <1>5, <1>6, <1>7, <1>8, <1>9, <1>10, <1>11, <1>12,
       <1>13, <1>14, <1>15, <1>16, <1>17, <1>18, <1>19, <1>20, <1>21 DEF Next

\* Every reachable state is typed: in particular the journal is a window that
\* ends at the head and is never longer than its cap.
THEOREM TypeCorrect == Spec => []TypeOK
<1> QED BY InitTyped, NextTyped, PTL DEF Spec

-----------------------------------------------------------------------------
(* The inductive invariant *)

LEMMA TailFacts ==
    ASSUME NEW S, NEW s \in Seq(S), s # <<>>
    PROVE  /\ Len(s) \in Nat /\ Len(s) >= 1 /\ Head(s) = s[1] /\ s[1] \in S
           /\ s[Len(s)] \in S
           /\ Tail(s) \in Seq(S) /\ Len(Tail(s)) = Len(s) - 1
           /\ \A i \in 1..(Len(s) - 1) : Tail(s)[i] = s[i + 1]
           /\ Tail(s) = <<>> <=> Len(s) = 1
<1>1. Len(s) \in Nat /\ Len(s) >= 1
    BY EmptySeq, LenProperties
<1>2. s[1] \in S /\ s[Len(s)] \in S
    BY <1>1, ElementOfSeq
<1>3. /\ Head(s) = s[1] /\ Tail(s) \in Seq(S) /\ Len(Tail(s)) = Len(s) - 1
      /\ \A i \in 1..(Len(s) - 1) : Tail(s)[i] = s[i + 1]
    BY <1>1, HeadTailProperties
<1>4. Tail(s) = <<>> <=> Len(s) = 1
    <2>1. Tail(s) = <<>> <=> Len(Tail(s)) = 0
        BY <1>3, EmptySeq
    <2> QED BY <1>1, <1>3, <2>1
<1> QED BY <1>1, <1>2, <1>3, <1>4

LEMMA AppendFacts ==
    ASSUME NEW S, NEW s \in Seq(S), NEW e \in S
    PROVE  /\ Append(s, e) \in Seq(S) /\ Len(Append(s, e)) = Len(s) + 1
           /\ Append(s, e) # <<>> /\ Append(s, e)[Len(s) + 1] = e
           /\ \A i \in 1..Len(s) : Append(s, e)[i] = s[i]
    BY AppendProperties, LenProperties

\* A run of envelopes stays one without its first, and with the next event.
LEMMA ConsecutiveTail ==
    ASSUME NEW S, NEW s \in Seq(S), s # <<>>, Consecutive(s)
    PROVE  Consecutive(Tail(s))
<1>1. Len(s) \in Nat /\ Len(Tail(s)) = Len(s) - 1
    BY TailFacts
<1> SUFFICES ASSUME NEW i \in 1..(Len(Tail(s)) - 1)
             PROVE  Tail(s)[i + 1].seq = Tail(s)[i].seq + 1 /\ ~Tail(s)[i + 1].keyframe
    BY DEF Consecutive
<1>2. i \in 1..(Len(s) - 1) /\ i + 1 \in 1..(Len(s) - 1)
    BY <1>1
<1>3. Tail(s)[i] = s[i + 1] /\ Tail(s)[i + 1] = s[(i + 1) + 1]
    BY <1>2, TailFacts
<1> QED BY <1>2, <1>3 DEF Consecutive

LEMMA ConsecutiveAppend ==
    ASSUME NEW S, NEW s \in Seq(S), NEW e \in S, Consecutive(s), ~e.keyframe,
           s # <<>> => e.seq = s[Len(s)].seq + 1
    PROVE  Consecutive(Append(s, e))
<1>1. Len(s) \in Nat /\ Len(Append(s, e)) = Len(s) + 1 /\ (s = <<>> <=> Len(s) = 0)
    BY AppendFacts, LenProperties, EmptySeq
<1> SUFFICES ASSUME NEW i \in 1..Len(s)
             PROVE  /\ Append(s, e)[i + 1].seq = Append(s, e)[i].seq + 1
                    /\ ~Append(s, e)[i + 1].keyframe
    BY <1>1 DEF Consecutive
<1>2. Append(s, e)[i] = s[i] /\ Append(s, e)[Len(s) + 1] = e /\ s # <<>>
    BY <1>1, AppendFacts
<1>3. CASE i = Len(s)
    BY <1>2, <1>3
<1>4. CASE i < Len(s)
    <2>1. i \in 1..(Len(s) - 1) /\ i + 1 \in 1..Len(s)
        BY <1>1, <1>4
    <2>2. Append(s, e)[i + 1] = s[i + 1]
        BY <2>1, AppendFacts
    <2> QED BY <1>2, <2>1, <2>2 DEF Consecutive
<1> QED BY <1>1, <1>3, <1>4

\* The types the arithmetic below rests on.
LEMMA Typed ==
    ASSUME TypeOK
    PROVE  /\ head \in Nat /\ gen \in Nat /\ stageGen \in Nat
           /\ head < ForeignSince
           /\ last \in Nat \cup {-1} /\ Position \in Nat \cup {-1}
           /\ wire \in Seq(Nat) /\ Len(wire) \in Nat
           /\ queue \in Seq(Envelope) /\ Len(queue) \in Nat
           /\ deliveryQueue \in Seq(Envelope) /\ Len(deliveryQueue) \in Nat
           /\ Base \in Int
           /\ \A c \in calls : c \in Call
    BY LineAssumption, SubscribeAssumption, LenProperties
       DEF TypeOK, LineTypeOK, Position, NoCallback, Base

\* The state of the consumer is what it was.
LEMMA NoHoleKept ==
    ASSUME NoHole, UNCHANGED <<seen, foreign>>, Position' = Position
    PROVE  NoHole'
    BY DEF NoHole

\* No call is of the current generation while the subscriber is at work.
LEMMA NoCurrentCall ==
    ASSUME CallsInv, ~closed, ~Settled \/ ~replaying, NEW c \in calls
    PROVE  c.gen # gen
    BY DEF CallsInv, CurrentCall

LEMMA InitInv == Init => IInv
<1> SUFFICES ASSUME Init PROVE IInv
    OBVIOUS
<1> USE LineAssumption, SubscribeAssumption
<1>1. TypeOK
    BY InitTyped
<1>2. WireInv
    BY DEF Init, WireInv
<1>3. CallsInv
    <2>1. PICK c : calls = {c} /\ c = Ask(1, FirstKind(last), last, TRUE)
        BY DEF Init
    <2>2. /\ c.gen = 1 /\ c.point = last /\ c.initial = TRUE /\ c.status = "asked"
          /\ c.kind = FirstKind(last)
        BY <2>1 DEF Ask
    <2>3. Settled /\ replaying /\ ready = FALSE /\ gen = 1
        BY DEF Init, Settled
    <2>4. (c.kind = "keyframe" => last < 0) /\ (c.kind # "keyframe" => last >= 0)
        BY <2>2 DEF Init, FirstKind
    <2>5. last \in Int /\ \A d \in calls : d = c
        BY <1>1, <2>1, Typed
    <2>6. ~(c.point >= 0 /\ c.kind = "keyframe")
        BY <2>2, <2>4, <2>5
    <2>7. CurrentCall(c)
        BY <2>2, <2>3, <2>4, <2>5, <2>6 DEF CurrentCall
    <2> QED BY <2>2, <2>3, <2>5, <2>7 DEF CallsInv
<1>4. DeliveryInv
    BY DEF Init, LineInit, DeliveryInv, Consecutive, Position, NoCallback
<1>5. CoverInv
    BY DEF Init, CoverInv
<1>6. ForeignInv
    BY DEF Init, ForeignInv
<1>7. NoHole
    BY DEF Init, NoHole, Position, NoCallback
<1> QED BY <1>1, <1>2, <1>3, <1>4, <1>5, <1>6, <1>7 DEF IInv

\* Whatever closes the subscription: nothing is on the way to it any more.
LEMMA CloseInv ==
    ASSUME IInv, TypeOK', CloseSubscription, calls' \subseteq calls,
           UNCHANGED <<last, calling, seen, foreign>>
    PROVE  IInv'
<1>1. WireInv'
    BY DEF CloseSubscription, WireInv
<1>2. CallsInv'
    BY Typed DEF IInv, CloseSubscription, CallsInv, Call
<1>3. DeliveryInv' /\ CoverInv' /\ ForeignInv'
    BY DEF CloseSubscription, DeliveryInv, CoverInv, ForeignInv
<1>4. NoHole'
    BY NoHoleKept DEF IInv, Position
<1> QED BY <1>1, <1>2, <1>3, <1>4 DEF IInv

LEMMA EmitLiveInv ==
    ASSUME IInv, TypeOK', EmitLive PROVE IInv'
<1>1. /\ head' = head + 1
      /\ UNCHANGED <<up, closed, subscribed, queue, deliveryQueue, calls, last, replaying,
                     gen, calling, stage, stageGen, ready, seen, foreign>>
      /\ IF subscribed THEN wire' = Append(wire, head + 1) ELSE wire' = wire
    BY DEF EmitLive, Emit, subVars, appVars
<1>2. Position' = Position /\ DeliveryEnd' = DeliveryEnd /\ (Settled' <=> Settled)
    BY <1>1 DEF Position, DeliveryEnd, Settled
<1> USE Typed DEF IInv
<1>3. subscribed => /\ Len(wire') = Len(wire) + 1 /\ wire'[Len(wire) + 1] = head + 1
                    /\ \A i \in 1..Len(wire) : wire'[i] = wire[i]
    BY <1>1, AppendFacts
<1>4. (subscribed => Base' = Base) /\ (~subscribed => Base' = Base + 1)
    BY SMTT(30), <1>1, <1>3 DEF Base
<1>5. WireInv'
    <2>1. CASE subscribed
        <3>1. \A i \in 1..Len(wire') : wire'[i] = head' - Len(wire') + i
            <4> TAKE i \in 1..Len(wire')
            <4>1. i \in 1..Len(wire) => wire'[i] = head - Len(wire) + i
                BY <1>3, <2>1 DEF WireInv
            <4>2. i \in 1..Len(wire) \/ i = Len(wire) + 1
                BY <1>3, <2>1
            <4>3. Len(wire') = Len(wire) + 1 /\ head' = head + 1 /\ wire'[Len(wire) + 1] = head + 1
                BY <1>1, <1>3, <2>1
            <4>4. CASE i \in 1..Len(wire)
                BY <1>3, <2>1, <4>1, <4>3, <4>4
            <4>5. CASE i = Len(wire) + 1
                BY <4>3, <4>5
            <4> QED BY <4>2, <4>4, <4>5
        <3> QED BY <1>1, <1>4, <2>1, <3>1 DEF WireInv
    <2>2. CASE ~subscribed
        BY <1>1, <2>2 DEF WireInv
    <2> QED BY <2>1, <2>2
<1>6. CallsInv'
    <2> SUFFICES ASSUME ~closed, NEW c \in calls, c.gen = gen PROVE CurrentCall(c)'
        BY <1>1 DEF CallsInv
    <2>1. CurrentCall(c) /\ c \in Call
        BY DEF CallsInv
    <2>2. Answered(c) /\ subscribed => Answered(c)'
        <3> SUFFICES ASSUME Answered(c), subscribed PROVE Answered(c)'
            OBVIOUS
        <3>1. \A i \in 1..Len(c.envs) : c.envs[i].seq <= head => c.envs[i].seq <= head + 1
            <4>1. \A i \in 1..Len(c.envs) : c.envs[i] \in Envelope
                BY <2>1, ElementOfSeq DEF Call
            <4>2. head \in Nat
                BY DEF LineTypeOK
            <4>3. ASSUME NEW e \in Envelope, e.seq <= head PROVE e.seq <= head + 1
                BY <4>2, <4>3, SMTT(30) DEF Envelope
            <4> QED BY <4>1, <4>3
        <3>2. c.envs # <<>> => 1 \in 1..Len(c.envs)
            BY <2>1, EmptySeq, LenProperties DEF Call
        <3> QED BY <1>1, <1>4, <3>1, <3>2 DEF Answered
    <2> QED BY <1>1, <1>2, <2>1, <2>2 DEF CurrentCall, Call
<1>7. DeliveryInv'
    <2>1. \A i \in 1..Len(deliveryQueue) : deliveryQueue[i] \in Envelope
        BY ElementOfSeq
    <2>2. deliveryQueue' = deliveryQueue /\ head' = head + 1 /\ Position' = Position
          /\ closed' = closed /\ foreign' = foreign /\ replaying' = replaying /\ stage' = stage
        BY <1>1, <1>2
    <2>3. /\ \A i \in 1..Len(deliveryQueue) :
                deliveryQueue[i].seq <= head => deliveryQueue[i].seq <= head + 1
          /\ Position <= head => Position <= head + 1
        BY <2>1 DEF Envelope
    <2> QED BY <2>2, <2>3 DEF DeliveryInv
<1>8. CoverInv'
    BY <1>1, <1>2, <1>4 DEF CoverInv
<1>9. ForeignInv'
    BY <1>1 DEF ForeignInv
<1>10. NoHole'
    BY <1>1, <1>2, NoHoleKept
<1> QED BY <1>5, <1>6, <1>7, <1>8, <1>9, <1>10

\* A step that changes nothing the invariant speaks of, but forgets some calls.
LEMMA ForgetInv ==
    ASSUME IInv, TypeOK', calls' \subseteq calls,
           UNCHANGED <<head, up, subscribed, wire, last, replaying, gen, queue,
                       deliveryQueue, calling, stage, stageGen, ready, closed,
                       seen, foreign>>
    PROVE  IInv'
<1>1. Position' = Position /\ DeliveryEnd' = DeliveryEnd /\ Settled' = Settled /\ Base' = Base
    BY DEF Position, DeliveryEnd, Settled, Base
<1>2. WireInv' /\ DeliveryInv' /\ CoverInv' /\ ForeignInv' /\ NoHole'
    BY <1>1 DEF IInv, WireInv, DeliveryInv, CoverInv, ForeignInv, NoHole
<1>3. CallsInv'
    <2>1. \A c \in calls' : CurrentCall(c) => CurrentCall(c)'
        BY <1>1 DEF CurrentCall, Answered
    <2> QED BY <2>1 DEF IInv, CallsInv
<1> QED BY <1>2, <1>3 DEF IInv

LEMMA ServerSubscribesInv ==
    ASSUME IInv, TypeOK', ServerSubscribes PROVE IInv'
<1>1. /\ subscribed' = TRUE /\ ~subscribed /\ up /\ ~closed /\ wire = <<>> /\ queue = <<>>
      /\ UNCHANGED <<head, up, closed, wire, queue, deliveryQueue, calls, last, replaying,
                     gen, calling, stage, stageGen, ready, seen, foreign>>
    BY DEF ServerSubscribes, lineVars, subVars, appVars, IInv, WireInv
<1>2. Position' = Position /\ DeliveryEnd' = DeliveryEnd /\ Settled' = Settled /\ Base' = Base
    BY <1>1 DEF Position, DeliveryEnd, Settled, Base
<1>3. WireInv' /\ DeliveryInv' /\ ForeignInv' /\ NoHole'
    BY <1>1, <1>2 DEF IInv, WireInv, DeliveryInv, ForeignInv, NoHole
<1>4. CallsInv'
    <2>1. \A c \in calls : CurrentCall(c) => CurrentCall(c)'
        BY <1>1, <1>2 DEF CurrentCall, Answered
    <2> QED BY <1>1, <2>1 DEF IInv, CallsInv
<1>5. CoverInv'
    BY <1>1, <1>2 DEF IInv, CoverInv
<1> QED BY <1>3, <1>4, <1>5 DEF IInv

\* The tail after a number is the run of events from the next one to the head.
LEMMA TailAfterFacts ==
    ASSUME NEW p \in Int, head \in Nat, p <= head
    PROVE  /\ Len(TailAfter(p)) = head - p /\ (TailAfter(p) = <<>> <=> head = p)
           /\ \A i \in 1..(head - p) : TailAfter(p)[i] = Event(p + i)
           /\ Consecutive(TailAfter(p))
<1>1. Len(TailAfter(p)) = head - p /\ (TailAfter(p) = <<>> <=> head = p)
    BY DEF TailAfter
<1>2. \A i \in 1..(head - p) : TailAfter(p)[i] = Event(p + i)
    BY DEF TailAfter
<1>3. Consecutive(TailAfter(p))
    <2> SUFFICES ASSUME NEW i \in 1..((head - p) - 1)
                 PROVE  /\ TailAfter(p)[i + 1].seq = TailAfter(p)[i].seq + 1
                        /\ ~TailAfter(p)[i + 1].keyframe
        BY <1>1 DEF Consecutive
    <2>1. TailAfter(p)[i] = Event(p + i) /\ TailAfter(p)[i + 1] = Event(p + (i + 1))
        BY <1>2
    <2> QED BY <2>1 DEF Event
<1> QED BY <1>1, <1>2, <1>3

\* What the server answers fits what the subscriber has, and reaches at least as
\* far as what is queued and in flight to it.
LEMMA AnswerFits ==
    ASSUME IInv, ~closed, subscribed, NEW c \in calls, c.status = "asked", CurrentCall(c)
    PROVE  LET d == Answer(c) IN
           /\ d.gen = c.gen /\ d.point = c.point /\ d.initial = c.initial /\ d.kind = c.kind
           /\ d.status = "answered" => Answered(d)
           /\ d.status = "missing" /\ d.kind = "keyframe" => ~HasKeyframe
           /\ d.status = "missing" /\ d.kind = "since" /\ ~foreign => d.point < head
<1> DEFINE d == Answer(c)
<1>0. /\ head \in Nat /\ head < ForeignSince /\ Base \in Int /\ Base <= head
      /\ c \in Call
    <2>1. Len(wire) \in Nat /\ Len(queue) \in Nat
        BY Typed DEF IInv
    <2> QED BY <2>1, Typed DEF IInv, Base
<1>1. c.point = last /\ Settled /\ c.point \in Nat \cup {-1}
    BY Typed DEF CurrentCall, IInv
<1>2. /\ d.gen = c.gen /\ d.point = c.point /\ d.initial = c.initial /\ d.kind = c.kind
    BY <1>0 DEF Answer, Call
<1>3. IF foreign THEN c.point > head ELSE c.point <= head
    BY <1>0, <1>1 DEF IInv, Settled, ForeignInv, DeliveryInv, Position
<1>5. JournalHas(c.point) => ~foreign /\ c.point <= head
    BY <1>0, <1>1, <1>3 DEF JournalHas
<1>6. d.status = "missing" /\ d.kind = "keyframe" => ~HasKeyframe
    BY <1>0, <1>2 DEF Answer, Call
<1>7. d.status = "missing" /\ d.kind = "since" /\ ~foreign => d.point < head
    BY <1>0, <1>1, <1>2, <1>3 DEF Answer, Call, JournalHas
<1>8. ASSUME d.status = "answered" PROVE Answered(d)
    <2>1. \/ d.envs = TailAfter(c.point) /\ JournalHas(c.point) /\ c.kind # "keyframe"
          \/ /\ d.envs = <<StateAt(head)>> /\ c.kind # "since"
             /\ c.kind = "keyframe" \/ ~JournalHas(c.point)
        BY <1>0, <1>8 DEF Answer, Call, FrameAfter
    <2>2. CASE d.envs = TailAfter(c.point) /\ JournalHas(c.point) /\ c.kind # "keyframe"
        <3>1. ~foreign /\ c.point <= head /\ c.point >= 0
            BY <1>5, <2>2 DEF CurrentCall
        <3>2. /\ Len(d.envs) = head - c.point
              /\ \A i \in 1..(head - c.point) : d.envs[i] = Event(c.point + i)
              /\ (d.envs = <<>> <=> head = c.point) /\ Consecutive(d.envs)
            BY <2>2, <3>1, <1>0, <1>1, TailAfterFacts
        <3> HIDE DEF d
        <3>3. \A i \in 1..Len(d.envs) : d.envs[i].seq = c.point + i /\ d.envs[i].seq <= head
            <4> TAKE i \in 1..Len(d.envs)
            <4>1. d.envs[i] = Event(c.point + i) /\ i <= head - c.point
                BY <3>2
            <4> QED BY <1>0, <1>1, <4>1 DEF Event
        <3>4. d.envs # <<>> => d.envs[1].seq = c.point + 1 /\ d.envs[Len(d.envs)].seq = head
            <4> SUFFICES ASSUME d.envs # <<>>
                         PROVE  d.envs[1].seq = c.point + 1 /\ d.envs[Len(d.envs)].seq = head
                OBVIOUS
            <4>1. head - c.point \in Nat /\ head - c.point >= 1
                BY <1>0, <1>1, <3>1, <3>2
            <4>2. 1 \in 1..Len(d.envs) /\ Len(d.envs) \in 1..Len(d.envs)
                BY <3>2, <4>1
            <4> QED BY <1>0, <1>1, <3>2, <3>3, <4>2
        <3>5. CASE d.envs = <<>>
            BY <1>0, <1>1, <1>2, <3>1, <3>2, <3>5 DEF Answered
        <3>6. CASE d.envs # <<>>
            <4>1. /\ Base <= d.envs[Len(d.envs)].seq /\ d.envs[1].seq > d.point
                  /\ d.envs[1].seq = d.point + 1 /\ d.point # -1
                BY <1>0, <1>1, <1>2, <3>1, <3>4, <3>6
            <4>2. \A i \in 1..Len(d.envs) : d.envs[i].seq <= head
                BY <3>3
            <4> QED BY <3>1, <3>2, <3>6, <4>1, <4>2 DEF Answered
        <3> QED BY <3>5, <3>6
    <2>3. CASE /\ d.envs = <<StateAt(head)>> /\ c.kind # "since"
               /\ c.kind = "keyframe" \/ ~JournalHas(c.point)
        <3>1. ~foreign => head > c.point
            BY <1>0, <1>1, <1>3, <2>3 DEF CurrentCall, JournalHas
        <3>2. Len(d.envs) = 1 /\ d.envs # <<>> /\ d.envs[1].seq = head /\ d.envs[1].keyframe
            BY <2>3 DEF StateAt
        <3> QED BY <1>0, <1>1, <1>2, <2>3, <3>1, <3>2 DEF Answered, Consecutive
    <2> QED BY <2>1, <2>2, <2>3
<1> QED BY <1>2, <1>6, <1>7, <1>8

LEMMA ServerAnswersInv ==
    ASSUME IInv, TypeOK', ServerAnswers PROVE IInv'
<1>1. PICK c \in calls : ServerAnswers!(c)
    BY DEF ServerAnswers
<1>2. /\ UNCHANGED <<head, up, closed, subscribed, wire, queue, deliveryQueue, last, replaying,
                     gen, calling, stage, stageGen, ready, seen, foreign>>
      /\ calls' = (calls \ {c}) \cup {Answer(c)} /\ c.status = "asked" /\ subscribed
    BY <1>1 DEF lineVars, subVars, appVars
<1>3. Position' = Position /\ DeliveryEnd' = DeliveryEnd /\ Settled' = Settled /\ Base' = Base
    BY <1>2 DEF Position, DeliveryEnd, Settled, Base
<1>4. WireInv' /\ DeliveryInv' /\ CoverInv' /\ ForeignInv' /\ NoHole'
    BY <1>2, <1>3 DEF IInv, WireInv, DeliveryInv, CoverInv, ForeignInv, NoHole
<1> USE Typed DEF IInv
<1>5. Answer(c).gen = c.gen /\ c \in Call
    BY DEF Answer, Call
<1>6. CallsInv'
    <2>1. \A e \in calls' : e.gen <= gen
        BY <1>2, <1>5 DEF CallsInv
    <2> SUFFICES ASSUME ~closed, NEW e \in calls', e.gen = gen PROVE CurrentCall(e)'
        BY <1>2, <2>1 DEF CallsInv
    <2>2. CASE c.gen = gen
        <3>1. CurrentCall(c) /\ e = Answer(c)
            BY <1>2, <2>2 DEF CallsInv, CurrentCall
        <3>2. \A x \in calls' : x.gen = e.gen => x = e
            BY <1>2, <2>2, <3>1 DEF CurrentCall
        <3>3. Answered(e) => Answered(e)'
            BY <1>2, <1>3 DEF Answered
        <3>4. e.point = c.point /\ e.initial = c.initial /\ e.kind = c.kind
            BY <1>2, <3>1, AnswerFits
        <3>5. /\ e.status = "answered" => Answered(e)
              /\ e.status = "missing" /\ e.kind = "keyframe" => ~HasKeyframe
              /\ e.status = "missing" /\ e.kind = "since" /\ ~foreign => e.point < head
            BY <1>2, <3>1, AnswerFits
        <3> QED BY <1>2, <1>3, <3>1, <3>2, <3>3, <3>4, <3>5 DEF CurrentCall
    <2>3. CASE c.gen # gen
        <3>1. e \in calls /\ CurrentCall(e) /\ Answer(c).gen # gen
            BY <1>2, <1>5, <2>3 DEF CallsInv
        <3>2. Answered(e) => Answered(e)'
            BY <1>2, <1>3 DEF Answered
        <3> QED BY <1>2, <1>3, <3>1, <3>2 DEF CurrentCall
    <2> QED BY <2>2, <2>3
<1> QED BY <1>4, <1>6

LEMMA DisconnectInv ==
    ASSUME IInv, TypeOK', Disconnect PROVE IInv'
<1>1. /\ up' = FALSE /\ subscribed' = FALSE /\ wire' = <<>> /\ calls' \subseteq calls
      /\ UNCHANGED <<head, last, deliveryQueue, calling, stage, stageGen, ready, closed,
                     seen, foreign>>
    BY DEF Disconnect, lineVars, subVars, appVars
<1>2. Position' = Position
    BY <1>1 DEF Position
<1>3. queue' = <<>>
    BY DEF Disconnect, subVars, IInv, WireInv
<1>4. ~closed => replaying' = TRUE /\ gen' = gen + 1
    BY DEF Disconnect
<1>5. closed => gen' = gen
    BY DEF Disconnect, subVars
<1>6. gen \in Nat /\ stageGen \in Nat /\ \A c \in calls : c.gen \in Nat /\ c.gen <= gen
    BY Typed DEF IInv, Call, CallsInv
<1>7. WireInv'
    BY <1>1, <1>3 DEF WireInv
<1>8. CallsInv'
    BY <1>1, <1>4, <1>5, <1>6 DEF CallsInv
<1>9. DeliveryInv'
    BY <1>1, <1>2, <1>4 DEF IInv, DeliveryInv
<1>10. CoverInv'
    BY <1>1, <1>4, <1>6 DEF IInv, CoverInv
<1>11. ForeignInv'
    BY <1>1, <1>4 DEF IInv, ForeignInv
<1>12. NoHole'
    BY <1>1, <1>2, NoHoleKept DEF IInv
<1> QED BY <1>7, <1>8, <1>9, <1>10, <1>11, <1>12 DEF IInv

LEMMA ConnectInv ==
    ASSUME IInv, TypeOK', Connect PROVE IInv'
<1>1. /\ ~up /\ Settled /\ ~subscribed
      /\ UNCHANGED <<head, subscribed, wire, queue, last, deliveryQueue, calling, stage,
                     stageGen, ready, closed, seen, foreign>>
    BY DEF Connect, lineVars, subVars, appVars, IInv, WireInv
<1>2. Position' = Position /\ Settled' = Settled /\ Base' = Base /\ DeliveryEnd' = DeliveryEnd
    BY <1>1 DEF Position, Settled, Base, DeliveryEnd
<1>3. WireInv'
    BY <1>1, <1>2 DEF IInv, WireInv
<1>4. NoHole'
    BY <1>1, <1>2, NoHoleKept DEF IInv
<1>5. CASE closed
    <2>1. UNCHANGED <<calls, gen, replaying>>
        BY <1>5 DEF Connect, subVars
    <2>2. CallsInv' /\ DeliveryInv' /\ CoverInv' /\ ForeignInv'
        BY <1>1, <1>5, <2>1 DEF IInv, CallsInv, DeliveryInv, CoverInv, ForeignInv
    <2> QED BY <1>3, <1>4, <2>2 DEF IInv
<1>6. CASE ~closed
    <2> PICK new : new = Ask(gen + 1, FirstKind(last), last, ~ready)
        OBVIOUS
    <2>1. replaying' = TRUE /\ gen' = gen + 1 /\ calls' = calls \cup {new}
        BY <1>6 DEF Connect, StartCatchUp
    <2>2. /\ gen \in Nat /\ stageGen \in Nat /\ last \in Nat \cup {-1}
          /\ \A c \in calls : c.gen \in Nat /\ c.gen <= gen
        BY Typed DEF IInv, Call, CallsInv
    <2>3. /\ new.gen = gen + 1 /\ new.point = last /\ (new.initial <=> ~ready)
          /\ new.status = "asked" /\ new.kind = FirstKind(last)
        BY DEF Ask
    <2>4. \A c \in calls' : c.gen = gen + 1 => c = new
        BY <2>1, <2>2
    <2>5. CurrentCall(new)'
        BY <1>1, <1>2, <2>1, <2>2, <2>3, <2>4 DEF CurrentCall, FirstKind
    <2>6. CallsInv'
        BY <2>1, <2>2, <2>3, <2>4, <2>5 DEF CallsInv
    <2>7. DeliveryInv' /\ ForeignInv'
        BY <1>1, <1>2, <2>1 DEF IInv, DeliveryInv, ForeignInv, Settled
    <2>8. CoverInv'
        BY <1>1, <2>1, <2>2 DEF IInv, CoverInv, Settled
    <2> QED BY <1>3, <1>4, <2>6, <2>7, <2>8 DEF IInv
<1> QED BY <1>5, <1>6

LEMMA SkipDeliveredInv ==
    ASSUME IInv, TypeOK', SkipDelivered PROVE IInv'
<1> DEFINE e == deliveryQueue[1]
<1>1. /\ ~closed /\ calling = NoCallback /\ deliveryQueue # <<>>
      /\ Head(deliveryQueue).seq <= last /\ deliveryQueue' = Tail(deliveryQueue)
      /\ UNCHANGED <<head, up, subscribed, wire, calls, last, replaying, gen, queue, calling,
                     stage, stageGen, ready, closed, seen, foreign>>
    BY DEF SkipDelivered, Delivering, lineVars, netVars, appVars
<1>2. deliveryQueue \in Seq(Envelope)
    BY Typed DEF IInv
<1>3. /\ Len(deliveryQueue) \in Nat /\ Len(deliveryQueue) >= 1 /\ Head(deliveryQueue) = e
      /\ e \in Envelope /\ deliveryQueue[Len(deliveryQueue)] \in Envelope
      /\ Len(deliveryQueue') = Len(deliveryQueue) - 1
      /\ \A i \in 1..(Len(deliveryQueue) - 1) : deliveryQueue'[i] = deliveryQueue[i + 1]
      /\ (deliveryQueue' = <<>> <=> Len(deliveryQueue) = 1)
    BY <1>1, <1>2, TailFacts
<1>4. /\ e.seq <= last /\ e.seq \in Nat /\ deliveryQueue[Len(deliveryQueue)].seq \in Nat
      /\ Position = last /\ Position' = last /\ last \in Nat /\ Base \in Int
    BY SMTT(30), <1>1, <1>3, Typed DEF Envelope, Position, IInv
<1>5. Base' = Base /\ ~Settled
    BY <1>1 DEF Base, Settled
<1>6. /\ WireInv' /\ NoHole'
    BY <1>1, <1>4, <1>5, NoHoleKept DEF IInv, WireInv
<1>7. CallsInv'
    BY <1>1, <1>5, NoCurrentCall DEF IInv, CallsInv
<1>8. ForeignInv'
    <2>1. ~foreign
        BY <1>1, <1>4 DEF IInv, ForeignInv
    <2> QED BY <1>1, <2>1 DEF ForeignInv
<1>9. DeliveryInv'
    <2>1. Consecutive(deliveryQueue')
        <3>1. Consecutive(deliveryQueue)
            BY <1>1 DEF IInv, DeliveryInv
        <3> QED BY <1>2, <1>3, <3>1, ConsecutiveTail, <1>1
    <2>2. \A i \in 1..Len(deliveryQueue') : deliveryQueue'[i].seq <= head
        BY <1>1, <1>3 DEF IInv, DeliveryInv
    <2>3. deliveryQueue' # <<>> => deliveryQueue'[1].seq = e.seq + 1
        BY <1>1, <1>3 DEF IInv, DeliveryInv, Consecutive
    <2> QED BY <1>1, <1>4, <2>1, <2>2, <2>3 DEF IInv, DeliveryInv
<1>10. CoverInv'
    <2>1. DeliveryEnd = deliveryQueue[Len(deliveryQueue)].seq
        BY <1>1 DEF DeliveryEnd
    <2>2. IF deliveryQueue' = <<>> THEN DeliveryEnd' = last /\ DeliveryEnd <= last
                                   ELSE DeliveryEnd' = DeliveryEnd
        BY <1>3, <1>4, <2>1 DEF DeliveryEnd
    <2> QED BY <1>1, <1>4, <1>5, <2>1, <2>2 DEF IInv, CoverInv
<1> QED BY <1>6, <1>7, <1>8, <1>9, <1>10 DEF IInv

LEMMA LiveTapInv ==
    ASSUME IInv, TypeOK', LiveTap PROVE IInv'
<1> DEFINE e == Event(Head(wire))
<1>1. /\ wire # <<>> /\ ~closed /\ subscribed /\ wire' = Tail(wire)
      /\ UNCHANGED <<head, up, subscribed, calls, last, replaying, gen, calling,
                     stage, stageGen, ready, closed, seen, foreign>>
      /\ IF replaying THEN queue' = Append(queue, e) /\ deliveryQueue' = deliveryQueue
                      ELSE deliveryQueue' = Append(deliveryQueue, e) /\ queue' = queue
    BY DEF LiveTap, lineVars, appVars, IInv, WireInv
<1>2. /\ head \in Nat /\ wire \in Seq(Nat) /\ queue \in Seq(Envelope)
      /\ deliveryQueue \in Seq(Envelope) /\ Len(wire) \in Nat /\ Len(queue) \in Nat
      /\ Len(deliveryQueue) \in Nat /\ Base \in Int /\ Position \in Nat \cup {-1}
    BY Typed DEF IInv
<1>3. /\ Len(wire) >= 1 /\ Head(wire) = wire[1] /\ wire[1] \in Nat
      /\ Len(wire') = Len(wire) - 1 /\ \A i \in 1..(Len(wire) - 1) : wire'[i] = wire[i + 1]
    BY <1>1, <1>2, TailFacts
<1>4. /\ \A i \in 1..Len(wire) : wire[i] = head - Len(wire) + i
      /\ \A i \in 1..Len(queue) : queue[i] = Event(Base + i)
      /\ up
    BY <1>1 DEF IInv, WireInv
<1>5. wire[1] = Base + Len(queue) + 1 /\ wire[1] <= head
    BY <1>2, <1>3, <1>4 DEF Base
<1>6. e = Event(wire[1]) /\ e \in Envelope /\ e.seq = wire[1] /\ ~e.keyframe
    BY <1>3 DEF Event, Envelope
<1> HIDE DEF e
<1>7. Position' = Position
    BY <1>1 DEF Position
<1>8. \A i \in 1..Len(wire') : wire'[i] = head' - Len(wire') + i
    <2> TAKE i \in 1..Len(wire')
    <2>1. wire'[i] = wire[i + 1] /\ i + 1 \in 1..Len(wire)
        BY <1>2, <1>3
    <2> QED BY <1>1, <1>2, <1>3, <1>4, <2>1
<1>9. NoHole'
    BY <1>1, <1>7, NoHoleKept DEF IInv
<1>10. CASE replaying
    <2>1. /\ queue' = Append(queue, e) /\ deliveryQueue' = deliveryQueue
          /\ Len(queue') = Len(queue) + 1 /\ queue'[Len(queue) + 1] = e
          /\ \A i \in 1..Len(queue) : queue'[i] = queue[i]
        BY <1>1, <1>2, <1>6, <1>10, AppendFacts
    <2>2. Base' = Base /\ DeliveryEnd' = DeliveryEnd /\ Settled' = Settled
        BY <1>1, <1>2, <1>3, <1>7, <2>1 DEF Base, DeliveryEnd, Settled
    <2>3. \A i \in 1..Len(queue') : queue'[i] = Event(Base' + i)
        <3> TAKE i \in 1..Len(queue')
        <3>1. i \in 1..Len(queue) \/ i = Len(queue) + 1
            BY <1>2, <2>1
        <3>2. e = Event(Base + (Len(queue) + 1))
            BY <1>2, <1>5, <1>6
        <3> QED BY <1>4, <2>1, <2>2, <3>1, <3>2
    <2>4. WireInv'
        BY <1>1, <1>4, <1>8, <2>3 DEF WireInv
    <2>5. CallsInv'
        <3>1. \A c \in calls : CurrentCall(c) => CurrentCall(c)'
            BY <1>1, <2>2 DEF CurrentCall, Answered
        <3> QED BY <1>1, <3>1 DEF IInv, CallsInv
    <2>6. DeliveryInv' /\ CoverInv' /\ ForeignInv'
        BY <1>1, <1>7, <1>10, <2>1, <2>2 DEF IInv, DeliveryInv, CoverInv, ForeignInv
    <2> QED BY <1>9, <2>4, <2>5, <2>6 DEF IInv
<1>11. CASE ~replaying
    <2>1. /\ deliveryQueue' = Append(deliveryQueue, e) /\ queue' = queue
          /\ deliveryQueue' # <<>> /\ Len(deliveryQueue') = Len(deliveryQueue) + 1
          /\ deliveryQueue'[Len(deliveryQueue')] = e
          /\ \A i \in 1..Len(deliveryQueue) : deliveryQueue'[i] = deliveryQueue[i]
        BY <1>1, <1>2, <1>6, <1>11, AppendFacts
    <2>2. queue = <<>> /\ stage = "none" /\ ~foreign /\ Len(queue) = 0
        BY <1>1, <1>2, <1>11, EmptySeq DEF IInv, CoverInv, ForeignInv
    <2>3. Base' = Base + 1 /\ e.seq = Base + 1 /\ DeliveryEnd' = e.seq
        BY <1>1, <1>2, <1>3, <1>5, <1>6, <2>1, <2>2 DEF Base, DeliveryEnd
    <2>4. WireInv'
        BY <1>1, <1>4, <1>8, <2>1, <2>2 DEF WireInv
    <2>5. CallsInv'
        BY <1>1, <1>11, NoCurrentCall DEF IInv, CallsInv
    <2>6. deliveryQueue # <<>> => e.seq = deliveryQueue[Len(deliveryQueue)].seq + 1
        BY <1>1, <1>11, <2>3 DEF IInv, CoverInv, DeliveryEnd
    <2>7. Consecutive(deliveryQueue')
        BY <1>1, <1>2, <1>6, <2>1, <2>6, ConsecutiveAppend DEF IInv, DeliveryInv
    <2>8. \A i \in 1..Len(deliveryQueue') : deliveryQueue'[i].seq <= head
        <3> TAKE i \in 1..Len(deliveryQueue')
        <3>1. i \in 1..Len(deliveryQueue) \/ i = Len(deliveryQueue')
            BY <1>2, <2>1
        <3> QED BY <1>1, <1>5, <1>6, <2>1, <3>1 DEF IInv, DeliveryInv
    <2>9. DeliveryInv'
        <3>1. CASE deliveryQueue = <<>>
            <4>1. deliveryQueue'[1] = e
                BY <2>1, <3>1
            <4>2. Base <= Position \/ (Position = -1 /\ ~HasKeyframe)
                BY <1>1, <1>11, <3>1 DEF IInv, CoverInv, DeliveryEnd
            <4> QED BY <1>1, <1>2, <1>6, <1>7, <1>11, <2>1, <2>2, <2>3, <2>7, <2>8, <3>1, <4>1, <4>2
                    DEF IInv, DeliveryInv
        <3>2. CASE deliveryQueue # <<>>
            <4>1. deliveryQueue'[1] = deliveryQueue[1]
                BY <1>2, <2>1, <3>2, TailFacts
            <4> QED BY <1>1, <1>7, <1>11, <2>1, <2>2, <2>7, <2>8, <3>2, <4>1
                    DEF IInv, DeliveryInv
        <3> QED BY <3>1, <3>2
    <2>10. CoverInv'
        BY <1>1, <1>2, <1>4, <1>11, <2>1, <2>2, <2>3 DEF IInv, CoverInv
    <2>11. ForeignInv'
        BY <1>1, <2>2 DEF ForeignInv
    <2> QED BY <1>9, <2>4, <2>5, <2>9, <2>10, <2>11 DEF IInv
<1> QED BY <1>10, <1>11

LEMMA CallbackReturnsInv ==
    ASSUME IInv, TypeOK', CallbackReturns PROVE IInv'
<1>1. /\ calling # NoCallback /\ last' = calling /\ calling' = NoCallback
      /\ UNCHANGED <<head, up, subscribed, wire, calls, replaying, gen, queue, deliveryQueue,
                     stage, stageGen, ready, closed, seen, foreign>>
    BY DEF CallbackReturns, lineVars, netVars, appVars
<1>2. Position' = Position /\ Base' = Base /\ DeliveryEnd' = DeliveryEnd /\ ~Settled
    BY <1>1 DEF Position, Base, DeliveryEnd, Settled
<1>3. WireInv' /\ NoHole' /\ DeliveryInv' /\ CoverInv'
    BY <1>1, <1>2, NoHoleKept DEF IInv, WireInv, DeliveryInv, CoverInv
<1>4. CallsInv'
    BY <1>1, <1>2, NoCurrentCall DEF IInv, CallsInv
<1>5. ForeignInv'
    BY <1>1 DEF IInv, ForeignInv
<1> QED BY <1>3, <1>4, <1>5 DEF IInv

LEMMA CallbackStartsInv ==
    ASSUME IInv, TypeOK', CallbackStarts PROVE IInv'
<1> DEFINE e == deliveryQueue[1]
<1>1. /\ ~closed /\ calling = NoCallback /\ deliveryQueue # <<>>
      /\ deliveryQueue' = Tail(deliveryQueue)
      /\ Head(deliveryQueue).seq > last /\ calling' = Head(deliveryQueue).seq
      /\ Fold(Head(deliveryQueue))
      /\ UNCHANGED <<head, up, subscribed, wire, calls, last, replaying, gen, queue,
                     stage, stageGen, ready, closed>>
    BY DEF CallbackStarts, Delivering, lineVars, netVars
<1>2. deliveryQueue \in Seq(Envelope) /\ seen \subseteq Nat
    BY Typed DEF IInv, TypeOK
<1>3. /\ Len(deliveryQueue) \in Nat /\ Len(deliveryQueue) >= 1 /\ Head(deliveryQueue) = e
      /\ e \in Envelope
      /\ Len(deliveryQueue') = Len(deliveryQueue) - 1
      /\ \A i \in 1..(Len(deliveryQueue) - 1) : deliveryQueue'[i] = deliveryQueue[i + 1]
      /\ (deliveryQueue' = <<>> <=> Len(deliveryQueue) = 1)
    BY <1>1, <1>2, TailFacts
<1>20. e.seq \in Nat /\ last \in Nat \cup {-1} /\ Base \in Int
    BY <1>3, Typed DEF Envelope, IInv
<1>21. e.seq > last /\ calling' = e.seq /\ Fold(e)
    BY <1>1, <1>3
<1>22. Position = last
    BY <1>1 DEF Position
<1>23. Position' = e.seq
    BY <1>20, <1>21 DEF Position, NoCallback
<1>4. /\ e.seq > last /\ e.seq \in Nat /\ calling' = e.seq /\ Fold(e)
      /\ Position = last /\ Position' = e.seq /\ last \in Nat \cup {-1} /\ Base \in Int
    BY <1>20, <1>21, <1>22, <1>23
<1>5. Base' = Base /\ ~Settled
    BY <1>1 DEF Base, Settled
<1>6. WireInv'
    BY <1>1, <1>5 DEF IInv, WireInv
<1>7. CallsInv'
    BY <1>1, <1>5, NoCurrentCall DEF IInv, CallsInv
<1>13. foreign => e.keyframe
    BY <1>1 DEF IInv, ForeignInv
<1>8. ~foreign'
    BY <1>4, <1>13 DEF Fold
<1>9. ForeignInv'
    BY <1>8 DEF ForeignInv
<1>10. DeliveryInv'
    <2>1. Consecutive(deliveryQueue')
        BY <1>1, <1>2, ConsecutiveTail DEF IInv, DeliveryInv
    <2>2. \A i \in 1..Len(deliveryQueue') : deliveryQueue'[i].seq <= head
        BY <1>1, <1>3 DEF IInv, DeliveryInv
    <2>3. deliveryQueue' # <<>> => deliveryQueue'[1].seq = e.seq + 1
        BY <1>1, <1>3 DEF IInv, DeliveryInv, Consecutive
    <2>4. e.seq <= head
        BY <1>1, <1>3 DEF IInv, DeliveryInv
    <2> QED BY <1>1, <1>4, <2>1, <2>2, <2>3, <2>4 DEF DeliveryInv
<1>11. CoverInv'
    <2>1. DeliveryEnd' = DeliveryEnd
        BY <1>1, <1>3, <1>4 DEF DeliveryEnd
    <2> QED BY <1>1, <1>5, <2>1 DEF IInv, CoverInv
<1>12. NoHole'
    <2>1. CASE e.keyframe
        <3>1. seen' = 1..e.seq
            BY <1>4, <2>1 DEF Fold
        <3> QED BY <1>4, <1>8, <3>1 DEF NoHole
    <2>2. CASE ~e.keyframe
        <3>1. seen' = seen \cup {e.seq} /\ ~foreign
            BY <1>4, <1>13, <2>2 DEF Fold
        <3>2. last # -1 => e.seq = last + 1
            BY <1>1, <1>4, <2>2 DEF IInv, DeliveryInv
        <3>3. last = -1 => ~HasKeyframe
            BY <1>1, <1>4, <2>2 DEF IInv, DeliveryInv
        <3>4. last = -1 => seen = {}
            BY <1>2, <1>4 DEF IInv, NoHole
        <3>5. \A a \in seen' : a <= e.seq /\ a..e.seq \subseteq seen'
            <4> TAKE a \in seen'
            <4>1. CASE a = e.seq
                BY <1>4, <3>1, <4>1
            <4>2. CASE a # e.seq
                <5>1. a \in seen /\ a \in Nat /\ a <= last /\ a..last \subseteq seen
                    BY <1>2, <1>4, <3>1, <4>2 DEF IInv, NoHole
                <5>2. last \in Nat /\ e.seq = last + 1
                    BY <1>4, <3>2, <5>1
                <5>3. a..e.seq = (a..last) \cup {e.seq}
                    BY <1>4, <5>1, <5>2
                <5> QED BY <1>4, <3>1, <5>1, <5>2, <5>3
            <4> QED BY <4>1, <4>2
        <3>6. HasKeyframe => seen' = 1..e.seq
            <4> SUFFICES ASSUME HasKeyframe PROVE seen' = 1..e.seq
                OBVIOUS
            <4>1. last \in Nat /\ e.seq = last + 1 /\ seen = 1..last
                BY <1>4, <3>1, <3>2, <3>3 DEF IInv, NoHole
            <4> QED BY <3>1, <4>1
        <3> QED BY <1>4, <1>8, <3>5, <3>6 DEF NoHole
    <2> QED BY <2>1, <2>2
<1> QED BY <1>6, <1>7, <1>9, <1>10, <1>11, <1>12 DEF IInv

LEMMA ResumeAnsweredInv ==
    ASSUME IInv, TypeOK', ResumeAnswered PROVE IInv'
<1>1. PICK c \in calls : ResumeAnswered!(c)
    BY DEF ResumeAnswered
<1>2. /\ Settled /\ ~closed /\ c.gen = gen /\ c.status = "answered"
      /\ calls' = calls \ {c} /\ last' = ResetPoint(c) /\ deliveryQueue' = c.envs
      /\ stage' = "tail" /\ stageGen' = gen
      /\ UNCHANGED <<head, up, subscribed, wire, replaying, gen, queue, calling, ready,
                     closed, seen, foreign>>
    BY <1>1 DEF IsCurrent, lineVars, appVars
<1>3. CurrentCall(c) /\ Answered(c) /\ replaying /\ subscribed /\ c.point = last
    BY <1>2 DEF IInv, CallsInv, CurrentCall
<1>4. /\ c.envs \in Seq(Envelope) /\ last \in Nat \cup {-1} /\ gen \in Nat /\ head \in Nat
      /\ head < ForeignSince /\ Base \in Int /\ (c.envs # <<>> => c.envs[1].seq \in Nat)
    <2>1. c.envs \in Seq(Envelope)
        BY Typed DEF IInv, Call
    <2>2. c.envs # <<>> => c.envs[1] \in Envelope
        BY <2>1, TailFacts
    <2> QED BY <2>1, <2>2, Typed DEF IInv, Envelope
<1>5. Base' = Base /\ Position = last /\ Position' = last' /\ calling' = NoCallback
    BY <1>2 DEF Base, Position, Settled
<1>6. ~foreign => last' = last
    BY <1>2, <1>3, <1>4 DEF ResetPoint, Answered
<1>7. foreign => /\ ~ready /\ Len(c.envs) = 1 /\ c.envs # <<>> /\ c.envs[1].keyframe
                 /\ c.envs[1].seq = last' + 1
    <2> SUFFICES ASSUME foreign
                 PROVE  /\ ~ready /\ Len(c.envs) = 1 /\ c.envs # <<>> /\ c.envs[1].keyframe
                        /\ c.envs[1].seq = last' + 1
        OBVIOUS
    <2>1. ~ready /\ last = ForeignSince
        BY <1>2 DEF IInv, ForeignInv, Settled
    <2>2. /\ c.initial /\ c.envs # <<>> /\ c.kind # "since" /\ Len(c.envs) = 1
          /\ c.envs[1].keyframe /\ c.envs[1].seq <= head
        BY <1>3, <2>1 DEF CurrentCall, Answered
    <2>3. ResetPoint(c) = c.envs[1].seq - 1
        BY <1>4, <2>1, <2>2 DEF ResetPoint
    <2> QED BY <1>2, <1>4, <2>1, <2>2, <2>3
<1>8. WireInv'
    BY <1>2, <1>5 DEF IInv, WireInv
<1>9. CallsInv'
    BY <1>2, <1>3 DEF IInv, CallsInv, CurrentCall
<1>10. ForeignInv'
    BY <1>2, <1>3, <1>5, <1>7 DEF ForeignInv
<1>11. DeliveryInv'
    <2>1. Consecutive(deliveryQueue') /\ \A i \in 1..Len(deliveryQueue') : deliveryQueue'[i].seq <= head'
        <3>1. c.envs = <<>> => Len(c.envs) = 0
            BY <1>4, EmptySeq
        <3> QED BY <1>2, <1>3, <3>1 DEF Answered
    <2>2. ~foreign' => Position' <= head'
        BY <1>2, <1>5, <1>6 DEF IInv, DeliveryInv
    <2>3. deliveryQueue' # <<>> /\ ~deliveryQueue'[1].keyframe => deliveryQueue'[1].seq <= Position' + 1
        BY <1>2, <1>3, <1>4, <1>5, <1>6, <1>7 DEF Answered
    <2>4. HasKeyframe /\ Position' = -1 => deliveryQueue' # <<>> /\ deliveryQueue'[1].keyframe
        BY <1>2, <1>3, <1>5, <1>6, <1>7 DEF Answered
    <2> QED BY <2>1, <2>2, <2>3, <2>4 DEF DeliveryInv
<1>12. CoverInv'
    <2>1. Base <= DeliveryEnd'
        BY <1>2, <1>3, <1>4, <1>5, <1>6, <1>7 DEF Answered, DeliveryEnd
    <2> QED BY <1>2, <1>3, <1>4, <1>5, <2>1 DEF CoverInv
<1>13. NoHole'
    BY <1>2, <1>5, <1>6 DEF IInv, NoHole
<1> QED BY <1>8, <1>9, <1>10, <1>11, <1>12, <1>13 DEF IInv

LEMMA ResumeMissingInv ==
    ASSUME IInv, TypeOK', ResumeMissing PROVE IInv'
<1>1. PICK c \in calls : ResumeMissing!(c)
    BY DEF ResumeMissing
<1>2. /\ Settled /\ ~closed /\ c.gen = gen /\ c.status = "missing"
      /\ UNCHANGED <<head, up, subscribed, wire, last, replaying, gen, queue, deliveryQueue,
                     calling, ready, closed, seen, foreign>>
    BY <1>1 DEF IsCurrent, lineVars, appVars
<1>3. CurrentCall(c) /\ replaying /\ subscribed /\ c.point = last
    BY <1>2 DEF IInv, CallsInv, CurrentCall
<1>4. last \in Nat \cup {-1} /\ gen \in Nat /\ head \in Nat /\ ForeignSince \in Nat
      /\ \A d \in calls : d.gen <= gen
    BY Typed, SubscribeAssumption DEF IInv, CallsInv
<1>5. Base' = Base /\ Position = last /\ Position' = Position /\ DeliveryEnd' = DeliveryEnd
    BY <1>2 DEF Base, Position, Settled, DeliveryEnd
<1>6. WireInv' /\ NoHole'
    BY <1>2, <1>5, NoHoleKept DEF IInv, WireInv
<1>7. CASE /\ c.kind = "since" /\ GapPolicy = "keyframe"
           /\ calls' = (calls \ {c}) \cup {Ask(c.gen, "keyframe", c.point, c.initial)}
           /\ UNCHANGED <<stage, stageGen>>
    <2> PICK d : d = Ask(c.gen, "keyframe", c.point, c.initial)
        OBVIOUS
    <2>1. /\ d.gen = gen /\ d.point = last /\ d.initial = c.initial /\ d.status = "asked"
          /\ d.kind = "keyframe"
        BY <1>2, <1>3 DEF Ask
    <2>2. calls' = (calls \ {c}) \cup {d} /\ \A x \in calls' : x.gen = gen => x = d
        BY <1>2, <1>3, <1>7 DEF CurrentCall
    <2>3. Settled' = Settled
        BY <1>2, <1>7 DEF Settled
    <2>4. CurrentCall(d)'
        BY <1>2, <1>3, <1>7, <2>1, <2>2, <2>3 DEF CurrentCall
    <2>5. CallsInv'
        BY <1>2, <1>4, <2>1, <2>2, <2>4 DEF CallsInv
    <2>6. DeliveryInv' /\ CoverInv' /\ ForeignInv'
        BY <1>2, <1>5, <1>7 DEF IInv, DeliveryInv, CoverInv, ForeignInv
    <2> QED BY <1>6, <2>5, <2>6 DEF IInv
<1>8. CASE /\ c.kind = "keyframe" /\ c.point < 0 /\ calls' = calls \ {c}
           /\ stage' = "tail" /\ stageGen' = c.gen
    <2>1. ~HasKeyframe /\ last = -1 /\ ~foreign /\ deliveryQueue = <<>> /\ DeliveryEnd = -1
        BY <1>2, <1>3, <1>4, <1>5, <1>8 DEF CurrentCall, IInv, ForeignInv, Settled, DeliveryEnd
    <2>2. CallsInv'
        BY <1>2, <1>3, <1>8 DEF IInv, CallsInv, CurrentCall
    <2>3. DeliveryInv'
        BY <1>2, <1>5, <2>1 DEF IInv, DeliveryInv
    <2>4. CoverInv'
        BY <1>2, <1>3, <1>4, <1>5, <1>8, <2>1 DEF CoverInv
    <2>5. ForeignInv'
        BY <1>2, <2>1 DEF ForeignInv
    <2> QED BY <1>6, <2>2, <2>3, <2>4, <2>5 DEF IInv
<1> QED BY <1>1, <1>7, <1>8

\* While a catch-up is past its answer there is no other one to resume.
LEMMA AtStage ==
    ASSUME IInv, ~closed, stage # "none"
    PROVE  /\ replaying /\ ~Settled /\ \A c \in calls : c.gen # gen
           /\ (deliveryQueue = <<>> => ~foreign /\ ~(HasKeyframe /\ Position = -1))
<1>1. replaying /\ ~Settled
    BY DEF IInv, CoverInv, Settled
<1>2. \A c \in calls : c.gen # gen
    BY <1>1, NoCurrentCall DEF IInv
<1>3. deliveryQueue = <<>> => ~foreign
    <2>1. deliveryQueue = <<>> => Len(deliveryQueue) = 0
        BY Typed, EmptySeq DEF IInv
    <2> QED BY <2>1 DEF IInv, ForeignInv
<1>4. deliveryQueue = <<>> => ~(HasKeyframe /\ Position = -1)
    BY DEF IInv, DeliveryInv
<1> QED BY <1>1, <1>2, <1>3, <1>4

LEMMA TailDeliveredInv ==
    ASSUME IInv, TypeOK', TailDelivered PROVE IInv'
<1>1. /\ stage = "tail" /\ calling = NoCallback /\ deliveryQueue = <<>>
      /\ stage' = (IF IsCurrent(stageGen) THEN "drain" ELSE "none")
      /\ UNCHANGED <<head, up, subscribed, wire, calls, last, replaying, gen, queue,
                     deliveryQueue, calling, stageGen, ready, closed, seen, foreign>>
    BY DEF TailDelivered, Returned, lineVars, netVars, appVars
<1>2. Base' = Base /\ Position' = Position /\ DeliveryEnd' = DeliveryEnd
    BY <1>1 DEF Base, Position, DeliveryEnd
<1>3. WireInv' /\ NoHole'
    BY <1>1, <1>2, NoHoleKept DEF IInv, WireInv
<1>4. CallsInv'
    BY <1>1, AtStage DEF IInv, CallsInv
<1>5. DeliveryInv' /\ ForeignInv'
    BY <1>1, <1>2, AtStage DEF IInv, DeliveryInv, ForeignInv
<1>6. CoverInv'
    BY <1>1, <1>2, AtStage DEF IInv, CoverInv, IsCurrent
<1> QED BY <1>3, <1>4, <1>5, <1>6 DEF IInv

LEMMA GoLiveInv ==
    ASSUME IInv, TypeOK', GoLive PROVE IInv'
<1>1. /\ stage = "drain" /\ calling = NoCallback /\ deliveryQueue = <<>> /\ queue = <<>>
      /\ stage' = "none" /\ replaying' = FALSE
      /\ UNCHANGED <<head, up, subscribed, wire, calls, last, gen, queue,
                     deliveryQueue, calling, stageGen, closed, seen, foreign>>
    BY DEF GoLive, Returned, lineVars, netVars, appVars
<1>2. Base' = Base /\ Position' = Position /\ DeliveryEnd' = DeliveryEnd
    BY <1>1 DEF Base, Position, DeliveryEnd
<1>3. WireInv' /\ NoHole'
    BY <1>1, <1>2, NoHoleKept DEF IInv, WireInv
<1>4. CallsInv'
    BY <1>1, AtStage DEF IInv, CallsInv
<1>5. DeliveryInv' /\ ForeignInv'
    BY <1>1, <1>2, AtStage DEF IInv, DeliveryInv, ForeignInv
<1>6. CoverInv'
    BY <1>1, <1>2 DEF IInv, CoverInv
<1> QED BY <1>3, <1>4, <1>5, <1>6 DEF IInv

LEMMA DrainQueueInv ==
    ASSUME IInv, TypeOK', DrainQueue PROVE IInv'
<1>1. /\ stage = "drain" /\ calling = NoCallback /\ deliveryQueue = <<>> /\ queue # <<>>
      /\ deliveryQueue' = queue /\ queue' = <<>>
      /\ UNCHANGED <<head, up, subscribed, wire, calls, last, replaying, gen,
                     calling, stage, stageGen, ready, closed, seen, foreign>>
    BY DEF DrainQueue, Returned, lineVars, netVars, appVars
<1>2. /\ subscribed /\ up /\ ~closed /\ \A i \in 1..Len(queue) : queue[i] = Event(Base + i)
      /\ \A i \in 1..Len(wire) : wire[i] = head - Len(wire) + i
    BY <1>1 DEF IInv, WireInv
<1>3. /\ head \in Nat /\ Len(wire) \in Nat /\ Len(queue) \in Nat /\ Base \in Int
      /\ queue \in Seq(Envelope) /\ Position \in Nat \cup {-1}
    BY Typed DEF IInv
<1>4. Len(queue) >= 1 /\ Len(queue') = 0
    BY <1>1, <1>3, TailFacts
<1>5. /\ replaying /\ ~Settled /\ ~foreign /\ ~(HasKeyframe /\ Position = -1)
      /\ \A c \in calls : c.gen # gen
    BY <1>1, <1>2, AtStage
<1>6. Base' = Base + Len(queue) /\ Base' <= head /\ Position' = Position
    BY <1>1, <1>3, <1>4 DEF Base, Position
<1>7. \A i \in 1..Len(queue) : queue[i].seq = Base + i /\ ~queue[i].keyframe
    <2> TAKE i \in 1..Len(queue)
    <2>1. queue[i] = Event(Base + i)
        BY <1>2
    <2> QED BY <2>1 DEF Event
<1>8. WireInv'
    BY <1>1, <1>2, <1>4 DEF WireInv
<1>9. CallsInv'
    BY <1>1, <1>5 DEF IInv, CallsInv
<1>10. ForeignInv'
    BY <1>1, <1>5 DEF ForeignInv
<1>11. NoHole'
    BY <1>1, <1>6, NoHoleKept DEF IInv
<1>12. DeliveryInv'
    <2>1. Consecutive(queue)
        <3> SUFFICES ASSUME NEW i \in 1..(Len(queue) - 1)
                     PROVE  queue[i + 1].seq = queue[i].seq + 1 /\ ~queue[i + 1].keyframe
            BY DEF Consecutive
        <3>1. i \in 1..Len(queue) /\ i + 1 \in 1..Len(queue)
            BY <1>3
        <3> QED BY <1>3, <1>7, <3>1
    <2>2. \A i \in 1..Len(queue) : queue[i].seq <= head
        <3> TAKE i \in 1..Len(queue)
        <3>1. Base + i <= Base + Len(queue)
            BY <1>3
        <3> QED BY <1>3, <1>6, <1>7, <3>1
    <2>3. queue[1].seq <= Position + 1 \/ (Position = -1 /\ ~HasKeyframe)
        <3>1. Base <= Position \/ (Position = -1 /\ ~HasKeyframe)
            BY <1>1, <1>2 DEF IInv, CoverInv, DeliveryEnd
        <3>2. queue[1].seq = Base + 1
            BY <1>3, <1>4, <1>7
        <3> QED BY <1>3, <3>1, <3>2
    <2>4. Position <= head
        BY <1>2, <1>5 DEF IInv, DeliveryInv
    <2> QED BY <1>1, <1>5, <1>6, <2>1, <2>2, <2>3, <2>4 DEF DeliveryInv
<1>13. CoverInv'
    <2>1. DeliveryEnd' = Base'
        BY <1>1, <1>3, <1>4, <1>6, <1>7 DEF DeliveryEnd
    <2> QED BY <1>1, <1>2, <1>3, <1>5, <1>6, <2>1 DEF IInv, CoverInv
<1> QED BY <1>8, <1>9, <1>10, <1>11, <1>12, <1>13 DEF IInv

LEMMA NextInv == IInv /\ [Next]_vars => IInv'
<1> SUFFICES ASSUME IInv, [Next]_vars PROVE IInv'
    OBVIOUS
<1>1. TypeOK'
    BY NextTyped DEF IInv
<1>2. CASE EmitLive \/ ServerSubscribes \/ ServerAnswers \/ Disconnect \/ Connect \/ LiveTap
    BY <1>1, <1>2, EmitLiveInv, ServerSubscribesInv, ServerAnswersInv, DisconnectInv,
       ConnectInv, LiveTapInv
<1>3. CASE SkipDelivered \/ CallbackStarts \/ CallbackReturns \/ ResumeAnswered
           \/ ResumeMissing \/ TailDelivered \/ DrainQueue \/ GoLive
    BY <1>1, <1>3, SkipDeliveredInv, CallbackStartsInv, CallbackReturnsInv,
       ResumeAnsweredInv, ResumeMissingInv, TailDeliveredInv, DrainQueueInv, GoLiveInv
<1>4. CASE LineEnds \/ DeliveryFails \/ ResumeFails \/ Off
    <2>1. CloseSubscription /\ calls' \subseteq calls
          /\ UNCHANGED <<last, calling, seen, foreign>>
        BY <1>4 DEF LineEnds, DeliveryFails, ResumeFails, Off, FailRecovery, appVars
    <2> QED BY <1>1, <2>1, CloseInv
<1>5. CASE ExpireJournal \/ ResumeStale \/ UNCHANGED vars
    <2>1. calls' \subseteq calls
          /\ UNCHANGED <<head, up, subscribed, wire, last, replaying, gen, queue,
                         deliveryQueue, calling, stage, stageGen, ready, closed,
                         seen, foreign>>
        BY <1>5 DEF ExpireJournal, Expire, ResumeStale, vars, lineVars, netVars, subVars, appVars
    <2> QED BY <1>1, <2>1, ForgetInv
<1> QED BY <1>2, <1>3, <1>4, <1>5 DEF Next

\* The inductive invariant holds of every reachable state.
THEOREM Invariant == Spec => []IInv
<1> QED BY InitInv, NextInv, PTL DEF Spec

\* replay-wire.ts: whatever the interleaving of answers, live events, callbacks
\* and disconnects, the consumer's state has no hole.
THEOREM NeverAHole == Spec => []NoHole
<1>1. IInv => NoHole
    BY DEF IInv
<1> QED BY <1>1, Invariant, PTL

\* A subscriber that is live, connected and at rest has lost nothing: every
\* event after its position is on the wire to it (attachLiveLine before catchUp,
\* drainLiveQueue before the hand-over).
THEOREM NothingLostWhileLive == Spec => []LiveIsComplete
<1>1. IInv => LiveIsComplete
    <2> SUFFICES ASSUME IInv, ~replaying, ~closed, up, Settled, last >= 0,
                        NEW s \in (last + 1)..head
                 PROVE  \E i \in 1..Len(wire) : wire[i] = s
        BY DEF LiveIsComplete
    <2>1. /\ head \in Nat /\ Len(wire) \in Nat /\ last \in Nat /\ s \in Int
          /\ queue \in Seq(Envelope)
        BY Typed DEF IInv
    <2>2. subscribed /\ queue = <<>> /\ Len(queue) = 0
        BY <2>1, EmptySeq DEF IInv, CoverInv
    <2>3. head - Len(wire) <= last
        BY <2>1, <2>2 DEF IInv, CoverInv, DeliveryEnd, Settled, Position, Base
    <2>4. s - (head - Len(wire)) \in 1..Len(wire)
        BY <2>1, <2>3
    <2>5. wire[s - (head - Len(wire))] = head - Len(wire) + (s - (head - Len(wire)))
        BY <2>4 DEF IInv, WireInv
    <2> QED BY <2>1, <2>4, <2>5
<1> QED BY <1>1, Invariant, PTL

\* The number of a running callback is ahead of the committed one.
CallingAhead == calling # NoCallback => calling > last

LEMMA CallingAheadInv == IInv /\ CallingAhead /\ [Next]_vars => CallingAhead'
<1> SUFFICES ASSUME IInv, CallingAhead, [Next]_vars PROVE CallingAhead'
    OBVIOUS
<1>1. CASE CallbackStarts
    BY <1>1 DEF CallbackStarts, CallingAhead
<1>2. CASE CallbackReturns
    BY <1>2 DEF CallbackReturns, CallingAhead
<1>3. CASE ResumeAnswered
    BY <1>3 DEF ResumeAnswered, CallingAhead, Settled
<1>4. ~(CallbackStarts \/ CallbackReturns \/ ResumeAnswered) => UNCHANGED <<calling, last>>
    BY DEF Next, EmitLive, ExpireJournal, ServerSubscribes, ServerAnswers, LineEnds,
           Disconnect, Connect, LiveTap, SkipDelivered, DeliveryFails, ResumeMissing,
           ResumeFails, ResumeStale, TailDelivered, DrainQueue, GoLive, Off, vars, subVars
<1> QED BY <1>1, <1>2, <1>3, <1>4 DEF CallingAhead

\* deliverSorted: the resume point moves back in the first catch-up of a consumer
\* that came from another lifetime of the line, and never otherwise.
THEOREM NeverGoesBack == Spec => NeverBackwards
<1>1. Init => CallingAhead
    BY DEF Init, CallingAhead
<1>2. ASSUME IInv, CallingAhead, [Next]_vars, last' < last PROVE ~ready /\ foreign
    <2>1. CASE CallbackReturns
        BY <1>2, <2>1, Typed DEF CallbackReturns, CallingAhead, IInv, TypeOK, NoCallback
    <2>2. CASE ResumeAnswered
        <3>1. PICK c \in calls : ResumeAnswered!(c)
            BY <2>2 DEF ResumeAnswered
        <3>2. /\ Settled /\ ~closed /\ c.gen = gen /\ c.status = "answered"
              /\ last' = ResetPoint(c)
            BY <3>1 DEF IsCurrent
        <3>3. c.point = last /\ Answered(c) /\ last \in Nat \cup {-1}
            BY <1>2, <3>2, Typed DEF IInv, CallsInv, CurrentCall
        <3>4. c.envs # <<>> => c.envs[1].seq \in Nat
            <4>1. c.envs \in Seq(Envelope)
                BY <1>2, Typed DEF IInv, Call
            <4>2. c.envs # <<>> => c.envs[1] \in Envelope
                BY <4>1, TailFacts
            <4> QED BY <4>2 DEF Envelope
        <3>5. foreign
            BY <1>2, <3>2, <3>3, <3>4 DEF ResetPoint, Answered
        <3> QED BY <1>2, <3>2, <3>5 DEF IInv, ForeignInv
    <2>3. ~(CallbackReturns \/ ResumeAnswered) => last' = last
        BY <1>2 DEF Next, EmitLive, ExpireJournal, ServerSubscribes, ServerAnswers, LineEnds,
               Disconnect, Connect, LiveTap, SkipDelivered, CallbackStarts, DeliveryFails,
               ResumeMissing, ResumeFails, ResumeStale, TailDelivered, DrainQueue, GoLive,
               Off, vars, subVars
    <2>4. last \in Int
        BY <1>2, Typed DEF IInv
    <2> QED BY <1>2, <2>1, <2>2, <2>3, <2>4
<1>3. IInv /\ CallingAhead /\ [Next]_vars => [last' < last => ~ready /\ foreign]_vars
    BY <1>2
<1> QED BY <1>1, <1>3, CallingAheadInv, Invariant, PTL DEF Spec, NeverBackwards

-----------------------------------------------------------------------------
(* The promise of ReplicaView, and what the strict policy adds to it *)

\* What the line hands out: events that have a number, and a whole state only if it has one.
Given(e) == IF e.keyframe THEN HasKeyframe ELSE e.seq >= 1

\* Everything on its way to the consumer was handed out by the line.
GivenInv ==
    /\ \A i \in 1..Len(wire) : wire[i] >= 1
    /\ \A i \in 1..Len(queue) : Given(queue[i])
    /\ \A i \in 1..Len(deliveryQueue) : Given(deliveryQueue[i])
    /\ \A c \in calls : c.kind # "keyframe" => c.point >= 0
    /\ \A c \in calls : \A i \in 1..Len(c.envs) : Given(c.envs[i])

\* An event by itself.
LEMMA EventFacts == \A s : ~Event(s).keyframe /\ Event(s).seq = s
BY DEF Event

\* What the head of a queue leaves behind, and what is put at its end.
LEMMA PlacesKept ==
    ASSUME NEW S, NEW s \in Seq(S)
    PROVE  /\ s # <<>> => \A i \in 1..Len(Tail(s)) : i + 1 \in 1..Len(s) /\ Tail(s)[i] = s[i + 1]
           /\ \A e \in S : \A i \in 1..Len(Append(s, e)) :
                \/ i \in 1..Len(s) /\ Append(s, e)[i] = s[i]
                \/ Append(s, e)[i] = e
<1>1. s # <<>> => \A i \in 1..Len(Tail(s)) : i + 1 \in 1..Len(s) /\ Tail(s)[i] = s[i + 1]
    OBVIOUS
<1>2. ASSUME NEW e \in S, NEW i \in 1..Len(Append(s, e))
      PROVE  (i \in 1..Len(s) /\ Append(s, e)[i] = s[i]) \/ Append(s, e)[i] = e
    OBVIOUS
<1> QED BY <1>1, <1>2

\* Whatever the server answers.
LEMMA AnswerGiven ==
    ASSUME LineTypeOK, NEW c \in Call, c.kind # "keyframe" => c.point >= 0,
           \A i \in 1..Len(c.envs) : Given(c.envs[i])
    PROVE  /\ Answer(c).kind = c.kind /\ Answer(c).point = c.point
           /\ \A i \in 1..Len(Answer(c).envs) : Given(Answer(c).envs[i])
<1>1. head \in Nat /\ c.point \in Nat \cup {-1}
    BY LineAssumption DEF LineTypeOK, Call
<1>2. c = [gen |-> c.gen, kind |-> c.kind, point |-> c.point, initial |-> c.initial,
           status |-> c.status, envs |-> c.envs]
    BY DEF Call
<1>3. Answer(c).kind = c.kind /\ Answer(c).point = c.point
    BY <1>2 DEF Answer
<1>4. HasKeyframe => \A i \in 1..Len(<<StateAt(head)>>) : Given(<<StateAt(head)>>[i])
    BY DEF StateAt, Given
<1>5. ASSUME JournalHas(c.point), c.kind # "keyframe"
      PROVE  \A i \in 1..Len(TailAfter(c.point)) : Given(TailAfter(c.point)[i])
    <2>1. c.point \in Nat /\ c.point <= head
        BY <1>1, <1>5 DEF JournalHas
    <2>2. \A i \in 1..Len(TailAfter(c.point)) :
            TailAfter(c.point)[i] = Event(c.point + i) /\ c.point + i >= 1
        <3> DEFINE p == c.point
        <3>1. p \in Int /\ p \in Nat /\ p <= head /\ head \in Nat
            BY <1>1, <2>1
        <3> HIDE DEF p
        <3>2. /\ Len(TailAfter(p)) = head - p
              /\ \A i \in 1..(head - p) : TailAfter(p)[i] = Event(p + i)
            BY <3>1, TailAfterFacts
        <3>3. \A i \in 1..(head - p) : p + i >= 1
            BY <3>1
        <3> QED BY <3>2, <3>3 DEF p
    <2> QED BY <2>2, EventFacts DEF Given
<1>6. Answer(c).envs \in {c.envs, <<StateAt(head)>>, TailAfter(c.point)}
      /\ (Answer(c).envs = c.envs \/ (Answer(c).envs = <<StateAt(head)>> /\ HasKeyframe)
          \/ (Answer(c).envs = TailAfter(c.point) /\ JournalHas(c.point) /\ c.kind # "keyframe"))
    BY <1>2 DEF Answer, FrameAnswers, FrameAfter
<1> QED BY <1>3, <1>4, <1>5, <1>6

LEMMA GivenStarts == Init => GivenInv
<1> SUFFICES ASSUME Init PROVE GivenInv
    OBVIOUS
<1>1. last \in Int
    BY LineAssumption, SubscribeAssumption DEF Init
<1>2. \A c \in calls : (c.kind # "keyframe" => c.point >= 0) /\ c.envs = <<>>
    BY <1>1 DEF Init, Ask, FirstKind
<1>3. wire = <<>> /\ queue = <<>> /\ deliveryQueue = <<>> /\ Len(<<>>) = 0
    BY DEF Init
<1> QED BY <1>2, <1>3 DEF GivenInv

LEMMA GivenStep == IInv /\ GivenInv /\ [Next]_vars => GivenInv'
<1> SUFFICES ASSUME IInv, GivenInv, [Next]_vars PROVE GivenInv'
    OBVIOUS
<1>t. /\ head \in Nat /\ wire \in Seq(Nat) /\ queue \in Seq(Envelope)
      /\ deliveryQueue \in Seq(Envelope) /\ last \in Nat \cup {-1}
      /\ \A c \in calls : c \in Call
    BY Typed DEF IInv
<1>e. \A s \in Nat : Event(s) \in Envelope /\ (s >= 1 => Given(Event(s)))
    BY DEF Event, Envelope, Given
<1>1. CASE EmitLive
    <2>1. \A i \in 1..Len(wire') : wire'[i] >= 1
        BY <1>1, <1>t, PlacesKept DEF EmitLive, GivenInv
    <2> QED BY <1>1, <2>1 DEF EmitLive, GivenInv, subVars
<1>2. CASE ServerAnswers
    <2>1. PICK c \in calls : calls' = (calls \ {c}) \cup {Answer(c)}
        BY <1>2 DEF ServerAnswers
    <2>2. /\ Answer(c).kind # "keyframe" => Answer(c).point >= 0
          /\ \A i \in 1..Len(Answer(c).envs) : Given(Answer(c).envs[i])
        BY <1>t, AnswerGiven DEF IInv, TypeOK, GivenInv
    <2> QED BY <1>2, <2>1, <2>2 DEF ServerAnswers, GivenInv, subVars
<1>3. CASE Disconnect
    <2>1. wire' = <<>> /\ (queue' = queue \/ queue' = <<>>) /\ deliveryQueue' = deliveryQueue
          /\ calls' \subseteq calls
        BY <1>3 DEF Disconnect, subVars
    <2> QED BY <2>1 DEF GivenInv
<1>4. CASE Connect
    <2>1. /\ UNCHANGED <<wire, queue, deliveryQueue>>
          /\ \/ calls' = calls
             \/ \E i : calls' = calls \cup {Ask(gen + 1, FirstKind(last), last, i)}
        BY <1>4 DEF Connect, StartCatchUp, subVars
    <2>2. \A i : /\ Ask(gen + 1, FirstKind(last), last, i).envs = <<>>
                 /\ Ask(gen + 1, FirstKind(last), last, i).kind # "keyframe"
                    => Ask(gen + 1, FirstKind(last), last, i).point >= 0
        BY <1>t DEF Ask, FirstKind
    <2> QED BY <2>1, <2>2 DEF GivenInv
<1>5. CASE LiveTap
    <2>1. /\ wire # <<>> /\ wire' = Tail(wire) /\ UNCHANGED calls
          /\ \/ queue' = Append(queue, Event(Head(wire))) /\ UNCHANGED deliveryQueue
             \/ deliveryQueue' = Append(deliveryQueue, Event(Head(wire))) /\ UNCHANGED queue
        BY <1>5 DEF LiveTap
    <2>2. Head(wire) \in Nat /\ Head(wire) >= 1
        BY <1>t, <2>1, TailFacts DEF GivenInv
    <2>3. \A i \in 1..Len(wire') : wire'[i] >= 1
        BY <1>t, <2>1, PlacesKept DEF GivenInv
    <2> DEFINE v == Event(Head(wire))
    <2>6. v \in Envelope /\ Given(v)
        BY <1>e, <2>2
    <2> HIDE DEF v
    <2>7. /\ \A i \in 1..Len(Append(queue, v)) : Given(Append(queue, v)[i])
          /\ \A i \in 1..Len(Append(deliveryQueue, v)) : Given(Append(deliveryQueue, v)[i])
        BY <1>t, <2>6, PlacesKept DEF GivenInv
    <2>4. \A i \in 1..Len(queue') : Given(queue'[i])
        BY <2>1, <2>7 DEF GivenInv, v
    <2>5. \A i \in 1..Len(deliveryQueue') : Given(deliveryQueue'[i])
        BY <2>1, <2>7 DEF GivenInv, v
    <2> QED BY <2>1, <2>3, <2>4, <2>5 DEF GivenInv
<1>6. CASE SkipDelivered \/ CallbackStarts
    <2>1. /\ deliveryQueue # <<>> /\ deliveryQueue' = Tail(deliveryQueue)
          /\ UNCHANGED <<wire, queue, calls>>
        BY <1>6 DEF SkipDelivered, CallbackStarts, Delivering, netVars
    <2> QED BY <1>t, <2>1, PlacesKept DEF GivenInv
<1>7. CASE ResumeAnswered
    <2>1. PICK c \in calls : deliveryQueue' = c.envs /\ calls' = calls \ {c}
        BY <1>7 DEF ResumeAnswered
    <2> QED BY <1>7, <2>1 DEF ResumeAnswered, GivenInv
<1>8. CASE ResumeMissing
    <2>1. PICK c \in calls :
            \/ calls' = (calls \ {c}) \cup {Ask(c.gen, "keyframe", c.point, c.initial)}
            \/ calls' = calls \ {c}
        BY <1>8 DEF ResumeMissing
    <2>2. Ask(c.gen, "keyframe", c.point, c.initial).envs = <<>>
          /\ Ask(c.gen, "keyframe", c.point, c.initial).kind = "keyframe"
        BY DEF Ask
    <2> QED BY <1>8, <2>1, <2>2 DEF ResumeMissing, GivenInv
<1>9. CASE DrainQueue
    BY <1>9 DEF DrainQueue, GivenInv, netVars
<1>10. CASE LineEnds \/ DeliveryFails \/ ResumeFails \/ Off
    <2>1. CloseSubscription /\ calls' \subseteq calls
        BY <1>10 DEF LineEnds, DeliveryFails, ResumeFails, Off, FailRecovery, appVars
    <2> QED BY <2>1 DEF CloseSubscription, GivenInv
<1>11. CASE ExpireJournal \/ ServerSubscribes \/ CallbackReturns \/ ResumeStale \/ TailDelivered
            \/ GoLive \/ UNCHANGED vars
    <2>1. UNCHANGED <<wire, queue, deliveryQueue>> /\ calls' \subseteq calls
        BY <1>11 DEF ExpireJournal, ServerSubscribes, CallbackReturns, ResumeStale, TailDelivered,
               GoLive, vars, netVars, subVars
    <2> QED BY <2>1 DEF GivenInv
<1> QED BY <1>1, <1>2, <1>3, <1>4, <1>5, <1>6, <1>7, <1>8, <1>9, <1>10, <1>11 DEF Next

\* The consumer's state is replaced or extended by one callback, as the view may be.
LEMMA CallbackKeepsPromise ==
    ASSUME IInv, GivenInv, CallbackStarts PROVE View!Extend \/ View!Replace
<1> DEFINE e == deliveryQueue[1]
<1>1. /\ ~closed /\ calling = NoCallback /\ deliveryQueue # <<>> /\ Position = last
      /\ Head(deliveryQueue) = e /\ e \in Envelope /\ e.seq > last /\ Fold(e) /\ head' = head
      /\ 1 \in 1..Len(deliveryQueue)
    BY Typed, TailFacts DEF CallbackStarts, Delivering, IInv, Position, lineVars
<1>2. /\ e.seq \in Nat /\ e.seq <= head /\ head \in Nat /\ last \in Nat \cup {-1}
      /\ seen \subseteq Nat /\ Given(e)
    BY <1>1, Typed DEF IInv, DeliveryInv, GivenInv, Envelope, TypeOK
<1>3. \A a \in seen : a \in Nat /\ a <= last /\ a..last \subseteq seen
    BY <1>1, <1>2 DEF IInv, NoHole
<1>4. CASE e.keyframe
    <2>1. HasKeyframe /\ seen' = 1..e.seq /\ e.seq \in 0..head
        BY <1>1, <1>2, <1>4 DEF Given, Fold
    <2>2. seen \subseteq 1..e.seq
        BY <1>1, <1>2, <1>3, <2>1 DEF IInv, NoHole
    <2> QED BY <1>1, <2>1, <2>2 DEF View!Replace
<1>5. CASE ~e.keyframe
    <2>1. e.seq \in 1..head /\ seen' = seen \cup {e.seq}
        BY <1>1, <1>2, <1>5 DEF Given, Fold
    <2>2. ~foreign
        BY <1>1, <1>5 DEF IInv, ForeignInv
    <2>3. e.seq = last + 1 \/ (last = -1 /\ ~HasKeyframe)
        BY <1>1, <1>2, <1>5 DEF IInv, DeliveryInv
    <2>4. \A v \in seen : v < e.seq
        BY <1>1, <1>2, <1>3
    <2>5. seen # {} => e.seq - 1 \in seen
        <3> SUFFICES ASSUME NEW a \in seen PROVE e.seq - 1 \in seen
            OBVIOUS
        <3>1. a \in Nat /\ a <= last /\ a..last \subseteq seen
            BY <1>3
        <3>2. last \in a..last /\ e.seq - 1 = last
            BY <1>2, <2>3, <3>1
        <3> QED BY <3>1, <3>2
    <2>6. seen = {} /\ HasKeyframe => e.seq = 1
        BY <1>1, <1>2, <1>5, <2>2, <2>3 DEF IInv, NoHole, DeliveryInv
    <2> QED BY <1>1, <2>1, <2>4, <2>5, <2>6 DEF View!Extend
<1> QED BY <1>4, <1>5

\* Whatever the policies, the journal and the interleaving: the view of the consumer only ever
\* grows by the next event, or is replaced by a whole state that loses nothing; the
\* subscription implements ReplicaView (replay-wire.ts:228-490).
THEOREM PromiseKept == Spec => KeepsPromise
<1>1. Init => View!Init
    <2> SUFFICES ASSUME Init PROVE head \in Nat /\ \E k \in 0..head : seen = 1..k
        BY DEF View!Init
    <2>1. head \in Nat /\ head = FirstSeq /\ (seen = {} \/ seen = 1..FirstSeq)
        BY LineAssumption DEF Init, LineInit
    <2>2. 1..0 = {} /\ 0 \in 0..head /\ head \in 0..head
        BY <2>1
    <2> QED BY <2>1, <2>2
<1>2. IInv /\ GivenInv /\ [Next]_vars => [View!Next]_<<head, seen>>
    <2> SUFFICES ASSUME IInv, GivenInv, [Next]_vars PROVE View!Next \/ UNCHANGED <<head, seen>>
        OBVIOUS
    <2>1. CASE EmitLive
        BY <2>1 DEF EmitLive, Emit, appVars, View!Next, View!Produce
    <2>2. CASE CallbackStarts
        BY <2>2, CallbackKeepsPromise DEF View!Next
    <2>3. ~(EmitLive \/ CallbackStarts) => UNCHANGED <<head, seen>>
        BY DEF Next, ExpireJournal, Expire, ServerSubscribes, ServerAnswers, LineEnds, Disconnect,
               Connect, LiveTap, SkipDelivered, CallbackReturns, DeliveryFails, ResumeAnswered,
               ResumeMissing, ResumeFails, ResumeStale, TailDelivered, DrainQueue, GoLive, Off,
               vars, lineVars, appVars
    <2> QED BY <2>1, <2>2, <2>3
<1> QED BY <1>1, <1>2, GivenStarts, GivenStep, Invariant, PTL DEF Spec, KeepsPromise, View!Spec

\* Under the strict policies a keyframe is for a consumer that has nothing, and a callback
\* works on the next event.
StrictInv ==
    /\ \A i \in 1..Len(deliveryQueue) : deliveryQueue[i].keyframe => Position = -1
    /\ calling # NoCallback => last = -1 \/ (calling = last + 1 /\ ~byKeyframe)
    /\ \A c \in calls :
        /\ c.kind # "frame"
        /\ c.kind = "keyframe" => c.point = -1
        /\ c.kind = "since" => \A i \in 1..Len(c.envs) : ~c.envs[i].keyframe

\* What the server answers to them.
LEMMA StrictAnswer ==
    ASSUME LineTypeOK, NEW c \in Call, c.kind # "frame", c.kind = "since" => c.point >= 0,
           c.kind = "since" => \A i \in 1..Len(c.envs) : ~c.envs[i].keyframe
    PROVE  /\ Answer(c).kind = c.kind /\ Answer(c).point = c.point
           /\ c.kind = "since" => \A i \in 1..Len(Answer(c).envs) : ~Answer(c).envs[i].keyframe
<1>1. head \in Nat /\ c.point \in Nat \cup {-1}
    BY LineAssumption DEF LineTypeOK, Call
<1>2. c = [gen |-> c.gen, kind |-> c.kind, point |-> c.point, initial |-> c.initial,
           status |-> c.status, envs |-> c.envs]
    BY DEF Call
<1>3. Answer(c).kind = c.kind /\ Answer(c).point = c.point
    BY <1>2 DEF Answer
<1>4. ASSUME JournalHas(c.point), c.kind = "since"
      PROVE  \A i \in 1..Len(TailAfter(c.point)) : ~TailAfter(c.point)[i].keyframe
    <2>1. c.point \in Nat /\ c.point <= head
        BY <1>1, <1>4 DEF JournalHas
    <2>2. \A i \in 1..Len(TailAfter(c.point)) : TailAfter(c.point)[i] = Event(c.point + i)
        <3> DEFINE p == c.point
        <3>1. p \in Int /\ p \in Nat /\ p <= head /\ head \in Nat
            BY <1>1, <2>1
        <3> HIDE DEF p
        <3>2. /\ Len(TailAfter(p)) = head - p
              /\ \A i \in 1..(head - p) : TailAfter(p)[i] = Event(p + i)
            BY <3>1, TailAfterFacts
        <3>3. \A i \in 1..(head - p) : p + i >= 1
            BY <3>1
        <3> QED BY <3>2, <3>3 DEF p
    <2> QED BY <2>2, EventFacts
<1>5. c.kind = "since" =>
        Answer(c).envs = c.envs \/ (Answer(c).envs = TailAfter(c.point) /\ JournalHas(c.point))
    BY <1>2 DEF Answer
<1> QED BY <1>3, <1>4, <1>5

\* Their answers are delivered from the present resume point.
LEMMA StrictAnchor ==
    ASSUME IInv, StrictInv, NEW c \in calls, ~closed, c.gen = gen
    PROVE  ResetPoint(c) = last
<1>1. c.point = last /\ last \in Nat \cup {-1} /\ c \in Call
    BY Typed DEF IInv, CallsInv, CurrentCall
<1>2. c.kind = "since" => ResetPoint(c) = last
    BY DEF ResetPoint
<1>3. ASSUME c.kind = "keyframe", c.envs # <<>> PROVE ~(c.envs[1].seq <= last)
    <2>1. c.envs[1] \in Envelope
        BY <1>1, <1>3, TailFacts DEF Call
    <2>2. last = -1
        BY <1>1, <1>3 DEF StrictInv
    <2> QED BY <2>1, <2>2 DEF Envelope
<1>4. c.kind \in {"since", "keyframe"}
    BY <1>1 DEF StrictInv, Call
<1> QED BY <1>2, <1>3, <1>4 DEF ResetPoint

LEMMA StrictStarts == ASSUME CatchUpMode = "tail" PROVE Init => StrictInv
<1> SUFFICES ASSUME Init PROVE StrictInv
    OBVIOUS
<1>1. last \in Nat \cup {-1}
    BY LineAssumption, SubscribeAssumption DEF Init
<1>2. \A c \in calls : c.kind # "frame" /\ (c.kind = "keyframe" => c.point = -1) /\ c.envs = <<>>
    BY <1>1 DEF Init, Ask, FirstKind
<1>3. deliveryQueue = <<>> /\ calling = NoCallback /\ Len(<<>>) = 0
    BY DEF Init
<1> QED BY <1>2, <1>3 DEF StrictInv

LEMMA StrictStep ==
    ASSUME CatchUpMode = "tail", GapPolicy = "error", IInv, GivenInv, StrictInv, [Next]_vars
    PROVE  StrictInv'
<1>t. /\ head \in Nat /\ wire \in Seq(Nat) /\ queue \in Seq(Envelope)
      /\ deliveryQueue \in Seq(Envelope) /\ last \in Nat \cup {-1} /\ LineTypeOK
      /\ \A c \in calls : c \in Call
    BY Typed DEF IInv, TypeOK
<1>1. CASE ServerAnswers
    <2>1. PICK c \in calls : calls' = (calls \ {c}) \cup {Answer(c)}
        BY <1>1 DEF ServerAnswers
    <2>2. /\ Answer(c).kind = c.kind /\ Answer(c).point = c.point
          /\ c.kind = "since" => \A i \in 1..Len(Answer(c).envs) : ~Answer(c).envs[i].keyframe
        BY <1>t, StrictAnswer DEF GivenInv, StrictInv
    <2> QED BY <1>1, <2>1, <2>2 DEF ServerAnswers, StrictInv, subVars, appVars, Position
<1>2. CASE Disconnect
    <2>1. UNCHANGED <<deliveryQueue, calling, last, byKeyframe>> /\ calls' \subseteq calls
        BY <1>2 DEF Disconnect, subVars, appVars
    <2> QED BY <2>1 DEF StrictInv, Position
<1>3. CASE Connect
    <2>1. /\ UNCHANGED <<deliveryQueue, calling, last, byKeyframe>>
          /\ \/ calls' = calls
             \/ \E i : calls' = calls \cup {Ask(gen + 1, FirstKind(last), last, i)}
        BY <1>3 DEF Connect, StartCatchUp, subVars, appVars
    <2>2. \A i : LET d == Ask(gen + 1, FirstKind(last), last, i) IN
                 d.kind # "frame" /\ (d.kind = "keyframe" => d.point = -1) /\ d.envs = <<>>
        BY <1>t DEF Ask, FirstKind
    <2> QED BY <2>1, <2>2 DEF StrictInv, Position
<1>4. CASE LiveTap
    <2>1. /\ wire # <<>> /\ UNCHANGED <<calls, calling, last, byKeyframe>>
          /\ \/ deliveryQueue' = Append(deliveryQueue, Event(Head(wire)))
             \/ UNCHANGED deliveryQueue
        BY <1>4 DEF LiveTap, appVars
    <2>2. Event(Head(wire)) \in Envelope /\ ~Event(Head(wire)).keyframe
        BY <1>t, <2>1, TailFacts DEF Event, Envelope
    <2>3. \A i \in 1..Len(deliveryQueue') : deliveryQueue'[i].keyframe => Position = -1
        <3> DEFINE v == Event(Head(wire))
        <3> HIDE DEF v
        <3>1. v \in Envelope /\ ~v.keyframe
            BY <2>2 DEF v
        <3>p. \A i \in 1..Len(Append(deliveryQueue, v)) :
                \/ i \in 1..Len(deliveryQueue) /\ Append(deliveryQueue, v)[i] = deliveryQueue[i]
                \/ Append(deliveryQueue, v)[i] = v
            BY <1>t, <3>1, PlacesKept
        <3>s. \A i \in 1..Len(deliveryQueue) : deliveryQueue[i].keyframe => Position = -1
            BY DEF StrictInv
        <3>2. \A i \in 1..Len(Append(deliveryQueue, v)) :
                Append(deliveryQueue, v)[i].keyframe => Position = -1
            <4> HIDE DEF Position
            <4> QED BY <3>p, <3>s, <3>1
        <3> QED BY <2>1, <3>2 DEF StrictInv, v
    <2> QED BY <2>1, <2>3 DEF StrictInv, Position
<1>5. CASE SkipDelivered
    <2>1. /\ deliveryQueue # <<>> /\ deliveryQueue' = Tail(deliveryQueue)
          /\ UNCHANGED <<calls, calling, last, byKeyframe>>
        BY <1>5 DEF SkipDelivered, Delivering, netVars, appVars
    <2>2. \A i \in 1..Len(deliveryQueue') : deliveryQueue'[i].keyframe => Position = -1
        BY <1>t, <2>1, PlacesKept DEF StrictInv
    <2> QED BY <2>1, <2>2 DEF StrictInv, Position
<1>6. CASE CallbackStarts
    <2> DEFINE e == deliveryQueue[1]
    <2>1. /\ ~closed /\ calling = NoCallback /\ deliveryQueue # <<>> /\ Head(deliveryQueue) = e
          /\ e \in Envelope /\ ~NonContiguous(e) /\ calling' = e.seq /\ Fold(e)
          /\ deliveryQueue' = Tail(deliveryQueue) /\ UNCHANGED <<calls, last>>
          /\ 1 \in 1..Len(deliveryQueue)
        BY <1>t, <1>6, TailFacts DEF CallbackStarts, Delivering, netVars
    <2>2. \A i \in 1..Len(deliveryQueue') : ~deliveryQueue'[i].keyframe
        <3> TAKE i \in 1..Len(deliveryQueue')
        <3>1. i + 1 \in 1..Len(deliveryQueue) /\ deliveryQueue'[i] = deliveryQueue[i + 1]
            BY <1>t, <2>1, PlacesKept
        <3>2. i \in 1..(Len(deliveryQueue) - 1)
            BY <1>t, <3>1
        <3> QED BY <2>1, <3>1, <3>2 DEF IInv, DeliveryInv, Consecutive
    <2>3. last = -1 \/ (calling' = last + 1 /\ ~byKeyframe')
        <3>1. e.keyframe => last = -1
            BY <2>1 DEF StrictInv, Position
        <3>2. last # -1 => e.seq = last + 1
            BY <1>t, <2>1 DEF NonContiguous
        <3> QED BY <2>1, <3>1, <3>2 DEF Fold
    <2> QED BY <2>1, <2>2, <2>3 DEF StrictInv
<1>7. CASE CallbackReturns
    BY <1>7 DEF CallbackReturns, StrictInv, Position, netVars
<1>8. CASE ResumeAnswered
    <2>1. PICK c \in calls : ResumeAnswered!(c)
        BY <1>8 DEF ResumeAnswered
    <2>2. /\ Settled /\ ~closed /\ c.gen = gen /\ deliveryQueue' = c.envs /\ calls' = calls \ {c}
          /\ last' = ResetPoint(c) /\ UNCHANGED calling /\ calling = NoCallback
        BY <2>1 DEF IsCurrent, Settled
    <2>3. c.point = last /\ c.kind \in {"since", "keyframe"}
        BY <1>t, <2>2 DEF IInv, CallsInv, CurrentCall, StrictInv, Call
    <2>4. last' = last
        BY <1>t, <2>2, <2>3, StrictAnchor
    <2>5. \A i \in 1..Len(deliveryQueue') : deliveryQueue'[i].keyframe => Position' = -1
        BY <2>2, <2>3, <2>4 DEF StrictInv, Position
    <2> QED BY <2>2, <2>5 DEF StrictInv
<1>9. CASE ResumeMissing
    <2>1. PICK c \in calls :
            /\ \/ c.kind = "since" /\ GapPolicy = "keyframe"
               \/ calls' = calls \ {c}
        BY <1>9 DEF ResumeMissing
    <2>2. calls' \subseteq calls /\ UNCHANGED <<deliveryQueue, calling, last, byKeyframe>>
        BY <1>9, <2>1 DEF ResumeMissing, appVars
    <2> QED BY <2>2 DEF StrictInv, Position
<1>10. CASE DrainQueue
    <2>1. deliveryQueue' = queue /\ UNCHANGED <<calls, calling, last, byKeyframe>>
        BY <1>10 DEF DrainQueue, netVars, appVars
    <2>2. \A i \in 1..Len(queue) : ~queue[i].keyframe
        <3>1. \A i \in 1..Len(queue) : queue[i] = Event(Base + i)
            BY DEF IInv, WireInv
        <3> QED BY <3>1, EventFacts
    <2> QED BY <2>1, <2>2 DEF StrictInv, Position
<1>11. CASE LineEnds \/ DeliveryFails \/ ResumeFails \/ Off
    <2>1. /\ deliveryQueue' = <<>> /\ calls' \subseteq calls
          /\ UNCHANGED <<calling, last, byKeyframe>>
        BY <1>11 DEF LineEnds, DeliveryFails, ResumeFails, Off, FailRecovery, CloseSubscription, appVars
    <2> QED BY <2>1 DEF StrictInv, Position
<1>12. CASE EmitLive \/ ExpireJournal \/ ServerSubscribes \/ ResumeStale \/ TailDelivered
            \/ GoLive \/ UNCHANGED vars
    <2>1. UNCHANGED <<deliveryQueue, calling, last, byKeyframe>> /\ calls' \subseteq calls
        BY <1>12 DEF EmitLive, ExpireJournal, ServerSubscribes, ResumeStale, TailDelivered,
               GoLive, vars, netVars, subVars, appVars
    <2> QED BY <2>1 DEF StrictInv, Position
<1> QED BY <1>1, <1>2, <1>3, <1>4, <1>5, <1>6, <1>7, <1>8, <1>9, <1>10, <1>11, <1>12 DEF Next

\* gapPolicy 'error' with tail catch-ups: a consumer that has anything advances event by event,
\* and no keyframe stands in for events it has not seen (replay-wire.ts:235-242, 434-440).
THEOREM StrictAdvancesByOne ==
    ASSUME CatchUpMode = "tail", GapPolicy = "error"
    PROVE  Spec => [][last >= 0 /\ last' # last => last' = last + 1 /\ ~byKeyframe']_vars
<1>1. ASSUME IInv, StrictInv, [Next]_vars, last >= 0, last' # last
      PROVE  last' = last + 1 /\ ~byKeyframe'
    <2>1. CASE CallbackReturns
        BY <1>1, <2>1 DEF CallbackReturns, StrictInv, appVars
    <2>2. CASE ResumeAnswered
        <3>1. PICK c \in calls : ResumeAnswered!(c)
            BY <2>2 DEF ResumeAnswered
        <3>2. ~closed /\ c.gen = gen /\ last' = ResetPoint(c)
            BY <3>1 DEF IsCurrent
        <3> QED BY <1>1, <3>2, StrictAnchor
    <2>3. ~(CallbackReturns \/ ResumeAnswered) => last' = last
        BY <1>1 DEF Next, EmitLive, ExpireJournal, ServerSubscribes, ServerAnswers, LineEnds,
               Disconnect, Connect, LiveTap, SkipDelivered, CallbackStarts, DeliveryFails,
               ResumeMissing, ResumeFails, ResumeStale, TailDelivered, DrainQueue, GoLive,
               Off, vars, subVars
    <2> QED BY <1>1, <2>1, <2>2, <2>3
<1>2. IInv /\ StrictInv /\ [Next]_vars
        => [last >= 0 /\ last' # last => last' = last + 1 /\ ~byKeyframe']_vars
    BY <1>1
<1>3. IInv /\ GivenInv /\ StrictInv /\ [Next]_vars => StrictInv'
    BY StrictStep
<1>4. Init => StrictInv
    BY StrictStarts
<1> QED BY <1>2, <1>3, <1>4, GivenStarts, GivenStep, Invariant, PTL DEF Spec
=============================================================================
