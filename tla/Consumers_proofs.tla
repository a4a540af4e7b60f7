-------------------------- MODULE Consumers_proofs --------------------------
(******************************************************************************)
(* The proofs about the consumers of a replay line, composed in               *)
(* MCReplayConsumers.                                                         *)
(*                                                                            *)
(* Each consumer of the composition is an instance of a component with        *)
(* variables and constants of its own. Its theorems were proved in the        *)
(* component's module, for every value of the constants: so it remains to     *)
(* show that the composition's steps are steps of the component, that the     *)
(* constants satisfy the component's assumptions, and, since an instance of a *)
(* module of proofs is another instance than the one the model names, that    *)
(* the two say the same. The persisted mirror has no module of proofs of its  *)
(* own; its inductive invariant MirrorInv is proved here.                     *)
(*                                                                            *)
(* The abstract replica of EveryoneKeepsPromise is a function of whichever    *)
(* consumer the behaviour has; the behaviours are therefore split by the      *)
(* consumer, which no step changes.                                           *)
(******************************************************************************)
EXTENDS MCReplayConsumers, ReplaySubscribe_proofs

StrictP == INSTANCE ReplaySubscribe_proofs WITH
    FirstSeq <- 0, MaxSeq <- MaxSeq - 1, History <- 2, KeepMs <- TRUE,
    CatchUpMode <- "tail", GapPolicy <- "error",
    head <- ohead, oldest <- ooldest, up <- oup, drops <- odrops, subscribed <-
    osubscribed, wire <- owire, calls <- ocalls, last <- olast, replaying <- oreplaying,
    gen <- ogen, queue <- oqueue, deliveryQueue <- odeliveryQueue, calling <- ocalling,
    stage <- ostage, stageGen <- ostageGen, ready <- oready, closed <- oclosed, failed
    <- ofailed, seen <- oseen, foreign <- oforeign, byKeyframe <- obyKeyframe

BareP == INSTANCE ReplaySubscribe_proofs WITH
    FirstSeq <- 0, MaxSeq <- MaxSeq - 1, History <- 0, KeepMs <- TRUE, HasKeyframe <- FALSE,
    CatchUpMode <- "tail", CallbackThrows <- TRUE,
    head <- ohead, oldest <- ooldest, up <- oup, drops <- odrops, subscribed <-
    osubscribed, wire <- owire, calls <- ocalls, last <- olast, replaying <- oreplaying,
    gen <- ogen, queue <- oqueue, deliveryQueue <- odeliveryQueue, calling <- ocalling,
    stage <- ostage, stageGen <- ostageGen, ready <- oready, closed <- oclosed, failed
    <- ofailed, seen <- oseen, foreign <- oforeign, byKeyframe <- obyKeyframe

RouteP == INSTANCE ReplayRoute_proofs WITH
    MaxSeq <- MaxSeq - 2,
    heads <- rheads, callback <- rcallback, chain <- rchain, slot <- rslot,
    attached <- rattached, pending <- rpending, outcome <- routcome, active <- ractive,
    last <- rlast, closed <- rclosed, deliveryQueue <- rdeliveryQueue, calling <- rcalling,
    owner <- rowner, working <- rworking, rest <- rrest, seen <- rseen


-----------------------------------------------------------------------------
(* The instances that are proved about are those of the model *)

(* Init of the strict instance proved about is that of the model. *)
LEMMA SameStrictInit == Strict!Init <=> StrictP!Init
    BY DEF
        Strict!Init, StrictP!Init, Strict!LineInit, StrictP!LineInit, Strict!NoCallback,
        StrictP!NoCallback, Strict!Ask, StrictP!Ask, Strict!FirstKind, StrictP!FirstKind

(* Next of the strict instance proved about is that of the model. *)
LEMMA SameStrictNext == Strict!Next <=> StrictP!Next
    BY DEF
        Strict!Next, StrictP!Next, Strict!EmitLive, StrictP!EmitLive, Strict!ExpireJournal,
        StrictP!ExpireJournal, Strict!ServerSubscribes, StrictP!ServerSubscribes,
        Strict!ServerAnswers, StrictP!ServerAnswers, Strict!LineEnds, StrictP!LineEnds,
        Strict!Disconnect, StrictP!Disconnect, Strict!Connect, StrictP!Connect, Strict!LiveTap,
        StrictP!LiveTap, Strict!SkipDelivered, StrictP!SkipDelivered, Strict!CallbackStarts,
        StrictP!CallbackStarts, Strict!CallbackReturns, StrictP!CallbackReturns,
        Strict!DeliveryFails, StrictP!DeliveryFails, Strict!ResumeAnswered,
        StrictP!ResumeAnswered, Strict!ResumeMissing, StrictP!ResumeMissing, Strict!ResumeFails,
        StrictP!ResumeFails, Strict!ResumeStale, StrictP!ResumeStale, Strict!TailDelivered,
        StrictP!TailDelivered, Strict!DrainQueue, StrictP!DrainQueue, Strict!GoLive,
        StrictP!GoLive, Strict!Off, StrictP!Off, Strict!Emit, StrictP!Emit, Strict!subVars,
        StrictP!subVars, Strict!appVars, StrictP!appVars, Strict!Expire, StrictP!Expire,
        Strict!netVars, StrictP!netVars, Strict!lineVars, StrictP!lineVars, Strict!Answer,
        StrictP!Answer, Strict!Callable, StrictP!Callable, Strict!FailRecovery,
        StrictP!FailRecovery, Strict!Settled, StrictP!Settled, Strict!StartCatchUp,
        StrictP!StartCatchUp, Strict!Event, StrictP!Event, Strict!Delivering,
        StrictP!Delivering, Strict!NonContiguous, StrictP!NonContiguous, Strict!Fold,
        StrictP!Fold, Strict!NoCallback, StrictP!NoCallback, Strict!IsCurrent,
        StrictP!IsCurrent, Strict!ResetPoint, StrictP!ResetPoint, Strict!Ask, StrictP!Ask,
        Strict!Returned, StrictP!Returned, Strict!CloseSubscription, StrictP!CloseSubscription,
        Strict!OldestAfterEmit, StrictP!OldestAfterEmit, Strict!StateAt, StrictP!StateAt,
        Strict!JournalHas, StrictP!JournalHas, Strict!TailAfter, StrictP!TailAfter,
        Strict!FrameAnswers, StrictP!FrameAnswers, Strict!FrameAfter, StrictP!FrameAfter,
        Strict!FirstKind, StrictP!FirstKind

(* The properties of the strict instance proved about are those of the model. *)
LEMMA SameStrictProperties ==
    /\ Strict!TypeOK <=> StrictP!TypeOK
    /\ Strict!NoHole <=> StrictP!NoHole
    /\ Strict!LiveIsComplete <=> StrictP!LiveIsComplete
    BY DEF
        Strict!TypeOK, StrictP!TypeOK, Strict!NoHole, StrictP!NoHole, Strict!LiveIsComplete,
        StrictP!LiveIsComplete, Strict!LineTypeOK, StrictP!LineTypeOK, Strict!Call,
        StrictP!Call, Strict!Envelope, StrictP!Envelope, Strict!NoCallback, StrictP!NoCallback,
        Strict!Position, StrictP!Position, Strict!Settled, StrictP!Settled

(* Init of the bare instance proved about is that of the model. *)
LEMMA SameBareInit == Bare!Init <=> BareP!Init
    BY DEF
        Bare!Init, BareP!Init, Bare!LineInit, BareP!LineInit, Bare!NoCallback, BareP!NoCallback,
        Bare!Ask, BareP!Ask, Bare!FirstKind, BareP!FirstKind

(* Next of the bare instance proved about is that of the model. *)
LEMMA SameBareNext == Bare!Next <=> BareP!Next
    BY DEF
        Bare!Next, BareP!Next, Bare!EmitLive, BareP!EmitLive, Bare!ExpireJournal,
        BareP!ExpireJournal, Bare!ServerSubscribes, BareP!ServerSubscribes, Bare!ServerAnswers,
        BareP!ServerAnswers, Bare!LineEnds, BareP!LineEnds, Bare!Disconnect, BareP!Disconnect,
        Bare!Connect, BareP!Connect, Bare!LiveTap, BareP!LiveTap, Bare!SkipDelivered,
        BareP!SkipDelivered, Bare!CallbackStarts, BareP!CallbackStarts, Bare!CallbackReturns,
        BareP!CallbackReturns, Bare!DeliveryFails, BareP!DeliveryFails, Bare!ResumeAnswered,
        BareP!ResumeAnswered, Bare!ResumeMissing, BareP!ResumeMissing, Bare!ResumeFails,
        BareP!ResumeFails, Bare!ResumeStale, BareP!ResumeStale, Bare!TailDelivered,
        BareP!TailDelivered, Bare!DrainQueue, BareP!DrainQueue, Bare!GoLive, BareP!GoLive,
        Bare!Off, BareP!Off, Bare!Emit, BareP!Emit, Bare!subVars, BareP!subVars, Bare!appVars,
        BareP!appVars, Bare!Expire, BareP!Expire, Bare!netVars, BareP!netVars, Bare!lineVars,
        BareP!lineVars, Bare!Answer, BareP!Answer, Bare!Callable, BareP!Callable,
        Bare!FailRecovery, BareP!FailRecovery, Bare!Settled, BareP!Settled, Bare!StartCatchUp,
        BareP!StartCatchUp, Bare!Event, BareP!Event, Bare!Delivering, BareP!Delivering,
        Bare!NonContiguous, BareP!NonContiguous, Bare!Fold, BareP!Fold, Bare!NoCallback,
        BareP!NoCallback, Bare!IsCurrent, BareP!IsCurrent, Bare!ResetPoint, BareP!ResetPoint,
        Bare!Ask, BareP!Ask, Bare!Returned, BareP!Returned, Bare!CloseSubscription,
        BareP!CloseSubscription, Bare!OldestAfterEmit, BareP!OldestAfterEmit, Bare!StateAt,
        BareP!StateAt, Bare!JournalHas, BareP!JournalHas, Bare!TailAfter, BareP!TailAfter,
        Bare!FrameAnswers, BareP!FrameAnswers, Bare!FrameAfter, BareP!FrameAfter,
        Bare!FirstKind, BareP!FirstKind

(* The properties of the bare instance proved about are those of the model. *)
LEMMA SameBareProperties ==
    /\ Bare!TypeOK <=> BareP!TypeOK
    /\ Bare!NoHole <=> BareP!NoHole
    /\ Bare!LiveIsComplete <=> BareP!LiveIsComplete
    BY DEF
        Bare!TypeOK, BareP!TypeOK, Bare!NoHole, BareP!NoHole, Bare!LiveIsComplete,
        BareP!LiveIsComplete, Bare!LineTypeOK, BareP!LineTypeOK, Bare!Call, BareP!Call,
        Bare!Envelope, BareP!Envelope, Bare!NoCallback, BareP!NoCallback, Bare!Position,
        BareP!Position, Bare!Settled, BareP!Settled

(* Produced of the route proved about is that of the model. *)
LEMMA SameProduced == Route!Produced = RouteP!Produced
    BY DEF Route!Produced, RouteP!Produced

(* Slots of the route proved about is that of the model. *)
LEMMA SameSlots == Route!Slots = RouteP!Slots
    BY DEF Route!Slots, RouteP!Slots

(* Nothing of the route proved about is that of the model. *)
LEMMA SameNothing == Route!Nothing = RouteP!Nothing
    BY DEF Route!Nothing, RouteP!Nothing

(* Settled of the route proved about is that of the model. *)
LEMMA SameSettled == Route!Settled <=> RouteP!Settled
    BY SameNothing
    DEF Route!Settled, RouteP!Settled

(* Dispose of the route proved about is that of the model. *)
LEMMA SameDispose == \A i : Route!Dispose(i) = RouteP!Dispose(i)
    BY SameSlots
    DEF Route!Dispose, RouteP!Dispose, Route!Restrict, RouteP!Restrict

(* Settle of the route proved about is that of the model. *)
LEMMA SameSettle == \A i, how : Route!Settle(i, how) = RouteP!Settle(i, how)
    BY DEF Route!Settle, RouteP!Settle

(* Envelope of the route proved about is that of the model. *)
LEMMA SameEnvelope == Route!Envelope = RouteP!Envelope
    BY DEF Route!Envelope, RouteP!Envelope

(* Position of the route proved about is that of the model. *)
LEMMA SamePosition == Route!Position = RouteP!Position
    BY SameNothing
    DEF Route!Position, RouteP!Position

(* Ahead of the route proved about is that of the model. *)
LEMMA SameAhead == Route!Ahead <=> RouteP!Ahead
    BY SameNothing, SamePosition
    DEF Route!Ahead, RouteP!Ahead

(* Shown of the route proved about is that of the model. *)
LEMMA SameShown == Route!Shown = RouteP!Shown
    BY SameNothing, SamePosition, SameAhead
    DEF Route!Shown, RouteP!Shown

(* RouteAssumption of the route proved about is that of the model. *)
LEMMA SameRouteAssumption == Route!RouteAssumption <=> RouteP!RouteAssumption
    BY DEF Route!RouteAssumption, RouteP!RouteAssumption

(* TypeOK of the route proved about is that of the model. *)
LEMMA SameTypeOK == Route!TypeOK <=> RouteP!TypeOK
    BY SameProduced, SameSlots, SameNothing, SameEnvelope
    DEF Route!TypeOK, RouteP!TypeOK, Route!SlotType, RouteP!SlotType

(* NoHole of the route proved about is that of the model. *)
LEMMA SameNoHole == Route!NoHole <=> RouteP!NoHole
    BY SameProduced
    DEF Route!NoHole, RouteP!NoHole

(* LiveIsComplete of the route proved about is that of the model. *)
LEMMA SameLiveIsComplete == Route!LiveIsComplete <=> RouteP!LiveIsComplete
    BY SameSlots, SameNothing, SameSettled
    DEF Route!LiveIsComplete, RouteP!LiveIsComplete

(* Init of the route proved about is that of the model. *)
LEMMA SameRouteInit == Route!Init <=> RouteP!Init
    BY SameNothing
    DEF Route!Init, RouteP!Init, Route!Attached, RouteP!Attached, Route!FirstCall,
        RouteP!FirstCall

(* Forward of the route proved about is that of the model. *)
LEMMA SameForward == \A r : Route!Forward(r) <=> RouteP!Forward(r)
    BY SameSlots
    DEF Route!Forward, RouteP!Forward, Route!Line!Event, RouteP!Line!Event, Route!switchVars,
        RouteP!switchVars, Route!loopVars, RouteP!loopVars

(* AttachLiveLine of the route proved about is that of the model. *)
LEMMA SameAttachLiveLine == \A i : Route!AttachLiveLine(i) <=> RouteP!AttachLiveLine(i)
    BY DEF Route!AttachLiveLine, RouteP!AttachLiveLine, Route!lineVars, RouteP!lineVars,
        Route!switchVars, RouteP!switchVars, Route!loopVars, RouteP!loopVars

(* RemoteAnswers of the route proved about is that of the model. *)
LEMMA SameRemoteAnswers == \A i : Route!RemoteAnswers(i) <=> RouteP!RemoteAnswers(i)
    BY DEF Route!RemoteAnswers, RouteP!RemoteAnswers, Route!Answer, RouteP!Answer, Route!lineVars,
        RouteP!lineVars, Route!switchVars, RouteP!switchVars, Route!loopVars, RouteP!loopVars,
        Route!Line!FrameAnswers, RouteP!Line!FrameAnswers, Route!Answered, RouteP!Answered,
        Route!Line!FrameAfter, RouteP!Line!FrameAfter, Route!Line!JournalHas,
        RouteP!Line!JournalHas, Route!Line!TailAfter, RouteP!Line!TailAfter, Route!Line!StateAt,
        RouteP!Line!StateAt, Route!Line!Event, RouteP!Line!Event

(* LiveTap of the route proved about is that of the model. *)
LEMMA SameLiveTap == \A i : Route!LiveTap(i) <=> RouteP!LiveTap(i)
    BY SameNothing, SameSettled
    DEF Route!LiveTap, RouteP!LiveTap, Route!lineVars, RouteP!lineVars, Route!switchVars,
        RouteP!switchVars

(* LineFails of the route proved about is that of the model. *)
LEMMA SameLineFails == \A i : Route!LineFails(i) <=> RouteP!LineFails(i)
    BY SameSlots, SameNothing, SameSettled, SameDispose, SameSettle
    DEF Route!LineFails, RouteP!LineFails, Route!IsOpen, RouteP!IsOpen, Route!Callable,
        RouteP!Callable, Route!FailSlot, RouteP!FailSlot, Route!lineVars, RouteP!lineVars,
        Route!loopVars, RouteP!loopVars

(* CallFails of the route proved about is that of the model. *)
LEMMA SameCallFails == \A i : Route!CallFails(i) <=> RouteP!CallFails(i)
    BY SameSlots, SameNothing, SameSettled, SameDispose, SameSettle
    DEF Route!CallFails, RouteP!CallFails, Route!FailSlot, RouteP!FailSlot, Route!lineVars,
        RouteP!lineVars, Route!loopVars, RouteP!loopVars

(* TimeoutFires of the route proved about is that of the model. *)
LEMMA SameTimeoutFires == Route!TimeoutFires <=> RouteP!TimeoutFires
    BY SameSlots, SameNothing, SameSettled, SameDispose, SameSettle
    DEF Route!TimeoutFires, RouteP!TimeoutFires, Route!FailSlot, RouteP!FailSlot,
        Route!lineVars, RouteP!lineVars, Route!loopVars, RouteP!loopVars

(* Off of the route proved about is that of the model. *)
LEMMA SameOff == Route!Off <=> RouteP!Off
    BY SameNothing, SameSettled, SameSettle
    DEF Route!Off, RouteP!Off, Route!Callable, RouteP!Callable, Route!lineVars, RouteP!lineVars

(* SkipDelivered of the route proved about is that of the model. *)
LEMMA SameSkipDelivered == Route!SkipDelivered <=> RouteP!SkipDelivered
    BY SameNothing
    DEF Route!SkipDelivered, RouteP!SkipDelivered, Route!Delivering, RouteP!Delivering,
        Route!lineVars, RouteP!lineVars, Route!switchVars, RouteP!switchVars

(* CallbackStarts of the route proved about is that of the model. *)
LEMMA SameCallbackStarts == Route!CallbackStarts <=> RouteP!CallbackStarts
    BY SameNothing
    DEF Route!CallbackStarts, RouteP!CallbackStarts, Route!Delivering, RouteP!Delivering,
        Route!lineVars, RouteP!lineVars, Route!switchVars, RouteP!switchVars

(* CallbackReturns of the route proved about is that of the model. *)
LEMMA SameCallbackReturns == Route!CallbackReturns <=> RouteP!CallbackReturns
    BY SameNothing
    DEF Route!CallbackReturns, RouteP!CallbackReturns, Route!lineVars, RouteP!lineVars,
        Route!switchVars, RouteP!switchVars

(* CallbackFails of the route proved about is that of the model. *)
LEMMA SameCallbackFails == Route!CallbackFails <=> RouteP!CallbackFails
    BY SameSlots, SameNothing, SameSettle
    DEF Route!CallbackFails, RouteP!CallbackFails, Route!Delivering, RouteP!Delivering,
        Route!Restrict, RouteP!Restrict, Route!lineVars, RouteP!lineVars

(* DeliverNext of the route proved about is that of the model. *)
LEMMA SameDeliverNext == Route!DeliverNext <=> RouteP!DeliverNext
    BY SameNothing
    DEF Route!DeliverNext, RouteP!DeliverNext, Route!Working, RouteP!Working, Route!lineVars,
        RouteP!lineVars, Route!switchVars, RouteP!switchVars

(* GoLive of the route proved about is that of the model. *)
LEMMA SameGoLive == Route!GoLive <=> RouteP!GoLive
    BY SameSlots, SameNothing, SameSettle
    DEF Route!GoLive, RouteP!GoLive, Route!Working, RouteP!Working, Route!Restrict,
        RouteP!Restrict, Route!lineVars, RouteP!lineVars

(* DoSwitch of the route proved about is that of the model. *)
LEMMA SameDoSwitch == Route!DoSwitch <=> RouteP!DoSwitch
    BY SameSlots, SameNothing, SameSettled
    DEF Route!DoSwitch, RouteP!DoSwitch, Route!Attached, RouteP!Attached, Route!lineVars,
        RouteP!lineVars, Route!loopVars, RouteP!loopVars, Route!FirstCall, RouteP!FirstCall

(* SwitchEnds of the route proved about is that of the model. *)
LEMMA SameSwitchEnds == Route!SwitchEnds <=> RouteP!SwitchEnds
    BY SameSlots, SameNothing, SameSettled, SameDispose
    DEF Route!SwitchEnds, RouteP!SwitchEnds, Route!IsOpen, RouteP!IsOpen, Route!lineVars,
        RouteP!lineVars, Route!loopVars, RouteP!loopVars

(* ResumeAnswered of the route proved about is that of the model. *)
LEMMA SameResumeAnswered == \A i : Route!ResumeAnswered(i) <=> RouteP!ResumeAnswered(i)
    BY SameNothing, SameSettled
    DEF Route!ResumeAnswered, RouteP!ResumeAnswered, Route!ResetPoint, RouteP!ResetPoint,
        Route!lineVars, RouteP!lineVars, Route!switchVars, RouteP!switchVars

(* ResumeMissing of the route proved about is that of the model. *)
LEMMA SameResumeMissing == \A i : Route!ResumeMissing(i) <=> RouteP!ResumeMissing(i)
    BY SameNothing, SameSettled
    DEF Route!ResumeMissing, RouteP!ResumeMissing, Route!lineVars, RouteP!lineVars,
        Route!switchVars, RouteP!switchVars

(* Switch of the route proved about is that of the model. *)
LEMMA SameSwitch == \A r : Route!Switch(r) <=> RouteP!Switch(r)
    BY SameNothing, SameSettled
    DEF Route!Switch, RouteP!Switch, Route!Callable, RouteP!Callable, Route!lineVars,
        RouteP!lineVars, Route!loopVars, RouteP!loopVars

(* Next of the route proved about is that of the model. *)
LEMMA SameRouteNext == Route!Next <=> RouteP!Next
    BY SameSlots, SameNothing, SameSettled, SameDispose, SameSettle, SameForward,
       SameAttachLiveLine, SameRemoteAnswers, SameLiveTap, SameLineFails, SameCallFails,
       SameTimeoutFires, SameOff, SameSkipDelivered, SameCallbackStarts, SameCallbackReturns,
       SameCallbackFails, SameDeliverNext, SameGoLive, SameDoSwitch, SameSwitchEnds,
       SameResumeAnswered, SameResumeMissing, SameSwitch
    DEF Route!Next, RouteP!Next, Route!EventLoop, RouteP!EventLoop

-----------------------------------------------------------------------------
(* The persisted mirror *)

Owing == [owed : Offline!Content, force : BOOLEAN]
Subscription == [last : -1..Foreign, stage : {"asked", "answered", "live"}, answer : 0..OfflineEvents]

MirrorTypes ==
    /\ Offline!OfflineAssumption
    /\ phead \in 0..OfflineEvents /\ {pdisk, psaving} \subseteq Offline!Records
    /\ pdisk.shown >= 0 /\ (psaving # Offline!None => psaving.shown >= 0)
    /\ pphase \in {"off", "open", "closed"}
    /\ pshown \in 0..Foreign /\ pnoted \in -1..Foreign
    /\ {pundrained, pdirty, ptimer} \subseteq BOOLEAN
    /\ pcontent \in Offline!Content /\ pqueue \in Seq(Owing)
    /\ pgen \in Nat /\ DOMAIN pruns \subseteq 1..pgen /\ DOMAIN psubs \subseteq 1..pgen
    /\ \A g \in DOMAIN psubs : psubs[g] \in Subscription
    /\ pstatus \in [ready : BOOLEAN, syncing : BOOLEAN, offline : BOOLEAN]

\* What is owed, by whom and to whom: nothing is written outside a flush, what is not
\* saved and not being saved has made the store dirty, and the flush that writes covers
\* what it owed.
Debts ==
    /\ pphase = "off" => pqueue = <<>> /\ psaving = Offline!None
    /\ ptimer => pphase = "open"
    /\ psaving # Offline!None => pqueue # <<>> /\ pqueue[1].owed # "unsaved"
    /\ psaving = Offline!None =>
        pcontent # "saving" /\ \A i \in DOMAIN pqueue : pqueue[i].owed # "saving"
    /\ pphase = "open" /\ ~pdirty =>
        pcontent # "unsaved" /\ \A i \in DOMAIN pqueue : pqueue[i].owed # "unsaved"

Numbered ==
    /\ pdisk.seq >= 0 => pdisk.shown = pdisk.seq
    /\ psaving.seq >= 0 => psaving.shown = psaving.seq
    /\ pphase = "open" /\ pnoted >= 0 => pshown = pnoted

\* A reconnect whose subscription has ended without it has said so.
Connected ==
    /\ Offline!OneSubscription
    /\ pphase = "open" /\ pgen \in DOMAIN pruns /\ pruns[pgen] = "ready" /\ pgen \notin DOMAIN psubs
        => pstatus.offline

MirrorInv == MirrorTypes /\ Debts /\ Numbered /\ Connected

(* The three safety properties of the mirror are parts of its inductive
   invariant. *)
LEMMA MirrorProperties == ASSUME MirrorInv PROVE Offline!TypeOK /\ Offline!RecordMeansItsNumber /\ Offline!OneSubscription
<1>1. \A i \in DOMAIN pqueue : pqueue[i] \in Owing
    BY ElementOfSeq DEF MirrorInv, MirrorTypes
<1>2. Offline!TypeOK
    BY <1>1 DEF MirrorInv, MirrorTypes, Debts, Offline!TypeOK, Owing
<1> QED BY <1>2 DEF MirrorInv, Numbered, Connected, Offline!RecordMeansItsNumber

(* A mirror that was never opened has no debts. *)
LEMMA MirrorStarts == ASSUME Offline!OfflineAssumption, Offline!Init PROVE MirrorInv
<1>1. Offline!Alone \in [ready : BOOLEAN, syncing : BOOLEAN, offline : BOOLEAN] /\ Offline!Alone.offline /\ ~Offline!Alone.syncing
    BY DEF Offline!Alone
<1>2. /\ phead = 0 /\ pphase = "off" /\ pshown = 0 /\ pnoted = -1 /\ pcontent = "saved" /\ pqueue = <<>>
      /\ psaving = Offline!None /\ pgen = 0 /\ pruns = <<>> /\ psubs = <<>> /\ pstatus = Offline!Alone
      /\ pundrained = FALSE /\ pdirty = FALSE /\ ptimer = FALSE
    BY DEF Offline!Init
<1>3. /\ pdisk \in Offline!Records /\ psaving \in Offline!Records /\ pdisk.shown >= 0
      /\ (pdisk.seq >= 0 => pdisk.shown = pdisk.seq) /\ ~(psaving.seq >= 0)
    BY <1>2 DEF Offline!Init, Offline!Fresh, Offline!None, Offline!Records, Offline!OfflineAssumption
<1>4. Debts
    BY <1>2 DEF Debts
<1>5. Numbered
    BY <1>2, <1>3 DEF Numbered
<1>6. DOMAIN pruns = {} /\ DOMAIN psubs = {}
    BY <1>2
<1>7. Connected
    BY <1>2, <1>6 DEF Connected, Offline!OneSubscription
<1>8. {pundrained, pdirty, ptimer} \subseteq BOOLEAN
    BY <1>2
<1>9. MirrorTypes
    BY <1>1, <1>2, <1>3, <1>6, <1>8 DEF MirrorTypes, Offline!OfflineAssumption, Offline!Content
<1> QED BY <1>4, <1>5, <1>7, <1>9 DEF MirrorInv

\* A store that is not open has no use for its reconnects.
(* Opening, by whichever of the paths, leaves a mirror without debts and
   connected. *)
LEMMA MirrorOpens == ASSUME MirrorInv, NEW loaded \in {pdisk, Offline!Fresh}, Offline!OpenWith(loaded) PROVE MirrorInv'
<1>1. /\ pphase' = "open" /\ pshown' = loaded.shown /\ pnoted' = loaded.seq /\ pcontent' = "saved"
      /\ psaving' = psaving /\ psaving = Offline!None /\ pqueue' = pqueue /\ pqueue = <<>> /\ psubs' = <<>>
      /\ phead' = phead /\ pdisk' = pdisk /\ pundrained' = FALSE /\ pdirty' = FALSE /\ ptimer' = FALSE
    BY DEF Offline!OpenWith
<1>2. /\ loaded \in Offline!Records /\ (loaded.seq >= 0 => loaded.shown = loaded.seq)
    BY DEF MirrorInv, MirrorTypes, Numbered, Offline!Fresh, Offline!Records, Offline!OfflineAssumption
<1>3. loaded.shown \in 0..Foreign /\ loaded.seq \in -1..Foreign
    BY DEF MirrorInv, MirrorTypes, Offline!Fresh, Offline!Records, Offline!OfflineAssumption
<1>4. \/ pgen' = 1 /\ pruns' = Offline!With(<<>>, 1, "schema") /\ pstatus' = Offline!Superseded
      \/ pgen' = 0 /\ pruns' = <<>> /\ pstatus' = Offline!Alone
    BY DEF Offline!OpenWith
<1>5. /\ pgen' \in Nat /\ DOMAIN pruns' \subseteq 1..pgen' /\ DOMAIN psubs' = {}
      /\ pstatus' \in [ready : BOOLEAN, syncing : BOOLEAN, offline : BOOLEAN]
    <2>1. DOMAIN Offline!With(<<>>, 1, "schema") = {1}
        BY DEF Offline!With
    <2>2. pgen' \in Nat /\ DOMAIN pruns' \subseteq 1..pgen' /\ DOMAIN psubs' = {}
        BY <1>1, <1>4, <2>1
    <2>3. /\ Offline!Superseded \in [ready : BOOLEAN, syncing : BOOLEAN, offline : BOOLEAN]
          /\ Offline!Alone \in [ready : BOOLEAN, syncing : BOOLEAN, offline : BOOLEAN]
        BY DEF Offline!Superseded, Offline!Alone
    <2> QED BY <1>4, <2>2, <2>3
<1>6. Connected'
    <2>1. CASE pgen' = 1 /\ pruns' = Offline!With(<<>>, 1, "schema") /\ pstatus' = Offline!Superseded
        BY <1>1, <2>1 DEF Connected, Offline!OneSubscription, Offline!With, Offline!Superseded
    <2>2. CASE pgen' = 0 /\ pruns' = <<>> /\ pstatus' = Offline!Alone
        BY <1>1, <2>2 DEF Connected, Offline!OneSubscription, Offline!Alone
    <2> QED BY <1>4, <2>1, <2>2
<1>7. {pundrained', pdirty', ptimer'} \subseteq BOOLEAN
    BY <1>1
<1>8. MirrorTypes'
    BY <1>1, <1>3, <1>5, <1>7 DEF MirrorInv, MirrorTypes, Offline!Content
<1>9. Debts'
    BY <1>1 DEF Debts
<1>10. Numbered'
    BY <1>1, <1>2 DEF MirrorInv, Numbered
<1> QED BY <1>6, <1>8, <1>9, <1>10 DEF MirrorInv

Moved(q, from, to) ==
    [i \in DOMAIN q |-> IF q[i].owed = from THEN [q[i] EXCEPT !.owed = to] ELSE q[i]]

(* Marking the entries of a flush queue changes contents only. *)
LEMMA QueueAdvances ==
    ASSUME NEW q \in Seq(Owing), NEW from, NEW to \in Offline!Content
    PROVE  /\ Moved(q, from, to) \in Seq(Owing) /\ DOMAIN Moved(q, from, to) = DOMAIN q
           /\ Len(Moved(q, from, to)) = Len(q) /\ (q # <<>> <=> Moved(q, from, to) # <<>>)
           /\ \A i \in DOMAIN q : Moved(q, from, to)[i].owed = IF q[i].owed = from THEN to ELSE q[i].owed
<1> DEFINE r == Moved(q, from, to)
<1>0. r = [i \in DOMAIN q |-> IF q[i].owed = from THEN [q[i] EXCEPT !.owed = to] ELSE q[i]]
    BY DEF Moved
<1> HIDE DEF r
<1>1. Len(q) \in Nat /\ DOMAIN q = 1..Len(q) /\ \A i \in 1..Len(q) : q[i] \in Owing
    BY ElementOfSeq, LenProperties
<1>2. \A i \in 1..Len(q) : r[i] \in Owing /\ r[i].owed = IF q[i].owed = from THEN to ELSE q[i].owed
    BY <1>0, <1>1 DEF Owing
<1>3. r \in [1..Len(q) -> Owing]
    BY <1>0, <1>1, <1>2
<1>4. r \in Seq(Owing)
    BY <1>1, <1>3, SeqDef
<1>5. Len(r) = Len(q)
    BY <1>1, <1>3, <1>4, LenProperties
<1>6. q = <<>> <=> r = <<>>
    BY <1>1, <1>4, <1>5, EmptySeq
<1>7. DOMAIN r = DOMAIN q
    BY <1>0
<1> QED BY <1>1, <1>2, <1>4, <1>5, <1>6, <1>7 DEF r

(* A queue that is not empty has a first entry. *)
LEMMA FirstThere ==
    ASSUME NEW q \in Seq(Owing), q # <<>> PROVE 1 \in DOMAIN q /\ Len(q) \in Nat
<1>1. Len(q) \in Nat /\ DOMAIN q = 1..Len(q)
    BY LenProperties
<1>2. Len(q) # 0
    BY EmptySeq
<1> QED BY <1>1, <1>2

(* The queue behind its first entry. *)
LEMMA QueueShrinks ==
    ASSUME NEW q \in Seq(Owing), q # <<>>
    PROVE  /\ Tail(q) \in Seq(Owing) /\ Len(Tail(q)) = Len(q) - 1 /\ Len(q) \in Nat
           /\ \A i \in DOMAIN Tail(q) : i + 1 \in DOMAIN q /\ Tail(q)[i] = q[i + 1]
<1>1. /\ Tail(q) \in Seq(Owing) /\ Len(Tail(q)) = Len(q) - 1 /\ Len(q) \in Nat
      /\ \A i \in 1..(Len(q) - 1) : Tail(q)[i] = q[i + 1]
    BY HeadTailProperties, LenProperties
<1>2. DOMAIN q = 1..Len(q) /\ DOMAIN Tail(q) = 1..(Len(q) - 1)
    BY <1>1, LenProperties
<1> QED BY <1>1, <1>2

(* A queue with one more entry. *)
LEMMA QueueGrows ==
    ASSUME NEW q \in Seq(Owing), NEW e \in Owing
    PROVE  /\ Append(q, e) \in Seq(Owing) /\ Append(q, e) # <<>> /\ Len(q) \in Nat
           /\ Len(Append(q, e)) = Len(q) + 1
           /\ \A i \in DOMAIN Append(q, e) :
                (i \in DOMAIN q /\ Append(q, e)[i] = q[i]) \/ Append(q, e)[i] = e
           /\ q # <<>> => Append(q, e)[1] = q[1]
<1>1. /\ Append(q, e) \in Seq(Owing) /\ Len(Append(q, e)) = Len(q) + 1 /\ Len(q) \in Nat
      /\ \A i \in 1..Len(q) : Append(q, e)[i] = q[i]
      /\ Append(q, e)[Len(q) + 1] = e
    BY AppendProperties, LenProperties
<1>2. DOMAIN q = 1..Len(q) /\ DOMAIN Append(q, e) = 1..(Len(q) + 1)
    BY <1>1, LenProperties
<1>3. q # <<>> => Len(q) >= 1
    BY <1>1, EmptySeq
<1> QED BY <1>1, <1>2, <1>3

(* A step that leaves generations, runs and subscriptions alone keeps the sync. *)
LEMMA SyncSame ==
    ASSUME MirrorInv, UNCHANGED <<pphase, pgen, pruns, psubs, pstatus>> PROVE Connected'
    BY DEF MirrorInv, Connected, Offline!OneSubscription

\* A flush joins the chain and owes what is not saved now.
(* A flush that is asked for goes to the end of the queue, owing the contents
   of now. *)
LEMMA MirrorEnqueues ==
    ASSUME MirrorInv, pphase # "off", NEW force \in BOOLEAN, Offline!Enqueue(force), pdirty' \in BOOLEAN,
           pdirty => pdirty', ptimer' = FALSE, UNCHANGED <<phead, pdisk, pphase, Offline!storeVars, psaving, Offline!syncVars>>
    PROVE  MirrorInv' /\ Len(pqueue') > Len(pqueue) /\ Len(pqueue') \in Nat
<1> DEFINE e == [owed |-> pcontent, force |-> force]
<1>1. e \in Owing /\ pqueue \in Seq(Owing) /\ e.owed = pcontent
    BY DEF MirrorInv, MirrorTypes, Owing
<1>2. pqueue' = Append(pqueue, e)
    BY DEF Offline!Enqueue
<1> HIDE DEF e
<1>3. /\ pqueue' \in Seq(Owing) /\ pqueue' # <<>> /\ Len(pqueue) \in Nat /\ Len(pqueue') = Len(pqueue) + 1
      /\ \A i \in DOMAIN pqueue' : (i \in DOMAIN pqueue /\ pqueue'[i] = pqueue[i]) \/ pqueue'[i] = e
      /\ pqueue # <<>> => pqueue'[1] = pqueue[1]
    BY <1>1, <1>2, QueueGrows
<1>4. UNCHANGED <<phead, pdisk, pphase, pshown, pundrained, pnoted, pcontent, psaving, pgen, pruns, psubs, pstatus>>
    BY DEF Offline!storeVars, Offline!syncVars
<1>5. pdirty' \in BOOLEAN /\ ptimer' \in BOOLEAN /\ (~pdirty' => ~pdirty)
    OBVIOUS
<1>6. MirrorTypes'
    BY <1>3, <1>4, <1>5 DEF MirrorInv, MirrorTypes
<1>7. Debts'
    BY <1>1, <1>3, <1>4, <1>5 DEF MirrorInv, Debts
<1>8. Numbered' /\ Connected'
    BY <1>4, SyncSame DEF MirrorInv, Numbered
<1> QED BY <1>3, <1>6, <1>7, <1>8 DEF MirrorInv

\* The flush that writes has an answer, for itself and for those that owe the same.
(* Answering the first flush: it is told saved only if its contents are on
   disk. *)
LEMMA MirrorAnswered ==
    ASSUME MirrorInv, NEW outcome \in {"saved", "unsaved"}, Offline!Answered(outcome), psaving # Offline!None,
           psaving' = Offline!None, pdisk' \in {pdisk, psaving}, pdirty' \in BOOLEAN, ptimer' \in BOOLEAN,
           outcome = "unsaved" => pdirty', pdirty => pdirty', ptimer' => ptimer \/ pphase = "open",
           UNCHANGED <<phead, pphase, pshown, pundrained, pnoted, Offline!syncVars>>
    PROVE  MirrorInv' /\ pqueue[1].owed # "unsaved"
<1>1. /\ pqueue # <<>> /\ pqueue[1].owed # "unsaved" /\ pqueue \in Seq(Owing) /\ pphase # "off"
      /\ ptimer => pphase = "open"
    BY DEF MirrorInv, MirrorTypes, Debts
<1>2. /\ Tail(pqueue) \in Seq(Owing)
      /\ \A i \in DOMAIN Tail(pqueue) : i + 1 \in DOMAIN pqueue /\ Tail(pqueue)[i] = pqueue[i + 1]
    BY <1>1, QueueShrinks
<1>3. /\ pcontent' = IF pcontent = "saving" THEN outcome ELSE pcontent
      /\ pqueue' = [i \in DOMAIN Tail(pqueue) |-> IF Tail(pqueue)[i].owed = "saving"
                        THEN [Tail(pqueue)[i] EXCEPT !.owed = outcome] ELSE Tail(pqueue)[i]]
    BY DEF Offline!Answered, Offline!Advanced
<1>4. outcome \in Offline!Content
    BY DEF Offline!Content
<1> DEFINE q == Tail(pqueue)
<1>5. q \in Seq(Owing) /\ pqueue' = Moved(q, "saving", outcome)
    BY <1>2, <1>3 DEF Moved
<1> HIDE DEF q
<1>6. /\ pqueue' \in Seq(Owing) /\ DOMAIN pqueue' = DOMAIN q
      /\ \A i \in DOMAIN q : pqueue'[i].owed = IF q[i].owed = "saving" THEN outcome ELSE q[i].owed
    BY <1>4, <1>5, QueueAdvances
<1>7. pcontent' \in Offline!Content /\ pcontent' # "saving" /\ \A i \in DOMAIN pqueue' : pqueue'[i].owed # "saving"
    BY <1>3, <1>4, <1>6 DEF MirrorInv, MirrorTypes
<1>8. UNCHANGED <<phead, pphase, pshown, pundrained, pnoted, pgen, pruns, psubs, pstatus>>
    BY DEF Offline!syncVars
<1>9. pphase = "open" /\ ~pdirty' => pcontent' # "unsaved" /\ \A i \in DOMAIN pqueue' : pqueue'[i].owed # "unsaved"
    <2> SUFFICES ASSUME pphase = "open", ~pdirty'
                 PROVE  pcontent' # "unsaved" /\ \A i \in DOMAIN pqueue' : pqueue'[i].owed # "unsaved"
        OBVIOUS
    <2>1. outcome # "unsaved" /\ ~pdirty
        OBVIOUS
    <2>2. pcontent # "unsaved" /\ \A i \in DOMAIN pqueue : pqueue[i].owed # "unsaved"
        BY <2>1 DEF MirrorInv, Debts
    <2> QED BY <1>2, <1>3, <1>6, <2>1, <2>2 DEF q
<1>10. Debts'
    BY <1>1, <1>7, <1>8, <1>9 DEF Debts
<1>11. pdisk' \in Offline!Records /\ psaving' \in Offline!Records /\ pdisk'.shown >= 0
    BY DEF MirrorInv, MirrorTypes, Offline!None, Offline!Records, Offline!OfflineAssumption
<1>12. {pundrained', pdirty', ptimer'} \subseteq BOOLEAN
    BY <1>8 DEF MirrorInv, MirrorTypes
<1>13. MirrorTypes'
    BY <1>6, <1>7, <1>8, <1>11, <1>12 DEF MirrorInv, MirrorTypes
<1>14. Numbered'
    BY <1>8 DEF MirrorInv, Numbered, Offline!None
<1>15. Connected'
    BY <1>8, SyncSame
<1> QED BY <1>1, <1>10, <1>13, <1>14, <1>15 DEF MirrorInv

\* A flush that ends has nothing to do for those that wait.
FlushSaved ==
    pphase = "open" /\ pphase' = "open" /\ Len(pqueue') < Len(pqueue) => pqueue[1].owed # "unsaved"

(* A step that leaves the queue alone answers no flush. *)
LEMMA SameQueue == ASSUME MirrorInv, pqueue' = pqueue PROVE FlushSaved
<1>1. Len(pqueue) \in Nat
    BY LenProperties DEF MirrorInv, MirrorTypes
<1> QED BY <1>1 DEF FlushSaved

(* A step that makes the queue longer answers no flush. *)
LEMMA Longer ==
    ASSUME Len(pqueue) \in Nat, Len(pqueue') > Len(pqueue), Len(pqueue') \in Nat PROVE FlushSaved
    BY DEF FlushSaved

\* The store changes, and says so or has yet to.
(* A change of the contents makes the mirror dirty, and every flush asked for
   before it keeps what it owes. *)
LEMMA MirrorChanges ==
    ASSUME MirrorInv, UNCHANGED <<pdisk, pphase, pqueue, psaving, pgen, pruns, pstatus>>,
           phead' \in phead..OfflineEvents, pshown' \in 0..Foreign, pnoted' \in -1..Foreign,
           pundrained' \in BOOLEAN, pdirty' \in BOOLEAN, ptimer' \in BOOLEAN,
           pcontent' \in {pcontent, "unsaved"}, pdirty => pdirty', pcontent' # pcontent => pdirty',
           ptimer' => ptimer \/ pphase = "open",
           pphase = "open" /\ pnoted' >= 0 => pshown' = pnoted',
           psubs' = psubs \/ pphase = "open", DOMAIN psubs' = DOMAIN psubs,
           \A g \in DOMAIN psubs : psubs'[g] \in Subscription
    PROVE  MirrorInv' /\ FlushSaved
<1>1. pcontent' \in Offline!Content /\ (psaving = Offline!None => pcontent' # "saving")
    BY DEF MirrorInv, MirrorTypes, Debts, Offline!Content
<1>2. pphase = "open" /\ ~pdirty' => pcontent' = pcontent /\ ~pdirty
    OBVIOUS
<1>3. Debts'
    BY <1>1, <1>2 DEF MirrorInv, Debts
<1>4. phead' \in 0..OfflineEvents
    BY DEF MirrorInv, MirrorTypes, Offline!OfflineAssumption
<1>5. {pundrained', pdirty', ptimer'} \subseteq BOOLEAN
    OBVIOUS
<1>6. MirrorTypes'
    BY <1>1, <1>4, <1>5 DEF MirrorInv, MirrorTypes
<1>8. Connected'
    BY DEF MirrorInv, Connected, Offline!OneSubscription
<1>9. Numbered'
    BY DEF MirrorInv, Numbered
<1> QED BY <1>3, <1>6, <1>8, <1>9, SameQueue DEF MirrorInv

\* Event n reaches the store over a subscription, which is that of the last reconnect.
(* Applying a foreign update to the mirror. *)
LEMMA MirrorApplies ==
    ASSUME MirrorInv, NEW g \in DOMAIN psubs, NEW n \in 0..Foreign, Offline!Apply(g, n),
           NEW s \in Subscription, psubs' = [psubs EXCEPT ![g] = s],
           UNCHANGED <<phead, pdisk, pphase, pqueue, psaving, pgen, pruns, pstatus>>
    PROVE  MirrorInv' /\ FlushSaved
<1>1. g = pgen /\ pphase = "open"
    BY DEF MirrorInv, Connected, Offline!OneSubscription
<1>2. /\ pshown' = n /\ pnoted' = n /\ pundrained' = TRUE /\ pcontent' = "unsaved"
      /\ pdirty' = TRUE /\ ptimer' = TRUE
    BY <1>1 DEF Offline!Apply, Offline!IsCurrent, Offline!ScheduleSave
<1>3. phead' \in phead..OfflineEvents /\ n \in -1..Foreign
    BY DEF MirrorInv, MirrorTypes, Offline!OfflineAssumption
<1>4. DOMAIN psubs' = DOMAIN psubs /\ \A h \in DOMAIN psubs : psubs'[h] \in Subscription
    BY DEF MirrorInv, MirrorTypes
<1> QED BY <1>1, <1>2, <1>3, <1>4, MirrorChanges

(* The answer, the catch-up and the delivery of a subscription. *)
LEMMA MirrorFollows ==
    ASSUME MirrorInv, NEW g \in DOMAIN psubs, Offline!Answer(g) \/ Offline!CatchUp(g) \/ Offline!Deliver(g)
    PROVE  MirrorInv' /\ FlushSaved
<1>1. /\ psubs[g] \in Subscription /\ phead \in 0..OfflineEvents /\ OfflineEvents \in Nat /\ Foreign \in Nat
      /\ Foreign > OfflineEvents /\ pphase = "open"
    BY DEF MirrorInv, MirrorTypes, Connected, Offline!OneSubscription, Offline!OfflineAssumption
<1>2. /\ pundrained \in BOOLEAN /\ pdirty \in BOOLEAN /\ ptimer \in BOOLEAN /\ pshown \in 0..Foreign
      /\ pnoted \in -1..Foreign /\ \A h \in DOMAIN psubs : psubs[h] \in Subscription
      /\ (pnoted >= 0 => pshown = pnoted)
    BY <1>1 DEF MirrorInv, MirrorTypes, Numbered
<1>3. CASE Offline!Answer(g)
    <2> DEFINE s == [psubs[g] EXCEPT !.stage = "answered", !.answer = phead]
    <2>1. psubs' = [psubs EXCEPT ![g] = s] /\ UNCHANGED <<phead, pdisk, pphase, Offline!storeVars, Offline!saveVars, pgen, pruns, pstatus>>
        BY <1>3 DEF Offline!Answer
    <2>2. s \in Subscription
        BY <1>1 DEF Subscription
    <2> HIDE DEF s
    <2>3. DOMAIN psubs' = DOMAIN psubs /\ \A h \in DOMAIN psubs : psubs'[h] \in Subscription
        BY <1>2, <2>1, <2>2
    <2>4. phead' \in phead..OfflineEvents
        BY <1>1, <2>1
    <2> QED BY <1>1, <1>2, <2>1, <2>3, <2>4, MirrorChanges DEF Offline!storeVars, Offline!saveVars
<1>4. CASE Offline!CatchUp(g)
    <2> DEFINE s == [psubs[g] EXCEPT !.stage = "live", !.last = psubs[g].answer]
    <2>1. /\ psubs' = [psubs EXCEPT ![g] = s] /\ UNCHANGED <<phead, pdisk, pphase, pqueue, psaving, pgen, pruns, pstatus>>
          /\ (UNCHANGED <<Offline!storeVars, pdirty, ptimer>> \/ Offline!Apply(g, psubs[g].answer))
        BY <1>4 DEF Offline!CatchUp
    <2>2. s \in Subscription /\ psubs[g].answer \in 0..Foreign
        <3>1. psubs[g].answer \in 0..OfflineEvents
            BY <1>1 DEF Subscription
        <3>2. psubs[g].answer \in 0..Foreign /\ psubs[g].answer \in -1..Foreign
            BY <1>1, <3>1
        <3>3. \A r \in Subscription, a \in -1..Foreign :
                [r EXCEPT !.stage = "live", !.last = a] \in Subscription
            BY DEF Subscription
        <3> QED BY <1>1, <3>2, <3>3
    <2> HIDE DEF s
    <2>3. CASE Offline!Apply(g, psubs[g].answer)
        BY <2>1, <2>2, <2>3, MirrorApplies
    <2>4. CASE UNCHANGED <<Offline!storeVars, pdirty, ptimer>>
        <3>1. DOMAIN psubs' = DOMAIN psubs /\ \A h \in DOMAIN psubs : psubs'[h] \in Subscription
            BY <1>2, <2>1, <2>2
        <3>2. phead' \in phead..OfflineEvents
            BY <1>1, <2>1
        <3> QED BY <1>1, <1>2, <2>1, <2>4, <3>1, <3>2, MirrorChanges DEF Offline!storeVars
    <2> QED BY <2>1, <2>3, <2>4
<1>5. CASE Offline!Deliver(g)
    <2> DEFINE s == [psubs[g] EXCEPT !.last = @ + 1]
               n == psubs[g].last + 1
    <2>1. /\ psubs[g].last < phead /\ psubs' = [psubs EXCEPT ![g] = s] /\ Offline!Apply(g, n)
          /\ UNCHANGED <<phead, pdisk, pphase, pqueue, psaving, pgen, pruns, pstatus>>
        BY <1>5 DEF Offline!Deliver
    <2>2. psubs[g].last \in -1..Foreign
        BY <1>1 DEF Subscription
    <2>3. n \in 0..Foreign /\ n \in -1..Foreign
        BY <1>1, <2>1, <2>2
    <2>4. s \in Subscription
        BY <1>1, <2>3 DEF Subscription
    <2> HIDE DEF s, n
    <2> QED BY <2>1, <2>3, <2>4, MirrorApplies
<1> QED BY <1>3, <1>4, <1>5

\* A reconnect that is over takes its subscription with it, and the last one keeps its own.
(* A step of the sync that leaves contents, disk and queue alone. *)
LEMMA MirrorSyncs ==
    ASSUME MirrorInv, UNCHANGED <<phead, pdisk, pphase, Offline!storeVars, Offline!saveVars>>,
           pgen' \in Nat, DOMAIN pruns' \subseteq 1..pgen', DOMAIN psubs' \subseteq 1..pgen',
           \A g \in DOMAIN psubs' : psubs'[g] \in Subscription,
           pstatus' \in [ready : BOOLEAN, syncing : BOOLEAN, offline : BOOLEAN],
           Connected'
    PROVE  MirrorInv' /\ FlushSaved
<1>1. UNCHANGED <<phead, pdisk, pphase, pshown, pundrained, pnoted, pcontent, pdirty, ptimer, pqueue, psaving>>
    BY DEF Offline!storeVars, Offline!saveVars
<1>2. MirrorTypes'
    BY <1>1 DEF MirrorInv, MirrorTypes
<1>3. Debts' /\ Numbered'
    BY <1>1 DEF MirrorInv, Debts, Numbered
<1> QED BY <1>1, <1>2, <1>3, SameQueue DEF MirrorInv

(* A function without one of its arguments. *)
LEMMA WithoutFacts ==
    ASSUME NEW f, NEW g
    PROVE  DOMAIN Offline!Without(f, g) = DOMAIN f \ {g} /\ \A h \in DOMAIN f \ {g} : Offline!Without(f, g)[h] = f[h]
    BY DEF Offline!Without, Offline!Restrict

(* A function with one more, or one other, value. *)
LEMMA WithFacts ==
    ASSUME NEW f, NEW g, NEW v
    PROVE  /\ DOMAIN Offline!With(f, g, v) = DOMAIN f \cup {g} /\ Offline!With(f, g, v)[g] = v
           /\ \A h \in DOMAIN f \ {g} : Offline!With(f, g, v)[h] = f[h]
    BY DEF Offline!With

(* A new generation of the sync. *)
LEMMA MirrorReconnects == ASSUME MirrorInv, Offline!Reconnect PROVE MirrorInv' /\ FlushSaved
<1>1. /\ pphase = "open" /\ pgen' = pgen + 1 /\ pruns' = Offline!With(pruns, pgen + 1, "schema") /\ psubs' = <<>>
      /\ pstatus' = Offline!Superseded /\ UNCHANGED <<phead, pdisk, pphase, Offline!storeVars, Offline!saveVars>>
    BY DEF Offline!Reconnect
<1>2. pgen \in Nat /\ DOMAIN pruns \subseteq 1..pgen
    BY DEF MirrorInv, MirrorTypes
<1>3. DOMAIN pruns' = DOMAIN pruns \cup {pgen + 1} /\ pruns'[pgen + 1] = "schema"
    BY <1>1 DEF Offline!With
<1>4. pgen' \in Nat /\ DOMAIN pruns' \subseteq 1..pgen' /\ pgen' \in DOMAIN pruns'
    BY <1>1, <1>2, <1>3
<1>5. DOMAIN psubs' = {}
    BY <1>1
<1>6. /\ pstatus' \in [ready : BOOLEAN, syncing : BOOLEAN, offline : BOOLEAN]
      /\ ~pstatus'.ready
    BY <1>1 DEF Offline!Superseded
<1>7. Connected'
    BY <1>1, <1>3, <1>4, <1>5, <1>6 DEF Connected, Offline!OneSubscription
<1> QED BY <1>1, <1>4, <1>5, <1>6, <1>7, MirrorSyncs

(* The steps of a run: its subscription, the schema check, a cancellation, its
   readiness. *)
LEMMA MirrorRuns ==
    ASSUME MirrorInv, NEW g \in DOMAIN pruns,
           Offline!Subscribes(g) \/ Offline!SchemaFails(g) \/ Offline!Cancelled(g) \/ Offline!BecomesReady(g)
    PROVE  MirrorInv' /\ FlushSaved
<1>1. /\ pgen \in Nat /\ DOMAIN pruns \subseteq 1..pgen /\ DOMAIN psubs \subseteq 1..pgen
      /\ pstatus \in [ready : BOOLEAN, syncing : BOOLEAN, offline : BOOLEAN]
      /\ \A h \in DOMAIN psubs : psubs[h] \in Subscription
      /\ pnoted \in -1..Foreign /\ OfflineEvents \in Nat
    BY DEF MirrorInv, MirrorTypes, Offline!OfflineAssumption
<1>2. /\ DOMAIN psubs \subseteq {pgen} /\ (pphase # "open" => psubs = <<>>)
      /\ (pphase = "open" /\ pstatus.ready /\ ~pstatus.offline) => pgen \in DOMAIN psubs
      /\ (pphase = "open" /\ pstatus.syncing) => pgen \in DOMAIN pruns
      /\ pphase = "open" /\ pgen \in DOMAIN pruns /\ pruns[pgen] = "ready" /\ pgen \notin DOMAIN psubs
            => pstatus.offline
    BY DEF MirrorInv, Connected, Offline!OneSubscription
<1>3. CASE Offline!Subscribes(g)
    <2> DEFINE s == [last |-> pnoted, stage |-> "asked", answer |-> 0]
    <2>1. /\ pphase = "open" /\ g = pgen /\ pruns' = [pruns EXCEPT ![g] = "ready"] /\ psubs' = Offline!With(psubs, g, s)
          /\ UNCHANGED <<phead, pdisk, pphase, Offline!storeVars, Offline!saveVars, pgen, pstatus>>
        BY <1>3 DEF Offline!Subscribes, Offline!IsCurrent
    <2>2. s \in Subscription
        BY <1>1 DEF Subscription
    <2> HIDE DEF s
    <2>3. /\ DOMAIN pruns' = DOMAIN pruns /\ DOMAIN psubs' = DOMAIN psubs \cup {g} /\ pgen' = pgen
          /\ \A h \in DOMAIN psubs' : psubs'[h] \in Subscription
        BY <1>1, <2>1, <2>2 DEF Offline!With
    <2>4. Connected'
        BY <1>2, <2>1, <2>3 DEF Connected, Offline!OneSubscription
    <2> QED BY <1>1, <2>1, <2>3, <2>4, MirrorSyncs
<1>4. CASE Offline!SchemaFails(g)
    <2>1. /\ pphase = "open" /\ g = pgen /\ pruns' = Offline!Without(pruns, g) /\ pstatus' = Offline!Alone
          /\ UNCHANGED <<phead, pdisk, pphase, Offline!storeVars, Offline!saveVars, pgen, psubs>>
        BY <1>4 DEF Offline!SchemaFails, Offline!IsCurrent
    <2>2. DOMAIN pruns' = DOMAIN pruns \ {g}
        BY <2>1, WithoutFacts
    <2>3. pstatus' \in [ready : BOOLEAN, syncing : BOOLEAN, offline : BOOLEAN]
          /\ pstatus'.offline /\ ~pstatus'.syncing
        BY <2>1 DEF Offline!Alone
    <2>4. Connected'
        BY <1>2, <2>1, <2>2, <2>3 DEF Connected, Offline!OneSubscription
    <2> QED BY <1>1, <2>1, <2>2, <2>3, <2>4, MirrorSyncs
<1>5. CASE Offline!Cancelled(g)
    <2>1. /\ ~(pphase = "open" /\ g = pgen) /\ pruns' = Offline!Without(pruns, g) /\ psubs' = Offline!Without(psubs, g)
          /\ UNCHANGED <<phead, pdisk, pphase, Offline!storeVars, Offline!saveVars, pgen, pstatus>>
        BY <1>5 DEF Offline!Cancelled, Offline!IsCurrent
    <2>2. /\ DOMAIN pruns' = DOMAIN pruns \ {g} /\ \A h \in DOMAIN pruns \ {g} : pruns'[h] = pruns[h]
          /\ DOMAIN psubs' = DOMAIN psubs \ {g} /\ \A h \in DOMAIN psubs \ {g} : psubs'[h] = psubs[h]
        BY <2>1, WithoutFacts
    <2>3. psubs = <<>> => psubs' = <<>>
        BY <2>1 DEF Offline!Without, Offline!Restrict
    <2>4. pphase = "open" => g # pgen
        BY <2>1
    <2>5. Connected'
        BY <1>2, <2>1, <2>2, <2>3, <2>4 DEF Connected, Offline!OneSubscription
    <2> QED BY <1>1, <2>1, <2>2, <2>5, MirrorSyncs
<1>6. CASE Offline!BecomesReady(g)
    <2>1. /\ pphase = "open" /\ g = pgen /\ pruns[g] = "ready" /\ pruns' = Offline!Without(pruns, g)
          /\ pstatus' = [pstatus EXCEPT !.ready = TRUE, !.syncing = FALSE]
          /\ UNCHANGED <<phead, pdisk, pphase, Offline!storeVars, Offline!saveVars, pgen, psubs>>
        BY <1>6 DEF Offline!BecomesReady, Offline!IsCurrent
    <2>2. DOMAIN pruns' = DOMAIN pruns \ {g}
        BY <2>1, WithoutFacts
    <2>3. TRUE \in BOOLEAN /\ FALSE \in BOOLEAN
        OBVIOUS
    <2>4. pstatus' \in [ready : BOOLEAN, syncing : BOOLEAN, offline : BOOLEAN]
          /\ pstatus'.offline = pstatus.offline /\ ~pstatus'.syncing
        BY <1>1, <2>1, <2>3
    <2>5. Connected'
        BY <1>2, <2>1, <2>2, <2>4 DEF Connected, Offline!OneSubscription
    <2> QED BY <1>1, <2>1, <2>2, <2>4, <2>5, MirrorSyncs
<1> QED BY <1>3, <1>4, <1>5, <1>6

(* A subscription that fails. *)
LEMMA MirrorFails ==
    ASSUME MirrorInv, NEW g \in DOMAIN psubs, Offline!SubscriptionFails(g) PROVE MirrorInv' /\ FlushSaved
<1>1. /\ pgen \in Nat /\ DOMAIN pruns \subseteq 1..pgen /\ DOMAIN psubs \subseteq 1..pgen
      /\ pstatus \in [ready : BOOLEAN, syncing : BOOLEAN, offline : BOOLEAN]
      /\ \A h \in DOMAIN psubs : psubs[h] \in Subscription
    BY DEF MirrorInv, MirrorTypes
<1>2. g = pgen /\ pphase = "open" /\ DOMAIN psubs \subseteq {pgen}
    BY DEF MirrorInv, Connected, Offline!OneSubscription
<1>3. /\ psubs' = Offline!Without(psubs, g) /\ pstatus' = [pstatus EXCEPT !.offline = TRUE, !.syncing = FALSE]
      /\ UNCHANGED <<phead, pdisk, pphase, Offline!storeVars, Offline!saveVars, pgen, pruns>>
    BY <1>2 DEF Offline!SubscriptionFails, Offline!IsCurrent
<1>4. DOMAIN psubs' = DOMAIN psubs \ {g} /\ \A h \in DOMAIN psubs \ {g} : psubs'[h] = psubs[h]
    BY <1>3, WithoutFacts
<1>5. TRUE \in BOOLEAN /\ FALSE \in BOOLEAN
    OBVIOUS
<1>6. pstatus' \in [ready : BOOLEAN, syncing : BOOLEAN, offline : BOOLEAN]
      /\ pstatus'.offline /\ ~pstatus'.syncing
    BY <1>1, <1>3, <1>5
<1>7. Connected'
    BY <1>2, <1>3, <1>4, <1>6 DEF Connected, Offline!OneSubscription
<1> QED BY <1>1, <1>3, <1>4, <1>6, <1>7, MirrorSyncs

(* close(). *)
LEMMA MirrorCloses == ASSUME MirrorInv, Offline!Close PROVE MirrorInv' /\ FlushSaved
<1>1. /\ pphase = "open" /\ pphase' = "closed" /\ ptimer' = FALSE /\ pgen' = pgen + 1 /\ psubs' = <<>>
      /\ pcontent' = "saved"
      /\ pqueue' = [i \in DOMAIN pqueue |-> [pqueue[i] EXCEPT !.owed = "saved"]]
      /\ UNCHANGED <<phead, pdisk, pshown, pundrained, pnoted, pdirty, psaving, pruns, pstatus>>
    BY DEF Offline!Close
<1>2. pqueue \in Seq(Owing) /\ Len(pqueue) \in Nat /\ DOMAIN pqueue = 1..Len(pqueue)
      /\ \A i \in 1..Len(pqueue) : pqueue[i] \in Owing
    BY ElementOfSeq, LenProperties DEF MirrorInv, MirrorTypes
<1>3. \A i \in 1..Len(pqueue) : pqueue'[i] \in Owing /\ pqueue'[i].owed = "saved"
    BY <1>1, <1>2 DEF Owing, Offline!Content
<1>4. pqueue' \in [1..Len(pqueue) -> Owing] /\ DOMAIN pqueue' = 1..Len(pqueue)
    BY <1>1, <1>2, <1>3
<1>5. pqueue' \in Seq(Owing)
    BY <1>2, <1>4, SeqDef
<1>6. pqueue # <<>> => pqueue' # <<>> /\ pqueue'[1].owed = "saved"
    <2>1. pqueue # <<>> => 1 \in 1..Len(pqueue)
        BY <1>2, EmptySeq
    <2> QED BY <1>3, <1>4, <2>1
<1>7. Debts'
    BY <1>1, <1>3, <1>4, <1>6 DEF MirrorInv, Debts
<1>8. pgen' \in Nat /\ DOMAIN pruns' \subseteq 1..pgen' /\ DOMAIN psubs' = {}
    BY <1>1 DEF MirrorInv, MirrorTypes
<1>9. ptimer' \in BOOLEAN
    BY <1>1
<1>10. MirrorTypes'
    BY <1>1, <1>5, <1>8, <1>9 DEF MirrorInv, MirrorTypes, Offline!Content
<1>11. Numbered' /\ Connected'
    BY <1>1, <1>8 DEF MirrorInv, Numbered, Connected, Offline!OneSubscription
<1> QED BY <1>1, <1>7, <1>10, <1>11 DEF MirrorInv, FlushSaved

(* The process goes down: what was not on disk is gone, and so are the debts. *)
LEMMA MirrorDies == ASSUME MirrorInv, Offline!Die PROVE MirrorInv' /\ FlushSaved
<1>1. /\ pphase' = "off" /\ pdisk' \in {pdisk} \cup (IF psaving = Offline!None THEN {} ELSE {psaving})
      /\ pdirty' = FALSE /\ ptimer' = FALSE /\ pqueue' = <<>> /\ psaving' = Offline!None
      /\ pgen' = 0 /\ pruns' = <<>> /\ psubs' = <<>> /\ pstatus' = Offline!Alone
      /\ pshown' = 0 /\ pundrained' = FALSE /\ pnoted' = -1 /\ pcontent' = "saved" /\ phead' = phead
    BY DEF Offline!Die
<1>2. pdisk' = pdisk \/ (psaving # Offline!None /\ pdisk' = psaving)
    BY <1>1
<1>3. pdisk' \in Offline!Records /\ pdisk'.shown >= 0 /\ (pdisk'.seq >= 0 => pdisk'.shown = pdisk'.seq)
    BY <1>2 DEF MirrorInv, MirrorTypes, Numbered
<1>4. psaving' \in Offline!Records /\ ~(psaving'.seq >= 0)
    BY <1>1 DEF Offline!None, Offline!Records, MirrorInv, MirrorTypes, Offline!OfflineAssumption
<1>5. pstatus' \in [ready : BOOLEAN, syncing : BOOLEAN, offline : BOOLEAN]
    BY <1>1 DEF Offline!Alone
<1>6. DOMAIN pruns' = {} /\ DOMAIN psubs' = {} /\ {pundrained', pdirty', ptimer'} \subseteq BOOLEAN
      /\ pqueue' \in Seq(Owing)
    <2>1. {pundrained', pdirty', ptimer'} \subseteq BOOLEAN
        BY <1>1
    <2>2. <<>> \in Seq(Owing) /\ DOMAIN <<>> = {}
        BY EmptySeq
    <2> QED BY <1>1, <2>1, <2>2
<1>7. pshown' \in 0..Foreign /\ pnoted' \in -1..Foreign
    BY <1>1 DEF MirrorInv, MirrorTypes, Offline!OfflineAssumption
<1>8. MirrorTypes'
    BY <1>1, <1>3, <1>4, <1>5, <1>6, <1>7 DEF MirrorInv, MirrorTypes, Offline!Content
<1>9. Debts' /\ Numbered' /\ Connected'
    BY <1>1, <1>3, <1>4, <1>6 DEF Debts, Numbered, Connected, Offline!OneSubscription
<1> QED BY <1>1, <1>8, <1>9 DEF MirrorInv, FlushSaved

(* A flush that has nothing to write. *)
LEMMA MirrorIdles == ASSUME MirrorInv, Offline!FlushIsIdle PROVE MirrorInv' /\ FlushSaved
<1>1. /\ pqueue # <<>> /\ psaving = Offline!None /\ pqueue' = Tail(pqueue)
      /\ pphase = "closed" \/ ~pdirty
      /\ UNCHANGED <<phead, pdisk, pphase, pshown, pundrained, pnoted, pcontent, pdirty, ptimer, psaving,
                     pgen, pruns, psubs, pstatus>>
    BY DEF Offline!FlushIsIdle, Offline!Idle, Offline!storeVars, Offline!syncVars
<1>2. pqueue \in Seq(Owing)
    BY DEF MirrorInv, MirrorTypes
<1> DEFINE t == Tail(pqueue)
<1>a. /\ t \in Seq(Owing) /\ Len(pqueue) \in Nat
      /\ \A i \in DOMAIN t : i + 1 \in DOMAIN pqueue /\ t[i] = pqueue[i + 1]
    BY <1>1, <1>2, QueueShrinks
<1>b. pqueue' = t
    BY <1>1
<1> HIDE DEF t
<1>3. /\ pqueue' \in Seq(Owing)
      /\ \A i \in DOMAIN pqueue' : i + 1 \in DOMAIN pqueue /\ pqueue'[i] = pqueue[i + 1]
    BY <1>a, <1>b
<1>4. MirrorTypes'
    BY <1>1, <1>3 DEF MirrorInv, MirrorTypes
<1>5. pphase # "off" /\ psaving = Offline!None
    BY <1>1 DEF MirrorInv, Debts, Offline!FlushIsIdle
<1>6. Debts'
    BY <1>1, <1>3, <1>5 DEF MirrorInv, Debts
<1>7. Numbered' /\ Connected'
    BY <1>1, SyncSame DEF MirrorInv, Numbered
<1>8. FlushSaved
    <2>1. 1 \in DOMAIN pqueue
        BY <1>1, <1>2, FirstThere
    <2>2. pphase = "open" => ~pdirty
        BY <1>1
    <2> QED BY <2>1, <2>2 DEF MirrorInv, Debts, FlushSaved
<1> QED BY <1>4, <1>6, <1>7, <1>8 DEF MirrorInv

(* The start of a write. *)
LEMMA MirrorWrites == ASSUME MirrorInv, Offline!WriteStarts PROVE MirrorInv' /\ FlushSaved
<1>1. /\ pqueue # <<>> /\ psaving = Offline!None /\ pphase # "closed"
      /\ pdirty' = FALSE /\ psaving' = Offline!Record
      /\ pcontent' = IF pcontent = "unsaved" THEN "saving" ELSE pcontent
      /\ pqueue' = Moved(pqueue, "unsaved", "saving")
      /\ UNCHANGED <<phead, pdisk, pphase, pshown, pundrained, pnoted, ptimer, pgen, pruns, psubs, pstatus>>
    BY DEF Offline!WriteStarts, Offline!Idle, Offline!Advanced, Moved, Offline!syncVars
<1>2. pphase = "open" /\ pqueue \in Seq(Owing)
    BY <1>1 DEF MirrorInv, MirrorTypes, Debts
<1>3. /\ pqueue' \in Seq(Owing) /\ DOMAIN pqueue' = DOMAIN pqueue /\ Len(pqueue') = Len(pqueue)
      /\ pqueue' # <<>>
      /\ \A i \in DOMAIN pqueue :
            pqueue'[i].owed = IF pqueue[i].owed = "unsaved" THEN "saving" ELSE pqueue[i].owed
    BY <1>1, <1>2, QueueAdvances DEF Offline!Content
<1>4. 1 \in DOMAIN pqueue /\ Len(pqueue) \in Nat
    BY <1>1, <1>2, FirstThere
<1>6. /\ psaving' \in Offline!Records /\ psaving'.shown >= 0 /\ (psaving'.seq >= 0 => psaving'.shown = psaving'.seq)
      /\ psaving' # Offline!None
    BY <1>1, <1>2 DEF MirrorInv, MirrorTypes, Numbered, Offline!Record, Offline!Records, Offline!None, Offline!OfflineAssumption
<1>7. pcontent' \in Offline!Content /\ pdirty' \in BOOLEAN
    BY <1>1 DEF MirrorInv, MirrorTypes, Offline!Content
<1>5. Debts'
    <2>1. pqueue'[1].owed # "unsaved" /\ pcontent' # "unsaved"
        BY <1>1, <1>3, <1>4
    <2>2. \A i \in DOMAIN pqueue' : pqueue'[i].owed # "unsaved"
        BY <1>3
    <2>3. pphase' = "open" /\ (ptimer' => pphase' = "open")
        BY <1>1, <1>2
    <2> QED BY <1>3, <1>6, <2>1, <2>2, <2>3 DEF Debts
<1>8. MirrorTypes'
    BY <1>1, <1>3, <1>6, <1>7 DEF MirrorInv, MirrorTypes
<1>9. Numbered' /\ Connected'
    BY <1>1, <1>6, SyncSame DEF MirrorInv, Numbered
<1>10. FlushSaved
    BY <1>3, <1>4 DEF FlushSaved
<1> QED BY <1>5, <1>8, <1>9, <1>10 DEF MirrorInv

\* The application writes, a drain reports, and the line of the remote goes on.
(* A local write, a report and an event. *)
LEMMA MirrorTurns == ASSUME MirrorInv, Offline!Write \/ Offline!Report \/ Offline!Emit PROVE MirrorInv' /\ FlushSaved
<1>1. /\ phead \in Nat /\ OfflineEvents \in Nat /\ phead <= OfflineEvents
      /\ pshown \in 0..Foreign /\ pnoted \in -1..Foreign
      /\ pundrained \in BOOLEAN /\ pdirty \in BOOLEAN /\ ptimer \in BOOLEAN
      /\ \A g \in DOMAIN psubs : psubs[g] \in Subscription
      /\ pphase = "open" /\ pnoted >= 0 => pshown = pnoted
    BY DEF MirrorInv, MirrorTypes, Numbered, Offline!OfflineAssumption
<1>2. phead \in phead..OfflineEvents
    BY <1>1
<1>3. CASE Offline!Write
    <2>1. pundrained' = TRUE /\ UNCHANGED <<phead, pdisk, pphase, pshown, pnoted, pcontent, pdirty, ptimer,
                                          pqueue, psaving, pgen, pruns, psubs, pstatus>>
        BY <1>3 DEF Offline!Write, Offline!saveVars, Offline!syncVars
    <2>2. pundrained' \in BOOLEAN
        BY <2>1
    <2> QED BY <1>1, <1>2, <2>1, <2>2, MirrorChanges
<1>4. CASE Offline!Report
    <2>1. /\ pphase = "open" /\ pundrained' = FALSE /\ pcontent' = "unsaved"
          /\ pdirty' = TRUE /\ ptimer' = TRUE
          /\ UNCHANGED <<phead, pdisk, pphase, pshown, pnoted, pqueue, psaving, pgen, pruns, psubs, pstatus>>
        BY <1>4 DEF Offline!Report, Offline!ScheduleSave, Offline!syncVars
    <2>2. pundrained' \in BOOLEAN /\ pdirty' \in BOOLEAN /\ ptimer' \in BOOLEAN
        BY <2>1
    <2> QED BY <1>1, <1>2, <2>1, <2>2, MirrorChanges
<1>5. CASE Offline!Emit
    <2>1. /\ phead < OfflineEvents /\ phead' = phead + 1
          /\ UNCHANGED <<pdisk, pphase, pshown, pundrained, pnoted, pcontent, pdirty, ptimer,
                         pqueue, psaving, pgen, pruns, psubs, pstatus>>
        BY <1>5 DEF Offline!Emit, Offline!storeVars, Offline!saveVars, Offline!syncVars
    <2>2. phead' \in phead..OfflineEvents
        BY <1>1, <2>1
    <2> QED BY <1>1, <2>1, <2>2, MirrorChanges
<1> QED BY <1>3, <1>4, <1>5

(* A flush that is asked for, by the timer or by the program. *)
LEMMA MirrorFlushes ==
    ASSUME MirrorInv, Offline!TimerFires \/ \E force \in BOOLEAN : Offline!Flush(force)
    PROVE  MirrorInv' /\ FlushSaved
<1>1. pdirty \in BOOLEAN /\ (ptimer => pphase = "open") /\ Len(pqueue) \in Nat
    BY LenProperties DEF MirrorInv, MirrorTypes, Debts
<1>2. CASE Offline!TimerFires
    <2>1. /\ pphase = "open" /\ ptimer' = FALSE /\ Offline!Enqueue(FALSE) /\ pdirty' = pdirty
          /\ UNCHANGED <<phead, pdisk, pphase, Offline!storeVars, psaving, Offline!syncVars>>
        BY <1>1, <1>2 DEF Offline!TimerFires
    <2>2. MirrorInv' /\ Len(pqueue') > Len(pqueue) /\ Len(pqueue') \in Nat
        BY <1>1, <2>1, MirrorEnqueues
    <2> QED BY <1>1, <2>2, Longer
<1>3. CASE \E force \in BOOLEAN : Offline!Flush(force)
    <2>1. PICK force \in BOOLEAN : Offline!Flush(force)
        BY <1>3
    <2>2. /\ pphase = "open" /\ ptimer' = FALSE /\ Offline!Enqueue(force) /\ pdirty' = (pdirty \/ force)
          /\ UNCHANGED <<phead, pdisk, pphase, Offline!storeVars, psaving, Offline!syncVars>>
        BY <2>1 DEF Offline!Flush
    <2>3. pdirty' \in BOOLEAN /\ (pdirty => pdirty')
        BY <1>1, <2>2
    <2>4. MirrorInv' /\ Len(pqueue') > Len(pqueue) /\ Len(pqueue') \in Nat
        BY <2>2, <2>3, MirrorEnqueues
    <2> QED BY <1>1, <2>4, Longer
<1> QED BY <1>2, <1>3

(* The end of a write, good or bad. *)
LEMMA MirrorWritten == ASSUME MirrorInv, Offline!WriteEnds \/ Offline!WriteFails PROVE MirrorInv' /\ FlushSaved
<1>1. pdirty \in BOOLEAN /\ ptimer \in BOOLEAN
    BY DEF MirrorInv, MirrorTypes
<1>2. CASE Offline!WriteEnds
    <2>1. /\ psaving # Offline!None /\ pdisk' = psaving /\ psaving' = Offline!None /\ pdirty' = pdirty
          /\ ptimer' = (ptimer \/ (pdirty /\ pphase = "open")) /\ Offline!Answered("saved")
          /\ UNCHANGED <<phead, pphase, pshown, pundrained, pnoted, Offline!syncVars>>
        BY <1>2 DEF Offline!WriteEnds, Offline!Again
    <2>2. ptimer' \in BOOLEAN /\ (ptimer' => ptimer \/ pphase = "open") /\ pdirty' \in BOOLEAN
        BY <1>1, <2>1
    <2>3. MirrorInv' /\ pqueue[1].owed # "unsaved"
        BY <2>1, <2>2, MirrorAnswered
    <2> QED BY <2>3 DEF FlushSaved
<1>3. CASE Offline!WriteFails
    <2>1. /\ psaving # Offline!None /\ pdisk' \in {pdisk, psaving} /\ psaving' = Offline!None /\ pdirty' = TRUE
          /\ ptimer' = (ptimer \/ (TRUE /\ pphase = "open")) /\ Offline!Answered("unsaved")
          /\ UNCHANGED <<phead, pphase, pshown, pundrained, pnoted, Offline!syncVars>>
        BY <1>3 DEF Offline!WriteFails, Offline!Again
    <2>2. ptimer' \in BOOLEAN /\ (ptimer' => ptimer \/ pphase = "open") /\ pdirty' \in BOOLEAN /\ pdirty'
        BY <1>1, <2>1
    <2>3. MirrorInv' /\ pqueue[1].owed # "unsaved"
        BY <2>1, <2>2, MirrorAnswered
    <2> QED BY <2>3 DEF FlushSaved
<1> QED BY <1>2, <1>3

(* Opening again after a close, with an outdated record or with a record that
   does not load. *)
LEMMA MirrorReopens == ASSUME MirrorInv, Offline!Open \/ Offline!OpenOutdated \/ Offline!LoadFails PROVE MirrorInv' /\ FlushSaved
<1>1. PICK loaded \in {pdisk, Offline!Fresh} : Offline!OpenWith(loaded)
    BY DEF Offline!Open, Offline!OpenOutdated, Offline!LoadFails
<1>2. MirrorInv'
    BY <1>1, MirrorOpens
<1>3. pqueue' = pqueue
    BY <1>1 DEF Offline!OpenWith
<1> QED BY <1>2, <1>3, SameQueue

(* No step. *)
LEMMA MirrorStays == ASSUME MirrorInv, UNCHANGED Offline!vars PROVE MirrorInv' /\ FlushSaved
<1>1. UNCHANGED <<phead, pdisk, pphase, pshown, pundrained, pnoted, pcontent, pdirty, ptimer, pqueue, psaving,
                  pgen, pruns, psubs, pstatus>>
    BY DEF Offline!vars, Offline!storeVars, Offline!saveVars, Offline!syncVars
<1>2. MirrorTypes'
    BY <1>1 DEF MirrorInv, MirrorTypes
<1>3. Debts' /\ Numbered' /\ Connected'
    BY <1>1, SyncSame DEF MirrorInv, Debts, Numbered
<1> QED BY <1>1, <1>2, <1>3, SameQueue DEF MirrorInv

(* Every step of the mirror keeps its invariant and tells no flush it was saved
   when it was not. *)
LEMMA MirrorStep == ASSUME MirrorInv, Offline!Next \/ UNCHANGED Offline!vars PROVE MirrorInv' /\ FlushSaved
<1>1. CASE UNCHANGED Offline!vars
    BY <1>1, MirrorStays
<1>2. CASE Offline!Saves
    BY <1>2, MirrorTurns, MirrorFlushes, MirrorIdles, MirrorWrites, MirrorWritten DEF Offline!Saves
<1>3. CASE Offline!Follows
    BY <1>3, MirrorRuns, MirrorFollows DEF Offline!Follows
<1>4. CASE Offline!Open \/ Offline!OpenOutdated \/ Offline!LoadFails
    BY <1>4, MirrorReopens
<1>5. CASE Offline!Close \/ Offline!Die \/ Offline!Write \/ Offline!Emit \/ Offline!Reconnect
    BY <1>5, MirrorCloses, MirrorDies, MirrorTurns, MirrorReconnects
<1>6. CASE Offline!WriteFails \/ \E force \in BOOLEAN : Offline!Flush(force)
    BY <1>6, MirrorWritten, MirrorFlushes
<1>7. CASE \E g \in DOMAIN pruns : Offline!SchemaFails(g)
    BY <1>7, MirrorRuns
<1>8. CASE \E g \in DOMAIN psubs : Offline!SubscriptionFails(g)
    BY <1>8, MirrorFails
<1> QED BY <1>1, <1>2, <1>3, <1>4, <1>5, <1>6, <1>7, <1>8 DEF Offline!Next

-----------------------------------------------------------------------------
(* The consumers together *)

(* The constants the run gives its consumers are numbers. *)
LEMMA ConstantsFit ==
    /\ FirstSeq \in Nat /\ MaxSeq - 2 \in Nat /\ MaxSeq - 1 \in Nat /\ HasKeyframe \in BOOLEAN
    /\ ForeignSince \in Nat /\ ForeignSince > MaxSeq - 1 /\ ForeignSince > 0
    BY LineAssumption, SubscribeAssumption, ConsumersAssumption DEF Route!RouteAssumption

(* The assumptions of ReplaySubscribe hold of the strict consumer's constants. *)
LEMMA StrictFits == StrictP!LineAssumption /\ StrictP!SubscribeAssumption
<1>1. StrictP!LineAssumption
    BY ConstantsFit
<1>2. StrictP!SubscribeAssumption
    BY ConstantsFit, SubscribeAssumption
<1> QED BY <1>1, <1>2

(* The assumptions of ReplaySubscribe hold of the bare consumer's constants. *)
LEMMA BareFits == BareP!LineAssumption /\ BareP!SubscribeAssumption
<1>1. BareP!LineAssumption
    BY ConstantsFit
<1>2. BareP!SubscribeAssumption
    BY ConstantsFit, SubscribeAssumption
<1> QED BY <1>1, <1>2

(* The assumption of ReplayRoute holds of the route's constants. *)
LEMMA RouteFits == RouteP!RouteAssumption
    BY ConsumersAssumption, SameRouteAssumption

(* Which consumer a behaviour has does not change: the strict one. *)
LEMMA StrictStays == ConsumersSpec => [](consumer = "strict") \/ []~(consumer = "strict")
<1>1. (consumer = "strict") /\ [ConsumersNext]_allVars => (consumer = "strict")'
    BY DEF ConsumersNext, allVars
<1>2. ~(consumer = "strict") /\ [ConsumersNext]_allVars => ~(consumer = "strict")'
    BY DEF ConsumersNext, allVars
<1> QED BY <1>1, <1>2, PTL DEF ConsumersSpec

(* Which consumer a behaviour has does not change: the bare one. *)
LEMMA BareStays == ConsumersSpec => [](consumer = "bare") \/ []~(consumer = "bare")
<1>1. (consumer = "bare") /\ [ConsumersNext]_allVars => (consumer = "bare")'
    BY DEF ConsumersNext, allVars
<1>2. ~(consumer = "bare") /\ [ConsumersNext]_allVars => ~(consumer = "bare")'
    BY DEF ConsumersNext, allVars
<1> QED BY <1>1, <1>2, PTL DEF ConsumersSpec

(* The first consumer of the composed specification behaves as ReplaySubscribe
   says, so each theorem of ReplaySubscribe_proofs holds of it. The others are
   instances with variables of their own. *)
THEOREM FrameSubscribes == ConsumersSpec => Spec
<1>1. ConsumersInit => Init
    BY DEF ConsumersInit, FrameRests
<1>2. [ConsumersNext]_allVars => [Next]_vars
    BY DEF ConsumersNext, allVars
<1> QED BY <1>1, <1>2, PTL DEF ConsumersSpec, Spec

(* With the strict consumer, its line and subscription behave as
   ReplaySubscribe says. *)
LEMMA StrictSubscribes == ConsumersSpec /\ [](consumer = "strict") => StrictP!Spec
<1>1. ConsumersInit /\ consumer = "strict" => StrictP!Init
    BY SameStrictInit DEF ConsumersInit
<1>2. (consumer = "strict") /\ [ConsumersNext]_allVars => [StrictP!Next]_StrictP!vars
    BY SameStrictNext DEF ConsumersNext, allVars, otherVars, StrictP!vars, StrictP!lineVars,
        StrictP!netVars, StrictP!subVars, StrictP!appVars
<1> QED BY <1>1, <1>2, PTL DEF ConsumersSpec, StrictP!Spec

(* With the bare consumer, its line and subscription behave as ReplaySubscribe
   says. *)
LEMMA BareSubscribes == ConsumersSpec /\ [](consumer = "bare") => BareP!Spec
<1>1. ConsumersInit /\ consumer = "bare" => BareP!Init
    BY SameBareInit DEF ConsumersInit
<1>2. (consumer = "bare") /\ [ConsumersNext]_allVars => [BareP!Next]_BareP!vars
    BY SameBareNext DEF ConsumersNext, allVars, otherVars, BareP!vars, BareP!lineVars,
        BareP!netVars, BareP!subVars, BareP!appVars
<1> QED BY <1>1, <1>2, PTL DEF ConsumersSpec, BareP!Spec

(* The route behaves as ReplayRoute says; with another consumer it does not
   move. *)
LEMMA RouteSwitches == ConsumersSpec => RouteP!Spec
<1>1. ConsumersInit => RouteP!Init
    BY SameRouteInit DEF ConsumersInit, RouteRests
<1>2. [ConsumersNext]_allVars => [RouteP!Next]_RouteP!vars
    BY SameRouteNext DEF ConsumersNext, allVars, routeVars, RouteP!vars, RouteP!lineVars,
        RouteP!switchVars, RouteP!loopVars
<1> QED BY <1>1, <1>2, PTL DEF ConsumersSpec, RouteP!Spec

(* The invariant of the mirror holds in every reachable state. *)
LEMMA MirrorHolds == ConsumersSpec => []MirrorInv
<1>1. ConsumersInit => Offline!Init
    BY DEF ConsumersInit, OfflineRests
<1>2. ConsumersInit => MirrorInv
    BY <1>1, ConsumersAssumption, MirrorStarts
<1>3. [ConsumersNext]_allVars => Offline!Next \/ UNCHANGED Offline!vars
    BY DEF ConsumersNext, allVars, offlineVars, Offline!vars, Offline!storeVars,
        Offline!saveVars, Offline!syncVars
<1>4. MirrorInv /\ [ConsumersNext]_allVars => MirrorInv'
    BY <1>3, MirrorStep
<1> QED BY <1>2, <1>4, PTL DEF ConsumersSpec

(* The consumers besides the first, that is the strict subscription and the one
   of a line without keyframes (replay-wire.ts:284-512), the route (replay-
   route.ts:78-247) and the persisted mirror (store-offline.ts), are well typed, have
   no hole in what they were given and are complete when live, and each record
   of the mirror on disk has the contents of its number, with one subscription
   at a time. *)
THEOREM OthersAreCompleteHolds == ConsumersSpec => []OthersAreComplete
<1> DEFINE SP == Strict!TypeOK /\ Strict!NoHole /\ Strict!LiveIsComplete
           BP == Bare!TypeOK /\ Bare!NoHole /\ Bare!LiveIsComplete
           RP == Route!TypeOK /\ Route!NoHole /\ Route!LiveIsComplete
           OP == Offline!TypeOK /\ Offline!RecordMeansItsNumber /\ Offline!OneSubscription
<1>1. ConsumersSpec => [](consumer = "strict" => SP)
    <2>1. StrictP!Spec => []StrictP!TypeOK
        BY StrictFits, StrictP!TypeCorrect
    <2>2. StrictP!Spec => []StrictP!NoHole
        BY StrictFits, StrictP!NeverAHole
    <2>3. StrictP!Spec => []StrictP!LiveIsComplete
        BY StrictFits, StrictP!NothingLostWhileLive
    <2>4. StrictP!TypeOK /\ StrictP!NoHole /\ StrictP!LiveIsComplete => SP
        BY SameStrictProperties
    <2> HIDE DEF SP
    <2> QED BY <2>1, <2>2, <2>3, <2>4, StrictStays, StrictSubscribes, PTL
<1>2. ConsumersSpec => [](consumer = "bare" => BP)
    <2>1. BareP!Spec => []BareP!TypeOK
        BY BareFits, BareP!TypeCorrect
    <2>2. BareP!Spec => []BareP!NoHole
        BY BareFits, BareP!NeverAHole
    <2>3. BareP!Spec => []BareP!LiveIsComplete
        BY BareFits, BareP!NothingLostWhileLive
    <2>4. BareP!TypeOK /\ BareP!NoHole /\ BareP!LiveIsComplete => BP
        BY SameBareProperties
    <2> HIDE DEF BP
    <2> QED BY <2>1, <2>2, <2>3, <2>4, BareStays, BareSubscribes, PTL
<1>3. ConsumersSpec => []RP
    <2>2. RouteP!Spec => []RouteP!TypeOK
        BY RouteFits, RouteP!TypeCorrect
    <2>3. RouteP!Spec => []RouteP!NoHole
        BY RouteFits, RouteP!NoHoleHolds
    <2>4. RouteP!Spec => []RouteP!LiveIsComplete
        BY RouteFits, RouteP!LiveIsCompleteHolds
    <2>5. RouteP!TypeOK /\ RouteP!NoHole /\ RouteP!LiveIsComplete => RP
        BY SameTypeOK, SameNoHole, SameLiveIsComplete
    <2> HIDE DEF RP
    <2> QED BY <2>2, <2>3, <2>4, <2>5, RouteSwitches, PTL
<1>4. ConsumersSpec => []OP
    <2>1. MirrorInv => OP
        BY MirrorProperties
    <2> QED BY <2>1, MirrorHolds, PTL
<1>5. /\ consumer = "strict" => SP
      /\ consumer = "bare" => BP
      /\ RP /\ OP
      => OthersAreComplete
    BY DEF OthersAreComplete
<1> HIDE DEF SP, BP, RP, OP
<1> QED BY <1>1, <1>2, <1>3, <1>4, <1>5, PTL

(* A strict subscription (gapPolicy "error", replay-wire.ts:372-399) that has a
   place in the line moves by exactly one number a step: a gap ends it. It says
   so of the strict consumer of the composition, by the theorem of
   ReplaySubscribe_proofs. *)
THEOREM GapsAreTerminalHolds == ConsumersSpec => GapsAreTerminal
<1>1. StrictP!Spec =>
        [][olast >= 0 /\ olast' # olast => olast' = olast + 1 /\ ~obyKeyframe']_StrictP!vars
    BY StrictFits, StrictP!StrictAdvancesByOne
<1>3. [olast >= 0 /\ olast' # olast => olast' = olast + 1 /\ ~obyKeyframe']_StrictP!vars
        => [(consumer = "strict" /\ olast >= 0 /\ olast' # olast)
                => (olast' = olast + 1 /\ ~obyKeyframe')]_allVars
    BY DEF StrictP!vars, StrictP!subVars
<1>4. ~(consumer = "strict") => [(consumer = "strict" /\ olast >= 0 /\ olast' # olast)
                => (olast' = olast + 1 /\ ~obyKeyframe')]_allVars
    OBVIOUS
<1> QED BY <1>1, <1>3, <1>4, StrictStays, StrictSubscribes, PTL DEF GapsAreTerminal

-----------------------------------------------------------------------------
(* What they promise *)

(* The subscription with keyframes implements both views, of which it moves
   one. *)
LEMMA FramePromise ==
    HasKeyframe /\ ConsumersSpec /\ [](consumer = "frame") => WithKeyframes!Spec /\ WithoutKeyframes!Spec
<1> SUFFICES ASSUME HasKeyframe PROVE ConsumersSpec /\ [](consumer = "frame")
                                        => WithKeyframes!Spec /\ WithoutKeyframes!Spec
    OBVIOUS
<1>1. Spec => View!Spec
    BY PromiseKept DEF KeepsPromise
<1>2. ASSUME consumer = "frame" PROVE ProducedNow = head /\ KeyframeView = seen /\ BareView = {}
    BY <1>2 DEF ProducedNow, KeyframeView, BareView, ViewNow
<1>3. ASSUME consumer = "frame", View!Init PROVE WithKeyframes!Init /\ WithoutKeyframes!Init
    <2>1. {} = 1..0 /\ head \in Nat /\ 0 \in 0..head
        BY <1>3 DEF View!Init
    <2> QED BY <1>2, <1>3, <2>1 DEF View!Init, WithKeyframes!Init, WithoutKeyframes!Init
<1>4. ASSUME consumer = "frame", (consumer = "frame")', [View!Next]_<<head, seen>>
      PROVE  /\ [WithKeyframes!Next]_<<ProducedNow, KeyframeView>>
             /\ [WithoutKeyframes!Next]_<<ProducedNow, BareView>>
    <2>1. ProducedNow = head /\ KeyframeView = seen /\ BareView = {}
        BY <1>2, <1>4
    <2>2. ProducedNow' = head' /\ KeyframeView' = seen' /\ BareView' = {}
        BY <1>4 DEF ProducedNow, KeyframeView, BareView, ViewNow
    <2>3. CASE View!Produce
        BY <2>1, <2>2, <2>3 DEF View!Produce, WithKeyframes!Next, WithKeyframes!Produce,
            WithoutKeyframes!Next, WithoutKeyframes!Produce
    <2>4. CASE View!Extend
        BY <2>1, <2>2, <2>4 DEF View!Extend, WithKeyframes!Next, WithKeyframes!Extend
    <2>5. CASE View!Replace
        BY <2>1, <2>2, <2>5 DEF View!Replace, WithKeyframes!Next, WithKeyframes!Replace
    <2>6. CASE UNCHANGED <<head, seen>>
        BY <2>1, <2>2, <2>6
    <2> QED BY <1>4, <2>3, <2>4, <2>5, <2>6 DEF View!Next
<1>5. ConsumersSpec /\ [](consumer = "frame") => Spec
    BY FrameSubscribes, PTL
<1> QED BY <1>1, <1>3, <1>4, <1>5, PTL DEF View!Spec, WithKeyframes!Spec, WithoutKeyframes!Spec

(* The strict subscription implements both views, of which it moves one. *)
LEMMA StrictPromise ==
    HasKeyframe /\ ConsumersSpec /\ [](consumer = "strict") => WithKeyframes!Spec /\ WithoutKeyframes!Spec
<1> SUFFICES ASSUME HasKeyframe PROVE ConsumersSpec /\ [](consumer = "strict")
                                        => WithKeyframes!Spec /\ WithoutKeyframes!Spec
    OBVIOUS
<1>1. StrictP!Spec => StrictP!View!Spec
    BY StrictFits, StrictP!PromiseKept DEF StrictP!KeepsPromise
<1>2. ASSUME consumer = "strict" PROVE ProducedNow = ohead /\ KeyframeView = oseen /\ BareView = {}
    BY <1>2 DEF ProducedNow, KeyframeView, BareView, ViewNow
<1>3. ASSUME consumer = "strict", StrictP!View!Init PROVE WithKeyframes!Init /\ WithoutKeyframes!Init
    <2>1. {} = 1..0 /\ ohead \in Nat /\ 0 \in 0..ohead
        BY <1>3 DEF StrictP!View!Init
    <2> QED BY <1>2, <1>3, <2>1 DEF StrictP!View!Init, WithKeyframes!Init, WithoutKeyframes!Init
<1>4. ASSUME consumer = "strict", (consumer = "strict")', [StrictP!View!Next]_<<ohead, oseen>>
      PROVE  /\ [WithKeyframes!Next]_<<ProducedNow, KeyframeView>>
             /\ [WithoutKeyframes!Next]_<<ProducedNow, BareView>>
    <2>1. ProducedNow = ohead /\ KeyframeView = oseen /\ BareView = {}
        BY <1>2, <1>4
    <2>2. ProducedNow' = ohead' /\ KeyframeView' = oseen' /\ BareView' = {}
        BY <1>4 DEF ProducedNow, KeyframeView, BareView, ViewNow
    <2>3. CASE StrictP!View!Produce
        BY <2>1, <2>2, <2>3 DEF StrictP!View!Produce, WithKeyframes!Next, WithKeyframes!Produce,
            WithoutKeyframes!Next, WithoutKeyframes!Produce
    <2>4. CASE StrictP!View!Extend
        BY <2>1, <2>2, <2>4 DEF StrictP!View!Extend, WithKeyframes!Next, WithKeyframes!Extend
    <2>5. CASE StrictP!View!Replace
        BY <2>1, <2>2, <2>5 DEF StrictP!View!Replace, WithKeyframes!Next, WithKeyframes!Replace
    <2>6. CASE UNCHANGED <<ohead, oseen>>
        BY <2>1, <2>2, <2>6
    <2> QED BY <1>4, <2>3, <2>4, <2>5, <2>6 DEF StrictP!View!Next
<1>5. ConsumersSpec /\ [](consumer = "strict") => StrictP!Spec
    BY StrictSubscribes, PTL
<1> QED BY <1>1, <1>3, <1>4, <1>5, PTL DEF StrictP!View!Spec, WithKeyframes!Spec, WithoutKeyframes!Spec

(* The route implements both views, of which it moves one. *)
LEMMA RoutePromise ==
    HasKeyframe /\ ConsumersSpec /\ [](consumer = "route") => WithKeyframes!Spec /\ WithoutKeyframes!Spec
<1> SUFFICES ASSUME HasKeyframe PROVE ConsumersSpec /\ [](consumer = "route")
                                        => WithKeyframes!Spec /\ WithoutKeyframes!Spec
    OBVIOUS
<1>1. RouteP!Spec => RouteP!View!Spec
    BY RouteFits, RouteP!PromiseKept DEF RouteP!KeepsPromise
<1>2. ASSUME consumer = "route" PROVE ProducedNow = RouteP!Produced /\ KeyframeView = RouteP!Shown /\ BareView = {}
    BY <1>2, SameProduced, SameShown DEF ProducedNow, KeyframeView, BareView, ViewNow
<1>3. ASSUME consumer = "route", RouteP!View!Init PROVE WithKeyframes!Init /\ WithoutKeyframes!Init
    <2>1. {} = 1..0 /\ RouteP!Produced \in Nat /\ 0 \in 0..RouteP!Produced
        BY <1>3 DEF RouteP!View!Init
    <2> QED BY <1>2, <1>3, <2>1 DEF RouteP!View!Init, WithKeyframes!Init, WithoutKeyframes!Init
<1>4. ASSUME consumer = "route", (consumer = "route")', [RouteP!View!Next]_<<RouteP!Produced, RouteP!Shown>>
      PROVE  /\ [WithKeyframes!Next]_<<ProducedNow, KeyframeView>>
             /\ [WithoutKeyframes!Next]_<<ProducedNow, BareView>>
    <2>1. ProducedNow = RouteP!Produced /\ KeyframeView = RouteP!Shown /\ BareView = {}
        BY <1>2, <1>4
    <2>2. ProducedNow' = RouteP!Produced' /\ KeyframeView' = RouteP!Shown' /\ BareView' = {}
        <3>1. Route!Produced' = RouteP!Produced'
            BY DEF Route!Produced, RouteP!Produced
        <3>2. Route!Shown' = RouteP!Shown'
            <4>1. Route!Position' = RouteP!Position'
                BY DEF Route!Position, RouteP!Position, Route!Nothing, RouteP!Nothing
            <4>2. Route!Ahead' <=> RouteP!Ahead'
                BY <4>1 DEF Route!Ahead, RouteP!Ahead
            <4> QED BY <4>2 DEF Route!Shown, RouteP!Shown
        <3> QED BY <1>4, <3>1, <3>2 DEF ProducedNow, KeyframeView, BareView, ViewNow
    <2>3. CASE RouteP!View!Produce
        BY <2>1, <2>2, <2>3 DEF RouteP!View!Produce, WithKeyframes!Next, WithKeyframes!Produce,
            WithoutKeyframes!Next, WithoutKeyframes!Produce
    <2>4. CASE RouteP!View!Extend
        BY <2>1, <2>2, <2>4 DEF RouteP!View!Extend, WithKeyframes!Next, WithKeyframes!Extend
    <2>5. CASE RouteP!View!Replace
        BY <2>1, <2>2, <2>5 DEF RouteP!View!Replace, WithKeyframes!Next, WithKeyframes!Replace
    <2>6. CASE UNCHANGED <<RouteP!Produced, RouteP!Shown>>
        BY <2>1, <2>2, <2>6
    <2> QED BY <1>4, <2>3, <2>4, <2>5, <2>6 DEF RouteP!View!Next
<1>5. ConsumersSpec /\ [](consumer = "route") => RouteP!Spec
    BY RouteSwitches, PTL
<1> QED BY <1>1, <1>3, <1>4, <1>5, PTL DEF RouteP!View!Spec, WithKeyframes!Spec, WithoutKeyframes!Spec

(* The subscription without keyframes implements both views, of which it moves
   one. *)
LEMMA BarePromise ==
    ConsumersSpec /\ [](consumer = "bare") => WithKeyframes!Spec /\ WithoutKeyframes!Spec
<1>1. BareP!Spec => BareP!View!Spec
    BY BareFits, BareP!PromiseKept DEF BareP!KeepsPromise
<1>2. ASSUME consumer = "bare" PROVE ProducedNow = ohead /\ KeyframeView = {} /\ BareView = oseen
    BY <1>2 DEF ProducedNow, KeyframeView, BareView, ViewNow
<1>3. ASSUME consumer = "bare", BareP!View!Init PROVE WithKeyframes!Init /\ WithoutKeyframes!Init
    <2>1. {} = 1..0 /\ ohead \in Nat /\ 0 \in 0..ohead
        BY <1>3 DEF BareP!View!Init
    <2> QED BY <1>2, <1>3, <2>1 DEF BareP!View!Init, WithKeyframes!Init, WithoutKeyframes!Init
<1>4. ASSUME consumer = "bare", (consumer = "bare")', [BareP!View!Next]_<<ohead, oseen>>
      PROVE  /\ [WithKeyframes!Next]_<<ProducedNow, KeyframeView>>
             /\ [WithoutKeyframes!Next]_<<ProducedNow, BareView>>
    <2>1. ProducedNow = ohead /\ KeyframeView = {} /\ BareView = oseen
        BY <1>2, <1>4
    <2>2. ProducedNow' = ohead' /\ KeyframeView' = {} /\ BareView' = oseen'
        BY <1>4 DEF ProducedNow, KeyframeView, BareView, ViewNow
    <2>3. CASE BareP!View!Produce
        BY <2>1, <2>2, <2>3 DEF BareP!View!Produce, WithKeyframes!Next, WithKeyframes!Produce,
            WithoutKeyframes!Next, WithoutKeyframes!Produce
    <2>4. CASE BareP!View!Extend
        BY <2>1, <2>2, <2>4 DEF BareP!View!Extend, WithoutKeyframes!Next, WithoutKeyframes!Extend
    <2>5. CASE BareP!View!Replace
        BY <2>5 DEF BareP!View!Replace
    <2>6. CASE UNCHANGED <<ohead, oseen>>
        BY <2>1, <2>2, <2>6
    <2> QED BY <1>4, <2>3, <2>4, <2>5, <2>6 DEF BareP!View!Next
<1> QED BY <1>1, <1>3, <1>4, BareSubscribes, PTL
        DEF BareP!View!Spec, WithKeyframes!Spec, WithoutKeyframes!Spec

\* Under the mirror the line of the subscriptions is at rest.
(* With the offline store neither view moves. *)
LEMMA OfflinePromise ==
    ConsumersSpec /\ [](consumer = "offline") => WithKeyframes!Spec /\ WithoutKeyframes!Spec
<1>1. ASSUME consumer = "offline" PROVE ProducedNow = ohead /\ KeyframeView = oseen /\ BareView = {}
    BY <1>1 DEF ProducedNow, KeyframeView, BareView, ViewNow
<1>2. ASSUME consumer = "offline", ConsumersInit PROVE WithKeyframes!Init /\ WithoutKeyframes!Init
    <2>1. OtherRests
        BY <1>2 DEF ConsumersInit
    <2>2. ohead = 0 /\ oseen = {}
        BY <2>1, ConstantsFit DEF OtherRests, Bare!Init, Bare!LineInit
    <2>3. {} = 1..0 /\ 0 \in Nat /\ 0 \in 0..0
        OBVIOUS
    <2> QED BY <1>1, <1>2, <2>2, <2>3 DEF WithKeyframes!Init, WithoutKeyframes!Init
<1>3. ASSUME consumer = "offline", (consumer = "offline")', [ConsumersNext]_allVars
      PROVE  UNCHANGED <<ProducedNow, KeyframeView, BareView>>
    <2>1. UNCHANGED <<ohead, oseen>>
        BY <1>3 DEF ConsumersNext, allVars, otherVars
    <2> QED BY <1>3, <2>1 DEF ProducedNow, KeyframeView, BareView, ViewNow
<1>4. ASSUME consumer = "offline", (consumer = "offline")', [ConsumersNext]_allVars
      PROVE  /\ [WithKeyframes!Next]_<<ProducedNow, KeyframeView>>
             /\ [WithoutKeyframes!Next]_<<ProducedNow, BareView>>
    BY <1>3, <1>4
<1> QED BY <1>2, <1>4, PTL DEF ConsumersSpec, WithKeyframes!Spec, WithoutKeyframes!Spec

(* Which consumer a behaviour has does not change. *)
LEMMA ConsumerStays ==
    ConsumersSpec => \/ [](consumer = "frame") \/ [](consumer = "strict") \/ [](consumer = "bare")
                     \/ [](consumer = "route") \/ [](consumer = "offline")
<1>1. ConsumersInit => \/ consumer = "frame" \/ consumer = "strict" \/ consumer = "bare"
                       \/ consumer = "route" \/ consumer = "offline"
    BY DEF ConsumersInit
<1>2. /\ (consumer = "frame") /\ [ConsumersNext]_allVars => (consumer = "frame")'
      /\ (consumer = "strict") /\ [ConsumersNext]_allVars => (consumer = "strict")'
      /\ (consumer = "bare") /\ [ConsumersNext]_allVars => (consumer = "bare")'
      /\ (consumer = "route") /\ [ConsumersNext]_allVars => (consumer = "route")'
      /\ (consumer = "offline") /\ [ConsumersNext]_allVars => (consumer = "offline")'
    BY DEF ConsumersNext, allVars
<1> QED BY <1>1, <1>2, PTL DEF ConsumersSpec

(* No flush of the mirror is told it was saved before its contents were on
   disk. *)
LEMMA FlushesSave == ConsumersSpec => Offline!FlushMeansSaved
<1>1. MirrorInv /\ [ConsumersNext]_allVars => FlushSaved
    <2>1. [ConsumersNext]_allVars => Offline!Next \/ UNCHANGED Offline!vars
        BY DEF ConsumersNext, allVars, offlineVars, Offline!vars, Offline!storeVars,
            Offline!saveVars, Offline!syncVars
    <2> QED BY <2>1, MirrorStep
<1>2. MirrorInv /\ [ConsumersNext]_allVars
        => [pphase = "open" /\ pphase' = "open" /\ Len(pqueue') < Len(pqueue)
                => pqueue[1].owed # "unsaved"]_Offline!vars
    BY <1>1 DEF FlushSaved
<1> QED BY <1>2, MirrorHolds, PTL DEF ConsumersSpec, Offline!FlushMeansSaved

(* Each consumer implements the same abstract replica, ReplicaView: what it
   shows is extended by published events in their order or replaced by a whole
   state; and no flush of the mirror is told it was saved before it was. The
   hypothesis is the one under which the line has a keyframe to give (replay-
   listen.ts); the consumer of the line without keyframes promises its own
   view, whatever the hypothesis. *)
THEOREM EveryoneKeepsPromiseHolds == HasKeyframe => (ConsumersSpec => EveryoneKeepsPromise)
<1> SUFFICES ASSUME HasKeyframe PROVE ConsumersSpec => EveryoneKeepsPromise
    OBVIOUS
<1>1. ConsumersSpec /\ [](consumer = "frame") => WithKeyframes!Spec /\ WithoutKeyframes!Spec
    BY FramePromise
<1>2. ConsumersSpec /\ [](consumer = "strict") => WithKeyframes!Spec /\ WithoutKeyframes!Spec
    BY StrictPromise
<1>3. ConsumersSpec /\ [](consumer = "route") => WithKeyframes!Spec /\ WithoutKeyframes!Spec
    BY RoutePromise
<1> QED BY <1>1, <1>2, <1>3, BarePromise, OfflinePromise, ConsumerStays, FlushesSave, PTL
        DEF EveryoneKeepsPromise
=============================================================================
