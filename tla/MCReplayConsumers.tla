-------------------------- MODULE MCReplayConsumers --------------------------
(***************************************************************************)
(* The consumers of a replay line, one at a time, `consumer`:              *)
(*   "frame"   a subscription with the default policies: the catch-up is a *)
(*             frame or a keyframe, a gap is closed by a keyframe, the     *)
(*             journal keeps one event;                                    *)
(*   "strict"  a gap is terminal, the catch-up is a tail, the journal keeps*)
(*             two events and has an age window;                           *)
(*   "bare"    a line without keyframes, an age window alone, and a        *)
(*             callback that may throw;                                    *)
(*   "route"   a consumer whose route is replaced, and which may throw or  *)
(*             have its line emit;                                         *)
(*   "offline" the persisted mirror of a remote store.                     *)
(* The first four are held to ReplicaView.  The state of the others stays  *)
(* as it starts.                                                           *)
(***************************************************************************)
EXTENDS ReplaySubscribe

CONSTANTS
    Routes, FrameRoutes, LateRoutes, Callbacks, MaxSwitches,
    Foreign, OfflineEvents, MaxTurns

VARIABLES
    consumer,
    \* the subscription with another policy
    ohead, ooldest, oup, odrops, osubscribed, owire, ocalls, olast, oreplaying, ogen,
    oqueue, odeliveryQueue, ocalling, ostage, ostageGen, oready, oclosed, ofailed,
    oseen, oforeign, obyKeyframe,
    \* a route
    rheads, rcallback, rchain, rslot, rattached, rpending, routcome, ractive, rlast, rclosed,
    rdeliveryQueue, rcalling, rowner, rworking, rrest, rseen,
    \* a persisted mirror
    phead, pdisk, pphase, pshown, pundrained, pnoted, pcontent, pdirty, ptimer, pqueue,
    psaving, pgen, pruns, psubs, pstatus, pturns

Strict == INSTANCE ReplaySubscribe WITH
    FirstSeq <- 0, MaxSeq <- MaxSeq - 1, History <- 2, KeepMs <- TRUE,
    CatchUpMode <- "tail", GapPolicy <- "error",
    head <- ohead, oldest <- ooldest, up <- oup, drops <- odrops, subscribed <-
    osubscribed, wire <- owire, calls <- ocalls, last <- olast, replaying <- oreplaying,
    gen <- ogen, queue <- oqueue, deliveryQueue <- odeliveryQueue, calling <- ocalling,
    stage <- ostage, stageGen <- ostageGen, ready <- oready, closed <- oclosed, failed
    <- ofailed, seen <- oseen, foreign <- oforeign, byKeyframe <- obyKeyframe

Bare == INSTANCE ReplaySubscribe WITH
    FirstSeq <- 0, MaxSeq <- MaxSeq - 1, History <- 0, KeepMs <- TRUE, HasKeyframe <- FALSE,
    CatchUpMode <- "tail", CallbackThrows <- TRUE,
    head <- ohead, oldest <- ooldest, up <- oup, drops <- odrops, subscribed <-
    osubscribed, wire <- owire, calls <- ocalls, last <- olast, replaying <- oreplaying,
    gen <- ogen, queue <- oqueue, deliveryQueue <- odeliveryQueue, calling <- ocalling,
    stage <- ostage, stageGen <- ostageGen, ready <- oready, closed <- oclosed, failed
    <- ofailed, seen <- oseen, foreign <- oforeign, byKeyframe <- obyKeyframe

Route == INSTANCE ReplayRoute WITH
    MaxSeq <- MaxSeq - 2,
    heads <- rheads, callback <- rcallback, chain <- rchain, slot <- rslot,
    attached <- rattached, pending <- rpending, outcome <- routcome, active <- ractive,
    last <- rlast, closed <- rclosed, deliveryQueue <- rdeliveryQueue, calling <- rcalling,
    owner <- rowner, working <- rworking, rest <- rrest, seen <- rseen

Offline == INSTANCE OfflineStore WITH
    MaxEvents <- OfflineEvents,
    head <- phead, disk <- pdisk, phase <- pphase, shown <- pshown, undrained <- pundrained,
    noted <- pnoted, content <- pcontent, dirty <- pdirty, timer <- ptimer, queue <- pqueue,
    saving <- psaving, gen <- pgen, runs <- pruns, subs <- psubs, status <- pstatus,
    turns <- pturns

otherVars == <<
    ohead, ooldest, oup, odrops, osubscribed, owire, ocalls, olast, oreplaying, ogen,
    oqueue, odeliveryQueue, ocalling, ostage, ostageGen, oready, oclosed, ofailed,
    oseen, oforeign, obyKeyframe>>
routeVars ==
    <<rheads, rcallback, rchain, rslot, rattached, rpending, routcome, ractive, rlast, rclosed,
      rdeliveryQueue, rcalling, rowner, rworking, rrest, rseen>>
offlineVars ==
    <<phead, pdisk, pphase, pshown, pundrained, pnoted, pcontent, pdirty, ptimer, pqueue,
      psaving, pgen, pruns, psubs, pstatus, pturns>>
allVars == <<consumer, vars, otherVars, routeVars, offlineVars>>

\* What is not under study stays as it starts, in one of its initial states.
FrameRests == Init /\ last = -1
OtherRests == Bare!Init /\ olast = -1
RouteRests ==
    /\ Route!Init /\ rlast = -1 /\ rcallback = CHOOSE c \in Callbacks : TRUE
    /\ rslot[1].route = CHOOSE r \in Routes : TRUE

OfflineRests == Offline!Init /\ pdisk = Offline!Fresh

ASSUME ConsumersAssumption == Route!RouteAssumption /\ Offline!OfflineAssumption

ConsumersInit ==
    \/ consumer = "frame" /\ Init /\ OtherRests /\ RouteRests /\ OfflineRests
    \/ consumer = "strict" /\ Strict!Init /\ FrameRests /\ RouteRests /\ OfflineRests
    \/ consumer = "bare" /\ Bare!Init /\ FrameRests /\ RouteRests /\ OfflineRests
    \/ consumer = "route" /\ Route!Init /\ FrameRests /\ OtherRests /\ OfflineRests
    \/ consumer = "offline" /\ Offline!Init /\ FrameRests /\ OtherRests /\ RouteRests

ConsumersNext ==
    /\ UNCHANGED consumer
    /\ \/ consumer = "frame" /\ Next /\ UNCHANGED <<otherVars, routeVars, offlineVars>>
       \/ consumer = "strict" /\ Strict!Next /\ UNCHANGED <<vars, routeVars, offlineVars>>
       \/ consumer = "bare" /\ Bare!Next /\ UNCHANGED <<vars, routeVars, offlineVars>>
       \/ consumer = "route" /\ Route!Next /\ UNCHANGED <<vars, otherVars, offlineVars>>
       \/ consumer = "offline" /\ Offline!Next /\ UNCHANGED <<vars, otherVars, routeVars>>

\* The fairness of the default subscription, of the route and of the mirror, as their modules
\* state it.
FrameRuns(A) == consumer = "frame" /\ A
RouteRuns(A) == consumer = "route" /\ A
OfflineRuns(A) == consumer = "offline" /\ A

ConsumersFairness ==
    /\ WF_vars(FrameRuns(ServerSubscribes)) /\ WF_vars(FrameRuns(ServerAnswers))
    /\ WF_vars(FrameRuns(Connect)) /\ WF_vars(FrameRuns(LiveTap))
    /\ WF_vars(FrameRuns(EventLoop))
    /\ WF_routeVars(RouteRuns(Route!EventLoop))
    /\ WF_routeVars(RouteRuns(\E r \in Routes : rheads[r] < Route!Produced /\ Route!Forward(r)))
    /\ WF_routeVars(RouteRuns(\E i \in Route!Slots : Route!LiveTap(i)))
    /\ SF_routeVars(RouteRuns(Route!TimeoutFires))
    /\ WF_offlineVars(OfflineRuns(Offline!Saves))
    /\ WF_offlineVars(OfflineRuns(Offline!Follows))

ConsumersSpec == ConsumersInit /\ [][ConsumersNext]_allVars /\ ConsumersFairness

-----------------------------------------------------------------------------
\* Another policy and another route: typed, no hole, and nothing is lost while live
\* (replay-wire.ts:228-387, replay-route.ts:83-187).  The record of a mirror shows the event
\* whose number it has, and only its last reconnect has a subscription
\* (store-offline.ts:187-215, 330-433).
OthersAreComplete ==
    /\ consumer = "strict" => Strict!TypeOK /\ Strict!NoHole /\ Strict!LiveIsComplete
    /\ consumer = "bare" => Bare!TypeOK /\ Bare!NoHole /\ Bare!LiveIsComplete
    /\ consumer = "route" => Route!TypeOK /\ Route!NoHole /\ Route!LiveIsComplete
    /\ consumer = "offline" =>
        Offline!TypeOK /\ Offline!RecordMeansItsNumber /\ Offline!OneSubscription

\* gapPolicy 'error': the consumer advances event by event, and a keyframe never
\* stands in for events it has not seen (replay-wire.ts:235-242, 434-440).
GapsAreTerminal ==
    [][(consumer = "strict" /\ olast >= 0 /\ olast' # olast)
            => (olast' = olast + 1 /\ ~obyKeyframe')]_allVars

\* A subscription that keeps its connection ends up at the head, or closed; a consumer
\* that keeps a live route has every event in the end (replay-wire.ts:405-490,
\* replay-route.ts:189-245).  A mirror that stays open is saved (store-offline.ts:166-215).
EveryoneCatchesUp ==
    /\ consumer = "frame" => CatchesUp
    /\ consumer = "route" => Route!CatchesUp
    /\ consumer = "offline" => Offline!SavedInTheEnd

\* Every switch of a route ends (replay-route.ts:247-293).
SwitchesSettle == consumer = "route" => Route!SwitchesSettle

\* Consumers of lines with keyframes, and those of a line without, keep the promise of
\* ReplicaView, whatever their policy and their route (replay-wire.ts:228-289,
\* replay-route.ts:83-112): one of them is under study, the views of the others are empty.
\* A flush of a mirror that resolves has saved what it owed (store-offline.ts:187-230).
ProducedNow ==
    CASE consumer = "frame" -> head [] consumer = "route" -> Route!Produced [] OTHER -> ohead
ViewNow ==
    CASE consumer = "frame" -> seen
      [] consumer = "route" -> Route!Shown
      [] OTHER -> oseen

KeyframeView == IF consumer # "bare" THEN ViewNow ELSE {}
BareView == IF consumer = "bare" THEN ViewNow ELSE {}

WithKeyframes == INSTANCE ReplicaView WITH
    HasKeyframe <- TRUE, produced <- ProducedNow, view <- KeyframeView
WithoutKeyframes == INSTANCE ReplicaView WITH
    HasKeyframe <- FALSE, produced <- ProducedNow, view <- BareView
EveryoneKeepsPromise == WithKeyframes!Spec /\ WithoutKeyframes!Spec /\ Offline!FlushMeansSaved
=============================================================================
