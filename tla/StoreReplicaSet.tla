-------------------------- MODULE StoreReplicaSet --------------------------
(***************************************************************************)
(* One node of a store replica set                                         *)
(* (src/Common/Observe/store-replica-set.ts, createStoreReplicaSet): it    *)
(* keeps a session to every offered peer, reads the peers' descriptors,    *)
(* and either leads or follows the best authority it can reach.  Reads of  *)
(* descriptors, hand-offs of the upstream route and elections all await,   *)
(* and everything else may happen while they do.                           *)
(*                                                                         *)
(* An authority is an epoch and the rank of its leader; line identities,   *)
(* sequence numbers and route costs are abstracted: among the routes to    *)
(* the best authority any may be chosen.                                   *)
(***************************************************************************)
EXTENDS Integers, FiniteSets

CONSTANTS
    Offers,        \* the offered peers
    NoOffer,       \* no entry
    Gone,          \* an entry that was removed: some references still hold it
    Self, Peer,    \* rank of this node and of the peers' leader in the fork choice
    InitialRole,   \* "leader" | "offline" (initialRole: 'follower')
    Eligible,      \* leadership.eligible
    AutoPromote,   \* autoPromoteMs is set
    Probing,       \* probeIntervalMs is set
    MaxEpoch,      \* bound on epochs
    MaxChanges,    \* bound on changes of the peers, the prices, the offers
    MaxFaults,     \* bound on failures of sessions, lines and calls
    MaxElections   \* bound on elections under way at once

ASSUME ReplicaAssumption ==
    /\ {NoOffer, Gone} \cap Offers = {} /\ NoOffer # Gone
    /\ Self \in Nat /\ Peer \in Nat /\ Self # Peer
    /\ InitialRole \in {"leader", "offline"}
    /\ Eligible \in BOOLEAN /\ AutoPromote \in BOOLEAN /\ Probing \in BOOLEAN
    /\ MaxEpoch \in Nat \ {0} /\ MaxChanges \in Nat
    /\ MaxFaults \in Nat /\ MaxElections \in Nat

VARIABLES
    \* the peers and the world
    remote,        \* the descriptor each peer would report now
    changes, faults,
    \* the controller
    role, auth, maxEpoch, closed,
    active, activeAuth,        \* activeEntry and activeDescriptor
    sub,                       \* upstreamSub
    timer,                     \* the election timer is armed
    elections,                 \* promote() calls awaiting elect()
    wanted,                    \* a reconcile run is scheduled
    probing,                   \* a probe() awaits its refreshes
    op,                        \* the hand-off under way (opChain)
    entry,                     \* the offers' entries
    refresh                    \* their refreshEntry() under way

world == <<remote, changes, faults>>
vars == <<remote, changes, faults, role, auth, maxEpoch, closed, active,
          activeAuth, sub, timer, elections, wanted, probing, op, entry, refresh>>

NoLeader == -1
Authority == [epoch : 0..MaxEpoch, leader : {NoLeader, Self, Peer}]
NoAuthority == [epoch |-> 0, leader |-> NoLeader]

\* serving: the peer is a leader or a follower, not a candidate; sound: its path
\* does not contain this node and its proof is accepted.
Descriptor == [epoch : 0..MaxEpoch, serving : BOOLEAN, sound : BOOLEAN]
AuthorityOf(d) == [epoch |-> d.epoch, leader |-> Peer]

\* Fork choice: epoch first, leader rank second (defaultAuthorityCompare).
Newer(a, b) ==
    \/ a.epoch > b.epoch
    \/ a.epoch = b.epoch /\ a.leader > b.leader

NoSub == [route |-> NoOffer, blames |-> NoOffer, alive |-> FALSE]
NoOp == [at |-> "idle", entry |-> NoOffer, gen |-> 0, auth |-> NoAuthority,
         created |-> FALSE, result |-> "pending",
         prev |-> [role |-> "offline", active |-> NoOffer,
                   activeAuth |-> NoAuthority, auth |-> NoAuthority]]
NoRefresh == [at |-> "none", gen |-> 0,
              value |-> [epoch |-> 0, serving |-> FALSE, sound |-> TRUE]]

Init ==
    /\ remote \in [Offers -> [epoch : {0, 1}, serving : BOOLEAN, sound : {TRUE}]]
    /\ changes = 0 /\ faults = 0
    /\ role = InitialRole
    /\ auth = IF InitialRole = "leader" THEN [epoch |-> 0, leader |-> Self] ELSE NoAuthority
    /\ maxEpoch = 0 /\ closed = FALSE
    /\ active = NoOffer /\ activeAuth = NoAuthority /\ sub = NoSub
    /\ timer = FALSE /\ elections = 0 /\ wanted = FALSE /\ probing = FALSE /\ op = NoOp
    /\ entry = [o \in Offers |-> [state |-> "connecting", gen |-> 1, opening |-> TRUE,
                                  session |-> FALSE, desc |-> NoRefresh.value, retry |-> FALSE]]
    /\ refresh = [o \in Offers |-> NoRefresh]

-----------------------------------------------------------------------------
(* Shared steps *)

\* Closing the upstream subscription settles a hand-off that awaits it: the slot
\* it was attaching resolves, a switch that had not begun is rejected.
Abandoned(pending) ==
    IF pending.at = "switch" /\ pending.result = "pending"
    THEN {[pending EXCEPT !.result = r] : r \in {"resolved", "rejected"}}
    ELSE {pending}

DetachUpstream(pending) ==
    /\ sub' = NoSub
    /\ op' \in (IF sub = NoSub THEN {pending} ELSE Abandoned(pending))
    /\ active' = NoOffer /\ activeAuth' = NoAuthority
    /\ role' = IF role \in {"follower", "reconciling"} THEN "offline" ELSE role

CloseSession(e) == [e EXCEPT !.gen = @ + 1, !.session = FALSE, !.opening = FALSE]

\* openEntry: connect() is called in a new generation.
Opened(e) == [e EXCEPT !.gen = @ + 1, !.state = "connecting", !.opening = TRUE,
                       !.retry = FALSE]

\* failEntry: the session is closed, a retry is armed, and the upstream goes
\* with it when the entry was the active one.  line is the upstream otherwise.
FailEntry(o, line, pending) ==
    IF o \notin Offers \/ entry[o].state = "closed"
    THEN /\ sub' = line /\ op' = pending
         /\ UNCHANGED <<entry, active, activeAuth, role, wanted>>
    ELSE /\ entry' = [entry EXCEPT ![o] =
                        [CloseSession(@) EXCEPT !.state = "failed", !.retry = TRUE]]
         /\ wanted' = TRUE
         /\ IF active = o THEN DetachUpstream(pending)
            ELSE sub' = line /\ op' = pending /\ UNCHANGED <<active, activeAuth, role>>

\* Mutant: a rejected entry is given up.
StartRefreshUnlessRejected(o) ==
    IF refresh[o].at # "none" \/ entry[o].state = "rejected" THEN refresh
    ELSE [refresh EXCEPT ![o] = [NoRefresh EXCEPT !.at = "reading", !.gen = entry[o].gen]]

\* refreshEntry: one at a time per entry, later requests join the one under way.
StartRefresh(o) ==
    IF refresh[o].at # "none" THEN refresh
    ELSE [refresh EXCEPT ![o] = [NoRefresh EXCEPT !.at = "reading", !.gen = entry[o].gen]]

\* Timers run only when no continuation of the controller is due.
TimersRun ==
    /\ ~closed
    /\ ~(wanted /\ op.at = "idle")
    /\ ~(op.at = "switch" /\ op.result # "pending")

Forget(ref, o) == IF ref = o THEN Gone ELSE ref

Viable(o) == entry[o].state = "open" /\ entry[o].session /\ entry[o].desc.serving

-----------------------------------------------------------------------------
(* Offers and sessions *)

ConnectSucceeds(o) ==
    /\ ~closed /\ entry[o].opening
    /\ entry' = [entry EXCEPT ![o].session = TRUE, ![o].opening = FALSE]
    /\ refresh' = StartRefresh(o)
    /\ UNCHANGED <<world, role, auth, maxEpoch, closed, active, activeAuth, sub,
                   timer, elections, wanted, op, probing>>

\* connect() rejects, or the session reports that it failed.
SessionFails(o) ==
    /\ ~closed /\ faults < MaxFaults
    /\ entry[o].opening \/ entry[o].session
    /\ faults' = faults + 1
    /\ FailEntry(o, sub, op)
    /\ UNCHANGED <<remote, changes, auth, maxEpoch, closed, timer,
                   elections, refresh, probing>>

Retry(o) ==
    /\ TimersRun /\ entry[o].retry
    /\ entry' = [entry EXCEPT ![o] =
            IF @.session \/ @.state = "connecting" THEN [@ EXCEPT !.retry = FALSE]
            ELSE Opened(@)]
    /\ UNCHANGED <<world, role, auth, maxEpoch, closed, active, activeAuth, sub,
                   timer, elections, wanted, probing, op, refresh>>

RemoveOffer(o) ==
    /\ ~closed /\ entry[o].state # "closed" /\ changes < MaxChanges
    /\ changes' = changes + 1
    /\ entry' = [entry EXCEPT ![o] =
            [CloseSession(@) EXCEPT !.state = "closed", !.retry = FALSE]]
    /\ LET pending == [op EXCEPT !.prev.active = Forget(@, o)] IN
        IF active = o THEN DetachUpstream(pending)
        ELSE /\ op' = pending
             /\ sub' = [sub EXCEPT !.blames = Forget(@, o)]
             /\ UNCHANGED <<active, activeAuth, role>>
    /\ wanted' = TRUE
    /\ UNCHANGED <<remote, faults, auth, maxEpoch, closed, timer, elections, refresh, probing>>

\* A removed offer is added again as a new entry; what still runs for the old
\* one belongs to an older generation.
AddOffer(o) ==
    /\ ~closed /\ entry[o].state = "closed"
    /\ entry' = [entry EXCEPT ![o] = Opened(@)]
    /\ refresh' = [refresh EXCEPT ![o] = NoRefresh]
    /\ UNCHANGED <<world, role, auth, maxEpoch, closed, active, activeAuth, sub,
                   timer, elections, wanted, op, probing>>

-----------------------------------------------------------------------------
(* Descriptors *)

\* The peer's own state changes; an open session pushes the change.
PeerChanges(o) ==
    /\ changes < MaxChanges
    /\ changes' = changes + 1
    /\ \E d \in Descriptor :
        /\ d # remote[o]
        /\ remote' = [remote EXCEPT ![o] = d]
    /\ refresh' = IF ~closed /\ entry[o].session THEN StartRefresh(o) ELSE refresh
    /\ UNCHANGED <<faults, role, auth, maxEpoch, closed, active, activeAuth,
                   sub, timer, elections, wanted, probing, op, entry>>

\* probe(): every session is read again and every entry without one is opened.
Probed(e) ==
    IF e.session \/ e.state \in {"connecting", "closed"} THEN e ELSE Opened(e)

Probe ==
    /\ Probing /\ TimersRun /\ ~probing
    /\ entry' = [o \in Offers |-> Probed(entry[o])]
    /\ refresh' = [o \in Offers |->
            IF entry[o].session THEN StartRefresh(o)[o] ELSE refresh[o]]
    /\ probing' = TRUE
    /\ UNCHANGED <<world, role, auth, maxEpoch, closed, active, activeAuth, sub,
                   timer, elections, wanted, op>>

ProbeEnds ==
    /\ probing /\ ~closed
    /\ \A o \in Offers : refresh[o].at = "none"
    /\ probing' = FALSE /\ wanted' = TRUE
    /\ UNCHANGED <<world, role, auth, maxEpoch, closed, active, activeAuth, sub,
                   timer, elections, op, entry, refresh>>

RefreshReads(o) ==
    /\ refresh[o].at = "reading"
    /\ refresh' = [refresh EXCEPT ![o].at = "read", ![o].value = remote[o]]
    /\ UNCHANGED <<world, role, auth, maxEpoch, closed, active, activeAuth, sub,
                   timer, elections, wanted, probing, op, entry>>

\* A cycle or a refused proof rejects the entry (whatever its generation is by
\* now); a good descriptor is taken only into the generation that asked for it.
RefreshRejects(o) ==
    /\ refresh[o].at = "read" /\ ~refresh[o].value.sound
    /\ entry' = IF entry[o].state = "closed" THEN entry
                ELSE [entry EXCEPT ![o].desc = refresh[o].value, ![o].state = "rejected"]
    /\ wanted' = (wanted \/ ~closed)
    /\ refresh' = [refresh EXCEPT ![o] = NoRefresh]
    /\ UNCHANGED <<world, role, auth, maxEpoch, closed, active, activeAuth, sub,
                   timer, elections, op, probing>>

RefreshCommits(o) ==
    /\ refresh[o].at = "read" /\ refresh[o].value.sound
    /\ IF refresh[o].gen = entry[o].gen
       THEN /\ entry' = [entry EXCEPT ![o].desc = refresh[o].value, ![o].state = "open"]
            /\ maxEpoch' = IF refresh[o].value.epoch > maxEpoch
                           THEN refresh[o].value.epoch ELSE maxEpoch
            /\ wanted' = (wanted \/ ~closed)
       ELSE UNCHANGED <<entry, maxEpoch, wanted>>
    /\ refresh' = [refresh EXCEPT ![o] = NoRefresh]
    /\ UNCHANGED <<world, role, auth, closed, active, activeAuth, sub, timer,
                   elections, op, probing>>

\* A call of the refresh fails: charged to the entry if it is still current.
\* The calls of a closed session fail without being a fault of their own.
RefreshFails(o) ==
    /\ refresh[o].at # "none"
    /\ refresh' = [refresh EXCEPT ![o] = NoRefresh]
    /\ IF refresh[o].gen = entry[o].gen /\ ~closed
       THEN /\ faults < MaxFaults /\ faults' = faults + 1
            /\ FailEntry(o, sub, op)
       ELSE UNCHANGED <<faults, entry, sub, active, activeAuth, role, wanted, op>>
    /\ UNCHANGED <<remote, changes, auth, maxEpoch, closed, timer, elections, probing>>

-----------------------------------------------------------------------------
(* Reconciliation and the hand-off of the upstream route *)

Candidates == {o \in Offers : Viable(o)}
BestRemote == {o \in Candidates :
    \A p \in Candidates : ~Newer(AuthorityOf(entry[p].desc), AuthorityOf(entry[o].desc))}

\* Mutants: the leader rank is left out of the fork choice.
OutranksOnTie(o) == entry[o].desc.epoch >= auth.epoch
OutranksByEpoch(o) == entry[o].desc.epoch > auth.epoch
\* The authority behind the entry beats the one this node leads or follows.
Outranks(o) == Newer(AuthorityOf(entry[o].desc), auth)

ObservedEpoch ==
    LET seen == {entry[o].desc.epoch : o \in Candidates} \cup {maxEpoch}
    IN CHOOSE e \in seen : \A f \in seen : f <= e

\* Mutant: the coordinates of the route are saved as the node's own.
SavedRouteOnly == [role |-> role, active |-> active, activeAuth |-> activeAuth,
                   auth |-> activeAuth]
Saved == [role |-> role, active |-> active, activeAuth |-> activeAuth, auth |-> auth]

\* The route is attached: a new subscription, or a switch of the current one.
Attach(o, a, prev, gen) ==
    /\ role' = "reconciling"
    /\ auth' = a
    /\ sub' = IF sub = NoSub THEN [route |-> NoOffer, blames |-> o, alive |-> FALSE] ELSE sub
    /\ op' = [at |-> "switch", entry |-> o, gen |-> gen, auth |-> a,
              created |-> (sub = NoSub), result |-> "pending", prev |-> prev]

ScheduleElection ==
    IF role = "leader" \/ timer \/ ~AutoPromote \/ ~Eligible
    THEN /\ role' = IF role \in {"leader", "electing"} THEN role ELSE "offline"
         /\ UNCHANGED timer
    ELSE role' = "electing" /\ timer' = TRUE

\* The owner's reconcile(), or a new price of an offer.
RequestReconcile ==
    /\ ~closed /\ wanted' = TRUE
    /\ changes < MaxChanges /\ changes' = changes + 1
    /\ UNCHANGED <<remote, faults, role, auth, maxEpoch, closed, active, activeAuth, sub,
                   timer, elections, op, entry, refresh, probing>>

\* Mutant: a run that was queued before close() is not stopped.
RunAfterClose == wanted /\ op.at = "idle" /\ wanted' = FALSE
Run == ~closed /\ wanted /\ op.at = "idle" /\ wanted' = FALSE

\* Nobody to follow, or nobody better: a leader stays, others look for election.
ReconcileStays ==
    /\ Run
    /\ role = "leader"
    /\ \A o \in BestRemote : ~Outranks(o)
    /\ maxEpoch' = ObservedEpoch
    /\ timer' = FALSE
    /\ UNCHANGED <<world, role, auth, closed, active, activeAuth, sub, elections, op,
                   entry, refresh, probing>>

ReconcileAlone ==
    /\ Run
    /\ role # "leader" /\ Candidates = {}
    /\ maxEpoch' = ObservedEpoch
    /\ sub' = NoSub /\ active' = NoOffer /\ activeAuth' = NoAuthority
    /\ ScheduleElection
    /\ UNCHANGED <<world, auth, closed, elections, op, entry, refresh, probing>>

\* The chosen route is the active one: only the coordinates are refreshed.
ReconcileKeeps ==
    \E o \in BestRemote :
        LET a == AuthorityOf(entry[o].desc) IN
        /\ Run
        /\ active = o /\ role = "follower" /\ activeAuth = a
        /\ auth' = a
        /\ maxEpoch' = ObservedEpoch
        /\ timer' = FALSE
        /\ UNCHANGED <<world, role, closed, active, activeAuth, sub, elections, op,
                       entry, refresh, probing>>

\* Otherwise follow(): a leader first reads the winner's keyframe.  An equally
\* good active route is left (hysteresis) only when freshness or costs changed.
ReconcileFollows ==
    \E o \in BestRemote :
        LET a == AuthorityOf(entry[o].desc) IN
        /\ Run
        /\ role = "leader" => Outranks(o)
        /\ ~(active = o /\ role = "follower" /\ activeAuth = a)
        /\ IF active \in BestRemote \ {o}
           THEN changes < MaxChanges /\ changes' = changes + 1
           ELSE UNCHANGED changes
        /\ maxEpoch' = ObservedEpoch
        /\ timer' = FALSE
        /\ IF role = "leader"
           THEN /\ op' = [NoOp EXCEPT !.at = "frame", !.entry = o, !.gen = entry[o].gen,
                                      !.auth = a, !.prev = Saved]
                /\ UNCHANGED <<role, auth, sub>>
           ELSE Attach(o, a, Saved, entry[o].gen)
        /\ UNCHANGED <<remote, faults, closed, active, activeAuth, elections, entry,
                       refresh, probing>>

\* The keyframe arrived, and the session it came from is still the entry's.
FrameArrives ==
    /\ op.at = "frame" /\ ~closed
    /\ IF entry[op.entry].gen = op.gen
       THEN Attach(op.entry, op.auth, op.prev, op.gen)
       ELSE op' = NoOp /\ UNCHANGED <<role, auth, sub>>
    /\ UNCHANGED <<world, maxEpoch, closed, active, activeAuth, timer, elections,
                   wanted, entry, refresh, probing>>

\* The keyframe call fails: the run is over, the leader leads on.
FrameFails ==
    /\ op.at = "frame"
    /\ faults < MaxFaults \/ entry[op.entry].gen # op.gen \/ closed
    /\ faults' = IF entry[op.entry].gen = op.gen /\ ~closed THEN faults + 1 ELSE faults
    /\ op' = NoOp
    /\ UNCHANGED <<remote, changes, role, auth, maxEpoch, closed, active,
                   activeAuth, sub, timer, elections, wanted, entry, refresh, probing>>

AwaitsRoute == op.at = "switch" /\ op.result = "pending"

RouteReady ==
    /\ AwaitsRoute /\ entry[op.entry].gen = op.gen
    /\ sub' = [sub EXCEPT !.route = op.entry, !.alive = TRUE]
    /\ op' = [op EXCEPT !.result = "resolved"]
    /\ UNCHANGED <<world, role, auth, maxEpoch, closed, active, activeAuth, timer,
                   elections, wanted, entry, refresh, probing>>

\* The new route does not come up: the switch is rejected, the old route stays
\* attached, and the subscription's onError names the entry it was created with.
RouteFails ==
    /\ AwaitsRoute
    /\ faults < MaxFaults \/ entry[op.entry].gen # op.gen
    /\ faults' = IF entry[op.entry].gen = op.gen THEN faults + 1 ELSE faults
    /\ FailEntry(sub.blames, sub, [op EXCEPT !.result = "failed"])
    /\ UNCHANGED <<remote, changes, auth, maxEpoch, closed, timer, elections,
                   refresh, probing>>

\* Mutant: the end of the line is not charged to the route.
LineFailsQuietly ==
    /\ sub.alive /\ faults < MaxFaults /\ ~closed
    /\ faults' = faults + 1
    /\ sub' = [sub EXCEPT !.alive = FALSE]
    /\ UNCHANGED <<remote, changes, role, auth, maxEpoch, closed, active, activeAuth,
                   timer, elections, wanted, probing, op, entry, refresh>>

\* The live line of the ready route ends (its session may be fine).
LineFails ==
    /\ sub.alive /\ faults < MaxFaults /\ ~closed
    /\ faults' = faults + 1
    /\ FailEntry(sub.blames, [sub EXCEPT !.alive = FALSE], op)
    /\ UNCHANGED <<remote, changes, auth, maxEpoch, closed, timer, elections, refresh, probing>>

FollowSucceeds ==
    /\ op.at = "switch" /\ op.result = "resolved" /\ ~closed
    /\ entry[op.entry].gen = op.gen
    /\ active' = op.entry /\ activeAuth' = op.auth /\ auth' = op.auth
    /\ role' = "follower"
    /\ timer' = FALSE
    /\ op' = NoOp
    /\ UNCHANGED <<world, maxEpoch, closed, sub, elections, wanted, entry, refresh, probing>>

\* Everything saved before the hand-off is put back.
FollowRestores ==
    /\ op.at = "switch" /\ op.result # "pending" /\ ~closed
    /\ op.result # "resolved" \/ entry[op.entry].gen # op.gen
    /\ sub' = IF op.created THEN NoSub ELSE sub
    /\ active' = op.prev.active /\ activeAuth' = op.prev.activeAuth
    /\ auth' = op.prev.auth /\ role' = op.prev.role
    /\ op' = NoOp
    /\ UNCHANGED <<world, maxEpoch, closed, timer, elections, wanted, entry, refresh, probing>>

-----------------------------------------------------------------------------
(* Elections *)

\* promote(): a manual call, or the election timer; then elect() is awaited.
Promote ==
    /\ ~closed /\ role # "leader" /\ Eligible /\ elections < MaxElections
    /\ elections' = elections + 1
    /\ UNCHANGED <<world, role, auth, maxEpoch, closed, active, activeAuth, sub,
                   timer, wanted, op, entry, refresh, probing>>

TimerFires ==
    /\ TimersRun /\ timer /\ elections < MaxElections
    /\ timer' = FALSE
    /\ elections' = IF role = "leader" THEN elections ELSE elections + 1
    /\ UNCHANGED <<world, role, auth, maxEpoch, closed, active, activeAuth, sub,
                   wanted, op, entry, refresh, probing>>

\* Mutant: the answer may tie with an epoch observed meanwhile.
ElectableTies == maxEpoch..MaxEpoch
\* elect() must answer above everything observed when its answer arrives.
ElectableEpochs == (maxEpoch + 1)..MaxEpoch

ElectionGranted ==
    /\ elections > 0 /\ ~closed
    /\ elections' = elections - 1
    /\ \E e \in ElectableEpochs :
        /\ auth' = [epoch |-> e, leader |-> Self]
        /\ maxEpoch' = e
    /\ sub' = NoSub
    /\ op' \in (IF sub = NoSub THEN {op} ELSE Abandoned(op))
    /\ active' = NoOffer /\ activeAuth' = NoAuthority
    /\ role' = "leader" /\ timer' = FALSE /\ wanted' = TRUE
    /\ UNCHANGED <<world, closed, entry, refresh, probing>>

\* elect() declines, or answers with an epoch that was already observed.
ElectionDeclined ==
    /\ elections > 0 /\ ~closed
    /\ elections' = elections - 1
    /\ role' \in {role, IF role = "electing" THEN "offline" ELSE role}
    /\ UNCHANGED <<world, auth, maxEpoch, closed, active, activeAuth, sub, timer,
                   wanted, op, entry, refresh, probing>>

Close ==
    /\ ~closed
    /\ closed' = TRUE /\ role' = "closed" /\ timer' = FALSE
    /\ sub' = NoSub
    /\ active' = NoOffer /\ activeAuth' = NoAuthority
    /\ op' \in (IF sub = NoSub THEN {op} ELSE Abandoned(op))
    /\ entry' = [o \in Offers |->
            [CloseSession(entry[o]) EXCEPT !.state = "closed", !.retry = FALSE]]
    /\ UNCHANGED <<world, auth, maxEpoch, elections, wanted, refresh, probing>>

\* After close() the continuation of a hand-off throws without touching anything.
FollowAfterClose ==
    /\ closed /\ op.at # "idle" /\ op.result # "pending"
    /\ op' = NoOp
    /\ UNCHANGED <<world, role, auth, maxEpoch, closed, active, activeAuth, sub, timer,
                   elections, wanted, entry, refresh, probing>>

-----------------------------------------------------------------------------
\* Everything but elections, which a node that is not eligible never holds.
PlainNext ==
    \/ \E o \in Offers :
        \/ ConnectSucceeds(o) \/ SessionFails(o) \/ Retry(o)
        \/ RemoveOffer(o) \/ AddOffer(o)
        \/ PeerChanges(o)
        \/ RefreshReads(o) \/ RefreshRejects(o) \/ RefreshCommits(o) \/ RefreshFails(o)
    \/ Probe \/ ProbeEnds \/ RequestReconcile
    \/ ReconcileStays \/ ReconcileAlone \/ ReconcileKeeps \/ ReconcileFollows
    \/ FrameArrives \/ FrameFails \/ RouteReady \/ RouteFails \/ LineFails
    \/ FollowSucceeds \/ FollowRestores \/ FollowAfterClose
    \/ Close

ElectionNext == Promote \/ TimerFires \/ ElectionGranted \/ ElectionDeclined

Next == PlainNext \/ ElectionNext

Spec == Init /\ [][Next]_vars

\* Calls over a live session are answered or fail, timers fire, continuations
\* and scheduled reconciliations run.  Nothing obliges the peers or the owner.
PlainFairness ==
    /\ \A o \in Offers :
        /\ WF_vars(ConnectSucceeds(o)) /\ SF_vars(Retry(o))
        /\ WF_vars(RefreshReads(o))
        /\ WF_vars(RefreshRejects(o) \/ RefreshCommits(o) \/ RefreshFails(o))
    /\ WF_vars(ReconcileStays \/ ReconcileAlone \/ ReconcileKeeps \/ ReconcileFollows)
    /\ WF_vars(FrameArrives \/ FrameFails) /\ WF_vars(RouteReady \/ RouteFails)
    /\ WF_vars(FollowSucceeds \/ FollowRestores)
    /\ SF_vars(Probe) /\ WF_vars(ProbeEnds)

FairSpec == Spec /\ PlainFairness /\ SF_vars(TimerFires) /\ WF_vars(ElectionGranted \/ ElectionDeclined)

\* A node that is not eligible, step for step.
FairPlainSpec == Init /\ [][PlainNext]_vars /\ PlainFairness

-----------------------------------------------------------------------------
(* Properties *)

TypeOK ==
    /\ remote \in [Offers -> Descriptor]
    /\ changes \in 0..MaxChanges /\ faults \in 0..MaxFaults
    /\ role \in {"leader", "follower", "reconciling", "electing", "offline", "closed"}
    /\ auth \in Authority /\ activeAuth \in Authority /\ maxEpoch \in 0..MaxEpoch
    /\ closed = (role = "closed")
    /\ active \in Offers \cup {NoOffer, Gone}
    /\ sub \in [route : Offers \cup {NoOffer}, blames : Offers \cup {NoOffer, Gone},
                alive : BOOLEAN]
    /\ timer \in BOOLEAN /\ elections \in 0..MaxElections /\ wanted \in BOOLEAN /\ probing \in BOOLEAN
    /\ op.at \in {"idle", "frame", "switch"}
    /\ \A o \in Offers :
        /\ entry[o].state \in {"connecting", "open", "failed", "rejected", "closed"}
        /\ refresh[o].at \in {"none", "reading", "read"}

\* At rest a leader has no upstream and leads its own authority, and a follower
\* publishes exactly the authority of the route it follows.
RoleMatchesRoute ==
    op.at # "switch" =>
        /\ role = "leader" => sub = NoSub /\ active = NoOffer /\ auth.leader = Self
        /\ role = "follower" => active # NoOffer /\ activeAuth = auth
        /\ sub # NoSub => role = "follower"

\* A leadership won by election outranks everything the node has followed or
\* could follow at that moment, whatever was observed while elect() was awaited.
PromotionOutranks ==
    [][(elections' < elections /\ auth' # auth) =>
            /\ auth'.epoch > auth.epoch /\ auth'.epoch > activeAuth.epoch
            /\ \A o \in Candidates : auth'.epoch > entry[o].desc.epoch]_vars

\* A leader steps down for a better authority only.
StepsDownForBetter ==
    [][(role = "leader" /\ role' # "leader") => (closed' \/ Newer(auth', auth))]_vars

\* A hand-off that fails leaves the route it was to replace alone.
FailedHandoffKeepsRoute ==
    [][(op.result # "failed" /\ op'.result = "failed" /\ active \in Offers \ {op.entry}) =>
            active' = active /\ entry'[active] = entry[active]]_vars

\* A follower without the live line of its route does not stay one.
Fed == sub.alive /\ sub.route = active
FollowerIsFed ==
    (role = "follower" /\ ~Fed) ~> (role # "follower" \/ Fed)

\* What the node knows of a peer that it has a session to ends up being what the
\* peer says of itself.
DescriptorsConverge ==
    \A o \in Offers : <>[](entry[o].session => entry[o].desc = remote[o])

\* Once the peers and the faults are quiet the node ends up at an authority that
\* no reachable peer outranks, as its leader or its fed follower.
Reachable(o) == entry[o].state # "closed" /\ remote[o].serving /\ remote[o].sound
Converges ==
    <>[](\/ closed
         \/ \A o \in Offers : ~Reachable(o)
         \/ /\ role = "leader" \/ (role = "follower" /\ Fed)
            /\ \A o \in Offers : Reachable(o) => ~Newer(AuthorityOf(remote[o]), auth))
=============================================================================
