------------------------ MODULE StoreReplicaSet_proofs ------------------------
(***************************************************************************)
(* Proofs about one node of a store replica set, for any offers, any ranks *)
(* and any number of changes, faults and elections.                        *)
(*                                                                         *)
(* ReplicaInv says what the node holds: its records are whole; no epoch    *)
(* that it holds or could follow is above maxEpoch, so that an answer of   *)
(* elect() above maxEpoch is above them all; and what still runs for a     *)
(* closed entry, or after close(), belongs to an older generation.         *)
(* StepsHeld is about a node without elections: what it leads while a      *)
(* hand-off reads the keyframe is worse than what the hand-off is for.     *)
(* RolesInv says that a role agrees with its route, at rest and in what a  *)
(* hand-off goes back to, and whose the subscription is meanwhile.         *)
(***************************************************************************)
EXTENDS StoreReplicaSet, TLAPS

Roles == {"leader", "follower", "reconciling", "electing", "offline", "closed"}
Refs == Offers \cup {NoOffer, Gone}

\* Authorities of the epochs up to m.
UpTo(m) == [epoch : 0..m, leader : {NoLeader, Self, Peer}]

Subs == [route : Offers \cup {NoOffer}, blames : Refs, alive : BOOLEAN]

SavedUpTo(m) ==
    [role : Roles \ {"closed"}, active : Refs, activeAuth : UpTo(m), auth : UpTo(m)]

\* Hand-offs for, and back to, authorities of the epochs up to m.
HandoffsUpTo(m) ==
    [at : {"idle", "frame", "switch"}, entry : Offers \cup {NoOffer}, gen : Nat, auth : UpTo(m),
     created : BOOLEAN, result : {"pending", "resolved", "rejected", "failed"},
     prev : SavedUpTo(m)]

Entries ==
    [state : {"connecting", "open", "failed", "rejected", "closed"}, gen : Nat \ {0},
     opening : BOOLEAN, session : BOOLEAN, desc : Descriptor, retry : BOOLEAN]

Refreshes == [at : {"none", "reading", "read"}, gen : Nat, value : Descriptor]

\* The peers, the world and the flags of the controller.
FlagsWhole ==
    /\ remote \in [Offers -> Descriptor]
    /\ changes \in 0..MaxChanges /\ faults \in 0..MaxFaults
    /\ timer \in BOOLEAN /\ elections \in 0..MaxElections /\ wanted \in BOOLEAN
    /\ probing \in BOOLEAN

\* The role, the route and the hand-off, of epochs that were observed.
RouteWhole ==
    /\ role \in Roles /\ closed = (role = "closed")
    /\ active \in Refs /\ activeAuth \in UpTo(maxEpoch)
    /\ sub \in Subs /\ op \in HandoffsUpTo(maxEpoch)

KnownWhole == maxEpoch \in 0..MaxEpoch /\ auth \in UpTo(maxEpoch)

\* The entries, and what is under way for their generations.
EntriesWhole ==
    /\ entry \in [Offers -> Entries] /\ refresh \in [Offers -> Refreshes]
    /\ \A o \in Offers : refresh[o].gen <= entry[o].gen
    /\ closed => \A o \in Offers : entry[o].state = "closed" /\ refresh[o].gen < entry[o].gen
    /\ \A o \in Offers : entry[o].state = "open" => entry[o].desc.epoch <= maxEpoch

ReplicaInv == FlagsWhole /\ RouteWhole /\ KnownWhole /\ EntriesWhole

-----------------------------------------------------------------------------
(* The records *)

LEMMA NoneAreWhole ==
  ASSUME NEW m \in Nat
  PROVE  /\ NoAuthority \in UpTo(m) /\ NoOp \in HandoffsUpTo(m)
         /\ NoSub \in Subs /\ NoRefresh \in Refreshes
BY ReplicaAssumption
   DEF NoAuthority, UpTo, NoOp, HandoffsUpTo, SavedUpTo, NoSub, Subs, NoRefresh, Refreshes,
       Descriptor, Roles, Refs

\* What was of observed epochs stays so when more is observed.
LEMMA MoreIsKnown ==
  ASSUME NEW m \in Nat, NEW n \in Nat, m <= n
  PROVE  /\ UpTo(m) \subseteq UpTo(n) /\ HandoffsUpTo(m) \subseteq HandoffsUpTo(n)
<1>1. 0..m \subseteq 0..n
  OBVIOUS
<1>2. UpTo(m) \subseteq UpTo(n)
  BY <1>1 DEF UpTo
<1>3. SavedUpTo(m) \subseteq SavedUpTo(n)
  BY <1>2 DEF SavedUpTo
<1> QED BY <1>2, <1>3 DEF HandoffsUpTo

LEMMA AbandonedFacts ==
  ASSUME NEW m \in Nat, NEW p \in HandoffsUpTo(m), NEW q \in Abandoned(p)
  PROVE  q \in HandoffsUpTo(m) /\ q.at = p.at /\ q.auth = p.auth
<1>1. CASE q = p
  BY <1>1
<1>2. CASE q # p
  <2>1. PICK r \in {"resolved", "rejected"} : q = [p EXCEPT !.result = r]
    BY <1>2 DEF Abandoned
  <2> QED BY <2>1 DEF HandoffsUpTo
<1> QED BY <1>1, <1>2

LEMMA OpenedFacts ==
  ASSUME NEW e \in Entries
  PROVE  /\ Opened(e) \in Entries /\ Opened(e).gen = e.gen + 1 /\ Opened(e).gen >= e.gen
         /\ Opened(e).state = "connecting"
<1>1. e.gen + 1 \in Nat \ {0} /\ e.gen + 1 >= e.gen
  BY DEF Entries
<1>2. Opened(e) = [e EXCEPT !.gen = e.gen + 1, !.state = "connecting", !.opening = TRUE, !.retry = FALSE]
  BY DEF Opened
<1> QED BY <1>1, <1>2 DEF Entries

LEMMA ProbedFacts ==
  ASSUME NEW e \in Entries
  PROVE  /\ Probed(e) \in Entries /\ Probed(e).gen >= e.gen
         /\ Probed(e) = e \/ Probed(e).state = "connecting"
<1>1. CASE Probed(e) = e
  BY <1>1 DEF Entries
<1>2. CASE Probed(e) = Opened(e)
  BY <1>2, OpenedFacts
<1> QED BY <1>1, <1>2 DEF Probed

\* An entry that is closed, for good or until its retry.
Ended(e, s, b) == [CloseSession(e) EXCEPT !.state = s, !.retry = b]

LEMMA ClosedFacts ==
  ASSUME NEW e \in Entries, NEW s \in {"failed", "closed"}, NEW b \in BOOLEAN
  PROVE  /\ Ended(e, s, b) \in Entries /\ Ended(e, s, b).gen = e.gen + 1
         /\ Ended(e, s, b).gen >= e.gen /\ Ended(e, s, b).state = s
<1> DEFINE d == CloseSession(e)
           z == Ended(e, s, b)
<1>1. e.gen + 1 \in Nat \ {0} /\ e.gen + 1 >= e.gen
  BY DEF Entries
<1>2. d \in Entries /\ d.gen = e.gen + 1
  <2>1. d = [e EXCEPT !.gen = e.gen + 1, !.session = FALSE, !.opening = FALSE]
    BY DEF CloseSession
  <2> QED BY <1>1, <2>1 DEF Entries
<1> HIDE DEF d
<1>3. z = [d EXCEPT !.state = s, !.retry = b]
  BY DEF d, Ended
<1> HIDE DEF z
<1>4. z \in Entries /\ z.gen = d.gen /\ z.state = s
  BY <1>2, <1>3 DEF Entries
<1> QED BY <1>1, <1>2, <1>4 DEF z

LEMMA RefreshFacts ==
  ASSUME EntriesWhole, NEW o \in Offers
  PROVE  /\ StartRefresh(o) \in [Offers -> Refreshes]
         /\ \A p \in Offers : StartRefresh(o)[p].gen <= entry[p].gen
<1>1. [NoRefresh EXCEPT !.at = "reading", !.gen = entry[o].gen] \in Refreshes
  <2>1. entry[o].gen \in Nat
    BY DEF EntriesWhole, Entries
  <2> QED BY <2>1, NoneAreWhole DEF Refreshes
<1>2. [NoRefresh EXCEPT !.at = "reading", !.gen = entry[o].gen].gen = entry[o].gen
  BY DEF NoRefresh
<1>3. entry[o].gen \in Nat
  BY DEF EntriesWhole, Entries
<1> QED BY <1>1, <1>2, <1>3 DEF StartRefresh, EntriesWhole

-----------------------------------------------------------------------------
(* The shared steps *)

\* The route is detached: the role of a leader stays, the hand-off stays where it is.
LEMMA DetachKeeps ==
  ASSUME ReplicaInv, NEW pending \in HandoffsUpTo(maxEpoch), DetachUpstream(pending),
         UNCHANGED <<closed, maxEpoch>>
  PROVE  /\ RouteWhole' /\ op'.at = pending.at /\ op'.auth = pending.auth
         /\ (role' = "leader") <=> (role = "leader")
<1>1. op' \in HandoffsUpTo(maxEpoch) /\ op'.at = pending.at /\ op'.auth = pending.auth
  <2>1. maxEpoch \in Nat
    BY ReplicaAssumption DEF ReplicaInv, KnownWhole
  <2>2. op' \in {pending} \/ op' \in Abandoned(pending)
    BY DEF DetachUpstream
  <2>3. CASE op' = pending
    BY <2>3
  <2>4. CASE op' \in Abandoned(pending)
    BY <2>1, <2>4, AbandonedFacts
  <2> QED BY <2>2, <2>3, <2>4
<1>2. role' \in Roles /\ closed' = (role' = "closed") /\ ((role' = "leader") <=> (role = "leader"))
  BY DEF DetachUpstream, ReplicaInv, RouteWhole, Roles
<1>3. active' \in Refs /\ activeAuth' \in UpTo(maxEpoch) /\ sub' \in Subs
  BY NoneAreWhole, ReplicaAssumption DEF DetachUpstream, Refs, ReplicaInv, KnownWhole
<1> QED BY <1>1, <1>2, <1>3 DEF RouteWhole

\* A failed entry is closed in its generation, and the rest goes on.
LEMMA FailureKeeps ==
  ASSUME ReplicaInv, NEW o, NEW l \in Subs, NEW pending \in HandoffsUpTo(maxEpoch),
         FailEntry(o, l, pending), UNCHANGED <<closed, maxEpoch>>,
         refresh' \in [Offers -> Refreshes],
         \A p \in Offers : refresh'[p].gen <= refresh[p].gen
  PROVE  /\ RouteWhole' /\ EntriesWhole' /\ wanted' \in BOOLEAN
         /\ op'.at = pending.at /\ op'.auth = pending.auth
         /\ (role' = "leader") <=> (role = "leader")
<1>1. CASE o \notin Offers \/ entry[o].state = "closed"
  <2>1. sub' = l /\ op' = pending /\ UNCHANGED <<entry, active, activeAuth, role, wanted>>
    BY <1>1 DEF FailEntry
  <2>2. RouteWhole' /\ wanted' \in BOOLEAN
    BY <2>1 DEF ReplicaInv, RouteWhole, FlagsWhole
  <2>3. \A p \in Offers : refresh'[p].gen \in Int /\ refresh[p].gen \in Int /\ entry[p].gen \in Int
    BY DEF ReplicaInv, EntriesWhole, Entries, Refreshes
  <2>4. EntriesWhole'
    BY <2>1, <2>3 DEF ReplicaInv, EntriesWhole
  <2> QED BY <2>1, <2>2, <2>4
<1>2. CASE o \in Offers /\ entry[o].state # "closed"
  <2> DEFINE c == [CloseSession(entry[o]) EXCEPT !.state = "failed", !.retry = TRUE]
  <2>1. /\ entry' = [entry EXCEPT ![o] = c] /\ wanted' = TRUE
        /\ IF active = o THEN DetachUpstream(pending)
           ELSE sub' = l /\ op' = pending /\ UNCHANGED <<active, activeAuth, role>>
    BY <1>2 DEF FailEntry
  <2>2. c \in Entries /\ c.gen = entry[o].gen + 1 /\ c.state = "failed"
    <3>1. entry[o] \in Entries /\ c = Ended(entry[o], "failed", TRUE)
      BY <1>2 DEF ReplicaInv, EntriesWhole, Ended
    <3> HIDE DEF c
    <3> QED BY <3>1, ClosedFacts
  <2> HIDE DEF c
  <2>3. /\ RouteWhole' /\ op'.at = pending.at /\ op'.auth = pending.auth
        /\ (role' = "leader") <=> (role = "leader")
    <3>1. CASE active = o
      BY <2>1, <3>1, DetachKeeps
    <3>2. CASE active # o
      BY <2>1, <3>2 DEF ReplicaInv, RouteWhole
    <3> QED BY <3>1, <3>2
  <2>4. \A p \in Offers : refresh'[p].gen \in Int /\ refresh[p].gen \in Int /\ entry[p].gen \in Int
    BY DEF ReplicaInv, EntriesWhole, Entries, Refreshes
  <2>5. EntriesWhole'
    BY <1>2, <2>1, <2>2, <2>4 DEF ReplicaInv, EntriesWhole
  <2> QED BY <2>1, <2>3, <2>5
<1> QED BY <1>1, <1>2

\* Of the entries, only that of o changes; what is under way is for generations that are.
OnlyEntry(o) == entry' = [entry EXCEPT ![o] = entry'[o]]
RefreshHeld ==
    refresh' \in [Offers -> Refreshes] /\ \A p \in Offers : refresh'[p].gen <= entry[p].gen

\* One entry changes, while the node is not closed, in the same or in a later generation.
LEMMA EntryChanges ==
  ASSUME EntriesWhole, ~closed', NEW o \in Offers, OnlyEntry(o), RefreshHeld,
         entry'[o] \in Entries, entry'[o].gen >= entry[o].gen,
         entry'[o].state = "open" => entry'[o].desc.epoch <= maxEpoch',
         maxEpoch \in Nat, maxEpoch' \in Nat, maxEpoch <= maxEpoch'
  PROVE  EntriesWhole'
<1>1. \A p \in Offers : /\ refresh'[p].gen \in Int /\ entry[p].gen \in Int /\ entry'[o].gen \in Int
                        /\ entry[p].desc.epoch \in Int
  <2> TAKE p \in Offers
  <2>1. refresh'[p] \in Refreshes /\ entry[p] \in Entries
    BY DEF EntriesWhole, RefreshHeld
  <2>2. entry[p].desc \in Descriptor
    BY <2>1 DEF Entries
  <2>3. entry[p].desc.epoch \in Int
    BY <2>2 DEF Descriptor
  <2> QED BY <2>1, <2>3 DEF Entries, Refreshes
<1>2. \A p \in Offers : p # o => entry'[p] = entry[p]
  BY DEF EntriesWhole, OnlyEntry
<1>3. entry' \in [Offers -> Entries]
  BY DEF EntriesWhole, OnlyEntry
<1>4. ASSUME NEW p \in Offers PROVE refresh'[p].gen <= entry'[p].gen
  <2>1. refresh'[p].gen <= entry[p].gen
    BY DEF RefreshHeld
  <2>2. entry'[p].gen >= entry[p].gen
    BY <1>1, <1>2
  <2>3. entry'[p].gen \in Int
    BY <1>1, <1>2
  <2> QED BY <1>1, <2>1, <2>2, <2>3
<1>5. ASSUME NEW p \in Offers, entry'[p].state = "open" PROVE entry'[p].desc.epoch <= maxEpoch'
  <2>1. entry[p].state = "open" => entry[p].desc.epoch <= maxEpoch
    BY DEF EntriesWhole
  <2>2. entry[p].state = "open" => entry[p].desc.epoch <= maxEpoch'
    BY <1>1, <2>1
  <2> QED BY <1>2, <1>5, <2>2
<1>6. refresh' \in [Offers -> Refreshes]
  BY DEF RefreshHeld
<1> QED BY <1>3, <1>4, <1>5, <1>6 DEF EntriesWhole

LEMMA EpochIsNat == ASSUME ReplicaInv PROVE maxEpoch \in Nat
BY ReplicaAssumption DEF ReplicaInv, KnownWhole

LEMMA NoneIsRefresh ==
  ASSUME EntriesWhole, NEW o \in Offers, refresh' = [refresh EXCEPT ![o] = NoRefresh]
  PROVE  refresh' \in [Offers -> Refreshes] /\ \A p \in Offers : refresh'[p].gen <= refresh[p].gen
<1>1. NoRefresh \in Refreshes /\ NoRefresh.gen = 0
  BY NoneAreWhole DEF NoRefresh
<1>2. \A p \in Offers : refresh[p].gen \in Nat
  BY DEF EntriesWhole, Refreshes
<1> QED BY <1>1, <1>2 DEF EntriesWhole

-----------------------------------------------------------------------------
(* Offers and sessions *)

LEMMA ReplicaInit == ASSUME Init PROVE ReplicaInv
<1>1. FlagsWhole
  <2>1. [epoch : {0, 1}, serving : BOOLEAN, sound : {TRUE}] \subseteq Descriptor
    <3>1. {0, 1} \subseteq 0..MaxEpoch
      BY ReplicaAssumption
    <3> QED BY <3>1 DEF Descriptor
  <2>2. remote \in [Offers -> Descriptor]
    BY <2>1 DEF Init
  <2>3. 0 \in 0..MaxChanges /\ 0 \in 0..MaxFaults /\ 0 \in 0..MaxElections
    BY ReplicaAssumption
  <2> QED BY <2>2, <2>3 DEF Init, FlagsWhole
<1>2. maxEpoch = 0 /\ maxEpoch \in Nat
  BY DEF Init
<1>3. RouteWhole
  <2>1. op \in HandoffsUpTo(maxEpoch) /\ sub \in Subs /\ activeAuth \in UpTo(maxEpoch)
    BY <1>2, NoneAreWhole DEF Init
  <2> QED BY <2>1, ReplicaAssumption DEF Init, RouteWhole, Roles, Refs
<1>4. KnownWhole
  BY <1>2, NoneAreWhole, ReplicaAssumption DEF Init, KnownWhole, UpTo
<1>5. EntriesWhole
  <2>1. NoRefresh \in Refreshes /\ NoRefresh.value \in Descriptor /\ NoRefresh.gen = 0
    BY ReplicaAssumption DEF NoRefresh, Refreshes, Descriptor
  <2> DEFINE e == [state |-> "connecting", gen |-> 1, opening |-> TRUE,
                   session |-> FALSE, desc |-> NoRefresh.value, retry |-> FALSE]
  <2>2. e \in Entries /\ e.gen = 1 /\ e.state = "connecting"
    BY <2>1 DEF Entries
  <2>3. entry = [o \in Offers |-> e] /\ refresh = [o \in Offers |-> NoRefresh] /\ ~closed
    BY DEF Init
  <2> HIDE DEF e
  <2> QED BY <2>1, <2>2, <2>3 DEF EntriesWhole
<1> QED BY <1>1, <1>3, <1>4, <1>5 DEF ReplicaInv

LEMMA ConnectKeeps == ASSUME ReplicaInv, NEW o \in Offers, ConnectSucceeds(o) PROVE ReplicaInv'
<1>1. FlagsWhole' /\ RouteWhole' /\ KnownWhole'
  BY DEF ConnectSucceeds, world, ReplicaInv, FlagsWhole, RouteWhole, KnownWhole
<1>2. EntriesWhole'
  <2> DEFINE c == [entry[o] EXCEPT !.session = TRUE, !.opening = FALSE]
  <2>1. c \in Entries /\ c.gen = entry[o].gen /\ c.state = entry[o].state /\ c.desc = entry[o].desc
        /\ entry[o].gen \in Nat
    BY DEF ReplicaInv, EntriesWhole, Entries
  <2>2. entry' = [entry EXCEPT ![o] = c] /\ refresh' = StartRefresh(o) /\ ~closed' /\ maxEpoch' = maxEpoch
    BY DEF ConnectSucceeds, ReplicaInv, EntriesWhole
  <2>3. c.state = "open" => c.desc.epoch <= maxEpoch
    BY <2>1 DEF ReplicaInv, EntriesWhole
  <2> HIDE DEF c
  <2>4. EntriesWhole
    BY DEF ReplicaInv
  <2>5. refresh' \in [Offers -> Refreshes] /\ \A p \in Offers : refresh'[p].gen <= entry[p].gen
    BY <2>2, <2>4, RefreshFacts
  <2>6. c.gen >= entry[o].gen
    BY <2>1
  <2>9. OnlyEntry(o) /\ RefreshHeld /\ entry'[o] \in Entries /\ entry'[o].gen >= entry[o].gen
        /\ (entry'[o].state = "open" => entry'[o].desc.epoch <= maxEpoch)
    BY <2>1, <2>2, <2>3, <2>4, <2>5, <2>6 DEF OnlyEntry, RefreshHeld, EntriesWhole
  <2>10. maxEpoch \in Nat /\ maxEpoch <= maxEpoch
    BY EpochIsNat
  <2> QED BY <2>1, <2>2, <2>3, <2>4, <2>5, <2>6, <2>9, <2>10, EntryChanges
<1> QED BY <1>1, <1>2 DEF ReplicaInv

LEMMA SessionFailsKeeps == ASSUME ReplicaInv, NEW o \in Offers, SessionFails(o) PROVE ReplicaInv'
<1>1. /\ FailEntry(o, sub, op) /\ faults < MaxFaults /\ faults' = faults + 1
      /\ UNCHANGED <<remote, changes, auth, maxEpoch, closed, timer, elections, refresh, probing>>
  BY DEF SessionFails
<1>2. RouteWhole' /\ EntriesWhole' /\ wanted' \in BOOLEAN
  <2>1. sub \in Subs /\ op \in HandoffsUpTo(maxEpoch)
    BY DEF ReplicaInv, RouteWhole
  <2>2. refresh' \in [Offers -> Refreshes] /\ \A p \in Offers : refresh'[p].gen <= refresh[p].gen
    BY <1>1 DEF ReplicaInv, EntriesWhole, Refreshes
  <2> QED BY <1>1, <2>1, <2>2, FailureKeeps
<1>3. FlagsWhole'
  BY <1>1, <1>2, ReplicaAssumption DEF ReplicaInv, FlagsWhole
<1>4. KnownWhole'
  BY <1>1 DEF ReplicaInv, KnownWhole
<1> QED BY <1>2, <1>3, <1>4 DEF ReplicaInv

LEMMA RetryKeeps == ASSUME ReplicaInv, NEW o \in Offers, Retry(o) PROVE ReplicaInv'
<1>1. FlagsWhole' /\ RouteWhole' /\ KnownWhole'
  BY DEF Retry, world, ReplicaInv, FlagsWhole, RouteWhole, KnownWhole
<1>2. EntriesWhole'
  <2> DEFINE e == entry[o]
             c == IF e.session \/ e.state = "connecting" THEN [e EXCEPT !.retry = FALSE] ELSE Opened(e)
  <2>1. e \in Entries /\ e.gen \in Nat
    BY DEF ReplicaInv, EntriesWhole, Entries
  <2>2. c \in Entries /\ c.gen >= e.gen /\ (c.state = "open" => e.state = "open" /\ c.desc = e.desc)
    <3>1. CASE e.session \/ e.state = "connecting"
      <4>1. c = [e EXCEPT !.retry = FALSE]
        BY <3>1
      <4> HIDE DEF c, e
      <4>2. c \in Entries /\ c.gen = e.gen /\ c.state = e.state /\ c.desc = e.desc
        BY <2>1, <4>1 DEF Entries
      <4> QED BY <2>1, <4>2
    <3>2. CASE ~(e.session \/ e.state = "connecting")
      <4>1. c = Opened(e)
        BY <3>2
      <4> QED BY <2>1, <4>1, OpenedFacts
    <3> QED BY <3>1, <3>2
  <2>3. entry' = [entry EXCEPT ![o] = c] /\ refresh' = refresh /\ ~closed' /\ maxEpoch' = maxEpoch
    BY DEF Retry, TimersRun, ReplicaInv, EntriesWhole
  <2>4. c.state = "open" => c.desc.epoch <= maxEpoch
    BY <2>2 DEF ReplicaInv, EntriesWhole
  <2> HIDE DEF c
  <2>5. EntriesWhole
    BY DEF ReplicaInv
  <2>6. refresh' \in [Offers -> Refreshes] /\ \A p \in Offers : refresh'[p].gen <= entry[p].gen
    BY <2>3 DEF ReplicaInv, EntriesWhole
  <2>9. OnlyEntry(o) /\ RefreshHeld /\ entry'[o] \in Entries /\ entry'[o].gen >= entry[o].gen
        /\ (entry'[o].state = "open" => entry'[o].desc.epoch <= maxEpoch)
    BY <2>2, <2>3, <2>4, <2>5, <2>6 DEF OnlyEntry, RefreshHeld, EntriesWhole
  <2>10. maxEpoch \in Nat /\ maxEpoch <= maxEpoch
    BY EpochIsNat
  <2> QED BY <2>2, <2>3, <2>4, <2>5, <2>6, <2>9, <2>10, EntryChanges
<1> QED BY <1>1, <1>2 DEF ReplicaInv

\* A hand-off that would go back to a removed entry goes back to none.
LEMMA PendingIsHandoff ==
  ASSUME ReplicaInv, NEW o \in Offers
  PROVE  [op EXCEPT !.prev.active = Forget(@, o)] \in HandoffsUpTo(maxEpoch)
<1> DEFINE pending == [op EXCEPT !.prev.active = Forget(@, o)]
<1>1. op \in HandoffsUpTo(maxEpoch) /\ op.prev \in SavedUpTo(maxEpoch)
  BY DEF ReplicaInv, RouteWhole, HandoffsUpTo
<1> DEFINE q == [op.prev EXCEPT !.active = Forget(op.prev.active, o)]
<1>2. q \in SavedUpTo(maxEpoch)
  <2>1. Forget(op.prev.active, o) \in Refs
    BY <1>1 DEF Forget, SavedUpTo, Refs
  <2> QED BY <1>1, <2>1 DEF SavedUpTo
<1>3. pending = [op EXCEPT !.prev = q]
  BY <1>1 DEF HandoffsUpTo, SavedUpTo
<1> HIDE DEF q
<1> QED BY <1>1, <1>2, <1>3 DEF HandoffsUpTo

LEMMA RemoveKeeps == ASSUME ReplicaInv, NEW o \in Offers, RemoveOffer(o) PROVE ReplicaInv'
<1> DEFINE pending == [op EXCEPT !.prev.active = Forget(@, o)]
           c == [CloseSession(entry[o]) EXCEPT !.state = "closed", !.retry = FALSE]
<1>1. /\ ~closed /\ changes < MaxChanges /\ changes' = changes + 1 /\ wanted' = TRUE
      /\ entry' = [entry EXCEPT ![o] = c]
      /\ IF active = o THEN DetachUpstream(pending)
         ELSE /\ op' = pending
              /\ sub' = [sub EXCEPT !.blames = Forget(@, o)]
              /\ UNCHANGED <<active, activeAuth, role>>
      /\ UNCHANGED <<remote, faults, auth, maxEpoch, closed, timer, elections, refresh, probing>>
  BY DEF RemoveOffer, ReplicaInv, EntriesWhole
<1>2. pending \in HandoffsUpTo(maxEpoch)
  BY PendingIsHandoff
<1> HIDE DEF pending
<1>3. RouteWhole'
  <2>1. CASE active = o
    BY <1>1, <1>2, <2>1, DetachKeeps
  <2>2. CASE active # o
    <3>1. sub' \in Subs
      <4>1. sub \in Subs /\ Forget(sub.blames, o) \in Refs
        BY DEF ReplicaInv, RouteWhole, Subs, Forget, Refs
      <4>2. sub' = [sub EXCEPT !.blames = Forget(sub.blames, o)]
        BY <1>1, <2>2
      <4> QED BY <4>1, <4>2 DEF Subs
    <3> QED BY <1>1, <1>2, <2>2, <3>1 DEF ReplicaInv, RouteWhole
  <2> QED BY <2>1, <2>2
<1>4. EntriesWhole'
  <2>1. c \in Entries /\ c.gen = entry[o].gen + 1 /\ c.state = "closed" /\ entry[o].gen \in Nat
    <3>1. entry[o] \in Entries /\ entry[o].gen \in Nat
      BY DEF ReplicaInv, EntriesWhole, Entries
    <3>2. c = Ended(entry[o], "closed", FALSE)
      BY DEF Ended
    <3> HIDE DEF c
    <3> QED BY <3>1, <3>2, ClosedFacts
  <2>2. refresh' \in [Offers -> Refreshes] /\ \A p \in Offers : refresh'[p].gen <= entry[p].gen
    BY <1>1 DEF ReplicaInv, EntriesWhole
  <2>3. EntriesWhole /\ ~closed' /\ maxEpoch' = maxEpoch
    BY <1>1 DEF ReplicaInv
  <2> HIDE DEF c
  <2>4. c.gen >= entry[o].gen /\ c.state # "open"
    BY <2>1
  <2>9. OnlyEntry(o) /\ RefreshHeld /\ entry'[o] \in Entries /\ entry'[o].gen >= entry[o].gen
        /\ (entry'[o].state = "open" => entry'[o].desc.epoch <= maxEpoch)
    BY <1>1, <2>1, <2>2, <2>3, <2>4 DEF OnlyEntry, RefreshHeld, EntriesWhole
  <2>10. maxEpoch \in Nat /\ maxEpoch <= maxEpoch
    BY EpochIsNat
  <2> QED BY <1>1, <2>1, <2>2, <2>3, <2>4, <2>9, <2>10, EntryChanges
<1>5. FlagsWhole'
  BY <1>1, ReplicaAssumption DEF ReplicaInv, FlagsWhole
<1>6. KnownWhole'
  BY <1>1 DEF ReplicaInv, KnownWhole
<1> QED BY <1>3, <1>4, <1>5, <1>6 DEF ReplicaInv

LEMMA AddKeeps == ASSUME ReplicaInv, NEW o \in Offers, AddOffer(o) PROVE ReplicaInv'
<1>1. FlagsWhole' /\ RouteWhole' /\ KnownWhole'
  BY DEF AddOffer, world, ReplicaInv, FlagsWhole, RouteWhole, KnownWhole
<1>2. EntriesWhole'
  <2>1. EntriesWhole /\ entry[o] \in Entries /\ \A p \in Offers : entry[p].gen \in Nat /\ refresh[p].gen \in Nat
    BY DEF ReplicaInv, EntriesWhole, Entries, Refreshes
  <2>2. Opened(entry[o]) \in Entries /\ Opened(entry[o]).gen >= entry[o].gen
        /\ Opened(entry[o]).state # "open"
    BY <2>1, OpenedFacts
  <2>3. entry' = [entry EXCEPT ![o] = Opened(entry[o])] /\ ~closed' /\ maxEpoch' = maxEpoch
        /\ refresh' = [refresh EXCEPT ![o] = NoRefresh]
    BY DEF AddOffer, ReplicaInv, EntriesWhole
  <2>4. refresh' \in [Offers -> Refreshes] /\ \A p \in Offers : refresh'[p].gen <= refresh[p].gen
    BY <2>1, <2>3, NoneIsRefresh
  <2>5. \A p \in Offers : refresh'[p].gen <= entry[p].gen
    <3>1. \A p \in Offers : refresh'[p].gen \in Nat
      BY <2>4 DEF Refreshes
    <3> QED BY <2>1, <2>4, <3>1 DEF EntriesWhole
  <2>9. OnlyEntry(o) /\ RefreshHeld /\ entry'[o] \in Entries /\ entry'[o].gen >= entry[o].gen
        /\ (entry'[o].state = "open" => entry'[o].desc.epoch <= maxEpoch)
    BY <2>1, <2>2, <2>3, <2>4, <2>5 DEF OnlyEntry, RefreshHeld, EntriesWhole
  <2>10. maxEpoch \in Nat /\ maxEpoch <= maxEpoch
    BY EpochIsNat
  <2> QED BY <2>1, <2>2, <2>3, <2>4, <2>5, <2>9, <2>10, EntryChanges
<1> QED BY <1>1, <1>2 DEF ReplicaInv

-----------------------------------------------------------------------------
(* Descriptors *)

\* Only what is under way changes.
LEMMA RefreshChanges ==
  ASSUME ReplicaInv, UNCHANGED <<entry, closed, maxEpoch>>, RefreshHeld,
         closed => \A p \in Offers : refresh'[p].gen <= refresh[p].gen
  PROVE  EntriesWhole'
<1>1. \A p \in Offers : refresh'[p].gen \in Int /\ entry[p].gen \in Int /\ refresh[p].gen \in Int
  BY DEF ReplicaInv, EntriesWhole, RefreshHeld, Entries, Refreshes
<1> QED BY <1>1 DEF ReplicaInv, EntriesWhole, RefreshHeld

LEMMA PeerChangesKeeps == ASSUME ReplicaInv, NEW o \in Offers, PeerChanges(o) PROVE ReplicaInv'
<1>1. /\ changes < MaxChanges /\ changes' = changes + 1
      /\ UNCHANGED <<faults, role, auth, maxEpoch, closed, active, activeAuth,
                     sub, timer, elections, wanted, probing, op, entry>>
      /\ \E d \in Descriptor : remote' = [remote EXCEPT ![o] = d]
      /\ refresh' = IF ~closed /\ entry[o].session THEN StartRefresh(o) ELSE refresh
  BY DEF PeerChanges
<1>2. FlagsWhole'
  BY <1>1, ReplicaAssumption DEF ReplicaInv, FlagsWhole
<1>3. RouteWhole' /\ KnownWhole'
  BY <1>1 DEF ReplicaInv, RouteWhole, KnownWhole
<1>4. EntriesWhole'
  <2>1. EntriesWhole
    BY DEF ReplicaInv
  <2>2. CASE refresh' = refresh
    BY <1>1, <2>1, <2>2 DEF EntriesWhole
  <2>3. CASE refresh' = StartRefresh(o) /\ ~closed
    BY <1>1, <2>1, <2>3, RefreshFacts, RefreshChanges DEF RefreshHeld
  <2> QED BY <1>1, <2>2, <2>3
<1> QED BY <1>2, <1>3, <1>4 DEF ReplicaInv

LEMMA ProbeKeeps == ASSUME ReplicaInv, Probe PROVE ReplicaInv'
<1>1. /\ ~closed /\ probing' = TRUE
      /\ UNCHANGED <<world, role, auth, maxEpoch, closed, active, activeAuth, sub,
                     timer, elections, wanted, op>>
      /\ entry' = [p \in Offers |-> Probed(entry[p])]
      /\ refresh' = [p \in Offers |-> IF entry[p].session THEN StartRefresh(p)[p] ELSE refresh[p]]
  BY DEF Probe, TimersRun
<1>2. FlagsWhole' /\ RouteWhole' /\ KnownWhole'
  BY <1>1 DEF world, ReplicaInv, FlagsWhole, RouteWhole, KnownWhole
<1>3. ASSUME NEW p \in Offers
      PROVE  /\ entry'[p] \in Entries /\ refresh'[p] \in Refreshes /\ refresh'[p].gen <= entry'[p].gen
             /\ entry'[p].state = "open" => entry'[p].desc.epoch <= maxEpoch
  <2>1. EntriesWhole /\ entry[p] \in Entries /\ refresh[p] \in Refreshes /\ refresh[p].gen <= entry[p].gen
        /\ (entry[p].state = "open" => entry[p].desc.epoch <= maxEpoch)
    BY DEF ReplicaInv, EntriesWhole
  <2>2. StartRefresh(p)[p] \in Refreshes /\ StartRefresh(p)[p].gen <= entry[p].gen
    BY <2>1, RefreshFacts
  <2>3. refresh'[p] \in Refreshes /\ refresh'[p].gen <= entry[p].gen
    BY <1>1, <2>1, <2>2
  <2>4. entry'[p] \in Entries /\ entry'[p].gen >= entry[p].gen
        /\ (entry'[p] = entry[p] \/ entry'[p].state = "connecting")
    BY <1>1, <2>1, ProbedFacts
  <2>5. entry'[p].gen \in Int /\ entry[p].gen \in Int /\ refresh'[p].gen \in Int
    BY <2>1, <2>3, <2>4 DEF Entries, Refreshes
  <2>6. refresh'[p].gen <= entry'[p].gen
    BY <2>3, <2>4, <2>5
  <2> QED BY <2>1, <2>3, <2>4, <2>6
<1>4. EntriesWhole'
  BY <1>1, <1>3 DEF EntriesWhole
<1> QED BY <1>2, <1>4 DEF ReplicaInv

LEMMA ProbeEndsKeeps == ASSUME ReplicaInv, ProbeEnds PROVE ReplicaInv'
BY DEF ProbeEnds, world, ReplicaInv, FlagsWhole, RouteWhole, KnownWhole, EntriesWhole

LEMMA ReadsKeeps == ASSUME ReplicaInv, NEW o \in Offers, RefreshReads(o) PROVE ReplicaInv'
<1>1. FlagsWhole' /\ RouteWhole' /\ KnownWhole'
  BY DEF RefreshReads, world, ReplicaInv, FlagsWhole, RouteWhole, KnownWhole
<1>2. EntriesWhole'
  <2> DEFINE f == [refresh[o] EXCEPT !.at = "read", !.value = remote[o]]
  <2>1. f \in Refreshes /\ f.gen = refresh[o].gen
    BY DEF ReplicaInv, FlagsWhole, EntriesWhole, Refreshes
  <2>2. refresh' = [refresh EXCEPT ![o] = f] /\ UNCHANGED <<entry, closed, maxEpoch>>
    BY DEF RefreshReads, ReplicaInv, EntriesWhole
  <2> HIDE DEF f
  <2> QED BY <2>1, <2>2 DEF ReplicaInv, EntriesWhole
<1> QED BY <1>1, <1>2 DEF ReplicaInv

LEMMA NoneIsHeld ==
  ASSUME EntriesWhole, NEW o \in Offers, refresh' = [refresh EXCEPT ![o] = NoRefresh]
  PROVE  RefreshHeld /\ \A p \in Offers : refresh'[p].gen <= refresh[p].gen
<1>1. refresh' \in [Offers -> Refreshes] /\ \A p \in Offers : refresh'[p].gen <= refresh[p].gen
  BY NoneIsRefresh
<1>2. \A p \in Offers : refresh'[p].gen \in Nat /\ refresh[p].gen \in Nat /\ entry[p].gen \in Nat
  BY <1>1 DEF EntriesWhole, Entries, Refreshes
<1>3. \A p \in Offers : refresh[p].gen <= entry[p].gen
  BY DEF EntriesWhole
<1> QED BY <1>1, <1>2, <1>3 DEF RefreshHeld

LEMMA RejectsKeeps == ASSUME ReplicaInv, NEW o \in Offers, RefreshRejects(o) PROVE ReplicaInv'
<1>1. FlagsWhole' /\ RouteWhole' /\ KnownWhole'
  BY DEF RefreshRejects, world, ReplicaInv, FlagsWhole, RouteWhole, KnownWhole
<1>2. EntriesWhole'
  <2> DEFINE c == [entry[o] EXCEPT !.desc = refresh[o].value, !.state = "rejected"]
  <2>1. c \in Entries /\ c.gen = entry[o].gen /\ entry[o].gen \in Nat /\ c.state = "rejected"
    BY DEF ReplicaInv, EntriesWhole, Entries, Refreshes
  <2>2. /\ entry' = IF entry[o].state = "closed" THEN entry ELSE [entry EXCEPT ![o] = c]
        /\ UNCHANGED <<closed, maxEpoch>> /\ refresh' = [refresh EXCEPT ![o] = NoRefresh]
    BY DEF RefreshRejects, ReplicaInv, EntriesWhole
  <2>3. EntriesWhole
    BY DEF ReplicaInv
  <2>4. RefreshHeld /\ \A p \in Offers : refresh'[p].gen <= refresh[p].gen
    BY <2>2, <2>3, NoneIsHeld
  <2> HIDE DEF c
  <2>5. CASE entry[o].state = "closed"
    BY <2>2, <2>4, <2>5, RefreshChanges
  <2>6. CASE entry[o].state # "closed"
    <3>1. ~closed
      BY <2>3, <2>6 DEF EntriesWhole
    <3>2. entry' = [entry EXCEPT ![o] = c] /\ entry'[o] = c
      BY <2>2, <2>3, <2>6 DEF EntriesWhole
    <3>3. OnlyEntry(o) /\ entry'[o] \in Entries /\ entry'[o].gen >= entry[o].gen /\ entry'[o].state # "open"
      <4>1. entry[o].gen >= entry[o].gen
        BY <2>1
      <4>2. OnlyEntry(o)
        BY <3>2 DEF OnlyEntry
      <4> QED BY <2>1, <3>2, <4>1, <4>2
    <3>4. maxEpoch' \in Nat /\ maxEpoch \in Nat /\ maxEpoch <= maxEpoch'
      BY <2>2, EpochIsNat
    <3> QED BY <2>2, <2>3, <2>4, <3>1, <3>3, <3>4, EntryChanges
  <2> QED BY <2>5, <2>6
<1> QED BY <1>1, <1>2 DEF ReplicaInv

LEMMA MoreRoute ==
  ASSUME ReplicaInv, maxEpoch' \in 0..MaxEpoch, maxEpoch <= maxEpoch',
         UNCHANGED <<role, closed, active, activeAuth, sub, op, auth>>
  PROVE  RouteWhole' /\ KnownWhole'
<1>1. maxEpoch \in Nat /\ maxEpoch' \in Nat
  BY EpochIsNat, ReplicaAssumption
<1>2. UpTo(maxEpoch) \subseteq UpTo(maxEpoch') /\ HandoffsUpTo(maxEpoch) \subseteq HandoffsUpTo(maxEpoch')
  BY <1>1, MoreIsKnown
<1> QED BY <1>2 DEF ReplicaInv, RouteWhole, KnownWhole

LEMMA CommitsKeeps == ASSUME ReplicaInv, NEW o \in Offers, RefreshCommits(o) PROVE ReplicaInv'
<1> DEFINE c == [entry[o] EXCEPT !.desc = refresh[o].value, !.state = "open"]
<1>0. /\ UNCHANGED <<world, role, auth, closed, active, activeAuth, sub, timer, elections, op, probing>>
      /\ refresh' = [refresh EXCEPT ![o] = NoRefresh] /\ wanted' \in BOOLEAN
  BY DEF RefreshCommits, ReplicaInv, FlagsWhole
<1>1. FlagsWhole'
  BY <1>0 DEF world, ReplicaInv, FlagsWhole
<1>2. EntriesWhole /\ RefreshHeld /\ \A p \in Offers : refresh'[p].gen <= refresh[p].gen
  BY <1>0, NoneIsHeld DEF ReplicaInv
<1>3. refresh[o].value \in Descriptor /\ refresh[o].value.epoch \in 0..MaxEpoch
  BY <1>2 DEF EntriesWhole, Refreshes, Descriptor
<1>4. CASE refresh[o].gen = entry[o].gen
  <2>1. /\ entry' = [entry EXCEPT ![o] = c]
        /\ maxEpoch' = IF refresh[o].value.epoch > maxEpoch THEN refresh[o].value.epoch ELSE maxEpoch
    BY <1>2, <1>4 DEF RefreshCommits, EntriesWhole
  <2>2. maxEpoch \in 0..MaxEpoch /\ MaxEpoch \in Nat
    BY ReplicaAssumption DEF ReplicaInv, KnownWhole
  <2>3. maxEpoch' \in 0..MaxEpoch /\ maxEpoch <= maxEpoch' /\ refresh[o].value.epoch <= maxEpoch'
        /\ maxEpoch \in Nat /\ maxEpoch' \in Nat
    BY <1>3, <2>1, <2>2
  <2>4. RouteWhole' /\ KnownWhole'
    BY <1>0, <2>3, MoreRoute
  <2>5. ~closed
    <3>1. refresh[o].gen \in Int /\ entry[o].gen \in Int
      BY <1>2 DEF EntriesWhole, Entries, Refreshes
    <3> QED BY <1>2, <1>4, <3>1 DEF EntriesWhole
  <2>6. c \in Entries /\ c.gen = entry[o].gen /\ entry[o].gen \in Nat /\ c.desc = refresh[o].value
    BY <1>2, <1>3 DEF EntriesWhole, Entries
  <2> HIDE DEF c
  <2>7. entry'[o] = c
    BY <1>2, <2>1 DEF EntriesWhole
  <2>8. OnlyEntry(o) /\ entry'[o] \in Entries /\ entry'[o].gen >= entry[o].gen
        /\ entry'[o].desc.epoch <= maxEpoch'
    <3>1. entry[o].gen >= entry[o].gen
      BY <2>6
    <3>2. OnlyEntry(o)
      BY <2>1, <2>7 DEF OnlyEntry
    <3> QED BY <2>3, <2>6, <2>7, <3>1, <3>2
  <2>9. EntriesWhole'
    BY <1>0, <1>2, <2>3, <2>5, <2>8, EntryChanges
  <2> QED BY <1>1, <2>4, <2>9 DEF ReplicaInv
<1>5. CASE refresh[o].gen # entry[o].gen
  <2>1. UNCHANGED <<entry, maxEpoch>>
    BY <1>5 DEF RefreshCommits
  <2>2. RouteWhole' /\ KnownWhole'
    BY <1>0, <2>1 DEF ReplicaInv, RouteWhole, KnownWhole
  <2>3. EntriesWhole'
    BY <1>0, <1>2, <2>1, RefreshChanges
  <2> QED BY <1>1, <2>2, <2>3 DEF ReplicaInv
<1> QED BY <1>4, <1>5

LEMMA RefreshFailsKeeps == ASSUME ReplicaInv, NEW o \in Offers, RefreshFails(o) PROVE ReplicaInv'
<1>0. /\ UNCHANGED <<remote, changes, auth, maxEpoch, closed, timer, elections, probing>>
      /\ refresh' = [refresh EXCEPT ![o] = NoRefresh]
  BY DEF RefreshFails
<1>1. EntriesWhole /\ RefreshHeld /\ \A p \in Offers : refresh'[p].gen <= refresh[p].gen
  BY <1>0, NoneIsHeld DEF ReplicaInv
<1>2. CASE refresh[o].gen = entry[o].gen /\ ~closed
  <2>1. faults < MaxFaults /\ faults' = faults + 1 /\ FailEntry(o, sub, op)
    BY <1>2 DEF RefreshFails
  <2>2. sub \in Subs /\ op \in HandoffsUpTo(maxEpoch)
    BY DEF ReplicaInv, RouteWhole
  <2>3. RouteWhole' /\ EntriesWhole' /\ wanted' \in BOOLEAN
    BY <1>0, <1>1, <2>1, <2>2, FailureKeeps DEF RefreshHeld
  <2>4. FlagsWhole'
    BY <1>0, <2>1, <2>3, ReplicaAssumption DEF ReplicaInv, FlagsWhole
  <2> QED BY <1>0, <2>3, <2>4 DEF ReplicaInv, KnownWhole
<1>3. CASE ~(refresh[o].gen = entry[o].gen /\ ~closed)
  <2>1. UNCHANGED <<faults, entry, sub, active, activeAuth, role, wanted, op>>
    BY <1>3 DEF RefreshFails
  <2>2. EntriesWhole'
    BY <1>0, <1>1, <2>1, RefreshChanges
  <2> QED BY <1>0, <2>1, <2>2 DEF ReplicaInv, FlagsWhole, RouteWhole, KnownWhole
<1> QED BY <1>2, <1>3

-----------------------------------------------------------------------------
(* Reconciliation and the hand-off of the upstream route *)

\* Whatever could be followed is of an epoch that was observed.
LEMMA CandidateFacts ==
  ASSUME ReplicaInv, NEW o \in Candidates
  PROVE  /\ o \in Offers /\ entry[o].desc.epoch \in 0..maxEpoch
         /\ AuthorityOf(entry[o].desc) \in UpTo(maxEpoch) /\ entry[o].gen \in Nat
<1>1. o \in Offers /\ entry[o] \in Entries /\ entry[o].desc \in Descriptor
      /\ entry[o].desc.epoch <= maxEpoch
  BY DEF Candidates, Viable, ReplicaInv, EntriesWhole, Entries
<1>2. entry[o].desc.epoch \in 0..maxEpoch
  BY <1>1, EpochIsNat DEF Descriptor
<1> QED BY <1>1, <1>2 DEF AuthorityOf, UpTo, Entries

\* So a reconciliation observes nothing new.
LEMMA ObservedFacts == ASSUME ReplicaInv PROVE ObservedEpoch = maxEpoch
<1> DEFINE seen == {entry[o].desc.epoch : o \in Candidates} \cup {maxEpoch}
<1>1. \A f \in seen : f \in 0..maxEpoch
  BY CandidateFacts, EpochIsNat
<1>2. maxEpoch \in seen
  OBVIOUS
<1> HIDE DEF seen
<1>3. maxEpoch \in Nat /\ \A f \in seen : f \in Int /\ f <= maxEpoch
  BY <1>1, EpochIsNat
<1>4. \A e \in seen : (\A f \in seen : f <= e) => e = maxEpoch
  BY <1>2, <1>3
<1>5. ObservedEpoch = CHOOSE e \in seen : \A f \in seen : f <= e
  BY DEF ObservedEpoch, seen
<1> QED BY <1>2, <1>3, <1>4, <1>5

LEMMA SavedFacts == ASSUME ReplicaInv, ~closed PROVE Saved \in SavedUpTo(maxEpoch)
BY DEF ReplicaInv, RouteWhole, KnownWhole, Saved, SavedUpTo

LEMMA AttachKeeps ==
  ASSUME ReplicaInv, ~closed, NEW o \in Offers \cup {NoOffer}, NEW a \in UpTo(maxEpoch),
         NEW prev \in SavedUpTo(maxEpoch), NEW gen \in Nat, Attach(o, a, prev, gen),
         UNCHANGED <<closed, maxEpoch, active, activeAuth>>
  PROVE  RouteWhole' /\ KnownWhole'
<1>1. sub' \in Subs
  <2>1. [route |-> NoOffer, blames |-> o, alive |-> FALSE] \in Subs
    BY DEF Subs, Refs
  <2> QED BY <2>1 DEF Attach, ReplicaInv, RouteWhole
<1>2. op' \in HandoffsUpTo(maxEpoch)
  <2>1. (sub = NoSub) \in BOOLEAN
    OBVIOUS
  <2> DEFINE b == (sub = NoSub)
  <2>2. op' = [at |-> "switch", entry |-> o, gen |-> gen, auth |-> a,
               created |-> b, result |-> "pending", prev |-> prev] /\ b \in BOOLEAN
    BY DEF Attach
  <2> HIDE DEF b
  <2> QED BY <2>2 DEF HandoffsUpTo
<1>3. role' = "reconciling" /\ auth' = a
  BY DEF Attach
<1> QED BY <1>1, <1>2, <1>3 DEF ReplicaInv, RouteWhole, KnownWhole, Roles

LEMMA RequestKeeps == ASSUME ReplicaInv, RequestReconcile PROVE ReplicaInv'
<1>1. changes' \in 0..MaxChanges
  BY ReplicaAssumption DEF RequestReconcile, ReplicaInv, FlagsWhole
<1> QED BY <1>1 DEF RequestReconcile, ReplicaInv, FlagsWhole, RouteWhole, KnownWhole, EntriesWhole

LEMMA StaysKeeps == ASSUME ReplicaInv, ReconcileStays PROVE ReplicaInv'
<1>1. maxEpoch' = maxEpoch
  BY ObservedFacts DEF ReconcileStays
<1> QED BY <1>1 DEF ReconcileStays, Run, world, ReplicaInv, FlagsWhole, RouteWhole, KnownWhole, EntriesWhole

LEMMA AloneKeeps == ASSUME ReplicaInv, ReconcileAlone PROVE ReplicaInv'
<1>1. /\ maxEpoch' = maxEpoch /\ ~closed /\ wanted' = FALSE
      /\ sub' = NoSub /\ active' = NoOffer /\ activeAuth' = NoAuthority /\ ScheduleElection
      /\ UNCHANGED <<world, auth, closed, elections, op, entry, refresh, probing>>
  BY ObservedFacts DEF ReconcileAlone, Run
<1>2. role' \in Roles \ {"closed"} /\ timer' \in BOOLEAN
  BY <1>1 DEF ScheduleElection, ReplicaInv, RouteWhole, FlagsWhole, Roles
<1>3. NoAuthority \in UpTo(maxEpoch) /\ NoSub \in Subs
  BY EpochIsNat, NoneAreWhole
<1>4. FlagsWhole'
  BY <1>1, <1>2 DEF world, ReplicaInv, FlagsWhole
<1>5. RouteWhole' /\ KnownWhole' /\ EntriesWhole'
  BY <1>1, <1>2, <1>3 DEF ReplicaInv, RouteWhole, KnownWhole, EntriesWhole, Refs
<1> QED BY <1>4, <1>5 DEF ReplicaInv

LEMMA KeepsKeeps == ASSUME ReplicaInv, ReconcileKeeps PROVE ReplicaInv'
<1>1. PICK o \in BestRemote :
        /\ Run /\ auth' = AuthorityOf(entry[o].desc) /\ maxEpoch' = ObservedEpoch /\ timer' = FALSE
        /\ UNCHANGED <<world, role, closed, active, activeAuth, sub, elections, op,
                       entry, refresh, probing>>
  BY DEF ReconcileKeeps
<1>2. maxEpoch' = maxEpoch /\ auth' \in UpTo(maxEpoch) /\ wanted' = FALSE
  BY <1>1, ObservedFacts, CandidateFacts DEF BestRemote, Run
<1> QED BY <1>1, <1>2 DEF world, ReplicaInv, FlagsWhole, RouteWhole, KnownWhole, EntriesWhole

\* What is followed: the keyframe is awaited by a leader, the route is attached by others.
LEMMA FollowsCases ==
  ASSUME ReplicaInv, ReconcileFollows
  PROVE  \E o \in BestRemote :
            /\ Run /\ timer' = FALSE /\ maxEpoch' = maxEpoch
            /\ (changes < MaxChanges /\ changes' = changes + 1) \/ UNCHANGED changes
            /\ UNCHANGED <<remote, faults, closed, active, activeAuth, elections, entry,
                           refresh, probing>>
            /\ \/ /\ role = "leader" /\ Outranks(o)
                  /\ op' = [NoOp EXCEPT !.at = "frame", !.entry = o, !.gen = entry[o].gen,
                                        !.auth = AuthorityOf(entry[o].desc), !.prev = Saved]
                  /\ UNCHANGED <<role, auth, sub>>
               \/ /\ role # "leader"
                  /\ Attach(o, AuthorityOf(entry[o].desc), Saved, entry[o].gen)
<1>1. PICK o \in BestRemote :
        /\ Run /\ (role = "leader" => Outranks(o))
        /\ IF active \in BestRemote \ {o}
           THEN changes < MaxChanges /\ changes' = changes + 1
           ELSE UNCHANGED changes
        /\ maxEpoch' = ObservedEpoch /\ timer' = FALSE
        /\ IF role = "leader"
           THEN /\ op' = [NoOp EXCEPT !.at = "frame", !.entry = o, !.gen = entry[o].gen,
                                      !.auth = AuthorityOf(entry[o].desc), !.prev = Saved]
                /\ UNCHANGED <<role, auth, sub>>
           ELSE Attach(o, AuthorityOf(entry[o].desc), Saved, entry[o].gen)
        /\ UNCHANGED <<remote, faults, closed, active, activeAuth, elections, entry,
                       refresh, probing>>
  BY DEF ReconcileFollows
<1>2. maxEpoch' = maxEpoch
  BY <1>1, ObservedFacts
<1> WITNESS o \in BestRemote
<1> QED BY <1>1, <1>2

LEMMA FollowsKeeps == ASSUME ReplicaInv, ReconcileFollows PROVE ReplicaInv'
<1>1. PICK o \in BestRemote :
            /\ Run /\ timer' = FALSE /\ maxEpoch' = maxEpoch
            /\ (changes < MaxChanges /\ changes' = changes + 1) \/ UNCHANGED changes
            /\ UNCHANGED <<remote, faults, closed, active, activeAuth, elections, entry,
                           refresh, probing>>
            /\ \/ /\ role = "leader" /\ Outranks(o)
                  /\ op' = [NoOp EXCEPT !.at = "frame", !.entry = o, !.gen = entry[o].gen,
                                        !.auth = AuthorityOf(entry[o].desc), !.prev = Saved]
                  /\ UNCHANGED <<role, auth, sub>>
               \/ /\ role # "leader"
                  /\ Attach(o, AuthorityOf(entry[o].desc), Saved, entry[o].gen)
  BY FollowsCases
<1>2. ~closed /\ wanted' = FALSE
  BY <1>1 DEF Run
<1>3. /\ o \in Offers /\ AuthorityOf(entry[o].desc) \in UpTo(maxEpoch) /\ entry[o].gen \in Nat
      /\ Saved \in SavedUpTo(maxEpoch)
  BY <1>2, CandidateFacts, SavedFacts DEF BestRemote
<1>4. FlagsWhole'
  <2>1. changes' \in 0..MaxChanges
    BY <1>1, ReplicaAssumption DEF ReplicaInv, FlagsWhole
  <2> QED BY <1>1, <1>2, <2>1 DEF ReplicaInv, FlagsWhole
<1>5. EntriesWhole'
  BY <1>1 DEF ReplicaInv, EntriesWhole
<1>6. RouteWhole' /\ KnownWhole'
  <2>1. CASE role # "leader" /\ Attach(o, AuthorityOf(entry[o].desc), Saved, entry[o].gen)
    BY <1>1, <1>2, <1>3, <2>1, AttachKeeps
  <2>2. CASE /\ op' = [NoOp EXCEPT !.at = "frame", !.entry = o, !.gen = entry[o].gen,
                                   !.auth = AuthorityOf(entry[o].desc), !.prev = Saved]
             /\ UNCHANGED <<role, auth, sub>>
    <3>1. NoOp \in HandoffsUpTo(maxEpoch)
      BY EpochIsNat, NoneAreWhole
    <3>2. op' \in HandoffsUpTo(maxEpoch)
      BY <1>3, <2>2, <3>1 DEF HandoffsUpTo
    <3> QED BY <1>1, <2>2, <3>2 DEF ReplicaInv, RouteWhole, KnownWhole
  <2> QED BY <1>1, <2>1, <2>2
<1> QED BY <1>4, <1>5, <1>6 DEF ReplicaInv

LEMMA OpFacts ==
  ASSUME ReplicaInv
  PROVE  /\ op \in HandoffsUpTo(maxEpoch) /\ op.entry \in Offers \cup {NoOffer} /\ op.gen \in Nat
         /\ op.auth \in UpTo(maxEpoch) /\ op.prev \in SavedUpTo(maxEpoch)
         /\ op.prev.role \in Roles \ {"closed"} /\ op.prev.active \in Refs
         /\ op.prev.activeAuth \in UpTo(maxEpoch) /\ op.prev.auth \in UpTo(maxEpoch)
         /\ NoOp \in HandoffsUpTo(maxEpoch) /\ NoSub \in Subs
         /\ [op EXCEPT !.result = "resolved"] \in HandoffsUpTo(maxEpoch)
         /\ [op EXCEPT !.result = "failed"] \in HandoffsUpTo(maxEpoch)
<1>1. op \in HandoffsUpTo(maxEpoch)
  BY DEF ReplicaInv, RouteWhole
<1>2. NoOp \in HandoffsUpTo(maxEpoch) /\ NoSub \in Subs
  BY EpochIsNat, NoneAreWhole
<1>3. op.prev \in SavedUpTo(maxEpoch)
  BY <1>1 DEF HandoffsUpTo
<1> QED BY <1>1, <1>2, <1>3 DEF HandoffsUpTo, SavedUpTo

LEMMA FrameKeeps == ASSUME ReplicaInv, FrameArrives PROVE ReplicaInv'
<1>1. /\ ~closed
      /\ Attach(op.entry, op.auth, op.prev, op.gen) \/ (op' = NoOp /\ UNCHANGED <<role, auth, sub>>)
      /\ UNCHANGED <<world, maxEpoch, closed, active, activeAuth, timer, elections,
                     wanted, entry, refresh, probing>>
  BY DEF FrameArrives
<1>2. FlagsWhole' /\ EntriesWhole'
  BY <1>1 DEF world, ReplicaInv, FlagsWhole, EntriesWhole
<1>3. RouteWhole' /\ KnownWhole'
  <2>1. CASE Attach(op.entry, op.auth, op.prev, op.gen)
    BY <1>1, <2>1, OpFacts, AttachKeeps
  <2>2. CASE op' = NoOp /\ UNCHANGED <<role, auth, sub>>
    BY <1>1, <2>2, OpFacts DEF ReplicaInv, RouteWhole, KnownWhole
  <2> QED BY <1>1, <2>1, <2>2
<1> QED BY <1>2, <1>3 DEF ReplicaInv

LEMMA FrameFailsKeeps == ASSUME ReplicaInv, FrameFails PROVE ReplicaInv'
<1>1. /\ op' = NoOp /\ faults' \in 0..MaxFaults
      /\ UNCHANGED <<remote, changes, role, auth, maxEpoch, closed, active,
                     activeAuth, sub, timer, elections, wanted, entry, refresh, probing>>
  BY ReplicaAssumption DEF FrameFails, ReplicaInv, FlagsWhole
<1> QED BY <1>1, OpFacts DEF ReplicaInv, FlagsWhole, RouteWhole, KnownWhole, EntriesWhole

LEMMA ReadyKeeps == ASSUME ReplicaInv, RouteReady PROVE ReplicaInv'
<1>1. /\ sub' = [sub EXCEPT !.route = op.entry, !.alive = TRUE]
      /\ op' = [op EXCEPT !.result = "resolved"]
      /\ UNCHANGED <<world, role, auth, maxEpoch, closed, active, activeAuth, timer,
                     elections, wanted, entry, refresh, probing>>
  BY DEF RouteReady
<1>2. sub' \in Subs /\ op' \in HandoffsUpTo(maxEpoch)
  BY <1>1, OpFacts DEF ReplicaInv, RouteWhole, Subs
<1> QED BY <1>1, <1>2 DEF world, ReplicaInv, FlagsWhole, RouteWhole, KnownWhole, EntriesWhole

LEMMA RouteFailsKeeps == ASSUME ReplicaInv, RouteFails PROVE ReplicaInv'
<1>1. /\ FailEntry(sub.blames, sub, [op EXCEPT !.result = "failed"])
      /\ faults' \in 0..MaxFaults
      /\ UNCHANGED <<remote, changes, auth, maxEpoch, closed, timer, elections, refresh, probing>>
  BY ReplicaAssumption DEF RouteFails, ReplicaInv, FlagsWhole
<1>2. refresh' \in [Offers -> Refreshes] /\ \A p \in Offers : refresh'[p].gen <= refresh[p].gen
  BY <1>1 DEF ReplicaInv, EntriesWhole, Refreshes
<1>3. sub \in Subs
  BY DEF ReplicaInv, RouteWhole
<1>4. RouteWhole' /\ EntriesWhole' /\ wanted' \in BOOLEAN
  BY <1>1, <1>2, <1>3, OpFacts, FailureKeeps
<1> QED BY <1>1, <1>4 DEF ReplicaInv, FlagsWhole, KnownWhole

LEMMA LineFailsKeeps == ASSUME ReplicaInv, LineFails PROVE ReplicaInv'
<1>1. /\ FailEntry(sub.blames, [sub EXCEPT !.alive = FALSE], op)
      /\ faults' \in 0..MaxFaults
      /\ UNCHANGED <<remote, changes, auth, maxEpoch, closed, timer, elections, refresh, probing>>
  BY ReplicaAssumption DEF LineFails, ReplicaInv, FlagsWhole
<1>2. refresh' \in [Offers -> Refreshes] /\ \A p \in Offers : refresh'[p].gen <= refresh[p].gen
  BY <1>1 DEF ReplicaInv, EntriesWhole, Refreshes
<1>3. [sub EXCEPT !.alive = FALSE] \in Subs
  BY DEF ReplicaInv, RouteWhole, Subs
<1>4. RouteWhole' /\ EntriesWhole' /\ wanted' \in BOOLEAN
  BY <1>1, <1>2, <1>3, OpFacts, FailureKeeps
<1> QED BY <1>1, <1>4 DEF ReplicaInv, FlagsWhole, KnownWhole

LEMMA SucceedsKeeps == ASSUME ReplicaInv, FollowSucceeds PROVE ReplicaInv'
<1>1. /\ active' = op.entry /\ activeAuth' = op.auth /\ auth' = op.auth
      /\ role' = "follower" /\ timer' = FALSE /\ op' = NoOp /\ ~closed
      /\ UNCHANGED <<world, maxEpoch, closed, sub, elections, wanted, entry, refresh, probing>>
  BY DEF FollowSucceeds
<1>2. FlagsWhole' /\ EntriesWhole'
  BY <1>1 DEF world, ReplicaInv, FlagsWhole, EntriesWhole
<1>3. RouteWhole' /\ KnownWhole'
  BY <1>1, OpFacts DEF ReplicaInv, RouteWhole, KnownWhole, Roles, Refs
<1> QED BY <1>2, <1>3 DEF ReplicaInv

LEMMA RestoresKeeps == ASSUME ReplicaInv, FollowRestores PROVE ReplicaInv'
<1>1. /\ ~closed /\ sub' = IF op.created THEN NoSub ELSE sub
      /\ active' = op.prev.active /\ activeAuth' = op.prev.activeAuth
      /\ auth' = op.prev.auth /\ role' = op.prev.role /\ op' = NoOp
      /\ UNCHANGED <<world, maxEpoch, closed, timer, elections, wanted, entry, refresh, probing>>
  BY DEF FollowRestores
<1>2. FlagsWhole' /\ EntriesWhole'
  BY <1>1 DEF world, ReplicaInv, FlagsWhole, EntriesWhole
<1>3. RouteWhole' /\ KnownWhole'
  BY <1>1, OpFacts DEF ReplicaInv, RouteWhole, KnownWhole
<1> QED BY <1>2, <1>3 DEF ReplicaInv

-----------------------------------------------------------------------------
(* Elections, and the end *)

LEMMA PromoteKeeps == ASSUME ReplicaInv, Promote PROVE ReplicaInv'
<1>1. elections' \in 0..MaxElections
  BY ReplicaAssumption DEF Promote, ReplicaInv, FlagsWhole
<1> QED BY <1>1 DEF Promote, world, ReplicaInv, FlagsWhole, RouteWhole, KnownWhole, EntriesWhole

LEMMA TimerKeeps == ASSUME ReplicaInv, TimerFires PROVE ReplicaInv'
<1>1. elections' \in 0..MaxElections
  BY ReplicaAssumption DEF TimerFires, ReplicaInv, FlagsWhole
<1> QED BY <1>1 DEF TimerFires, world, ReplicaInv, FlagsWhole, RouteWhole, KnownWhole, EntriesWhole

LEMMA GrantedKeeps == ASSUME ReplicaInv, ElectionGranted PROVE ReplicaInv'
<1>1. PICK e \in ElectableEpochs :
        /\ auth' = [epoch |-> e, leader |-> Self] /\ maxEpoch' = e
  BY DEF ElectionGranted
<1>2. /\ elections > 0 /\ ~closed /\ elections' = elections - 1
      /\ sub' = NoSub /\ op' \in (IF sub = NoSub THEN {op} ELSE Abandoned(op))
      /\ active' = NoOffer /\ activeAuth' = NoAuthority
      /\ role' = "leader" /\ timer' = FALSE /\ wanted' = TRUE
      /\ UNCHANGED <<world, closed, entry, refresh, probing>>
  BY DEF ElectionGranted
<1>3. maxEpoch \in Nat /\ e \in 0..MaxEpoch /\ maxEpoch < e /\ e \in Nat
  BY EpochIsNat, ReplicaAssumption DEF ElectableEpochs
<1>4. FlagsWhole'
  <2>1. elections' \in 0..MaxElections
    BY <1>2, ReplicaAssumption DEF ReplicaInv, FlagsWhole
  <2> QED BY <1>2, <2>1 DEF world, ReplicaInv, FlagsWhole
<1>5. KnownWhole'
  <2>1. [epoch |-> e, leader |-> Self] \in UpTo(e)
    BY <1>3 DEF UpTo
  <2> QED BY <1>1, <1>3, <2>1 DEF KnownWhole
<1>6. RouteWhole'
  <2>1. op' \in HandoffsUpTo(maxEpoch)
    <3>1. CASE op' \in Abandoned(op)
      BY <1>3, <3>1, OpFacts, AbandonedFacts
    <3>2. CASE op' = op
      BY <3>2, OpFacts
    <3> QED BY <1>2, <3>1, <3>2
  <2>2. op' \in HandoffsUpTo(e) /\ NoAuthority \in UpTo(e) /\ NoSub \in Subs
    <3>1. maxEpoch <= e
      BY <1>3
    <3> QED BY <1>3, <2>1, <3>1, MoreIsKnown, NoneAreWhole
  <2> QED BY <1>1, <1>2, <2>2 DEF ReplicaInv, RouteWhole, Roles, Refs
<1>7. EntriesWhole'
  <2>1. ASSUME NEW o \in Offers, entry[o].state = "open" PROVE entry[o].desc.epoch <= e
    <3>1. entry[o].desc.epoch \in Int
      BY DEF ReplicaInv, EntriesWhole, Entries, Descriptor
    <3>2. entry[o].desc.epoch <= maxEpoch
      BY <2>1 DEF ReplicaInv, EntriesWhole
    <3> QED BY <1>3, <3>1, <3>2
  <2> QED BY <1>1, <1>2, <2>1 DEF ReplicaInv, EntriesWhole
<1> QED BY <1>4, <1>5, <1>6, <1>7 DEF ReplicaInv

LEMMA DeclinedKeeps == ASSUME ReplicaInv, ElectionDeclined PROVE ReplicaInv'
<1>1. elections' \in 0..MaxElections /\ timer' = timer
  BY ReplicaAssumption DEF ElectionDeclined, ReplicaInv, FlagsWhole
<1>2. role' \in Roles /\ closed' = (role' = "closed")
  BY DEF ElectionDeclined, ReplicaInv, RouteWhole, Roles
<1> QED BY <1>1, <1>2 DEF ElectionDeclined, world, ReplicaInv, FlagsWhole, RouteWhole, KnownWhole, EntriesWhole

LEMMA CloseKeeps == ASSUME ReplicaInv, Close PROVE ReplicaInv'
<1>1. /\ closed' = TRUE /\ role' = "closed" /\ timer' = FALSE /\ sub' = NoSub
      /\ active' = NoOffer /\ activeAuth' = NoAuthority
      /\ op' \in (IF sub = NoSub THEN {op} ELSE Abandoned(op))
      /\ entry' = [o \in Offers |-> Ended(entry[o], "closed", FALSE)]
      /\ UNCHANGED <<world, auth, maxEpoch, elections, wanted, refresh, probing>>
  BY DEF Close, Ended
<1>2. op' \in HandoffsUpTo(maxEpoch)
  <2>1. CASE op' \in Abandoned(op)
    BY <2>1, EpochIsNat, OpFacts, AbandonedFacts
  <2>2. CASE op' = op
    BY <2>2, OpFacts
  <2> QED BY <1>1, <2>1, <2>2
<1>3. FlagsWhole' /\ KnownWhole'
  BY <1>1 DEF world, ReplicaInv, FlagsWhole, KnownWhole
<1>4. RouteWhole'
  <2>1. NoAuthority \in UpTo(maxEpoch) /\ NoSub \in Subs
    BY EpochIsNat, NoneAreWhole
  <2> QED BY <1>1, <1>2, <2>1 DEF ReplicaInv, RouteWhole, Roles, Refs
<1>5. ASSUME NEW o \in Offers
      PROVE  entry'[o] \in Entries /\ entry'[o].state = "closed" /\ refresh[o].gen < entry'[o].gen
             /\ refresh[o].gen <= entry'[o].gen
  <2>1. entry[o] \in Entries /\ refresh[o].gen <= entry[o].gen /\ refresh[o].gen \in Nat /\ entry[o].gen \in Nat
    BY DEF ReplicaInv, EntriesWhole, Entries, Refreshes
  <2>2. entry'[o] = Ended(entry[o], "closed", FALSE)
    BY <1>1
  <2>3. entry'[o] \in Entries /\ entry'[o].state = "closed" /\ entry'[o].gen = entry[o].gen + 1
    BY <2>1, <2>2, ClosedFacts
  <2>4. refresh[o].gen < entry[o].gen + 1 /\ refresh[o].gen <= entry[o].gen + 1
    BY <2>1
  <2> QED BY <2>3, <2>4
<1>6. EntriesWhole'
  BY <1>1, <1>5 DEF ReplicaInv, EntriesWhole
<1> QED BY <1>3, <1>4, <1>6 DEF ReplicaInv

LEMMA AfterCloseKeeps == ASSUME ReplicaInv, FollowAfterClose PROVE ReplicaInv'
BY OpFacts DEF FollowAfterClose, world, ReplicaInv, FlagsWhole, RouteWhole, KnownWhole, EntriesWhole

LEMMA PlainKeeps == ASSUME ReplicaInv, PlainNext PROVE ReplicaInv'
BY ConnectKeeps, SessionFailsKeeps, RetryKeeps, RemoveKeeps, AddKeeps, PeerChangesKeeps, ReadsKeeps,
   RejectsKeeps, CommitsKeeps, RefreshFailsKeeps, ProbeKeeps, ProbeEndsKeeps, RequestKeeps, StaysKeeps,
   AloneKeeps, KeepsKeeps, FollowsKeeps, FrameKeeps, FrameFailsKeeps, ReadyKeeps, RouteFailsKeeps,
   LineFailsKeeps, SucceedsKeeps, RestoresKeeps, AfterCloseKeeps, CloseKeeps DEF PlainNext

\* Every step keeps what a node holds.
LEMMA ReplicaNext == ASSUME ReplicaInv, [Next]_vars PROVE ReplicaInv'
<1>1. CASE PlainNext
  BY <1>1, PlainKeeps
<1>2. CASE ElectionNext
  BY <1>2, PromoteKeeps, TimerKeeps, GrantedKeeps, DeclinedKeeps DEF ElectionNext
<1>3. CASE UNCHANGED vars
  BY <1>3 DEF vars, ReplicaInv, FlagsWhole, RouteWhole, KnownWhole, EntriesWhole
<1> QED BY <1>1, <1>2, <1>3 DEF Next

\* What a node holds is whole, and its authorities are of the epochs of the bound.
LEMMA ReplicaTyped == ASSUME ReplicaInv PROVE TypeOK
<1>1. maxEpoch \in Nat /\ maxEpoch <= MaxEpoch /\ MaxEpoch \in Nat
  BY EpochIsNat, ReplicaAssumption DEF ReplicaInv, KnownWhole
<1>2. auth \in Authority /\ activeAuth \in Authority
  <2>1. UpTo(maxEpoch) \subseteq UpTo(MaxEpoch)
    BY <1>1, MoreIsKnown
  <2> QED BY <2>1 DEF ReplicaInv, RouteWhole, KnownWhole, Authority, UpTo
<1>3. op.at \in {"idle", "frame", "switch"}
  BY DEF ReplicaInv, RouteWhole, HandoffsUpTo
<1>4. \A o \in Offers : /\ entry[o].state \in {"connecting", "open", "failed", "rejected", "closed"}
                        /\ refresh[o].at \in {"none", "reading", "read"}
  BY DEF ReplicaInv, EntriesWhole, Entries, Refreshes
<1> QED BY <1>2, <1>3, <1>4 DEF TypeOK, ReplicaInv, FlagsWhole, RouteWhole, KnownWhole, Roles, Refs, Subs

\* A promotion is above all that is held.
LEMMA PromotionIsAbove ==
  ASSUME ReplicaInv, [Next]_vars, elections' < elections, auth' # auth
  PROVE  /\ auth'.epoch > auth.epoch /\ auth'.epoch > activeAuth.epoch
         /\ \A o \in Candidates : auth'.epoch > entry[o].desc.epoch
<1>1. elections \in Nat
  BY DEF ReplicaInv, FlagsWhole
<1>2. ~(elections' = elections) /\ ~(elections' = elections + 1)
  BY <1>1
<1>3. ElectionGranted
  BY <1>2 DEF Next, PlainNext, ElectionNext, vars, world, ConnectSucceeds, SessionFails, Retry, RemoveOffer, AddOffer,
         PeerChanges, RefreshReads, RefreshRejects, RefreshCommits, RefreshFails, Probe, ProbeEnds, RequestReconcile,
         ReconcileStays, ReconcileAlone, ReconcileKeeps, ReconcileFollows, FrameArrives, FrameFails, RouteReady,
         RouteFails, LineFails, FollowSucceeds, FollowRestores, FollowAfterClose, Close, Promote, TimerFires,
         ElectionDeclined
<1>4. PICK e \in ElectableEpochs : auth' = [epoch |-> e, leader |-> Self]
  BY <1>3 DEF ElectionGranted
<1>5. maxEpoch \in Nat /\ e \in Int /\ e > maxEpoch /\ auth'.epoch = e
  BY <1>4, EpochIsNat, ReplicaAssumption DEF ElectableEpochs
<1>6. auth.epoch \in 0..maxEpoch /\ activeAuth.epoch \in 0..maxEpoch
  BY DEF ReplicaInv, RouteWhole, KnownWhole, UpTo
<1>7. \A o \in Candidates : entry[o].desc.epoch \in 0..maxEpoch
  BY CandidateFacts
<1> QED BY <1>5, <1>6, <1>7

-----------------------------------------------------------------------------
(* A node without elections *)

\* A leader that reads a keyframe hands its lead to a better authority; a route is switched
\* by nobody who leads.
StepsHeld ==
    ~closed =>
        /\ op.at = "frame" => role = "leader" /\ Newer(op.auth, auth)
        /\ op.at = "switch" => role # "leader"

LEMMA StepsInit == ASSUME Init PROVE StepsHeld
BY DEF Init, StepsHeld, NoOp

\* The lead and the hand-off are left as they are, or the node is closed.
LEMMA StepsStay ==
  ASSUME StepsHeld, UNCHANGED <<auth, closed>>, op'.at = op.at, op'.auth = op.auth,
         (role' = "leader") <=> (role = "leader")
  PROVE  StepsHeld'
BY DEF StepsHeld

\* The steps that may take the lead away.
Handovers ==
    ReconcileFollows \/ FrameArrives \/ FrameFails \/ FollowSucceeds \/ FollowRestores \/ Close
    \/ FollowAfterClose

\* Every other step leaves the lead and the hand-off as they are.
LEMMA OthersStay ==
  ASSUME ReplicaInv, StepsHeld, PlainNext, ~Handovers
  PROVE  StepsHeld' /\ ((role' = "leader") <=> (role = "leader"))
<1>1. CASE \E o \in Offers : ConnectSucceeds(o) \/ Retry(o) \/ AddOffer(o) \/ PeerChanges(o) \/ RefreshReads(o)
                             \/ RefreshRejects(o) \/ RefreshCommits(o)
  BY <1>1 DEF ConnectSucceeds, Retry, AddOffer, PeerChanges, RefreshReads, RefreshRejects, RefreshCommits, StepsHeld
<1>2. ASSUME NEW o \in Offers, SessionFails(o) PROVE StepsHeld' /\ ((role' = "leader") <=> (role = "leader"))
  <2>1. FailEntry(o, sub, op) /\ UNCHANGED <<auth, maxEpoch, closed, refresh>>
    BY <1>2 DEF SessionFails
  <2>2. refresh' \in [Offers -> Refreshes] /\ \A p \in Offers : refresh'[p].gen <= refresh[p].gen
    BY <2>1 DEF ReplicaInv, EntriesWhole, Refreshes
  <2>3. sub \in Subs
    BY DEF ReplicaInv, RouteWhole
  <2>4. op'.at = op.at /\ op'.auth = op.auth /\ ((role' = "leader") <=> (role = "leader"))
    BY <2>1, <2>2, <2>3, OpFacts, FailureKeeps
  <2> QED BY <2>1, <2>4, StepsStay
<1>3. ASSUME NEW o \in Offers, RefreshFails(o) PROVE StepsHeld' /\ ((role' = "leader") <=> (role = "leader"))
  <2>1. UNCHANGED <<auth, maxEpoch, closed>> /\ refresh' = [refresh EXCEPT ![o] = NoRefresh]
        /\ (FailEntry(o, sub, op) \/ UNCHANGED <<role, op>>)
    BY <1>3 DEF RefreshFails
  <2>2. refresh' \in [Offers -> Refreshes] /\ \A p \in Offers : refresh'[p].gen <= refresh[p].gen
    BY <2>1, NoneIsRefresh DEF ReplicaInv
  <2>3. sub \in Subs
    BY DEF ReplicaInv, RouteWhole
  <2>4. op'.at = op.at /\ op'.auth = op.auth /\ ((role' = "leader") <=> (role = "leader"))
    BY <2>1, <2>2, <2>3, OpFacts, FailureKeeps
  <2> QED BY <2>1, <2>4, StepsStay
<1>4. ASSUME NEW o \in Offers, RemoveOffer(o) PROVE StepsHeld' /\ ((role' = "leader") <=> (role = "leader"))
  <2> DEFINE pending == [op EXCEPT !.prev.active = Forget(@, o)]
  <2>1. UNCHANGED <<auth, closed, maxEpoch>> /\ (DetachUpstream(pending) \/ (op' = pending /\ UNCHANGED role))
    BY <1>4 DEF RemoveOffer
  <2>2. pending.at = op.at /\ pending.auth = op.auth
    BY OpFacts DEF HandoffsUpTo
  <2>3. op'.at = op.at /\ op'.auth = op.auth /\ ((role' = "leader") <=> (role = "leader"))
    <3>1. CASE op' = pending /\ UNCHANGED role
      BY <2>2, <3>1
    <3>2. CASE DetachUpstream(pending)
      <4>1. pending \in HandoffsUpTo(maxEpoch)
        BY PendingIsHandoff
      <4> HIDE DEF pending
      <4> QED BY <2>1, <2>2, <3>2, <4>1, DetachKeeps
    <3> QED BY <2>1, <3>1, <3>2
  <2> QED BY <2>1, <2>3, StepsStay
<1>5. CASE Probe \/ ProbeEnds \/ RequestReconcile
  BY <1>5 DEF Probe, ProbeEnds, RequestReconcile, StepsHeld
<1>6. CASE ReconcileStays \/ ReconcileAlone \/ ReconcileKeeps
  <2>1. op.at = "idle" /\ UNCHANGED op /\ ((role' = "leader") <=> (role = "leader"))
    BY <1>6 DEF ReconcileStays, ReconcileAlone, ReconcileKeeps, Run, ScheduleElection
  <2> QED BY <2>1 DEF StepsHeld
<1>7. CASE RouteReady
  <2>1. UNCHANGED <<auth, closed, role>> /\ op' = [op EXCEPT !.result = "resolved"]
    BY <1>7 DEF RouteReady
  <2>2. op'.at = op.at /\ op'.auth = op.auth
    BY <2>1, OpFacts DEF HandoffsUpTo
  <2> QED BY <2>1, <2>2, StepsStay
<1>8. CASE RouteFails \/ LineFails
  <2>1. UNCHANGED <<auth, maxEpoch, closed, refresh>>
        /\ \E l \in {sub, [sub EXCEPT !.alive = FALSE]}, q \in {op, [op EXCEPT !.result = "failed"]} :
              FailEntry(sub.blames, l, q)
    BY <1>8 DEF RouteFails, LineFails
  <2>2. PICK l \in {sub, [sub EXCEPT !.alive = FALSE]}, q \in {op, [op EXCEPT !.result = "failed"]} :
              FailEntry(sub.blames, l, q)
    BY <2>1
  <2>3. refresh' \in [Offers -> Refreshes] /\ \A p \in Offers : refresh'[p].gen <= refresh[p].gen
    BY <2>1 DEF ReplicaInv, EntriesWhole, Refreshes
  <2>4. l \in Subs /\ q \in HandoffsUpTo(maxEpoch) /\ q.at = op.at /\ q.auth = op.auth
    BY OpFacts DEF ReplicaInv, RouteWhole, Subs, HandoffsUpTo
  <2>5. op'.at = q.at /\ op'.auth = q.auth /\ ((role' = "leader") <=> (role = "leader"))
    BY <2>1, <2>2, <2>3, <2>4, FailureKeeps
  <2> QED BY <2>1, <2>4, <2>5, StepsStay
<1> QED BY <1>1, <1>2, <1>3, <1>4, <1>5, <1>6, <1>7, <1>8 DEF PlainNext, Handovers

LEMMA StepsNext ==
  ASSUME ReplicaInv, StepsHeld, [PlainNext]_vars
  PROVE  StepsHeld' /\ (role = "leader" /\ role' # "leader" => closed' \/ Newer(auth', auth))
<1>1. CASE PlainNext /\ ~Handovers
  BY <1>1, OthersStay
<1>2. CASE ReconcileFollows
  <2>1. PICK o \in BestRemote :
            /\ Run /\ timer' = FALSE /\ maxEpoch' = maxEpoch
            /\ (changes < MaxChanges /\ changes' = changes + 1) \/ UNCHANGED changes
            /\ UNCHANGED <<remote, faults, closed, active, activeAuth, elections, entry,
                           refresh, probing>>
            /\ \/ /\ role = "leader" /\ Outranks(o)
                  /\ op' = [NoOp EXCEPT !.at = "frame", !.entry = o, !.gen = entry[o].gen,
                                        !.auth = AuthorityOf(entry[o].desc), !.prev = Saved]
                  /\ UNCHANGED <<role, auth, sub>>
               \/ /\ role # "leader"
                  /\ Attach(o, AuthorityOf(entry[o].desc), Saved, entry[o].gen)
    BY <1>2, FollowsCases
  <2>2. CASE /\ role = "leader" /\ Outranks(o)
             /\ op' = [NoOp EXCEPT !.at = "frame", !.entry = o, !.gen = entry[o].gen,
                                   !.auth = AuthorityOf(entry[o].desc), !.prev = Saved]
             /\ UNCHANGED <<role, auth, sub>>
    <3>1. op'.at = "frame" /\ op'.auth = AuthorityOf(entry[o].desc)
      BY <2>2 DEF NoOp
    <3>2. Newer(op'.auth, auth')
      BY <2>2, <3>1 DEF Outranks
    <3> QED BY <2>2, <3>1, <3>2 DEF StepsHeld
  <2>3. CASE role # "leader" /\ Attach(o, AuthorityOf(entry[o].desc), Saved, entry[o].gen)
    <3>1. op'.at = "switch" /\ role' = "reconciling"
      BY <2>3 DEF Attach
    <3> QED BY <2>3, <3>1 DEF StepsHeld
  <2> QED BY <2>1, <2>2, <2>3
<1>3. CASE FrameArrives
  <2>1. op.at = "frame" /\ ~closed
    BY <1>3 DEF FrameArrives
  <2>2. CASE Attach(op.entry, op.auth, op.prev, op.gen)
    <3>1. op'.at = "switch" /\ role' = "reconciling" /\ auth' = op.auth
      BY <2>2 DEF Attach
    <3> QED BY <2>1, <3>1 DEF StepsHeld
  <2>3. CASE op' = NoOp /\ UNCHANGED <<role, auth, sub>>
    BY <2>3 DEF StepsHeld, NoOp
  <2> QED BY <1>3, <2>2, <2>3 DEF FrameArrives
<1>4. CASE FrameFails \/ FollowAfterClose
  BY <1>4 DEF FrameFails, FollowAfterClose, StepsHeld, NoOp
<1>5. CASE FollowSucceeds \/ FollowRestores
  BY <1>5 DEF FollowSucceeds, FollowRestores, StepsHeld, NoOp
<1>6. CASE Close
  BY <1>6 DEF Close, StepsHeld
<1>7. CASE UNCHANGED vars
  BY <1>7 DEF vars, StepsHeld
<1> QED BY <1>1, <1>2, <1>3, <1>4, <1>5, <1>6, <1>7 DEF Handovers

-----------------------------------------------------------------------------
(* The theorems *)

LEMMA ReplicaHolds == Spec => []ReplicaInv
<1>1. Init => ReplicaInv
  BY ReplicaInit
<1>2. ReplicaInv /\ [Next]_vars => ReplicaInv'
  BY ReplicaNext
<1> QED BY <1>1, <1>2, PTL DEF Spec

\* What a node keeps is whole in every order of the answers, the failures and the elections.
THEOREM TypeOKHolds == Spec => []TypeOK
<1>1. ReplicaInv => TypeOK
  BY ReplicaTyped
<1> QED BY <1>1, ReplicaHolds, PTL

\* However many peers change and answer while elect() is awaited, a promotion is above
\* everything that was observed (store-replica-set.ts:857-887).
THEOREM PromotionOutranksHolds == Spec => PromotionOutranks
<1> DEFINE A == (elections' < elections /\ auth' # auth) =>
            /\ auth'.epoch > auth.epoch /\ auth'.epoch > activeAuth.epoch
            /\ \A o \in Candidates : auth'.epoch > entry[o].desc.epoch
<1>1. ReplicaInv /\ [Next]_vars => [A]_vars
  BY PromotionIsAbove
<1>2. PromotionOutranks <=> [][A]_vars
  BY DEF PromotionOutranks
<1> HIDE DEF A
<1> QED BY <1>1, <1>2, ReplicaHolds, PTL DEF Spec

\* A leader that is not eligible steps down for a better authority only, whatever fails and
\* changes between the keyframe and the route (store-replica-set.ts:781-846).
THEOREM StepsDownForBetterHolds == Init /\ [][PlainNext]_vars => StepsDownForBetter
<1> DEFINE A == (role = "leader" /\ role' # "leader") => (closed' \/ Newer(auth', auth))
<1>1. Init => ReplicaInv /\ StepsHeld
  BY ReplicaInit, StepsInit
<1>2. ReplicaInv /\ [PlainNext]_vars => ReplicaInv'
  BY ReplicaNext DEF Next
<1>3. ReplicaInv /\ StepsHeld /\ [PlainNext]_vars => StepsHeld' /\ [A]_vars
  BY StepsNext
<1>4. StepsDownForBetter <=> [][A]_vars
  BY DEF StepsDownForBetter
<1> HIDE DEF A
<1> QED BY <1>1, <1>2, <1>3, <1>4, PTL

-----------------------------------------------------------------------------
(* Role and route *)

\* What a hand-off is for, and what it goes back to: a role that agrees with its route.
HandoffHeld(p) ==
    /\ p.at # "idle" =>
        /\ p.prev.role = "leader" => p.prev.active = NoOffer /\ p.prev.auth.leader = Self
        /\ p.prev.role = "follower" => p.prev.active # NoOffer /\ p.prev.activeAuth = p.prev.auth
    /\ p.at = "frame" => p.entry \in Offers
    /\ p.at = "switch" => p.entry \in Offers /\ (p.created \/ p.prev.role = "follower")

\* A subscription belongs to a follower or to a hand-off; what awaits its route has one.
LineHeld ==
    /\ sub # NoSub => sub.blames # NoOffer
    /\ AwaitsRoute => sub # NoSub
    /\ closed => sub = NoSub

RolesInv ==
    /\ RoleMatchesRoute /\ HandoffHeld(op) /\ LineHeld
    /\ op.at = "frame" => closed \/ role = "leader"

routeVars == <<role, auth, closed, active, activeAuth, sub, op>>

LEMMA RolesInit == ASSUME Init PROVE RolesInv
BY ReplicaAssumption DEF Init, RolesInv, RoleMatchesRoute, HandoffHeld, LineHeld, AwaitsRoute, NoOp, NoSub

LEMMA RolesStay == ASSUME RolesInv, UNCHANGED routeVars PROVE RolesInv'
BY DEF routeVars, RolesInv, RoleMatchesRoute, HandoffHeld, LineHeld, AwaitsRoute

\* A hand-off that is abandoned awaits its route no more.
LEMMA AbandonedIsHeld ==
  ASSUME NEW m \in Nat, NEW p \in HandoffsUpTo(m), HandoffHeld(p), NEW q \in Abandoned(p)
  PROVE  HandoffHeld(q) /\ q.at = p.at /\ ~(q.at = "switch" /\ q.result = "pending")
<1>1. CASE p.at = "switch" /\ p.result = "pending"
  <2>1. PICK r \in {"resolved", "rejected"} : q = [p EXCEPT !.result = r]
    BY <1>1 DEF Abandoned
  <2>2. q.at = p.at /\ q.entry = p.entry /\ q.created = p.created /\ q.prev = p.prev /\ q.result = r
    BY <2>1 DEF HandoffsUpTo
  <2> QED BY <2>2 DEF HandoffHeld
<1>2. CASE ~(p.at = "switch" /\ p.result = "pending")
  BY <1>2 DEF Abandoned
<1> QED BY <1>1, <1>2

\* The detached route was not a leader's, and nobody is left with a subscription.
LEMMA DetachMatches ==
  ASSUME ReplicaInv, RolesInv, NEW pending \in HandoffsUpTo(maxEpoch), HandoffHeld(pending),
         pending.at = op.at, pending.at = "switch" /\ pending.result = "pending" => AwaitsRoute,
         ~closed, closed' = closed, auth' = auth, active \in Offers, DetachUpstream(pending)
  PROVE  RolesInv'
<1>1. HandoffHeld(op)' /\ op'.at = op.at /\ ~AwaitsRoute'
  <2>1. CASE sub = NoSub
    <3>1. op' = pending /\ ~AwaitsRoute
      BY <2>1 DEF DetachUpstream, RolesInv, LineHeld
    <3> QED BY <3>1 DEF HandoffHeld, AwaitsRoute
  <2>2. CASE sub # NoSub
    <3>1. op' \in Abandoned(pending)
      BY <2>2 DEF DetachUpstream
    <3> QED BY <3>1, EpochIsNat, AbandonedIsHeld DEF HandoffHeld, AwaitsRoute
  <2> QED BY <2>1, <2>2
<1>2. sub' = NoSub /\ active' = NoOffer /\ role' = IF role \in {"follower", "reconciling"} THEN "offline" ELSE role
  BY DEF DetachUpstream
<1>3. op.at # "switch" => role # "leader"
  BY ReplicaAssumption DEF RolesInv, RoleMatchesRoute
<1>4. op.at # "frame"
  BY <1>3 DEF RolesInv
<1> QED BY <1>1, <1>2, <1>3, <1>4 DEF RolesInv, RoleMatchesRoute, LineHeld

\* A failure detaches the route of its entry, or leaves role and route alone.
LEMMA FailureMatches ==
  ASSUME ReplicaInv, RolesInv, NEW pending \in HandoffsUpTo(maxEpoch), HandoffHeld(pending),
         pending.at = op.at, pending.at = "switch" /\ pending.result = "pending" => AwaitsRoute,
         ~closed, closed' = closed, auth' = auth,
         NEW o, NEW l, l = NoSub <=> sub = NoSub, l # NoSub => l.blames # NoOffer,
         FailEntry(o, l, pending)
  PROVE  RolesInv'
<1>1. CASE o \in Offers /\ active = o /\ DetachUpstream(pending)
  BY <1>1, DetachMatches
<1>2. CASE sub' = l /\ op' = pending /\ UNCHANGED <<active, activeAuth, role>>
  BY <1>2 DEF RolesInv, RoleMatchesRoute, HandoffHeld, LineHeld, AwaitsRoute
<1> QED BY <1>1, <1>2 DEF FailEntry

LEMMA OpIsHandoff == ASSUME ReplicaInv PROVE op \in HandoffsUpTo(maxEpoch)
BY DEF ReplicaInv, RouteWhole

LEMMA FailuresMatch ==
  ASSUME ReplicaInv, RolesInv,
         (\E o \in Offers : SessionFails(o) \/ RefreshFails(o)) \/ RouteFails \/ LineFails
  PROVE  RolesInv'
<1>1. ASSUME NEW o \in Offers, SessionFails(o) \/ RefreshFails(o) PROVE RolesInv'
  <2>1. CASE FailEntry(o, sub, op) /\ ~closed /\ UNCHANGED <<closed, auth>>
    BY <2>1, OpIsHandoff, FailureMatches DEF RolesInv, LineHeld, AwaitsRoute
  <2>2. CASE UNCHANGED routeVars
    BY <2>2, RolesStay
  <2> QED BY <1>1, <2>1, <2>2 DEF SessionFails, RefreshFails, routeVars
<1>2. ASSUME RouteFails PROVE RolesInv'
  <2> DEFINE p == [op EXCEPT !.result = "failed"]
  <2>1. p \in HandoffsUpTo(maxEpoch) /\ p.at = op.at /\ p.result = "failed" /\ HandoffHeld(p)
    BY OpIsHandoff DEF HandoffsUpTo, RolesInv, HandoffHeld
  <2>2. FailEntry(sub.blames, sub, p) /\ UNCHANGED <<closed, auth>> /\ ~closed
    BY <1>2 DEF RouteFails, RolesInv, LineHeld
  <2> HIDE DEF p
  <2> QED BY <2>1, <2>2, FailureMatches DEF RolesInv, LineHeld
<1>3. ASSUME LineFails PROVE RolesInv'
  <2> DEFINE l == [sub EXCEPT !.alive = FALSE]
  <2>1. sub.alive /\ ~closed /\ FailEntry(sub.blames, l, op) /\ UNCHANGED <<closed, auth>>
    BY <1>3 DEF LineFails
  <2>2. sub # NoSub
    BY <2>1 DEF NoSub
  <2>3. l.blames = sub.blames
    BY DEF ReplicaInv, RouteWhole, Subs
  <2>4. l # NoSub /\ l.blames # NoOffer
    BY <2>2, <2>3 DEF RolesInv, LineHeld, NoSub
  <2> HIDE DEF l
  <2> QED BY <2>1, <2>2, <2>4, OpIsHandoff, FailureMatches DEF RolesInv, AwaitsRoute
<1> QED BY <1>1, <1>2, <1>3

\* A removed offer takes its route along, or is forgotten where it was referred to.
LEMMA RemoveMatches == ASSUME ReplicaInv, RolesInv, NEW o \in Offers, RemoveOffer(o) PROVE RolesInv'
<1> DEFINE p == [op EXCEPT !.prev.active = Forget(@, o)]
<1>1. p \in HandoffsUpTo(maxEpoch)
  BY PendingIsHandoff
<1>2. /\ p.at = op.at /\ p.result = op.result /\ p.entry = op.entry /\ p.created = op.created
      /\ p.prev.role = op.prev.role /\ p.prev.auth = op.prev.auth
      /\ p.prev.activeAuth = op.prev.activeAuth /\ p.prev.active = Forget(op.prev.active, o)
  BY OpIsHandoff DEF HandoffsUpTo, SavedUpTo
<1>3. ~closed /\ UNCHANGED <<closed, auth>>
      /\ IF active = o THEN DetachUpstream(p)
         ELSE op' = p /\ sub' = [sub EXCEPT !.blames = Forget(@, o)] /\ UNCHANGED <<active, activeAuth, role>>
  BY DEF RemoveOffer
<1> HIDE DEF p
<1>4. HandoffHeld(p)
  BY <1>2, ReplicaAssumption DEF RolesInv, HandoffHeld, Forget
<1>5. CASE active = o
  BY <1>1, <1>2, <1>3, <1>4, <1>5, DetachMatches DEF AwaitsRoute
<1>6. CASE active # o
  <2>1. sub'.blames = Forget(sub.blames, o) /\ (sub = NoSub => sub' = NoSub)
    <3>1. sub'.blames = Forget(sub.blames, o)
      BY <1>3, <1>6 DEF ReplicaInv, RouteWhole, Subs
    <3>2. sub = NoSub => Forget(sub.blames, o) = sub.blames
      BY ReplicaAssumption DEF NoSub, Forget
    <3>3. sub' = [sub EXCEPT !.blames = Forget(sub.blames, o)]
      BY <1>3, <1>6
    <3>4. sub = NoSub => sub' = NoSub
      BY <3>2, <3>3 DEF NoSub
    <3> QED BY <3>1, <3>4
  <2>2. sub # NoSub => sub' # NoSub /\ sub'.blames # NoOffer
    BY <2>1, ReplicaAssumption DEF RolesInv, LineHeld, Forget, NoSub
  <2>3. op' = p /\ UNCHANGED <<active, activeAuth, role, closed, auth>>
    BY <1>3, <1>6
  <2> QED BY <1>2, <1>3, <1>4, <2>1, <2>2, <2>3 DEF RolesInv, RoleMatchesRoute, HandoffHeld, LineHeld, AwaitsRoute
<1> QED BY <1>5, <1>6

\* The hand-off of a route begins, from a role that agrees with the present one.
LEMMA AttachMatches ==
  ASSUME NEW o \in Offers, NEW a, NEW prev, NEW gen, Attach(o, a, prev, gen), ~closed, closed' = closed,
         prev.role = "leader" => prev.active = NoOffer /\ prev.auth.leader = Self,
         prev.role = "follower" => prev.active # NoOffer /\ prev.activeAuth = prev.auth,
         sub # NoSub => prev.role = "follower" /\ sub.blames # NoOffer
  PROVE  RolesInv'
<1>1. op' = [at |-> "switch", entry |-> o, gen |-> gen, auth |-> a,
             created |-> (sub = NoSub), result |-> "pending", prev |-> prev]
  BY DEF Attach
<1>2. sub' # NoSub /\ sub'.blames # NoOffer
  <2>1. CASE sub = NoSub
    <3>1. sub'.blames = o /\ o # NoOffer
      BY <2>1, ReplicaAssumption DEF Attach
    <3> QED BY <3>1 DEF NoSub
  <2>2. CASE sub # NoSub
    BY <2>2 DEF Attach
  <2> QED BY <2>1, <2>2
<1>3. HandoffHeld(op)'
  BY <1>1 DEF HandoffHeld
<1> QED BY <1>1, <1>2, <1>3 DEF RolesInv, RoleMatchesRoute, LineHeld

LEMMA FollowsMatches == ASSUME ReplicaInv, RolesInv, ReconcileFollows PROVE RolesInv'
<1>1. PICK o \in BestRemote :
        /\ Run /\ UNCHANGED <<closed, active, activeAuth>>
        /\ IF role = "leader"
           THEN /\ op' = [NoOp EXCEPT !.at = "frame", !.entry = o, !.gen = entry[o].gen,
                                      !.auth = AuthorityOf(entry[o].desc), !.prev = Saved]
                /\ UNCHANGED <<role, auth, sub>>
           ELSE Attach(o, AuthorityOf(entry[o].desc), Saved, entry[o].gen)
  BY Zenon DEF ReconcileFollows
<1>2. o \in Offers /\ op.at = "idle" /\ ~closed
  BY <1>1 DEF BestRemote, Candidates, Run
<1>3. /\ Saved.role = role /\ Saved.active = active /\ Saved.activeAuth = activeAuth /\ Saved.auth = auth
      /\ role = "leader" => sub = NoSub /\ active = NoOffer /\ auth.leader = Self
      /\ role = "follower" => active # NoOffer /\ activeAuth = auth
      /\ sub # NoSub => role = "follower" /\ sub.blames # NoOffer
  BY <1>2 DEF Saved, RolesInv, RoleMatchesRoute, LineHeld
<1>4. CASE role = "leader"
  <2>1. op'.at = "frame" /\ op'.entry = o /\ op'.prev = Saved
    BY <1>1, <1>4 DEF NoOp
  <2>2. UNCHANGED <<role, auth, sub, closed, active, activeAuth>>
    BY <1>1, <1>4
  <2> QED BY <1>2, <1>3, <1>4, <2>1, <2>2 DEF RolesInv, RoleMatchesRoute, HandoffHeld, LineHeld, AwaitsRoute
<1>5. CASE role # "leader"
  BY <1>1, <1>2, <1>3, <1>5, AttachMatches
<1> QED BY <1>4, <1>5

LEMMA FrameMatches == ASSUME ReplicaInv, RolesInv, FrameArrives \/ FrameFails PROVE RolesInv'
<1>1. CASE FrameArrives /\ entry[op.entry].gen = op.gen
  <2>1. /\ Attach(op.entry, op.auth, op.prev, op.gen) /\ ~closed /\ closed' = closed
        /\ op.at = "frame" /\ op.entry \in Offers /\ role = "leader" /\ sub = NoSub
    BY <1>1 DEF FrameArrives, RolesInv, RoleMatchesRoute, HandoffHeld
  <2>2. /\ op.prev.role = "leader" => op.prev.active = NoOffer /\ op.prev.auth.leader = Self
        /\ op.prev.role = "follower" => op.prev.active # NoOffer /\ op.prev.activeAuth = op.prev.auth
    BY <2>1 DEF RolesInv, HandoffHeld
  <2> QED BY <2>1, <2>2, AttachMatches
<1>2. CASE op.at = "frame" /\ op' = NoOp /\ UNCHANGED <<role, auth, sub, closed, active, activeAuth>>
  BY <1>2 DEF RolesInv, RoleMatchesRoute, HandoffHeld, LineHeld, AwaitsRoute, NoOp
<1> QED BY <1>1, <1>2 DEF FrameArrives, FrameFails

LEMMA ReadyMatches == ASSUME ReplicaInv, RolesInv, RouteReady PROVE RolesInv'
<1>1. op.at = "switch" /\ op' = [op EXCEPT !.result = "resolved"] /\ sub # NoSub
      /\ UNCHANGED <<role, auth, closed, active, activeAuth>>
      /\ sub' = [sub EXCEPT !.route = op.entry, !.alive = TRUE]
  BY DEF RouteReady, AwaitsRoute, RolesInv, LineHeld
<1>2. op'.at = op.at /\ op'.entry = op.entry /\ op'.created = op.created /\ op'.prev = op.prev /\ op'.result = "resolved"
  BY <1>1, OpIsHandoff DEF HandoffsUpTo
<1>3. sub'.blames = sub.blames /\ sub.blames # NoOffer
  BY <1>1 DEF ReplicaInv, RouteWhole, Subs, RolesInv, LineHeld
<1>4. ~closed
  BY <1>1 DEF RolesInv, LineHeld
<1> QED BY <1>1, <1>2, <1>3, <1>4 DEF RolesInv, RoleMatchesRoute, HandoffHeld, LineHeld, AwaitsRoute

\* The end of a hand-off: the new route and its role, or the role and the route that were.
LEMMA FollowMatches == ASSUME ReplicaInv, RolesInv, FollowSucceeds \/ FollowRestores \/ FollowAfterClose PROVE RolesInv'
<1>1. op' = NoOp /\ NoOp.at = "idle" /\ closed' = closed
  BY DEF FollowSucceeds, FollowRestores, FollowAfterClose, NoOp
<1>2. HandoffHeld(op)' /\ ~AwaitsRoute'
  BY <1>1 DEF HandoffHeld, AwaitsRoute
<1>3. CASE FollowSucceeds
  <2>1. op.entry \in Offers /\ active' = op.entry /\ activeAuth' = auth' /\ role' = "follower" /\ sub' = sub
    BY <1>3 DEF FollowSucceeds, RolesInv, HandoffHeld
  <2> QED BY <1>1, <1>2, <2>1, ReplicaAssumption DEF RolesInv, RoleMatchesRoute, LineHeld
<1>4. CASE FollowRestores
  <2>1. /\ op.at = "switch" /\ ~closed /\ sub' = IF op.created THEN NoSub ELSE sub
        /\ active' = op.prev.active /\ activeAuth' = op.prev.activeAuth
        /\ auth' = op.prev.auth /\ role' = op.prev.role
    BY <1>4 DEF FollowRestores
  <2>2. /\ op.prev.role = "leader" => op.prev.active = NoOffer /\ op.prev.auth.leader = Self /\ op.created
        /\ op.prev.role = "follower" => op.prev.active # NoOffer /\ op.prev.activeAuth = op.prev.auth
        /\ ~op.created => op.prev.role = "follower"
    BY <2>1 DEF RolesInv, HandoffHeld
  <2> QED BY <1>1, <1>2, <2>1, <2>2 DEF RolesInv, RoleMatchesRoute, LineHeld
<1>5. CASE FollowAfterClose
  <2>1. sub = NoSub /\ role = "closed" /\ UNCHANGED <<role, sub>>
    BY <1>5 DEF FollowAfterClose, RolesInv, LineHeld, ReplicaInv, RouteWhole
  <2> QED BY <1>1, <1>2, <2>1 DEF RolesInv, RoleMatchesRoute, LineHeld
<1> QED BY <1>3, <1>4, <1>5

\* An upstream that is closed leaves a hand-off that awaits no route.
LEMMA CloseUpstream ==
  ASSUME ReplicaInv, RolesInv, op' \in (IF sub = NoSub THEN {op} ELSE Abandoned(op))
  PROVE  HandoffHeld(op)' /\ op'.at = op.at /\ ~AwaitsRoute'
<1>1. CASE sub = NoSub
  BY <1>1 DEF RolesInv, LineHeld, HandoffHeld, AwaitsRoute
<1>2. CASE sub # NoSub
  <2>1. op' \in Abandoned(op)
    BY <1>2
  <2> QED BY <2>1, OpIsHandoff, EpochIsNat, AbandonedIsHeld DEF RolesInv, HandoffHeld, AwaitsRoute
<1> QED BY <1>1, <1>2

LEMMA GrantedMatches == ASSUME ReplicaInv, RolesInv, ElectionGranted PROVE RolesInv'
<1>1. /\ sub' = NoSub /\ active' = NoOffer /\ role' = "leader" /\ ~closed /\ closed' = closed
      /\ op' \in (IF sub = NoSub THEN {op} ELSE Abandoned(op))
      /\ auth'.leader = Self
  BY DEF ElectionGranted
<1>2. HandoffHeld(op)' /\ op'.at = op.at /\ ~AwaitsRoute'
  BY <1>1, CloseUpstream
<1> QED BY <1>1, <1>2 DEF RolesInv, RoleMatchesRoute, LineHeld

LEMMA CloseMatches == ASSUME ReplicaInv, RolesInv, Close PROVE RolesInv'
<1>1. /\ sub' = NoSub /\ role' = "closed" /\ closed'
      /\ op' \in (IF sub = NoSub THEN {op} ELSE Abandoned(op))
  BY DEF Close
<1>2. HandoffHeld(op)' /\ op'.at = op.at /\ ~AwaitsRoute'
  BY <1>1, CloseUpstream
<1> QED BY <1>1, <1>2 DEF RolesInv, RoleMatchesRoute, LineHeld

\* Nobody to follow: the route goes, and the role with it.
LEMMA AloneMatches == ASSUME ReplicaInv, RolesInv, ReconcileAlone \/ ReconcileKeeps \/ ElectionDeclined PROVE RolesInv'
<1>1. CASE ReconcileAlone
  <2>1. /\ role # "leader" /\ op.at = "idle" /\ sub' = NoSub /\ UNCHANGED <<closed, op>>
        /\ role' \in {"electing", "offline"}
    BY <1>1 DEF ReconcileAlone, Run, ScheduleElection
  <2> QED BY <2>1 DEF RolesInv, RoleMatchesRoute, HandoffHeld, LineHeld, AwaitsRoute
<1>2. CASE ReconcileKeeps
  <2>1. /\ op.at = "idle" /\ role = "follower" /\ auth' = activeAuth
        /\ UNCHANGED <<role, closed, active, activeAuth, sub, op>>
    BY <1>2 DEF ReconcileKeeps, Run
  <2> QED BY <2>1 DEF RolesInv, RoleMatchesRoute, HandoffHeld, LineHeld, AwaitsRoute
<1>3. CASE ElectionDeclined
  <2>1. /\ role' = role \/ (role = "electing" /\ role' = "offline")
        /\ UNCHANGED <<auth, closed, active, activeAuth, sub, op>>
    BY <1>3 DEF ElectionDeclined
  <2> QED BY <2>1 DEF RolesInv, RoleMatchesRoute, HandoffHeld, LineHeld, AwaitsRoute
<1> QED BY <1>1, <1>2, <1>3

\* What only the world, the entries and the timers are about.
LEMMA AsideMatches ==
  ASSUME RolesInv,
         \/ \E o \in Offers : \/ ConnectSucceeds(o) \/ Retry(o) \/ AddOffer(o) \/ PeerChanges(o)
                              \/ RefreshReads(o) \/ RefreshRejects(o) \/ RefreshCommits(o)
         \/ Probe \/ ProbeEnds \/ RequestReconcile \/ ReconcileStays \/ Promote \/ TimerFires
  PROVE  RolesInv'
<1>1. UNCHANGED routeVars
  BY DEF routeVars, ConnectSucceeds, Retry, AddOffer, PeerChanges, RefreshReads, RefreshRejects, RefreshCommits,
         Probe, ProbeEnds, RequestReconcile, ReconcileStays, Promote, TimerFires
<1> QED BY <1>1, RolesStay

LEMMA RolesNext == ASSUME ReplicaInv, RolesInv, [Next]_vars PROVE RolesInv'
<1>1. CASE UNCHANGED vars
  <2>1. UNCHANGED routeVars
    BY <1>1 DEF vars, routeVars
  <2> QED BY <2>1, RolesStay
<1>2. CASE PlainNext
  BY <1>2, AsideMatches, FailuresMatch, RemoveMatches, AloneMatches, FollowsMatches, FrameMatches, ReadyMatches,
     FollowMatches, CloseMatches DEF PlainNext
<1>3. CASE ElectionNext
  BY <1>3, AsideMatches, AloneMatches, GrantedMatches DEF ElectionNext
<1> QED BY <1>1, <1>2, <1>3 DEF Next

\* At rest role, route and published authority agree, whatever was abandoned, failed, restored
\* or promoted on the way (store-replica-set.ts:781-846, 857-887).
THEOREM RoleMatchesRouteHolds == Spec => []RoleMatchesRoute
<1>1. Init => RolesInv
  BY RolesInit
<1>2. ReplicaInv /\ RolesInv /\ [Next]_vars => RolesInv'
  BY RolesNext
<1>3. RolesInv => RoleMatchesRoute
  BY DEF RolesInv
<1> QED BY <1>1, <1>2, <1>3, ReplicaHolds, PTL DEF Spec
=============================================================================
