----------------------------- MODULE MCAuthority -----------------------------
(***************************************************************************)
(* The owners of authority, one at a time, `part`:                         *)
(*   "candidate"  a replica set without a route that is eligible and       *)
(*                promotes itself when its timer fires;                    *)
(*   "leader"     a replica set that leads, cannot be elected, and may be  *)
(*                outranked by its peers;                                  *)
(*   "commands"   a command host;                                          *)
(*   "scale"      an authority process with its control line.              *)
(* The others stay as they start.                                          *)
(***************************************************************************)
EXTENDS StoreReplicaSet, TLC

CONSTANTS
    Accounts, Requests, KeepMs, Bounds, MaxNow, MaxRuns, MaxDepth,     \* the command host
    Clients, Keys, MaxReign, MaxLinks, MaxServed                       \* the authority process

VARIABLES
    part,
    \* the command host
    bounds, now, order, receipts, total, attached, line, running, entered, runs,
    hostClosed, published,
    \* the authority process
    born, writer, reign, announced, control, roster, host, inFlight, link, follows, once,
    forced, promoting, started, shut, served, upstream, heard, slipped

Leader == INSTANCE StoreReplicaSet WITH
    Self <- 2, Peer <- 1, InitialRole <- "leader", Eligible <- FALSE, AutoPromote <- FALSE,
    Probing <- FALSE, MaxEpoch <- 1, MaxChanges <- 1, MaxFaults <- 1, MaxElections <- 0

Host == INSTANCE CommandHost WITH closed <- hostClosed

Scale == INSTANCE ScaleAuthority WITH
    role <- writer, running <- inFlight

ASSUME AuthorityAssumption ==
    Host!CommandAssumption /\ Leader!ReplicaAssumption /\ Scale!ScaleAssumption

hostVars ==
    <<bounds, now, order, receipts, total, attached, line, running, entered, runs,
      hostClosed, published>>
authorityVars ==
    <<born, writer, reign, announced, control, roster, host, inFlight, link, follows, once,
      forced, promoting, started, shut, served, upstream, heard, slipped>>
allVars == <<part, vars, hostVars, authorityVars>>

\* Bounds of one receipt, and bounds that two accounts with two requests never meet.
AllBounds == {[perAccount |-> 1, total |-> 1], [perAccount |-> 2, total |-> 4]}

\* The replica set of the parts that are not about it.
Quiet == Leader!Init /\ \A o \in Offers : remote[o].epoch = 0 /\ remote[o].serving

AuthorityInit ==
    /\ Host!Init /\ Scale!Init
    /\ \/ part = "candidate" /\ Init /\ bounds.total = 1 /\ born
       \/ part = "leader" /\ Leader!Init /\ bounds.total = 1 /\ born
       \/ part = "commands" /\ Quiet /\ born
       \/ part = "scale" /\ Quiet /\ bounds.total = 1

CandidateNext == part = "candidate" /\ Next /\ UNCHANGED <<part, hostVars, authorityVars>>
LeaderNext == part = "leader" /\ Leader!PlainNext /\ UNCHANGED <<part, hostVars, authorityVars>>
CommandNext == part = "commands" /\ Host!Next /\ UNCHANGED <<part, vars, authorityVars>>
ScaleNext == part = "scale" /\ Scale!Next /\ UNCHANGED <<part, vars, hostVars>>

AuthoritySpec == AuthorityInit /\ [][CandidateNext \/ LeaderNext \/ CommandNext \/ ScaleNext]_allVars

\* Neither accounts, requests nor offers have an order.
Symmetry == Permutations(Accounts) \cup Permutations(Requests) \cup Permutations(Offers)

-----------------------------------------------------------------------------
\* The types of the four.
AuthorityTypeOK ==
    /\ Host!TypeOK /\ Scale!TypeOK
    /\ IF part = "candidate" THEN TypeOK ELSE Leader!TypeOK

\* At rest role, route and published authority of a replica set agree, from either start
\* (store-replica-set.ts:781-846, 857-887), and the lines, roster and receipts of an
\* authority are those of its role (scale-authority.ts:404-441).
RoleIsWhole ==
    /\ IF part = "candidate" THEN RoleMatchesRoute ELSE Leader!RoleMatchesRoute
    /\ Scale!OwnerIsWhole /\ Scale!OneLeaderRow

\* A leader without elections steps down for a better authority only, a promotion outranks
\* everything observed (store-replica-set.ts:857-887, 908-922), and a standby is not
\* elected before it has followed (scale-authority.ts:190-212).
LeadershipIsRightful ==
    /\ [][(part = "leader" /\ role = "leader" /\ role' # "leader")
            => (closed' \/ Newer(auth', auth))]_allVars
    /\ PromotionOutranks
    /\ Scale!LeadsAfterFollowing

\* Neither a change of hands nor a link of an earlier reign changes what is on the control
\* line (scale-control.ts:78-130, scale-authority.ts:496-511).
FactsSurvive == Scale!DenialsSurvive /\ Scale!LinksAreOfThisReign

\* The line is what its host would answer (command-host.ts:245-249).
LineIsIndex == Host!LineIsIndex
\* A commit on record is not executed again, by a host (command-host.ts:199-215, 270-290)
\* or by the authority that adopted its line (scale-authority.ts:277-283, 404-407).
AtMostOnce == Host!AtMostOnce /\ Scale!ReceiptsAnswer
\* Duplicates share the run in flight (command-host.ts:136, 166).
InFlightKeepsItsReceipt == Host!InFlightKeepsItsReceipt
\* The eviction restores the bounds (command-host.ts:160-177).
BoundsRestored == Host!BoundsRestored
=============================================================================
