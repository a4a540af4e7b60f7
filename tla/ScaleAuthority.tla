---------------------------- MODULE ScaleAuthority ----------------------------
(***************************************************************************)
(* One process of the authority tier (scale-authority.ts) and its control  *)
(* line (scale-control.ts): roster, deny list and receipts in one store    *)
(* that the process owns while it leads and follows while it stands by.    *)
(* The replica set decides who leads; the authority hears of it later,     *)
(* when the status store drains, and what the role implies follows then.   *)
(* The other authority, whose line is followed, is the environment.        *)
(***************************************************************************)
EXTENDS Integers, FiniteSets

CONSTANTS
    Clients, Keys,          \* accounts that are revoked, requests that are executed
    MaxReign,               \* bound on the epochs
    MaxLinks,               \* bound on the resolutions of the upstream
    MaxServed               \* bound on the node links that are served

VARIABLES
    born,       \* a born leader, or a standby
    role, reign,\* of the replica set: who leads, and its epoch
    announced,  \* the role this process has acted upon
    control,    \* the control line: kind, health of what is followed, facts
    roster,     \* owner facets: "none", of the owned line ("live"), of one let go ("stale")
    host,       \* the command host: its line, and what it would answer from receipts
    running,    \* commands that have not settled; orphans are of an earlier index
    link,       \* the upstream in use, 0 when there is none
    follows,    \* continuations of attachUpstream
    once, forced, promoting, started, shut,
    served,     \* node links served: of this roster or of an earlier one, and their epoch
    upstream,   \* facts on the line of the other authority
    \* observers
    heard,      \* a followed line has delivered once, or ended, or this process has led
    slipped     \* re-elected before a demotion was acted upon, but after it had consequences

scaleVars ==
    <<born, role, reign, announced, control, roster, host, running, link, follows, once,
      forced, promoting, started, shut, served, upstream, heard, slipped>>

lineVars == <<announced, control, roster, host, running, follows, served, slipped>>

ScaleAssumption ==
    /\ MaxReign \in Nat \ {0} /\ MaxLinks \in Nat /\ MaxServed \in Nat
    /\ IsFiniteSet(Clients) /\ IsFiniteSet(Keys)

Rows == {"self", "upstream", "mirror"}
RowRoles == {"none", "leader", "standby", "mirror"}
NoRows == [n \in Rows |-> "none"]
Facts == [denied : SUBSET Clients, receipts : SUBSET Keys, rows : [Rows -> RowRoles]]
Empty == [denied |-> {}, receipts |-> {}, rows |-> NoRows]

Init ==
    /\ born \in BOOLEAN
    /\ role = IF born THEN "leader" ELSE "follower"
    /\ reign = IF born THEN 1 ELSE 0
    /\ announced = role
    /\ control = [kind |-> IF born THEN "owner" ELSE "idle", health |-> "none", facts |-> Empty]
    /\ roster = IF born THEN "live" ELSE "none"
    /\ host = [line |-> roster, index |-> {}]
    /\ running = {} /\ link = 0 /\ follows = {}
    /\ once = born /\ forced = FALSE /\ promoting = 0 /\ started = FALSE /\ shut = FALSE
    /\ served = {}
    /\ upstream = [Empty EXCEPT !.rows["upstream"] = "leader"]
    /\ heard = FALSE /\ slipped = FALSE

Leading == ~shut /\ role = "leader"

-----------------------------------------------------------------------------
(* The control line *)

\* What was attached to an owned line that is let go goes on with its closed store.
Stale(state) == IF control.kind = "owner" /\ state = "live" THEN "stale" ELSE state

\* The continuation of a follower that ends, or that has caught up, may run.
SettledFollows == {[f EXCEPT !.settled = TRUE] : f \in follows}

\* Mutant: a follow starts from nothing.
FollowsFromNothing(l) ==
    /\ control' = [kind |-> "follower", health |-> "catching", facts |-> Empty]
    /\ follows' = SettledFollows \cup {[link |-> l, settled |-> FALSE]}

Follow(l) ==
    /\ control' = [kind |-> "follower", health |-> "catching", facts |-> control.facts]
    /\ follows' = SettledFollows \cup {[link |-> l, settled |-> FALSE]}

\* Whatever is followed, alive or dead, or was kept: its facts go on as the owned line.
Promoted(facts) == [kind |-> "owner", health |-> "none", facts |-> facts]

Released ==
    IF control.kind = "owner" THEN [control EXCEPT !.kind = "idle"] ELSE control

\* A whole state (a keyframe), or the patches of one section.
Hears ==
    /\ control.kind = "follower" /\ control.health # "closed"
    /\ \/ control' = [control EXCEPT !.health = "live", !.facts = upstream]
       \/ /\ control.health = "live"
          /\ \E section \in {"denied", "receipts", "rows"} :
                control' = [control EXCEPT !.facts[section] = upstream[section]]
    /\ follows' = SettledFollows
    /\ heard' = TRUE
    /\ UNCHANGED <<born, role, reign, announced, roster, host, running, link, once, forced,
                   promoting, started, shut, served, upstream, slipped>>

\* A terminal error of the followed line; ready settles as well.
FollowedEnds ==
    /\ control.kind = "follower" /\ control.health # "closed"
    /\ control' = [control EXCEPT !.health = "closed"]
    /\ follows' = SettledFollows
    /\ heard' = TRUE
    /\ UNCHANGED <<born, role, reign, announced, roster, host, running, link, once, forced,
                   promoting, started, shut, served, upstream, slipped>>

-----------------------------------------------------------------------------
(* The upstream *)

\* Connecting to the other authority: the same link as before, or another one.
Resolve ==
    /\ ~shut /\ link < MaxLinks
    /\ link' = link + 1
    /\ IF Leading
       THEN UNCHANGED <<control, follows, roster, host>>
       ELSE /\ Follow(link + 1)
            /\ roster' = Stale(roster)
            /\ host' = [host EXCEPT !.line = Stale(host.line)]
    /\ UNCHANGED <<born, role, reign, announced, running, once, forced, promoting, started,
                   shut, served, upstream, heard, slipped>>

\* The standby's own row appears at the other authority, or the call fails.
AnnouncesStandby ==
    upstream' \in {upstream, [upstream EXCEPT !.rows["self"] = "standby"]}

\* attachUpstream goes on after its await.
FollowSettles ==
    \E f \in follows :
        /\ f.settled
        /\ follows' = follows \ {f}
        /\ IF shut \/ link # f.link
           THEN UNCHANGED <<once, upstream>>
           ELSE /\ once' = TRUE
                /\ IF started /\ ~Leading THEN AnnouncesStandby ELSE UNCHANGED upstream
        /\ UNCHANGED <<born, role, reign, announced, control, roster, host, running, link,
                       forced, promoting, started, shut, served, heard, slipped>>

\* The other authority revokes an account or commits a command.
UpstreamWrites ==
    /\ ~shut
    /\ \/ \E c \in Clients : upstream' = [upstream EXCEPT !.denied = {c} \cup @]
       \/ \E k \in Keys : upstream' = [upstream EXCEPT !.receipts = {k} \cup @]
    /\ UNCHANGED <<born, role, reign, announced, control, roster, host, running, link, follows,
                   once, forced, promoting, started, shut, served, heard, slipped>>

-----------------------------------------------------------------------------
(* The role *)

\* Mutant: nobody asks whether the standby has followed.
MayAlwaysLead == TRUE

\* The leadership seam: a standby is asked after its first follow, or by an operator.
MayLead == once \/ forced

\* The replica set promotes: a timer that fired, or an operator's promote.
Elected ==
    /\ ~shut /\ role = "follower" /\ reign < MaxReign /\ MayLead
    /\ role' = "leader" /\ reign' = reign + 1
    /\ slipped' = (slipped \/ (announced = "leader" /\ control.kind # "owner"))
    /\ heard' = TRUE
    /\ UNCHANGED <<born, announced, control, roster, host, running, link, follows, once, forced,
                   promoting, started, shut, served, upstream>>

\* The replica set follows a better authority: of a higher epoch, or a better rank.
Demoted ==
    /\ ~shut /\ role = "leader"
    /\ role' = "follower" /\ reign' \in {reign, reign + 1} /\ reign' <= MaxReign
    /\ UNCHANGED <<born, announced, control, roster, host, running, link, follows, once, forced,
                   promoting, started, shut, served, upstream, heard, slipped>>

\* Mutant: the row of the leader that is gone stays.
InheritsAll(rows) == [rows EXCEPT !["self"] = "none"]

\* The roster continues without the rows of other leaders and this node's own.
Inherited(rows) ==
    [n \in Rows |-> IF n = "self" \/ rows[n] = "leader" THEN "none" ELSE rows[n]]

OwnRow(rows) == IF started THEN [rows EXCEPT !["self"] = "leader"] ELSE rows

\* Mutant: the receipts that were followed are not adopted.
LeadsWithoutReceipts ==
    LET facts == [control.facts EXCEPT !.rows = OwnRow(Inherited(@))] IN
    /\ control' = Promoted(facts)
    /\ follows' = SettledFollows
    /\ roster' = "live" /\ served' = {[s EXCEPT !.current = FALSE] : s \in served}
    /\ host' = [line |-> "live", index |-> {}]

BecomeLeader ==
    LET facts == [control.facts EXCEPT !.rows = OwnRow(Inherited(@))] IN
    /\ control' = Promoted(facts)
    /\ follows' = SettledFollows
    /\ roster' = "live" /\ served' = {[s EXCEPT !.current = FALSE] : s \in served}
    /\ host' = [line |-> "live", index |-> facts.receipts]

\* Mutant: the command host keeps the line of the reign that ended.
StandbyKeepsReceipts ==
    /\ roster' = "none" /\ UNCHANGED <<served, host>>
    /\ IF link > 0 /\ ~shut
       THEN Follow(link)
       ELSE control' = Released /\ UNCHANGED follows

BecomeStandby ==
    /\ roster' = "none" /\ UNCHANGED served
    /\ host' = [line |-> "none", index |-> {}]
    /\ IF link > 0 /\ ~shut
       THEN Follow(link)
       ELSE control' = Released /\ UNCHANGED follows

SyncRole ==
    LET next == IF Leading THEN "leader" ELSE "standby" IN
    IF (next = "leader") = (announced = "leader")
    THEN UNCHANGED lineVars
    ELSE /\ announced' = IF Leading THEN "leader" ELSE "follower"
         /\ IF Leading THEN BecomeLeader ELSE BecomeStandby
         /\ running' = {[x EXCEPT !.mine = FALSE] : x \in running}
         /\ slipped' = FALSE

\* The status store drains.
RoleDrained ==
    /\ ~shut /\ announced # role
    /\ SyncRole
    /\ UNCHANGED <<born, role, reign, link, once, forced, promoting, started, shut, upstream,
                   heard>>

\* An operator's promote: bypasses the first follow while any such call has not ended.
PromoteAsked ==
    /\ promoting = 0 /\ ~forced /\ role = "follower" /\ ~shut
    /\ promoting' = 1 /\ forced' = TRUE
    /\ UNCHANGED <<born, role, reign, announced, control, roster, host, running, link, follows,
                   once, started, shut, served, upstream, heard, slipped>>

\* It returns, elected or declined, or it throws.
PromoteReturns ==
    /\ promoting = 1 /\ promoting' = 0 /\ forced' = FALSE
    /\ SyncRole \/ UNCHANGED lineVars
    /\ UNCHANGED <<born, role, reign, link, once, started, shut, upstream, heard>>

-----------------------------------------------------------------------------
(* What the authority serves *)

Start ==
    /\ ~shut /\ ~started /\ started' = TRUE
    /\ IF Leading
       THEN /\ control' = IF roster = "live"
                          THEN [control EXCEPT !.facts.rows["self"] = "leader"] ELSE control
            /\ UNCHANGED upstream
       ELSE /\ IF link > 0 THEN AnnouncesStandby ELSE UNCHANGED upstream
            /\ UNCHANGED control
    /\ slipped' = (slipped \/ (~Leading /\ announced = "leader"))
    /\ UNCHANGED <<born, role, reign, announced, roster, host, running, link, follows, once,
                   forced, promoting, shut, served, heard>>

\* Written to whichever store the control line shows.
Revoke(c) ==
    /\ Leading
    /\ control' = [control EXCEPT !.facts.denied = @ \cup {c}]
    /\ UNCHANGED <<born, role, reign, announced, roster, host, running, link, follows, once,
                   forced, promoting, started, shut, served, upstream, heard, slipped>>

Login(c) ==
    /\ Leading /\ c \in control.facts.denied
    /\ control' = [control EXCEPT !.facts.denied = @ \ {c}]
    /\ UNCHANGED <<born, role, reign, announced, roster, host, running, link, follows, once,
                   forced, promoting, started, shut, served, upstream, heard, slipped>>

Answers(k) == k \in host.index \/ [key |-> k, mine |-> TRUE] \in running

\* Admitted here, and neither answered from a receipt nor in flight.
Execute(k) ==
    /\ Leading /\ ~Answers(k)
    /\ running' = running \cup {[key |-> k, mine |-> TRUE]}
    /\ UNCHANGED <<born, role, reign, announced, control, roster, host, link, follows, once,
                   forced, promoting, started, shut, served, upstream, heard, slipped>>

\* A command commits, or fails; only the index it was reserved in may change.
CommandEnds ==
    \E x \in running :
        /\ running' = running \ {x}
        /\ \/ UNCHANGED <<host, control>>
           \/ /\ x.mine /\ ~shut
              /\ host' = [host EXCEPT !.index = @ \cup {x.key}]
              /\ control' = IF host.line = "live"
                            THEN [control EXCEPT !.facts.receipts = @ \cup {x.key}] ELSE control
        /\ UNCHANGED <<born, role, reign, announced, roster, link, follows, once, forced,
                       promoting, started, shut, served, upstream, heard, slipped>>

\* A node link belongs to the roster and the epoch it was served in.
ServeLink ==
    /\ Leading /\ roster # "none" /\ control.kind = "owner"
    /\ Cardinality(served) < MaxServed
    /\ served' = served \cup {[current |-> TRUE, epoch |-> reign]}
    /\ UNCHANGED <<born, role, reign, announced, control, roster, host, running, link, follows,
                   once, forced, promoting, started, shut, upstream, heard, slipped>>

\* Mutant: a link asks for its roster only, not for its epoch.
LinkOfRoster(s) == Leading /\ roster # "none" /\ s.current

LinkAccepted(s) == Leading /\ roster # "none" /\ s.current /\ s.epoch = reign

\* A node registers its row over a link, or says goodbye.
LinkWrites(s) ==
    /\ LinkAccepted(s)
    /\ \E row \in {"none", "mirror"} :
          control' = IF roster = "live"
                     THEN [control EXCEPT !.facts.rows["mirror"] = row] ELSE control
    /\ UNCHANGED <<born, role, reign, announced, roster, host, running, link, follows, once,
                   forced, promoting, started, shut, served, upstream, heard, slipped>>

Close ==
    /\ ~shut /\ shut' = TRUE
    /\ roster' = "none"
    /\ host' = [host EXCEPT !.line = "none", !.index = {}]
    /\ control' = [control EXCEPT !.kind = "idle", !.health = "none"]
    /\ follows' = SettledFollows
    /\ UNCHANGED <<born, role, reign, announced, running, link, once, forced, promoting,
                   started, served, upstream, heard, slipped>>

Next ==
    \/ Hears \/ FollowedEnds \/ Resolve \/ FollowSettles \/ UpstreamWrites
    \/ Elected \/ Demoted \/ RoleDrained \/ PromoteAsked \/ PromoteReturns
    \/ Start \/ CommandEnds \/ ServeLink \/ Close
    \/ \E c \in Clients : Revoke(c) \/ Login(c)
    \/ \E k \in Keys : Execute(k)
    \/ \E s \in served : LinkWrites(s)

Spec == Init /\ [][Next]_scaleVars

-----------------------------------------------------------------------------
TypeOK ==
    /\ born \in BOOLEAN /\ role \in {"leader", "follower"} /\ announced \in {"leader", "follower"}
    /\ reign \in 0..MaxReign /\ link \in 0..MaxLinks /\ promoting \in 0..1
    /\ control \in [kind : {"owner", "follower", "idle"},
                    health : {"none", "catching", "live", "closed"}, facts : Facts]
    /\ roster \in {"none", "live", "stale"}
    /\ host \in [line : {"none", "live", "stale"}, index : SUBSET Keys]
    /\ running \subseteq [key : Keys, mine : BOOLEAN]
    /\ follows \subseteq [link : 1..MaxLinks, settled : BOOLEAN]
    /\ served \subseteq [current : BOOLEAN, epoch : Nat]
    /\ upstream \in Facts
    /\ {once, forced, started, shut, heard, slipped} \subseteq BOOLEAN

\* Once the role has been acted upon, the line is owned exactly by the leader, and the
\* roster and the receipts are facets of that line, not of one that was let go.  Excepted
\* is the leader that slipped: it let its line go, or was started, in a demotion it never
\* acted upon (scale-authority.ts:404-441).
OwnerIsWhole ==
    announced = role /\ ~shut /\ ~slipped =>
        /\ (control.kind = "owner") = Leading
        /\ roster = IF Leading THEN "live" ELSE "none"
        /\ host.line = IF Leading THEN "live" ELSE "none"
        /\ Leading => control.facts.receipts = host.index

\* An owned roster names no other leader than the process that owns it, also when the line
\* came from a leader that named itself (scale-authority.ts:411-416, 450-458).
OneLeaderRow ==
    announced = "leader" /\ role = "leader" /\ ~shut /\ ~slipped =>
        /\ \A n \in Rows \ {"self"} : control.facts.rows[n] # "leader"
        /\ started => control.facts.rows["self"] = "leader"

\* What was denied stays denied through every change of hands, until a login lifts it or
\* the line of another authority says so (scale-control.ts:78-130).
DenialsSurvive ==
    [][\A c \in control.facts.denied \ control'.facts.denied :
            Login(c) \/ (control.kind = "follower" /\ control'.facts.denied = upstream.denied)]_scaleVars

\* A standby leads first after a followed line delivered or ended, or by an operator's word
\* (scale-authority.ts:190-212).
LeadsAfterFollowing ==
    [][role = "follower" /\ role' = "leader" => born \/ heard \/ forced]_scaleVars

\* A node link never writes to a roster of another reign (scale-authority.ts:496-511).
LinksAreOfThisReign ==
    [][\A n \in {"mirror"} :
          control'.facts.rows[n] # control.facts.rows[n] /\ control'.kind = "owner" /\ control.kind = "owner"
            => \/ announced' # announced
               \/ \E s \in served : s.epoch = reign /\ s.current]_scaleVars

\* A receipt on the line is answered, not executed again, by a leader that has acted
\* upon its role (scale-authority.ts:277-283, command-host.ts:199-215).
ReceiptsAnswer ==
    [][\A k \in Keys :
          Execute(k) /\ announced = "leader" /\ ~slipped => k \notin control.facts.receipts]_scaleVars

\* What src/doc/SCALE-SAFETY.md:81 says: delivered and retained receipts deduplicate on the
\* successor.
DeliveredReceiptsDeduplicate ==
    [][\A k \in Keys : Execute(k) => k \notin control.facts.receipts]_scaleVars
=============================================================================
