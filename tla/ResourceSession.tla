--------------------------- MODULE ResourceSession ---------------------------
(***************************************************************************)
(* The resources one verified transport has opened                         *)
(* (src/service/resource-session.ts, resource-budget.ts).  A resource      *)
(* belongs to the account and the rights it was opened under: when either  *)
(* changes, or the identity expires, its scope is closed at once and its   *)
(* handle, which may still be on its way, is closed later and once.        *)
(* Opening, closing and what a caller waits for all have time limits.      *)
(***************************************************************************)
EXTENDS Integers, Sequences, FiniteSets

CONSTANTS
    Owners,          \* accounts
    MaxOpens,        \* bound on resources
    MaxTurns         \* bound on changes of identity and rights

SessionAssumption == MaxOpens \in Nat /\ MaxTurns \in Nat

VARIABLES
    who,             \* the verified identity, or NoOwner
    expired,         \* its expiry has passed
    signature,       \* account and rights of the last refresh
    rights,          \* outside: the accounts that have the role the registry asks for
    resources,       \* every entry there was, in the order of opening
    terminal,        \* close was called
    awaited,         \* the cleanups close waits for
    closing,         \* "no", "waiting", "resolved", "rejected"
    turns

vars == <<who, expired, signature, rights, resources, terminal, awaited, closing, turns>>

NoOwner == "nobody"
Nothing == [account |-> NoOwner, allowed |-> FALSE]

\* principalOf, and the projection of it that refresh compares.
SignatureOf(w, r) == [account |-> w, allowed |-> w \in r]

Init ==
    /\ who = NoOwner /\ expired = FALSE /\ signature = Nothing
    /\ rights \in SUBSET Owners
    /\ resources = <<>> /\ terminal = FALSE /\ awaited = {} /\ closing = "no" /\ turns = 0

Listed(rs) == {i \in DOMAIN rs : rs[i].listed}
Waiting(rs) == {i \in DOMAIN rs : rs[i].completion = "waiting"}

\* close of an entry: admission and delivery end here, the handle is released when the
\* factory has given it.
Shut(r) ==
    IF r.completion # "no" THEN r
    ELSE [r EXCEPT !.listed = FALSE, !.exposed = FALSE, !.completion = "waiting",
                   !.disposal = IF r.factory = "given" /\ @ = "no" THEN "asked" ELSE @]
Active(r) == r.completion = "no"

ShutAt(rs, S) == [i \in DOMAIN rs |-> IF i \in S THEN Shut(rs[i]) ELSE rs[i]]

\* Mutant: the resources outlive the rights they were opened under.
RefreshedFacts(w, e, rs, r) ==
    LET now == IF e THEN NoOwner ELSE w IN
    [who |-> now, signature |-> SignatureOf(now, r), resources |-> rs]

\* refresh, with the suspend of an identity that has expired.
Refreshed(w, e, rs, r) ==
    LET now == IF e THEN NoOwner ELSE w
        next == SignatureOf(now, r)
    IN [who |-> now, signature |-> next,
        resources |-> IF next = signature THEN rs ELSE ShutAt(rs, Listed(rs))]

\* A refresh for identity w over the entries rs; a closed session ignores it.
Refresh(w, e, rs) ==
    IF terminal THEN /\ resources' = rs /\ UNCHANGED <<who, expired, signature>>
    ELSE LET f == Refreshed(w, e, rs, rights) IN
         /\ who' = f.who /\ signature' = f.signature /\ resources' = f.resources
         /\ expired' = (e /\ f.who # NoOwner)

-----------------------------------------------------------------------------
(* Identity and rights *)

\* update, which gives the identity a new expiry.
Update(a) ==
    /\ ~terminal /\ turns < MaxTurns /\ turns' = turns + 1
    /\ Refresh(a, FALSE, resources)
    /\ UNCHANGED <<rights, terminal, awaited, closing>>

\* suspend, by the owner or by the deadline.
Suspend ==
    /\ who # NoOwner
    /\ IF terminal THEN who' = NoOwner /\ UNCHANGED <<expired, signature, resources>>
       ELSE Refresh(NoOwner, FALSE, resources)
    /\ UNCHANGED <<rights, terminal, awaited, closing, turns>>

\* The expiry passes; the deadline that fires suspend may be late.
Expires ==
    /\ who # NoOwner /\ ~expired /\ expired' = TRUE
    /\ UNCHANGED <<who, signature, rights, resources, terminal, awaited, closing, turns>>

\* An account gains or loses the role, before anyone is told.
RightsChange(a) ==
    /\ turns < MaxTurns /\ turns' = turns + 1
    /\ rights' = IF a \in rights THEN rights \ {a} ELSE rights \cup {a}
    /\ UNCHANGED <<who, expired, signature, resources, terminal, awaited, closing>>

\* The owner tells, or anything is asked of the session: state, ready, a call to an
\* instance.
Refreshes ==
    /\ ~terminal /\ Refresh(who, expired, resources)
    /\ UNCHANGED <<rights, terminal, awaited, closing, turns>>

-----------------------------------------------------------------------------
(* Resources *)

NewResource(s) ==
    [owner |-> s, listed |-> TRUE, exposed |-> FALSE, factory |-> "asked",
     ready |-> "waiting", completion |-> "no", disposal |-> "no", releases |-> 0]

\* open, after its refresh.
Open ==
    /\ ~terminal /\ Len(resources) < MaxOpens
    /\ LET f == Refreshed(who, expired, resources, rights) IN
       /\ f.signature.allowed
       /\ who' = f.who /\ signature' = f.signature /\ expired' = (expired /\ f.who # NoOwner)
       /\ resources' = Append(f.resources, NewResource(f.signature))
    /\ UNCHANGED <<rights, terminal, awaited, closing, turns>>

\* close of one resource by the caller.
CloseOne(i) ==
    /\ resources[i].listed
    /\ resources' = ShutAt(resources, {i})
    /\ UNCHANGED <<who, expired, signature, rights, terminal, awaited, closing, turns>>

Step(i, r) ==
    /\ resources' = [resources EXCEPT ![i] = r]
    /\ UNCHANGED <<who, expired, signature, rights, terminal, awaited, closing, turns>>

\* allocate: the registry is asked unless the scope is closed by then.
Allocates(i) ==
    /\ resources[i].factory = "asked"
    /\ Step(i, [resources[i] EXCEPT !.factory = IF Active(resources[i]) THEN "opening" ELSE "none"])

OpenRejects(i) ==
    /\ resources[i].factory = "opening"
    /\ Step(i, [resources[i] EXCEPT !.factory = "none"])

\* Mutant: a handle that comes too late stays open.
LateHandle(i) ==
    /\ resources[i].factory = "opening"
    /\ Step(i, [resources[i] EXCEPT !.factory = "given"])

\* allocated: a handle that comes too late is disposed of at once.
OpenReturns(i) ==
    /\ resources[i].factory = "opening"
    /\ Step(i, [resources[i] EXCEPT !.factory = "given",
                !.disposal = IF ~Active(resources[i]) /\ @ = "no" THEN "asked" ELSE @])

\* expose: the rights are looked at again before the instance is reachable.
Expose(i) ==
    LET r == resources[i]
        f == IF terminal THEN [who |-> who, signature |-> signature, resources |-> resources]
             ELSE Refreshed(who, expired, resources, rights)
        mine == f.resources[i]
    IN /\ r.ready = "waiting" /\ r.factory = "given"
       /\ who' = f.who /\ signature' = f.signature /\ expired' = (expired /\ f.who # NoOwner)
       /\ resources' = [f.resources EXCEPT ![i] =
            IF Active(mine) THEN [mine EXCEPT !.ready = "exposed", !.exposed = TRUE]
            ELSE [mine EXCEPT !.ready = "failed"]]
       /\ UNCHANGED <<rights, terminal, awaited, closing, turns>>

\* The factory failed or gave no resource, the scope was closed, or the time is up.
ReadyFails(i) ==
    /\ resources[i].ready = "waiting"
    /\ Step(i, [Shut(resources[i]) EXCEPT !.ready = "failed"])

\* dispose calls the close of the handle, in a microtask.
Releases(i) ==
    /\ resources[i].disposal = "asked"
    /\ Step(i, [resources[i] EXCEPT !.disposal = "closing", !.releases = @ + 1])

\* It ends, fails, or takes too long.
Released(i, end) ==
    /\ resources[i].disposal = "closing"
    /\ Step(i, [resources[i] EXCEPT !.disposal = end])

\* What close promised: nothing was opened, the handle is closed, or nobody knows.
Completes(i) ==
    LET r == resources[i] IN
    /\ r.completion = "waiting"
    /\ \/ r.factory = "none" /\ Step(i, [r EXCEPT !.completion = "done"])
       \/ r.disposal = "closed" /\ Step(i, [r EXCEPT !.completion = "done"])
       \/ r.disposal = "failed" /\ Step(i, [r EXCEPT !.completion = "failed"])

\* The time limit of the close, with the factory or the handle still busy.
CompletionTimesOut(i) ==
    /\ resources[i].completion = "waiting"
    /\ resources[i].factory # "none" /\ resources[i].disposal \notin {"closed", "failed"}
    /\ Step(i, [resources[i] EXCEPT !.completion = "failed"])

-----------------------------------------------------------------------------
(* The session *)

\* Mutant: only the resources listed last are waited for.
CloseForgets ==
    /\ ~terminal /\ terminal' = TRUE /\ closing' = "waiting"
    /\ resources' = ShutAt(resources, Listed(resources))
    /\ awaited' = Listed(resources)
    /\ UNCHANGED <<who, expired, signature, rights, turns>>

\* close: everything listed is closed, and what is being cleaned up is waited for.
Close ==
    /\ ~terminal /\ terminal' = TRUE /\ closing' = "waiting"
    /\ resources' = ShutAt(resources, Listed(resources))
    /\ awaited' = Waiting(resources')
    /\ UNCHANGED <<who, expired, signature, rights, turns>>

Closed ==
    /\ closing = "waiting" /\ awaited \cap Waiting(resources) = {}
    /\ closing' = IF \E i \in awaited : resources[i].completion = "failed"
                  THEN "rejected" ELSE "resolved"
    /\ UNCHANGED <<who, expired, signature, rights, resources, terminal, awaited, turns>>

Resource(i) ==
    \/ CloseOne(i) \/ Allocates(i) \/ OpenRejects(i) \/ OpenReturns(i) \/ Expose(i)
    \/ ReadyFails(i) \/ Releases(i) \/ Completes(i) \/ CompletionTimesOut(i)
    \/ \E end \in {"closed", "failed"} : Released(i, end)

\* What happens without the caller: the tasks of the session and its time limits.
Progress ==
    \/ Closed
    \/ \E i \in DOMAIN resources :
        Allocates(i) \/ Releases(i) \/ Completes(i) \/ CompletionTimesOut(i)

Next ==
    \/ \E a \in Owners : Update(a) \/ RightsChange(a)
    \/ Suspend \/ Expires \/ Refreshes \/ Open \/ Close \/ Closed
    \/ \E i \in DOMAIN resources : Resource(i)

Spec == Init /\ [][Next]_vars /\ WF_vars(Progress)

-----------------------------------------------------------------------------
(* Properties *)

\* The types, what is exposed is listed, and what is listed is active.
TypeOK ==
    /\ who \in Owners \cup {NoOwner} /\ expired \in BOOLEAN /\ terminal \in BOOLEAN
    /\ \A i \in DOMAIN resources :
        /\ resources[i].exposed => resources[i].listed /\ resources[i].factory = "given"
        /\ resources[i].listed => Active(resources[i])
        /\ resources[i].releases \in 0..1

\* What can be called was opened by the account and under the rights of now, as the
\* session knows them; a closed session has nothing to call.
ListedAreCurrent ==
    \A i \in Listed(resources) :
        resources[i].owner = signature /\ signature.allowed /\ ~terminal

\* A session that reports a clean close holds nothing: every handle that was given to it
\* has been closed, also those of resources invalidated long before, unless their own
\* time limit had given them up by then.
SettledMeansGone ==
    closing = "resolved" =>
        \A i \in DOMAIN resources :
            \/ resources[i].factory = "none" \/ resources[i].disposal = "closed"
            \/ resources[i].completion = "failed" /\ i \notin awaited

\* Every close of the session comes to an end, and no handle is kept for a resource that
\* was closed before it came.
Settled ==
    /\ terminal => closing # "waiting"
    /\ \A i \in DOMAIN resources :
        resources[i].factory = "given" /\ ~Active(resources[i]) => resources[i].releases = 1
CloseSettles == []<>Settled
=============================================================================
