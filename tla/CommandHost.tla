---------------------------- MODULE CommandHost ----------------------------
(***************************************************************************)
(* The command host (src/Common/command/command-host.ts): the one point at *)
(* which commands are ordered, and the receipts that let a client retry.   *)
(* A command runs once per (account, request) as long as its receipt is    *)
(* retained; receipts expire, are bounded per account and in total, and the*)
(* committed ones are published on a line, from which a restarted host or a*)
(* successor rebuilds its index.                                           *)
(*                                                                         *)
(* User code is called synchronously, so it may call the host again before *)
(* its own call returns: the runs that are on the stack are `entered`.     *)
(* A result is abstracted to the number of the execution that produced it. *)
(***************************************************************************)
EXTENDS Integers, FiniteSets, SequencesExt

CONSTANTS
    Accounts, Requests,
    KeepMs,          \* how long a committed receipt answers duplicates
    Bounds,          \* the bounds a host may have: receipts of one account, of all
    MaxNow,          \* bound on the clock
    MaxRuns,         \* bound on the executions
    MaxDepth         \* bound on re-entrant calls

CommandAssumption ==
    /\ IsFiniteSet(Accounts) /\ IsFiniteSet(Requests)
    /\ KeepMs \in Nat \ {0}
    /\ Bounds \subseteq [perAccount : Nat \ {0}, total : Nat \ {0}]
    /\ MaxNow \in Nat /\ MaxRuns \in Nat /\ MaxDepth \in Nat \ {0}

VARIABLES
    bounds,      \* maxPerAccount and maxTotal
    now,
    order,       \* accounts, in the insertion order of the Map
    receipts,    \* the receipts of all accounts, each with its place `at` among the inserted
    total,       \* totalReceipts
    attached,    \* the host has a line to publish on
    line,        \* the committed receipts on the line; it survives the host
    running,     \* executions whose command has not settled
    entered,     \* those whose command is on the call stack, innermost last
    runs,        \* executions so far
    closed,
    published    \* history: every receipt that was ever published

indexVars == <<order, receipts, total>>
vars == <<bounds, now, indexVars, attached, line, running, entered, runs, closed, published>>

\* What has been adopted was inserted before anything this host executes.
Receipt == [account : Accounts, req : Requests, ts : Nat, run : Nat, pending : BOOLEAN, at : Int]
Record == [account : Accounts, req : Requests, ts : Nat, run : Nat]
Run == [id : Nat, account : Accounts, req : Requests]

MaxPerAccount == bounds.perAccount
MaxTotal == bounds.total

Init ==
    /\ bounds \in Bounds
    /\ now = 0
    /\ order = <<>> /\ receipts = {} /\ total = 0
    /\ attached = TRUE /\ line = {}
    /\ running = {} /\ entered = <<>> /\ runs = 0 /\ closed = FALSE
    /\ published = {}

-----------------------------------------------------------------------------
(* The index: what execute and adopt do to it *)

Without(accounts, a) ==
    IF a \in ToSet(accounts)
    THEN RemoveAt(accounts, CHOOSE i \in DOMAIN accounts : accounts[i] = a) ELSE accounts

ToEnd(accounts, a) == Append(Without(accounts, a), a)

Same(e, f) == e.account = f.account /\ e.req = f.req

Has(a, r) == \E e \in receipts : e.account = a /\ e.req = r

\* accounts.get(account) == receipts && receipts.get(requestId) == receipt
Owns(x) == ~closed /\ \E e \in receipts : e.account = x.account /\ e.run = x.id

Index(o, rs, n) == [order |-> o, receipts |-> rs, total |-> n]

Of(s, a) == {e \in s.receipts : e.account = a}
Committed(s, a) == {e \in Of(s, a) : ~e.pending}

Drop(s, out) == Index(s.order, s.receipts \ out, s.total - Cardinality(out))

Ordered(s, o) == Index(o, s.receipts, s.total)
DropAccount(s, a) == Ordered(Drop(s, Of(s, a)), Without(s.order, a))

Expired(e) == ~e.pending /\ e.ts <= now - KeepMs

\* sweep: from the oldest on, a committed receipt leaves while it is expired or
\* the account has too many; the first one that may stay ends it.
Swept(s, a) ==
    LET Before(f) == {e \in Committed(s, a) : e.at < f.at}
        Leaves(f) ==
            Expired(f) \/ Cardinality(Of(s, a)) - Cardinality(Before(f)) > MaxPerAccount
    IN  {e \in Committed(s, a) : \A f \in Before(e) \cup {e} : Leaves(f)}

Sweep(s, a) == Drop(s, Swept(s, a))
SweepAll(s) == Drop(s, UNION {Swept(s, a) : a \in ToSet(s.order)})

\* compact, first loop: accounts of which nothing is retained, from the front on.
DrainDeparted(s) ==
    LET Departed(a) == \A e \in Of(s, a) : Expired(e)
        front == {i \in DOMAIN s.order : \A j \in 1..i : Departed(s.order[j])}
        gone == {e \in s.receipts : \E i \in front : s.order[i] = e.account}
    IN  Ordered(Drop(s, gone), SubSeq(s.order, Cardinality(front) + 1, Len(s.order)))

Oldest(es) == {e \in es : \A f \in es : e.at <= f.at}

\* Mutant: the first receipt is evicted, be its run in flight.
EvictAny(s) ==
    IF s.total <= MaxTotal \/ s.order = <<>> THEN s
    ELSE LET a == Head(s.order)
             t == Drop(s, Oldest(Of(s, a)))
         IN  IF Of(t, a) = {} THEN DropAccount(t, a) ELSE t

\* Mutant: an account with nothing to evict stays the first.
EvictWithoutRotation(s) ==
    IF s.total <= MaxTotal \/ s.order = <<>> THEN s
    ELSE LET a == Head(s.order)
             t == Drop(s, Oldest(Committed(s, a)))
         IN  IF Of(t, a) = {} THEN DropAccount(t, a) ELSE t

\* One turn of its second loop, at the first account: evict its oldest committed
\* receipt; an account that has none is put at the end.
EvictOnce(s) ==
    IF s.total <= MaxTotal \/ s.order = <<>> THEN s
    ELSE LET a == Head(s.order)
             t == Drop(s, Oldest(Committed(s, a)))
         IN  IF Of(t, a) = {} THEN DropAccount(t, a)
             ELSE IF Committed(s, a) = {} THEN Ordered(t, ToEnd(t.order, a))
             ELSE t

Compact(s) ==
    LET drained == DrainDeparted(s)
        guard == Len(drained.order) + drained.total
        after[n \in 0..guard] == IF n = 0 THEN drained ELSE EvictOnce(after[n - 1])
    IN  after[guard]

Become(s) == order' = s.order /\ receipts' = s.receipts /\ total' = s.total

\* The line without the receipts that have left the index.
Unpublished(out) == {l \in line : ~\E e \in out : Same(e, l)}

Cleared == Index(<<>>, {}, 0)

-----------------------------------------------------------------------------
(* The calls *)

Callable == ~closed /\ Len(entered) < MaxDepth

\* execute: a request that has no receipt reserves one and enters user code.
Reserve(a, r) ==
    /\ Callable /\ runs < MaxRuns /\ ~Has(a, r)
    /\ LET x == [id |-> runs + 1, account |-> a, req |-> r]
           e == [account |-> a, req |-> r, ts |-> now, run |-> runs + 1, pending |-> TRUE,
                 at |-> runs + 1]
       IN  /\ receipts' = receipts \cup {e}
           /\ running' = running \cup {x}
           /\ entered' = Append(entered, x)
    /\ order' = ToEnd(order, a)
    /\ total' = total + 1 /\ runs' = runs + 1
    /\ UNCHANGED <<now, attached, line, closed, published>>

\* ... or is rejected by the rate limit, leaving no empty account behind ...
RateLimited(a, r) ==
    /\ Callable /\ ~Has(a, r)
    /\ order' = IF \E e \in receipts : e.account = a THEN ToEnd(order, a) ELSE Without(order, a)
    /\ UNCHANGED <<now, receipts, total, attached, line, running, entered, runs, closed,
                   published>>

\* ... and a duplicate is answered from the receipt, or shares the run.
Duplicate(a, r) ==
    /\ Callable /\ Has(a, r)
    /\ order' = ToEnd(order, a)
    /\ UNCHANGED <<now, receipts, total, attached, line, running, entered, runs, closed,
                   published>>

\* The command has returned its promise: the bounds are enforced.
Entered ==
    /\ entered # <<>>
    /\ entered' = Front(entered)
    /\ LET x == Last(entered)
           s == Compact(Sweep(Index(order, receipts, total), x.account))
       IN  IF Owns(x)
           THEN /\ Become(s)
                /\ line' = IF attached THEN Unpublished(receipts \ s.receipts) ELSE line
           ELSE UNCHANGED <<indexVars, line>>
    /\ UNCHANGED <<now, attached, running, runs, closed, published>>

\* The command resolves: the receipt is committed and, if it is still in the
\* index of a host that has a line, published.
Commit(x) ==
    /\ entered = <<>> /\ x \in running
    /\ running' = running \ {x}
    /\ LET rec == [account |-> x.account, req |-> x.req, ts |-> now, run |-> x.id]
           done(e) == IF e.run = x.id THEN [e EXCEPT !.pending = FALSE, !.ts = now] ELSE e
       IN  /\ receipts' = {done(e) : e \in receipts}
           /\ IF attached /\ Owns(x)
              THEN /\ line' = {l \in line : ~Same(l, rec)} \cup {rec}
                   /\ published' = published \cup {rec}
              ELSE UNCHANGED <<line, published>>
    /\ UNCHANGED <<now, order, total, attached, entered, runs, closed>>

\* Mutant: a failure is counted although the receipt is gone.
FailUnowned(x) ==
    /\ entered = <<>> /\ x \in running
    /\ running' = running \ {x}
    /\ receipts' = {e \in receipts : e.run # x.id}
    /\ total' = total - 1
    /\ UNCHANGED <<now, order, attached, line, entered, runs, closed, published>>

\* The command rejects: nothing is remembered.
Fail(x) ==
    /\ entered = <<>> /\ x \in running
    /\ running' = running \ {x}
    /\ IF Owns(x)
       THEN receipts' = {e \in receipts : e.run # x.id} /\ total' = total - 1
       ELSE UNCHANGED <<receipts, total>>
    /\ UNCHANGED <<now, order, attached, line, entered, runs, closed, published>>

Tick ==
    /\ now < MaxNow
    /\ now' = now + 1
    /\ UNCHANGED <<indexVars, attached, line, running, entered, runs, closed, published>>

-----------------------------------------------------------------------------
(* The line *)

\* Mutant: stepping down drops the receipts one by one, from the line as well.
DetachAndDrop ==
    /\ attached' = FALSE
    /\ Become(Cleared) /\ line' = IF attached THEN {} ELSE line
    /\ UNCHANGED <<now, running, entered, runs, closed, published>>

\* adopt(null): the host steps down; runs in flight go on without a receipt.
Detach ==
    /\ attached' = FALSE
    /\ Become(Cleared)
    /\ UNCHANGED <<now, line, running, entered, runs, closed, published>>

\* While this host is detached another one executes and publishes.
OtherCommits(a, r) ==
    /\ ~attached /\ entered = <<>> /\ runs < MaxRuns
    /\ ~\E l \in line : l.account = a /\ l.req = r
    /\ LET rec == [account |-> a, req |-> r, ts |-> now, run |-> runs + 1]
       IN  line' = line \cup {rec} /\ published' = published \cup {rec}
    /\ runs' = runs + 1
    /\ UNCHANGED <<now, indexVars, attached, running, entered, closed>>

\* The places of the records of the line: the oldest commit first (ties in any order).
ByCommitTime ==
    {at \in [line -> (1 - Cardinality(line))..0] :
        \A l, m \in line : l # m => at[l] # at[m] /\ (l.ts < m.ts => at[l] < at[m])}

\* The accounts on the line, by the last of their records.
ByLastUse(at) ==
    LET users == {l.account : l \in line}
        LaterThan(a, b) == \E l \in line : /\ l.account = a
                                          /\ \A m \in line : m.account = b => at[m] < at[l]
    IN  {o \in [1..Cardinality(users) -> users] :
            \A i, j \in DOMAIN o : i < j => LaterThan(o[j], o[i])}

\* The index that is rebuilt of the line, before the bounds are enforced.
Rebuilt(at, o) ==
    Index(o, {[account |-> l.account, req |-> l.req, ts |-> l.ts, run |-> l.run,
               pending |-> FALSE, at |-> at[l]] : l \in line},
          Cardinality(line))

\* Mutant: the bounds are enforced before the line is attached.
AdoptThenAttach ==
    /\ ~attached
    /\ attached' = TRUE
    /\ \E at \in ByCommitTime : \E o \in ByLastUse(at) :
        Become(Compact(SweepAll(Rebuilt(at, o))))
    /\ UNCHANGED <<now, line, running, entered, runs, closed, published>>

\* adopt(line): the index is rebuilt, and the bounds hold on the line too.
Adopt ==
    /\ ~attached
    /\ attached' = TRUE
    /\ \E at \in ByCommitTime : \E o \in ByLastUse(at) :
        LET built == Rebuilt(at, o)
            s == Compact(SweepAll(built))
        IN  Become(s) /\ line' = Unpublished(built.receipts \ s.receipts)
    /\ UNCHANGED <<now, running, entered, runs, closed, published>>

\* The process dies; the line is all that is left.
Crash ==
    /\ attached' = FALSE /\ closed' = FALSE
    /\ Become(Cleared)
    /\ running' = {} /\ entered' = <<>>
    /\ UNCHANGED <<now, line, runs, published>>

Close ==
    /\ ~closed
    /\ closed' = TRUE
    /\ Become(Cleared)
    /\ UNCHANGED <<now, attached, line, running, entered, runs, published>>

Step ==
    \/ \E a \in Accounts, r \in Requests :
        Reserve(a, r) \/ RateLimited(a, r) \/ Duplicate(a, r) \/ OtherCommits(a, r)
    \/ Entered
    \/ \E x \in running : Commit(x) \/ Fail(x)
    \/ Tick
    \/ Detach \/ Adopt \/ Crash \/ Close

Next == Step /\ UNCHANGED bounds

Spec == Init /\ [][Next]_vars

-----------------------------------------------------------------------------
(* Properties *)

\* The host's state is what its declarations say, with one receipt for a request,
\* every account that has receipts in the order, and the total their number.
TypeOK ==
    /\ bounds \in Bounds /\ now \in 0..MaxNow /\ runs \in 0..MaxRuns
    /\ order \in Seq(Accounts) /\ IsInjective(order)
    /\ receipts \subseteq Receipt /\ total = Cardinality(receipts)
    /\ \A e \in receipts : e.account \in ToSet(order)
    /\ \A e, f \in receipts : Same(e, f) => e = f
    /\ line \subseteq Record /\ published \subseteq Record
    /\ running \subseteq Run /\ entered \in Seq(Run)
    /\ attached \in BOOLEAN /\ closed \in BOOLEAN

Recorded ==
    {[account |-> e.account, req |-> e.req, ts |-> e.ts, run |-> e.run] :
        e \in {e \in receipts : ~e.pending}}

\* The line is the index: what a successor would answer from the line is exactly
\* what this host would answer, through expiry, eviction, failures, adoption and
\* the late commits of runs whose receipt is gone (command-host.ts:245-249).
LineIsIndex == attached /\ ~closed => line = Recorded

\* At most once: a request whose commit is on record, here or by the host before
\* this one, is not executed again while its receipt is kept, whatever restarts
\* and changes of hand there were in between. It is stated for bounds that evict
\* nothing (command-host.ts:199-215, 270-290).
EvictsNothing ==
    /\ MaxPerAccount >= Cardinality(Requests)
    /\ MaxTotal >= Cardinality(Requests) * Cardinality(Accounts)

AtMostOnce ==
    [][\A x \in running' \ running : attached /\ EvictsNothing =>
        ~\E p \in published :
            p.account = x.account /\ p.req = x.req /\ p.ts > now - KeepMs]_vars

\* Duplicates share the run: as long as the host keeps its index, a run in flight
\* keeps its receipt, which neither expiry nor any bound takes from it, so that a
\* second run of the request cannot start beside it (command-host.ts:136, 166).
InFlightKeepsItsReceipt ==
    [][\A x \in running :
        Owns(x) /\ x \in running' =>
            \/ order' = <<>> \/ attached' # attached \/ closed'
            \/ \E e \in receipts' : e.account = x.account /\ e.run = x.id]_vars

\* Nothing but runs in flight is kept beyond the bounds.
WithinTotal == total <= MaxTotal \/ \A e \in receipts : e.pending
WithinAccount(a) ==
    LET own == {e \in receipts : e.account = a}
    IN  Cardinality(own) <= MaxPerAccount \/ \A e \in own : e.pending

\* The bounds are restored: once a command has been entered, and when a line has
\* been adopted, only runs in flight stand beyond them. The eviction loop gives up
\* after a number of turns fixed before it starts: they have to be enough, with
\* accounts on the way that have nothing to evict (command-host.ts:160-177).
BoundsRestored ==
    [][ /\ (Len(entered') < Len(entered) /\ Owns(Last(entered))
                => WithinTotal' /\ \A a \in {Last(entered).account} : WithinAccount(a)')
        /\ (attached' /\ ~attached => WithinTotal' /\ \A a \in Accounts : WithinAccount(a)')]_vars
=============================================================================
