----------------------------- MODULE Reconciler -----------------------------
(***************************************************************************)
(* The worker that turns notifications into serial passes over a fresh     *)
(* snapshot (src/Common/async/reconciler.ts on createAsyncQueue(1) of      *)
(* waitRun.ts and a ResourceScope).  Notifications come at any moment, also*)
(* while a pass runs or its failure is reported; a pass may ask to be woken*)
(* under a key, may fail, and may be outlived by a close.                  *)
(***************************************************************************)
EXTENDS Integers, FiniteSets

CONSTANTS
    Keys,            \* the keys of retries
    MaxNews          \* bound on the notifications

ASSUME ReconcilerAssumption == MaxNews \in Nat

VARIABLES
    news,            \* notifications so far
    seen,            \* those that were there when the last snapshot was read
    excused,         \* those a failed pass or a cancelled retry has dropped
    pending, scheduled,
    waiting,         \* drains in the queue
    drain,           \* the active one: "none", "starting", "running" or "ending"
    timers,          \* the keys with a timer
    closed           \* "no", "closing" or "settled"

vars == <<news, seen, excused, pending, scheduled, waiting, drain, timers, closed>>

aborted == closed # "no"

Init ==
    /\ news = 0 /\ seen = 0 /\ excused = 0
    /\ pending = FALSE /\ scheduled = FALSE /\ waiting = 0 /\ drain = "none"
    /\ timers = {} /\ closed = "no"

\* Mutant: every notification queues a drain.
RequestAlways ==
    IF aborted THEN UNCHANGED <<pending, scheduled, waiting>>
    ELSE pending' = TRUE /\ scheduled' = TRUE /\ waiting' = waiting + 1

\* request.
Request ==
    IF aborted THEN UNCHANGED <<pending, scheduled, waiting>>
    ELSE pending' = TRUE /\ scheduled' = TRUE /\ waiting' = waiting + (IF scheduled THEN 0 ELSE 1)

Notify ==
    /\ news < MaxNews
    /\ news' = news + 1 /\ Request
    /\ UNCHANGED <<seen, excused, drain, timers, closed>>

\* Mutant: a timer is set whatever the state.
RetryAnyway(k) ==
    /\ timers' = timers \cup {k}
    /\ UNCHANGED <<news, seen, excused, pending, scheduled, waiting, drain, closed>>

\* retry, from a pass or from outside; a key that waits is not postponed.
Retry(k) ==
    /\ ~aborted /\ timers' = timers \cup {k}
    /\ UNCHANGED <<news, seen, excused, pending, scheduled, waiting, drain, closed>>

CancelRetry(k) ==
    /\ k \in timers /\ timers' = timers \ {k}
    /\ excused' = IF pending THEN excused ELSE news
    /\ UNCHANGED <<news, seen, pending, scheduled, waiting, drain, closed>>

\* Mutant: a timer that fires is only forgotten.
WakeNobody(k) ==
    /\ k \in timers /\ timers' = timers \ {k}
    /\ UNCHANGED <<news, seen, excused, pending, scheduled, waiting, drain, closed>>

Wake(k) ==
    /\ k \in timers /\ timers' = timers \ {k} /\ Request
    /\ UNCHANGED <<news, seen, excused, drain, closed>>

-----------------------------------------------------------------------------
(* The drain *)

\* The queue runs one drain at a time; it starts a microtask later.
Start ==
    /\ drain = "none" /\ waiting > 0
    /\ drain' = "starting" /\ waiting' = waiting - 1
    /\ UNCHANGED <<news, seen, excused, pending, scheduled, timers, closed>>

\* Mutant: the end of a drain does not look for what its observers asked.
FinallyQuiet(p) ==
    /\ drain' = "ending" /\ pending' = p /\ scheduled' = FALSE
    /\ UNCHANGED <<seen, waiting>>

\* The end of a drain, with p for what is still pending then.
Finally(p) ==
    /\ drain' = "ending" /\ pending' = p
    /\ scheduled' = (p /\ ~aborted)
    /\ waiting' = waiting + (IF p /\ ~aborted THEN 1 ELSE 0)
    /\ UNCHANGED seen

\* A fresh snapshot, or the end.
Loop ==
    IF pending /\ ~aborted
    THEN /\ drain' = "running" /\ pending' = FALSE /\ timers' = {} /\ seen' = news
         /\ UNCHANGED <<scheduled, waiting>>
    ELSE Finally(pending) /\ UNCHANGED timers

Read ==
    /\ drain = "starting" /\ Loop
    /\ UNCHANGED <<news, excused, closed>>

\* Mutant: what came in while the pass ran counts as seen.
PassEndsDeaf ==
    /\ drain = "running" /\ Finally(FALSE)
    /\ UNCHANGED <<news, excused, timers, closed>>

\* A pass that asked for a retry leaves its notifications to the timer.
PassEnds ==
    /\ drain = "running"
    /\ IF timers # {} THEN Finally(FALSE) /\ UNCHANGED timers ELSE Loop
    /\ UNCHANGED <<news, excused, closed>>

\* read or run throws.  An observer of the error may request or retry.
PassFails ==
    /\ drain = "running"
    /\ excused' = news
    /\ \/ Finally(FALSE) /\ UNCHANGED timers
       \/ ~aborted /\ Finally(TRUE) /\ UNCHANGED timers
       \/ ~aborted /\ Finally(FALSE) /\ \E k \in Keys : timers' = timers \cup {k}
    /\ UNCHANGED <<news, closed>>

\* The queue notices that its task is through.
TaskEnds ==
    /\ drain = "ending" /\ drain' = "none"
    /\ UNCHANGED <<news, seen, excused, pending, scheduled, waiting, timers, closed>>

idle == drain = "none" /\ waiting = 0

Close ==
    /\ closed = "no" /\ closed' = "closing"
    /\ pending' = FALSE /\ timers' = {}
    /\ UNCHANGED <<news, seen, excused, scheduled, waiting, drain>>

\* The scope has disposed of everything, the queue's onIdle included.
Settle ==
    /\ closed = "closing" /\ idle /\ closed' = "settled"
    /\ UNCHANGED <<news, seen, excused, pending, scheduled, waiting, drain, timers>>

Next ==
    \/ Notify \/ Start \/ Read \/ PassEnds \/ PassFails \/ TaskEnds \/ Close \/ Settle
    \/ \E k \in Keys : Retry(k) \/ CancelRetry(k) \/ Wake(k)

Spec == Init /\ [][Next]_vars

\* Passes end, timers fire.
Fairness ==
    /\ WF_vars(Start) /\ WF_vars(Read) /\ WF_vars(PassEnds \/ PassFails) /\ WF_vars(TaskEnds)
    /\ WF_vars(Settle) /\ \A k \in Keys : WF_vars(Wake(k))

FairSpec == Spec /\ Fairness

-----------------------------------------------------------------------------
(* Properties *)

\* Types; exactly when a drain is scheduled one waits in the queue or runs, never two;
\* and after the close has settled nothing is left that could start a pass.
TypeOK ==
    /\ news \in Nat /\ seen \in 0..news /\ excused \in 0..news
    /\ {pending, scheduled} \subseteq BOOLEAN /\ timers \subseteq Keys /\ waiting \in Nat
    /\ drain \in {"none", "starting", "running", "ending"}
    /\ closed \in {"no", "closing", "settled"}
    /\ waiting + (IF drain \in {"starting", "running"} THEN 1 ELSE 0) = (IF scheduled THEN 1 ELSE 0)
    /\ aborted => timers = {} /\ ~pending
    /\ closed = "settled" => idle

\* A notification that no snapshot has shown is pending, or left to a timer, whatever
\* came between; only a pass that failed, a cancelled retry and a close drop it.  And
\* whoever waits for idle() has waited for everything that was requested.
NothingUnheard ==
    /\ (~aborted /\ news > seen /\ news > excused) => pending \/ timers # {}
    /\ idle => ~pending

\* Every notification has been seen by a snapshot, excused or dropped by the close: however
\* they come, there is such a moment again.
AllHeard == seen = news \/ excused = news \/ aborted

=============================================================================
