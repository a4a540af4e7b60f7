---------------------------- MODULE ResourceScope ----------------------------
(***************************************************************************)
(* A scope that owns resources and disposes of them                        *)
(* (src/Common/async/resource-scope.ts).  An entry is admitted with a      *)
(* disposer, with a group of disposers, or while its resource is still     *)
(* being opened; closing releases the entries one by one, the last one     *)
(* first.  Opens and disposers take their time and may fail.               *)
(***************************************************************************)
EXTENDS Integers, Sequences

CONSTANT MaxEntries      \* bound

ScopeAssumption == MaxEntries \in Nat

VARIABLES
    entries,         \* in the order of admission
    phase,           \* "open", "aborting" (abort handlers run), "finishing", "settled"
    batch,           \* the entries finish() has left, the last admitted being awaited
    failures,        \* a disposer failed
    result,          \* of the close: "none", "resolved", "rejected"
    waiter           \* of a close with a deadline: "none", "waits", "timedOut", "told"

vars == <<entries, phase, batch, failures, result, waiter>>

aborted == phase # "open"

\* Which of a record's entries are still in the set of the scope.
Remaining(es) == {i \in DOMAIN es : es[i].end \in {"in", "disposing"}}

Init ==
    /\ entries = <<>> /\ phase = "open" /\ batch = {}
    /\ failures = FALSE /\ result = "none" /\ waiter = "none"

\* release(): idempotent, the disposer runs in a later microtask.
Released(es, i) == [es EXCEPT ![i].released = TRUE]

-----------------------------------------------------------------------------
(* Admission *)

\* own, or parallel with n disposers.
Own(n) ==
    /\ Len(entries) < MaxEntries
    /\ entries' = Append(entries,
            [at |-> phase, value |-> "open", released |-> aborted, early |-> FALSE,
             end |-> "in", left |-> n, caller |-> "none"])
    /\ UNCHANGED <<phase, batch, failures, result, waiter>>

\* acquire: the place is taken before the resource is opened.
Acquire ==
    /\ ~aborted /\ Len(entries) < MaxEntries
    /\ entries' = Append(entries,
            [at |-> phase, value |-> "reserved", released |-> FALSE, early |-> FALSE,
             end |-> "in", left |-> 1, caller |-> "waits"])
    /\ UNCHANGED <<phase, batch, failures, result, waiter>>

\* Mutant: an open that comes too late is not settled.
OpensInTime(i) ==
    /\ ~aborted /\ entries[i].value = "reserved"
    /\ entries' = [entries EXCEPT ![i].value = "opening"]
    /\ UNCHANGED <<phase, batch, failures, result, waiter>>

\* The microtask that opens it, unless the scope was closed by then.
Opens(i) ==
    /\ phase # "aborting" /\ entries[i].value = "reserved"
    /\ entries' = [entries EXCEPT ![i].value = IF aborted THEN "failed" ELSE "opening"]
    /\ UNCHANGED <<phase, batch, failures, result, waiter>>

OpenEnds(i) ==
    /\ phase # "aborting" /\ entries[i].value = "opening"
    /\ \E v \in {"open", "failed"} : entries' = [entries EXCEPT ![i].value = v]
    /\ UNCHANGED <<phase, batch, failures, result, waiter>>

\* Mutant: the caller is given what arrived, whatever happened meanwhile.
ContinuesUnchecked(i) ==
    /\ phase # "aborting" /\ entries[i].caller = "waits" /\ entries[i].value \in {"open", "failed"}
    /\ entries' = IF entries[i].value = "open" THEN [entries EXCEPT ![i].caller = "given"]
                  ELSE Released([entries EXCEPT ![i].caller = "refused"], i)
    /\ UNCHANGED <<phase, batch, failures, result, waiter>>

\* acquire goes on: the caller gets the value, or the place is released first.
Continues(i) ==
    /\ phase # "aborting" /\ entries[i].caller = "waits" /\ entries[i].value \in {"open", "failed"}
    /\ entries' = IF entries[i].value = "open" /\ ~aborted
                  THEN [entries EXCEPT ![i].caller = "given"]
                  ELSE Released([entries EXCEPT ![i].caller = "refused"], i)
    /\ UNCHANGED <<phase, batch, failures, result, waiter>>

-----------------------------------------------------------------------------
(* Release *)

\* The function own() returned is called before the scope is closed, or after.
ReleaseEarly(i) ==
    /\ entries[i].caller = "none" /\ ~entries[i].released
    /\ entries' = Released([entries EXCEPT ![i].early = TRUE], i)
    /\ UNCHANGED <<phase, batch, failures, result, waiter>>

\* Mutant: a disposer runs for what could not be opened.
DisposeAnyway(i) ==
    /\ phase # "aborting" /\ entries[i].released /\ entries[i].end = "in"
    /\ entries[i].value \in {"open", "failed"}
    /\ entries' = [entries EXCEPT ![i].end = "disposing"]
    /\ UNCHANGED <<phase, batch, failures, result, waiter>>

\* The disposer runs; that of an acquisition waits for the value, and has nothing to
\* close when there is none.
Dispose(i) ==
    /\ phase # "aborting" /\ entries[i].released /\ entries[i].end = "in"
    /\ entries[i].value \in {"open", "failed"}
    /\ entries' = [entries EXCEPT ![i].end = IF entries[i].value = "open" THEN "disposing" ELSE "gone"]
    /\ UNCHANGED <<phase, batch, failures, result, waiter>>

\* One disposer is through; the last one of a group ends the entry.
Disposed(i, fails) ==
    /\ phase # "aborting" /\ entries[i].end = "disposing"
    /\ failures' = (failures \/ fails)
    /\ entries' = [entries EXCEPT ![i].left = @ - 1,
                                  ![i].end = IF entries[i].left > 1 THEN @ ELSE "gone"]
    /\ UNCHANGED <<phase, batch, result, waiter>>

-----------------------------------------------------------------------------
(* Closing *)

\* close, a failed start, or the abort of the parent signal.
Close ==
    /\ ~aborted
    /\ phase' = "aborting" /\ waiter' = "waits"
    /\ UNCHANGED <<entries, batch, failures, result>>

\* Mutant: what the scope had first goes first.
FirstOf(b) == CHOOSE i \in b : \A j \in b : i <= j

\* The entry of a batch that goes next: the one that was admitted last.
LastOf(b) == CHOOSE i \in b : \A j \in b : j <= i

\* The entries b are left to go: the next of them is released, or all is done.
GoOn(b) ==
    /\ batch' = b /\ phase' = IF b = {} THEN "settled" ELSE "finishing"
    /\ entries' = IF b = {} THEN entries ELSE Released(entries, LastOf(b))
    /\ result' = IF b # {} THEN result ELSE IF failures THEN "rejected" ELSE "resolved"
    /\ UNCHANGED <<failures, waiter>>

\* The abort handlers are through, finish starts.
FinishStarts == phase = "aborting" /\ GoOn(Remaining(entries))

\* What is left of the batch when the entry that is awaited is gone.
RestOfBatch == batch \ {LastOf(batch)}

\* Mutant: what was admitted while the batch was released is not looked for.
AdvanceOnce ==
    phase = "finishing" /\ LastOf(batch) \notin Remaining(entries) /\ GoOn(RestOfBatch)

\* finish: the next entry of the batch, or a batch of what was admitted meanwhile.
Advance ==
    /\ phase = "finishing" /\ LastOf(batch) \notin Remaining(entries)
    /\ GoOn(IF RestOfBatch # {} THEN RestOfBatch ELSE Remaining(entries))

\* The deadline tells the waiter and nobody else.
TimesOut ==
    /\ waiter = "waits" /\ phase = "finishing"
    /\ waiter' = "timedOut"
    /\ UNCHANGED <<entries, phase, batch, failures, result>>

Told ==
    /\ waiter = "waits" /\ phase = "settled"
    /\ waiter' = "told"
    /\ UNCHANGED <<entries, phase, batch, failures, result>>

Next ==
    \/ \E n \in {1, 2} : Own(n)
    \/ Acquire \/ Close \/ FinishStarts \/ Advance \/ TimesOut \/ Told
    \/ \E i \in DOMAIN entries :
        \/ Opens(i) \/ OpenEnds(i) \/ Continues(i) \/ ReleaseEarly(i) \/ Dispose(i)
        \/ \E fails \in BOOLEAN : Disposed(i, fails)

Spec == Init /\ [][Next]_vars

\* Every open and every disposer ends; nobody is obliged to close.
Fairness ==
    /\ WF_vars(FinishStarts) /\ WF_vars(Advance)
    /\ WF_vars(\E i \in DOMAIN entries : Opens(i) \/ OpenEnds(i) \/ Dispose(i) \/ Disposed(i, FALSE))

FairSpec == Spec /\ Fairness
-----------------------------------------------------------------------------
(* Properties *)

Entry ==
    [at : {"open", "aborting", "finishing", "settled"},
     value : {"reserved", "opening", "open", "failed"}, released : BOOLEAN, early : BOOLEAN,
     end : {"in", "disposing", "gone"}, left : 0..2, caller : {"none", "waits", "given", "refused"}]

\* Types; nothing is disposed of that was not released, and nothing that never opened.
TypeOK ==
    /\ entries \in Seq(Entry) /\ batch \subseteq DOMAIN entries
    /\ phase \in {"open", "aborting", "finishing", "settled"} /\ failures \in BOOLEAN
    /\ result \in {"none", "resolved", "rejected"}
    /\ waiter \in {"none", "waits", "timedOut", "told"}
    /\ \A i \in DOMAIN entries :
        /\ entries[i].end # "in" => entries[i].released
        /\ entries[i].end = "disposing" => entries[i].value = "open"

\* When the close has settled nothing it was responsible for is open or will open: also
\* what was still being opened, and what was admitted while it was under way.
SettledMeansGone ==
    phase = "settled" => \A i \in DOMAIN entries : entries[i].at # "settled" => entries[i].end = "gone"

\* A caller is never handed a resource of a scope that is closing, or one that is
\* released.
GivenIsOpen ==
    [][\A i \in DOMAIN entries :
        (entries[i].caller = "waits" /\ entries'[i].caller = "given")
            => ~aborted' /\ ~entries'[i].released]_vars

Starts(i) == entries[i].end = "in" /\ entries'[i].end = "disposing"
LaterAreGone(i) ==
    \A j \in (i + 1)..Len(entries) : entries[j].at = "open" => entries[j].end = "gone"

\* What somebody holds is disposed of after everything that was admitted later, which
\* may depend on it: also after a later acquisition that was still in flight.
DependentsFirst ==
    [][\A i \in DOMAIN entries :
        (/\ phase # "open" /\ Starts(i)
         /\ entries[i].at = "open" /\ ~entries[i].early /\ entries[i].caller \in {"none", "given"})
            => LaterAreGone(i)]_vars

\* A close comes to an end.
Settled == aborted => phase = "settled"
CloseSettles == []<>Settled

=============================================================================
