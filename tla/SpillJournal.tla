---------------------------- MODULE SpillJournal ----------------------------
(***************************************************************************)
(* The journal that keeps its recent events in memory and spills what the  *)
(* memory evicts to two rotating segment files                             *)
(* (src/server/fsSpillJournal.ts).  The disk may refuse any operation, and *)
(* may then leave a file behind that the journal believes gone.            *)
(***************************************************************************)
EXTENDS Integers, Sequences

CONSTANTS
    History,         \* events in memory
    SegmentSize,     \* records that fill a segment
    MaxSeq, MaxFaults                     \* bounds

ASSUME SpillAssumption ==
    /\ {History, SegmentSize} \subseteq Nat \ {0} /\ {MaxSeq, MaxFaults} \subseteq Nat

VARIABLES
    head,
    ramOldest,       \* the memory holds ramOldest..head
    prev, curr,      \* the index: the events of the two segments, in order
    prevFile, file,  \* what is in the two files, a torn line being Torn
    stale,           \* a file the journal gave up could not be removed
    faults, closed

vars == <<head, ramOldest, prev, curr, prevFile, file, stale, faults, closed>>

Torn == 0
Refused == <<Torn>>

Init ==
    /\ head = 0 /\ ramOldest = 1 /\ prev = <<>> /\ curr = <<>>
    /\ prevFile = <<>> /\ file = <<>> /\ stale = FALSE
    /\ faults = 0 /\ closed = FALSE

-----------------------------------------------------------------------------
\* Mutant: a spill that failed loses only the event at hand.
KeepDiskWindow(f, g) ==
    /\ file' = f /\ prevFile' = g /\ UNCHANGED <<prev, curr, stale>>

\* dropDiskWindow: the index forgets both segments, and the files are removed unless
\* the disk refuses.
DropDiskWindow(f, g) ==
    /\ prev' = <<>> /\ curr' = <<>>
    /\ file' \in {f, <<>>} /\ prevFile' \in {g, <<>>}
    /\ stale' = (stale \/ file' # <<>> \/ prevFile' # <<>>)

\* The line of event s is appended, and a full segment becomes the older one.
Spill(s) ==
    /\ IF Len(curr) + 1 < SegmentSize
       THEN /\ curr' = Append(curr, s) /\ file' = Append(file, s)
            /\ UNCHANGED <<prev, prevFile>>
       ELSE /\ prev' = Append(curr, s) /\ prevFile' = Append(file, s)
            /\ curr' = <<>> /\ file' = <<>>
    /\ UNCHANGED <<stale, faults>>

\* The append fails, maybe in the middle of the line; or the removal of the older
\* file, or the renaming, when the segment is full.
SpillFails(s) ==
    /\ faults < MaxFaults /\ faults' = faults + 1
    /\ \/ \E f \in {file, Append(file, Torn)} : DropDiskWindow(f, prevFile)
       \/ /\ Len(curr) + 1 >= SegmentSize
          /\ \E g \in {prevFile, <<>>} : DropDiskWindow(Append(file, s), g)

\* onJournal with evictOverflow.
OnJournal ==
    /\ ~closed /\ head < MaxSeq
    /\ head' = head + 1
    /\ IF head' - ramOldest + 1 > History
       THEN ramOldest' = ramOldest + 1 /\ (Spill(ramOldest) \/ SpillFails(ramOldest))
       ELSE UNCHANGED <<ramOldest, prev, curr, prevFile, file, stale, faults>>
    /\ UNCHANGED closed

Close ==
    /\ ~closed /\ closed' = TRUE
    /\ ramOldest' = head + 1 /\ DropDiskWindow(file, prevFile)
    /\ UNCHANGED <<head, faults>>

-----------------------------------------------------------------------------
\* readSegment: the lines of the records above n, which are the last ones of the index,
\* read at their places.  A line that says another number, which the code may also skip,
\* spoils the tail either way.
Read(index, f, n) ==
    LET needed == {i \in DOMAIN index : index[i] > n} IN
    IF needed = {} THEN <<>>
    ELSE IF \E i \in needed : i > Len(f) \/ f[i] = Torn THEN Refused
    ELSE SubSeq(f, CHOOSE i \in needed : \A j \in needed : i <= j, Len(index))

oldestSeq ==
    IF prev # <<>> THEN prev[1] ELSE IF curr # <<>> THEN curr[1] ELSE ramOldest

Between(a, b) == [i \in 1..(b - a + 1) |-> a + i - 1]
Max2(a, b) == IF a > b THEN a ELSE b

\* Mutant: what was read is not checked.
GetSinceUnchecked(n) ==
    LET older == Read(prev, prevFile, n)
        newer == Read(curr, file, n)
        ram == Between(Max2(ramOldest, n + 1), head)
    IN IF n > head THEN Refused ELSE IF n = head THEN <<>>
       ELSE IF ramOldest > head \/ n + 1 < oldestSeq THEN Refused
       ELSE IF n + 1 >= ramOldest THEN ram
       ELSE IF Refused \in {older, newer} THEN Refused ELSE older \o newer \o ram

\* getSince: the disk only for a reader the memory cannot serve, and nothing that is
\* not the exact tail.
GetSince(n) ==
    LET older == Read(prev, prevFile, n)
        newer == Read(curr, file, n)
        ram == Between(Max2(ramOldest, n + 1), head)
        all == IF n + 1 >= ramOldest THEN ram ELSE older \o newer \o ram
    IN CASE n > head -> Refused
         [] n = head -> <<>>
         [] n < head /\ (ramOldest > head \/ n + 1 < oldestSeq) -> Refused
         [] OTHER -> IF n + 1 < ramOldest /\ Refused \in {older, newer} THEN Refused
                     ELSE IF all = Between(n + 1, head) THEN all ELSE Refused

Next == OnJournal \/ Close

Spec == Init /\ [][Next]_vars

-----------------------------------------------------------------------------
(* Properties *)

\* Types; the memory holds no more than its history.
TypeOK ==
    /\ head \in Nat /\ ramOldest \in 1..(head + 1) /\ head - ramOldest + 1 <= History
    /\ prev \in Seq(1..head) /\ curr \in Seq(1..head)
    /\ prevFile \in Seq(0..head) /\ file \in Seq(0..head)
    /\ {stale, closed} \subseteq BOOLEAN /\ faults \in Nat

\* A reader is given the exact tail or nothing, whatever the disk did: also when lines
\* of an abandoned segment are still in a file that is written again.
TailOrNothing == \A n \in 0..(head + 1) : GetSince(n) \in {Refused, Between(n + 1, head)}

\* The window is what it says: a reader within the memory is always served, and one
\* within the advertised window is, unless a file that was given up could not be
\* removed.
WindowIsHonest ==
    ~closed => \A n \in 0..head :
        (n + 1 >= ramOldest \/ (n + 1 >= oldestSeq /\ ~stale)) => GetSince(n) # Refused

=============================================================================
