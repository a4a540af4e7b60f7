----------------------------- MODULE MapFollower -----------------------------
(***************************************************************************)
(* The follower of a replicated map                                        *)
(* (src/Common/Observe/replicated-map.ts, followReplicatedMap): it asks    *)
(* which line the producer serves, resumes from a checkpoint of the same   *)
(* line, asks again before every catch-up, and starts over when the line   *)
(* is another one, or gives up if it must be lossless.  The producer may   *)
(* restart with a fresh line and the transport drops.                      *)
(*                                                                         *)
(* The subscription it runs on (replaySubscribe) is taken for what         *)
(* ReplicaView promises of it: an answer takes the map from the resume     *)
(* point to the head.  A tail applied to anything else mixes it up.        *)
(***************************************************************************)
EXTENDS Integers

CONSTANTS
    Window,          \* events the producer's journal serves
    Orderly,         \* checkpoints are kept of an open follower, and not by its callbacks
    MaxEvents, MaxLines, MaxDrops, MaxLives       \* bounds

MapAssumption ==
    /\ {Window, MaxEvents, MaxLines, MaxDrops, MaxLives} \subseteq Nat /\ MaxLines > 0 /\ MaxLives > 0
    /\ Orderly \in BOOLEAN

VARIABLES
    \* the producer and the transport
    line, head, up, drops,
    \* the follower
    delivery,        \* "latest" or "lossless"
    lineId,          \* the line it believes to follow, 0 for none
    last,            \* the number it has, -1 for none
    shows,           \* what the map holds: the state of a line at a number, or Mixed
    stage,           \* where its start or its catch-up is
    answer,          \* the line a descriptor answered, 0 when none is looked at
    liveOnce,
    status,          \* its public state
    saved,           \* the checkpoint its user kept last
    lives

producer == <<line, head, up, drops>>
vars == <<producer, delivery, lineId, last, shows, stage, answer, liveOnce, status, saved, lives>>

At(l, n) == [line |-> l, seq |-> n]
Empty == At(0, -1)
Mixed == At(-1, -1)
NoCheckpoint == [line |-> 0, seq |-> -1, shows |-> Empty]

\* checkpoint(): line, number and content as one object.
Checkpoint == [line |-> lineId, seq |-> last, shows |-> shows]

Init ==
    /\ line = 1 /\ head = 0 /\ up = TRUE /\ drops = 0
    /\ delivery \in {"latest", "lossless"}
    /\ lineId = 0 /\ last = -1 /\ shows = Empty
    /\ stage = "describe" /\ answer = 0 /\ liveOnce = FALSE /\ status = "connecting"
    /\ saved = NoCheckpoint /\ lives = 1

Over == stage \in {"abandoned", "ended"}

\* reportSyncError: terminal, the map stays as it is.
Fail == stage' = "ended" /\ status' = "error"

\* An answer and what is done with it are one task, and the transport has its own.
Outside == stage \notin {"described", "prepared", "reset"}

-----------------------------------------------------------------------------
(* The world *)

Emit ==
    /\ head < MaxEvents /\ head' = head + 1
    /\ UNCHANGED <<line, up, drops, delivery, lineId, last, shows, stage, answer, liveOnce,
                   status, saved, lives>>

\* The transport drops, and the producer may come back with a fresh line: calls are
\* rejected and the catch-up under way is abandoned.
Drop ==
    /\ up /\ drops < MaxDrops /\ Outside
    /\ up' = FALSE /\ drops' = drops + 1
    /\ \/ UNCHANGED <<line, head>>
       \/ line < MaxLines /\ line' = line + 1 /\ head' = 0
    /\ stage' = CASE Over -> "ended"
                  [] stage = "describe" -> stage
                  [] OTHER -> "down"
    /\ status' = IF Over THEN status ELSE "reconnecting"
    /\ UNCHANGED <<delivery, lineId, last, shows, answer, liveOnce, saved, lives>>

\* A new connection starts a new catch-up.
Connect ==
    /\ ~up /\ up' = TRUE
    /\ stage' = IF stage = "down" THEN "prepare" ELSE stage
    /\ status' = IF Over THEN status ELSE IF liveOnce THEN "reconnecting" ELSE "connecting"
    /\ UNCHANGED <<line, head, drops, delivery, lineId, last, shows, answer, liveOnce, saved,
                   lives>>

-----------------------------------------------------------------------------
(* Start *)

DescribeAnswered ==
    /\ up /\ stage \in {"describe", "prepare"}
    /\ answer' = line /\ stage' = IF stage = "describe" THEN "described" ELSE "prepared"
    /\ UNCHANGED <<producer, delivery, lineId, last, shows, liveOnce, status, saved, lives>>

\* Mutant: a number is resumed on whatever line there is.
NegotiatedBlindly ==
    /\ stage = "described"
    /\ lineId' = answer /\ answer' = 0 /\ stage' = "prepare"
    /\ UNCHANGED <<producer, delivery, last, shows, liveOnce, status, saved, lives>>

\* start goes on: the number of a checkpoint counts on its own line only.
Negotiated ==
    /\ stage = "described" /\ answer' = 0
    /\ IF saved # NoCheckpoint /\ saved.line # answer /\ delivery = "lossless"
       THEN Fail /\ UNCHANGED <<lineId, last>>
       ELSE /\ lineId' = answer
            /\ last' = IF saved.line = answer THEN saved.seq ELSE -1
            /\ stage' = "prepare" /\ UNCHANGED status
    /\ UNCHANGED <<producer, delivery, shows, liveOnce, saved, lives>>

-----------------------------------------------------------------------------
(* Catch-up *)

\* Mutant: another line is noted, but the number of the old one is kept.
PreparedWithoutReset ==
    /\ stage = "prepared" /\ answer' = 0
    /\ lineId' = answer /\ stage' = "ask"
    /\ UNCHANGED <<producer, delivery, last, shows, liveOnce, status, saved, lives>>

\* prepareReplicatedMapCatchUp goes on. Another line is noted at once, and the status says
\* so; the reset it asks for is applied by its caller.
Prepared ==
    /\ stage = "prepared" /\ answer' = 0
    /\ \/ answer = lineId /\ stage' = "ask" /\ UNCHANGED <<lineId, status>>
       \/ answer # lineId /\ delivery = "lossless" /\ Fail /\ UNCHANGED lineId
       \/ answer # lineId /\ delivery = "latest"
          /\ stage' = "reset" /\ lineId' = answer /\ UNCHANGED status
    /\ UNCHANGED <<producer, delivery, last, shows, liveOnce, saved, lives>>

\* catchUp goes on.
ResetApplied ==
    /\ stage = "reset" /\ last' = -1 /\ stage' = "ask"
    /\ UNCHANGED <<producer, delivery, lineId, shows, answer, liveOnce, status, saved, lives>>

\* The same after close.
PreparedLate ==
    /\ up /\ stage = "abandoned" /\ stage' = "ended"
    /\ lineId' = IF delivery = "latest" THEN line ELSE lineId
    /\ UNCHANGED <<producer, delivery, last, shows, answer, liveOnce, status, saved, lives>>

\* The map after the tail up to n.
Extended(n) ==
    IF n = last THEN shows ELSE IF shows = At(line, last) THEN At(line, n) ELSE Mixed

HasTail == last \in 0..head /\ head - last <= Window

\* The producer answers with the tail, or with the whole map: a lossless follower that has
\* a number takes nothing but the tail, and one that was live takes no older map.
CaughtUp ==
    /\ up /\ stage = "ask"
    /\ \/ HasTail /\ last' = head /\ shows' = Extended(head)
       \/ ~HasTail /\ (delivery = "latest" \/ last = -1)
          /\ IF liveOnce /\ last >= head THEN UNCHANGED <<last, shows>>
             ELSE last' = head /\ shows' = At(line, head)
    /\ stage' = "live" /\ liveOnce' = TRUE /\ status' = "live"
    /\ UNCHANGED <<producer, delivery, lineId, answer, saved, lives>>

GapFails ==
    /\ up /\ stage = "ask" /\ ~HasTail /\ delivery = "lossless" /\ last # -1 /\ Fail
    /\ UNCHANGED <<producer, delivery, lineId, last, shows, answer, liveOnce, saved, lives>>

\* The next event of the line.
Live ==
    /\ up /\ stage = "live" /\ last < head
    /\ last' = last + 1 /\ shows' = Extended(last + 1)
    /\ UNCHANGED <<producer, delivery, lineId, stage, answer, liveOnce, status, saved, lives>>

\* A call of the start or of the catch-up is refused.
Refused ==
    /\ up /\ stage \in {"describe", "prepare", "ask"}
    /\ drops < MaxDrops /\ drops' = drops + 1 /\ Fail
    /\ UNCHANGED <<line, head, up, delivery, lineId, last, shows, answer, liveOnce, saved, lives>>

-----------------------------------------------------------------------------
(* The user *)

\* close, by the user or with the transport. A descriptor that is being asked for will
\* still be looked at.
Close ==
    /\ status # "closed" /\ Outside
    /\ stage' = IF stage = "prepare" /\ up THEN "abandoned" ELSE "ended"
    /\ status' = "closed"
    /\ UNCHANGED <<producer, delivery, lineId, last, shows, answer, liveOnce, saved, lives>>

\* A checkpoint is kept. A callback of the status, which Prepared calls, may ask for one as
\* well, and a closed follower still gives one.
Save ==
    /\ lineId # 0 /\ (Orderly => Outside /\ status # "closed")
    /\ saved' = Checkpoint
    /\ UNCHANGED <<producer, delivery, lineId, last, shows, stage, answer, liveOnce, status,
                   lives>>

\* The next follower, from the checkpoint or from nothing.
Reopen ==
    /\ Over /\ lives < MaxLives /\ lives' = lives + 1
    /\ stage' = "describe" /\ liveOnce' = FALSE /\ status' = "connecting"
    /\ \E c \in {saved, NoCheckpoint} :
        saved' = c /\ lineId' = c.line /\ last' = c.seq /\ shows' = c.shows
    /\ UNCHANGED <<producer, delivery, answer>>

Follower ==
    \/ Connect \/ DescribeAnswered \/ Negotiated \/ Prepared \/ PreparedLate
    \/ ResetApplied \/ CaughtUp \/ GapFails \/ Live

Next == Emit \/ Drop \/ Follower \/ Refused \/ Close \/ Save \/ Reopen

Spec == Init /\ [][Next]_vars /\ WF_vars(Follower)

-----------------------------------------------------------------------------
(* Properties *)

\* The types; what is looked at is an answer.
TypeOK ==
    /\ line \in 1..MaxLines /\ head \in 0..MaxEvents /\ drops \in 0..MaxDrops
    /\ lineId \in 0..MaxLines /\ last \in -1..MaxEvents /\ lives \in 0..MaxLives
    /\ stage \in {"describe", "described", "down", "prepare", "prepared", "reset", "ask",
                  "live", "abandoned", "ended"}
    /\ status \in {"connecting", "reconnecting", "live", "error", "closed"}
    /\ answer # 0 <=> stage \in {"described", "prepared"}

\* A checkpoint binds a content to the line and the number it has there: resumed from it,
\* a tail goes where it belongs.
CheckpointsBind == saved.seq # -1 => saved.shows = At(saved.line, saved.seq)

\* The map never mixes two lines, and what is shown as live is the producer's line at the
\* number the follower tells.
NothingMixed ==
    /\ shows # Mixed
    /\ status = "live" => up /\ shows = At(line, last) /\ lineId = line

\* A follower that is left in peace ends with the producer's map, or says why not.
UpToDate == status \in {"error", "closed"} \/ shows = At(line, head)
CatchesUp == <>[]UpToDate
=============================================================================
