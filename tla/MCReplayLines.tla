---------------------------- MODULE MCReplayLines ----------------------------
(***************************************************************************)
(* What a replay line is wrapped in, one wrapping at a time, `part`:       *)
(*   "durable"  a store whose line survives the process, and its mirror;   *)
(*   "gate"     the conflation gate of a slow client;                      *)
(*   "spill"    the journal that spills to two segment files;              *)
(*   "journal"  the emission of a line with a pre-commit journal;          *)
(*   "map"      the follower of a replicated map and its checkpoints.      *)
(* The wrappings that are not under study stay as they start.              *)
(***************************************************************************)
EXTENDS SpillJournal

CONSTANTS
    Keys, Unkeyed, Limits, HighWater, LowWater, MaxOther, MaxDrops,
    EveryEvents, MaxItems, PruneRetried, MaxWrites, MaxRestarts,
    MaxBulk, MaxEmits, GateEvents,
    Served, MapEvents, MaxLines, MapDrops, MaxLives

VARIABLES
    part,
    \* durable
    dlog, dstore, dundrained, dready, dhead, dlastKf, dpc, dwhy, dlast, dview, dlink, dwire,
    dwritten, dlost, dnumbered, dfaults, drestarts,
    \* gate
    gmaxKeys, gkeys, gconflating, gheld, gsent, gflushed, gother, glink, glast, gview, gqueue,
    gdrops,
    \* journal
    jatomic, jemitted, jqueued, jbulk, jtodo, jstaged, jstored, jhead, jpublished, jrefused,
    jdropped, jfaults,
    \* map
    mline, mhead, mup, mdrops, mdelivery, mlineId, mlast, mshows, mstage, manswer, mliveOnce,
    mstatus, msaved, mlives

Durable == INSTANCE DurableStore WITH
    Pruned <- TRUE, MaxFaults <- 1,
    log <- dlog, store <- dstore, undrained <- dundrained, ready <- dready, head <- dhead,
    lastKf <- dlastKf, pc <- dpc, why <- dwhy, last <- dlast, view <- dview, link <- dlink,
    wire <- dwire, written <- dwritten, lost <- dlost, numbered <- dnumbered,
    faults <- dfaults, restarts <- drestarts

Gate == INSTANCE ReplayConflate WITH
    MaxSeq <- GateEvents,
    maxKeys <- gmaxKeys, keys <- gkeys, conflating <- gconflating, held <- gheld,
    sent <- gsent, flushed <- gflushed, other <- gother, link <- glink, last <- glast,
    view <- gview, queue <- gqueue, drops <- gdrops

Journal == INSTANCE ReplayJournal WITH
    atomic <- jatomic, emitted <- jemitted, queued <- jqueued, bulk <- jbulk, todo <- jtodo,
    staged <- jstaged, stored <- jstored, head <- jhead, published <- jpublished,
    refused <- jrefused, dropped <- jdropped, faults <- jfaults

Map == INSTANCE MapFollower WITH
    Window <- Served, Orderly <- TRUE, MaxEvents <- MapEvents, MaxDrops <- MapDrops,
    line <- mline, head <- mhead, up <- mup, drops <- mdrops, delivery <- mdelivery,
    lineId <- mlineId, last <- mlast, shows <- mshows, stage <- mstage, answer <- manswer,
    liveOnce <- mliveOnce, status <- mstatus, saved <- msaved, lives <- mlives

durableVars ==
    <<dlog, dstore, dundrained, dready, dhead, dlastKf, dpc, dwhy, dlast, dview, dlink, dwire,
      dwritten, dlost, dnumbered, dfaults, drestarts>>
gateVars ==
    <<gmaxKeys, gkeys, gconflating, gheld, gsent, gflushed, gother, glink, glast, gview, gqueue,
      gdrops>>
journalVars ==
    <<jatomic, jemitted, jqueued, jbulk, jtodo, jstaged, jstored, jhead, jpublished, jrefused,
      jdropped, jfaults>>
mapVars ==
    <<mline, mhead, mup, mdrops, mdelivery, mlineId, mlast, mshows, mstage, manswer, mliveOnce,
      mstatus, msaved, mlives>>
allVars == <<part, vars, durableVars, gateVars, journalVars, mapVars>>

LinesInit ==
    /\ part \in {"durable", "gate", "spill", "journal", "map"}
    /\ Init /\ Durable!Init /\ Gate!Init /\ Journal!Init /\ Map!Init
    /\ part # "gate" => gmaxKeys = 0
    /\ part # "journal" => ~jatomic
    /\ part # "map" => mdelivery = "latest"

LinesNext ==
    /\ UNCHANGED part
    /\ \/ part = "durable" /\ Durable!Next /\ UNCHANGED <<vars, gateVars, journalVars, mapVars>>
       \/ part = "gate" /\ Gate!Next /\ UNCHANGED <<vars, durableVars, journalVars, mapVars>>
       \/ part = "spill" /\ Next /\ UNCHANGED <<durableVars, gateVars, journalVars, mapVars>>
       \/ part = "journal" /\ Journal!Next /\ UNCHANGED <<vars, durableVars, gateVars, mapVars>>
       \/ part = "map" /\ Map!Next /\ UNCHANGED <<vars, durableVars, gateVars, journalVars>>

\* The gate and the map's follower have their own fairness.
GateRuns(A) == part = "gate" /\ A
MapRuns(A) == part = "map" /\ A

LinesSpec ==
    /\ LinesInit /\ [][LinesNext]_allVars
    /\ SF_gateVars(GateRuns(Gate!Poll)) /\ WF_gateVars(GateRuns(Gate!Connect))
    /\ WF_gateVars(GateRuns(Gate!AnswerFrame)) /\ WF_gateVars(GateRuns(Gate!Flush))
    /\ WF_gateVars(GateRuns(Gate!Receive)) /\ SF_gateVars(GateRuns(Gate!OtherFlushes))
    /\ []<>(gother = 0)
    /\ WF_mapVars(MapRuns(Map!Follower))

ASSUME LinesAssumption ==
    /\ Durable!DurableAssumption /\ Gate!GateAssumption /\ Journal!JournalAssumption
    /\ Map!MapAssumption

-----------------------------------------------------------------------------
\* The types of the five, each with its bookkeeping.
LinesTypeOK == TypeOK /\ Durable!TypeOK /\ Gate!TypeOK /\ Journal!TypeOK /\ Map!TypeOK

\* Whenever the process dies, the archive opens again with every numbered event
\* (store-durable.ts:49-82, fsReplayStorage.ts:121-159).
ArchiveHolds == Durable!ArchiveHolds

\* A number means what it says: no lifetime of a store gives it to other writes
\* (store-durable.ts:49-61), and the checkpoint of a map binds it to the line and the
\* content it counts, so that no map mixes two lines (replicated-map.ts:855-886).
NumbersKeepTheirMeaning ==
    Durable!NumbersKeepTheirMeaning /\ Map!CheckpointsBind /\ Map!NothingMixed

\* The mirror has every event up to its number, across restarts, and once it has caught
\* up it differs from the store by lost writes only (store-durable.ts:87-109,
\* store-replay.ts:425-439).
MirrorFollows == Durable!MirrorHasAll /\ Durable!MirrorAgrees

\* A close that succeeds leaves everything in the archive (store-durable.ts:132-136).
CloseLosesNothing == Durable!CloseLosesNothing

\* What the gate dropped is made up for, whatever the client has seen, and the gate does
\* not fill the buffer it protects (replay-conflate.ts:94-142).
NothingForgotten == Gate!NothingForgotten /\ Gate!BufferBounded

\* A client that stays connected ends up with the state of the line
\* (replay-conflate.ts:88-110), and the follower of a map with the map, or with an error
\* (replicated-map.ts:860-970).
CatchesUp ==
    <>[](/\ part = "gate" => Gate!UpToDate
         /\ part = "map" => Map!UpToDate)

\* A journal that is read back gives the whole tail or refuses, and promises no event that
\* its files do not hold (fsSpillJournal.ts:96-180).
SpillIsHonest == TailOrNothing /\ WindowIsHonest

\* What is published is stored, and the other way round; a bulk is not torn by what is
\* emitted from within; and every bulk is published, refused or given up
\* (replay-listen.ts:402-450).
PublishedAsStored ==
    Journal!StoredThenPublished /\ Journal!BulksStayWhole /\ Journal!AllAccountedFor
=============================================================================
