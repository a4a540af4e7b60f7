----------------------------- MODULE MCResources -----------------------------
(***************************************************************************)
(* The local owners of resources and work, one at a time, `part`:          *)
(*   "scope"  a resource scope;                                            *)
(*   "worker" a reconciler;                                                *)
(*   "files"  a host of files and jobs;                                    *)
(*   "session"  the resources that a transport has opened;                 *)
(*   "calls" the calls and subscriptions of an RPC client;                 *)
(*   "flow"  a call that streams through its callback;                     *)
(*   "artifacts"  a host of artifacts and its storage;                     *)
(*   "cache"  a cache of their bytes.                                      *)
(* The others stay as they start.                                          *)
(***************************************************************************)
EXTENDS Reconciler

CONSTANTS
    MaxEntries, Accounts, Viewers, MaxFiles, MaxJobs, MaxReports, Owners, MaxOpens, MaxTurns,
    Consumers, MaxCalls, MaxFaults,
    Window, AckEvery, HighWater, LowWater, Pushers, MaxFrames,
    MaxArtifacts, Reapers, Hashes, SizeOf, MaxBytes, MaxTrips, MaxClears

VARIABLES
    part,
    \* scope
    entries, phase, batch, failures, result, waiter,
    \* files
    policy, members, stale, files, jobs, changed, begun, confirmations, verifying, asked,
    running, reports, views, hostClosed,
    \* session
    who, expired, signature, rights, resources, terminal, awaited, closing, turns,
    \* calls
    pool, requests, callbacks, zombies, settled, sub, connected, faults, replaced,
    toServer, toClient, served,
    \* flow
    flow, method, frames, ended, wire, acks, stream, registered, handed, slow, response, up,
    \* artifacts
    record, due, keys, keyless, stored, removing, reaping, shut,
    \* cache
    cached, totalBytes, inflight, trips, generation

Scope == INSTANCE ResourceScope
Files == INSTANCE FileJobHost WITH closed <- hostClosed
Session == INSTANCE ResourceSession
Rpc == INSTANCE RpcCalls WITH pending <- requests
Flow == INSTANCE RpcFlow
Artifact == INSTANCE ArtifactHost
Cache == INSTANCE ByteCache

scopeVars == <<entries, phase, batch, failures, result, waiter>>
fileVars ==
    <<policy, members, stale, files, jobs, changed, begun, confirmations, verifying, asked,
      running, reports, views, hostClosed>>
sessionVars ==
    <<who, expired, signature, rights, resources, terminal, awaited, closing, turns>>
rpcVars ==
    <<pool, requests, callbacks, zombies, settled, sub, connected, faults, replaced,
      toServer, toClient, served>>
flowVars ==
    <<flow, method, frames, ended, wire, acks, stream, registered, handed, slow, response, up>>
artifactVars == <<record, due, keys, keyless, stored, removing, reaping, shut>>
cacheVars == <<cached, totalBytes, inflight, trips, generation>>
othersVars == <<artifactVars, cacheVars>>
allVars == <<part, vars, scopeVars, fileVars, sessionVars, rpcVars, flowVars, othersVars>>

\* The accounts of the session are alike: the first that anything is said of is the first.
FirstOwnerFirst ==
    LET first == CHOOSE o \in Owners : TRUE IN
    turns = 0 => who' \in {who, first} /\ rights' \in {rights, rights \ {first}}

ResourcesInit ==
    /\ part \in {"scope", "worker", "files", "session", "calls", "flow", "artifacts", "cache"}
    /\ Init /\ Scope!Init /\ Files!Init /\ Session!Init /\ Rpc!Init /\ Flow!Init
    /\ Artifact!Init /\ Cache!Init
    /\ part # "files" => ~policy
    /\ part # "flow" => ~slow
    /\ part # "artifacts" => stored = {}
    /\ rights = IF part = "session" THEN Owners ELSE {}

ResourcesNext ==
    /\ UNCHANGED part
    /\ \/ /\ part = "scope" /\ Scope!Next
          /\ UNCHANGED <<vars, fileVars, sessionVars, rpcVars, flowVars, othersVars>>
       \/ /\ part = "worker" /\ Next
          /\ UNCHANGED <<scopeVars, fileVars, sessionVars, rpcVars, flowVars, othersVars>>
       \/ /\ part = "files" /\ Files!Next
          /\ UNCHANGED <<vars, scopeVars, sessionVars, rpcVars, flowVars, othersVars>>
       \/ /\ part = "session" /\ Session!Next /\ FirstOwnerFirst
          /\ UNCHANGED <<vars, scopeVars, fileVars, rpcVars, flowVars, othersVars>>
       \/ /\ part = "calls" /\ Rpc!Next
          /\ UNCHANGED <<vars, scopeVars, fileVars, sessionVars, flowVars, othersVars>>
       \/ /\ part = "flow" /\ Flow!Next
          /\ UNCHANGED <<vars, scopeVars, fileVars, sessionVars, rpcVars, othersVars>>
       \/ /\ part = "artifacts" /\ Artifact!Next
          /\ UNCHANGED <<vars, scopeVars, fileVars, sessionVars, rpcVars, flowVars, cacheVars>>
       \/ /\ part = "cache" /\ Cache!Next
          /\ UNCHANGED <<vars, scopeVars, fileVars, sessionVars, rpcVars, flowVars, artifactVars>>

\* The fairness of a part is its own.
ScopeRuns(A) == part = "scope" /\ A
WorkerRuns(A) == part = "worker" /\ A
SessionRuns(A) == part = "session" /\ A
RpcRuns(A) == part = "calls" /\ A
FlowRuns(A) == part = "flow" /\ A
ArtifactRuns(A) == part = "artifacts" /\ A

ResourcesFairness ==
    /\ WF_scopeVars(ScopeRuns(Scope!FinishStarts)) /\ WF_scopeVars(ScopeRuns(Scope!Advance))
    /\ WF_scopeVars(ScopeRuns(\E i \in DOMAIN entries :
            Scope!Opens(i) \/ Scope!OpenEnds(i) \/ Scope!Dispose(i) \/ Scope!Disposed(i, FALSE)))
    /\ WF_vars(WorkerRuns(Start)) /\ WF_vars(WorkerRuns(Read))
    /\ WF_vars(WorkerRuns(PassEnds \/ PassFails))
    /\ WF_vars(WorkerRuns(TaskEnds)) /\ WF_vars(WorkerRuns(Settle))
    /\ \A k \in Keys : WF_vars(WorkerRuns(Wake(k)))
    /\ WF_sessionVars(SessionRuns(Session!Progress))
    /\ WF_rpcVars(RpcRuns(Rpc!Progress))
    /\ WF_flowVars(FlowRuns(Flow!Progress))
    \* Reap is called time and again, and the storage does not fail for ever.
    /\ \A p \in Reapers :
        WF_artifactVars(ArtifactRuns(Artifact!ReapStarts(p) \/ Artifact!ReapNext(p)))
    /\ WF_artifactVars(ArtifactRuns(\E x \in removing :
            Artifact!Removed(x) \/ Artifact!RemovalFails(x)))
    /\ SF_artifactVars(ArtifactRuns(\E x \in removing : Artifact!Removed(x)))

ResourcesSpec == ResourcesInit /\ [][ResourcesNext]_allVars /\ ResourcesFairness

\* A content is named by its size.
Sizes == [h \in Hashes |-> h]

ASSUME ResourcesAssumption ==
    Scope!ScopeAssumption /\ Files!FileJobAssumption /\ Session!SessionAssumption
    /\ Rpc!RpcAssumption /\ Flow!FlowAssumption
    /\ Artifact!ArtifactAssumption /\ Cache!CacheAssumption

-----------------------------------------------------------------------------
\* The types of the eight, each with its bookkeeping.
ResourcesTypeOK ==
    /\ TypeOK /\ Scope!TypeOK /\ Files!TypeOK /\ Session!TypeOK /\ Rpc!TypeOK /\ Flow!TypeOK
    /\ Artifact!TypeOK /\ Cache!TypeOK

\* A settled close has disposed of everything (resource-scope.ts:101-128,
\* resource-session.ts:140-155).
SettledMeansGone == Scope!SettledMeansGone /\ Session!SettledMeansGone

\* What can be called was opened by the account and under the rights of now
\* (resource-session.ts:44-75).
ListedAreCurrent == Session!ListedAreCurrent

\* Nobody is handed a resource of a closing scope, and what is held outlives what was
\* admitted later (resource-scope.ts:60-107).
DisposalInOrder == Scope!GivenIsOpen /\ Scope!DependentsFirst

\* A close comes to an end, a handle that came too late is closed, a notification is seen
\* by a later pass, a request is answered unless it is the subscription's own, and no push
\* waits for ever (resource-scope.ts:101-128, resource-session.ts:77-155,
\* reconciler.ts:60-120, rpc-client.ts:630-760, rpc-server.ts:440-480).  The bytes of an
\* artifact that is over are removed, however often the storage fails
\* (artifact-host.ts:218-297).
EverythingSettles ==
    []<>(Scope!Settled /\ Session!Settled /\ AllHeard /\ Rpc!Settled /\ Flow!Settled
         /\ Artifact!Gone)

\* An id of the wire has one owner, and a call is settled by its own response as long as no
\* client on the socket was disposed of (id-pool.ts:1-18, rpc-client.ts:630-760).
CallsKeepTheirIds == Rpc!IdsHaveOneOwner /\ Rpc!AnsweredByItsOwn

\* A subscription with consumers has a call under way or waits for the next connection
\* (rpc-client.ts:1177-1375).
ListenersAreFed == Rpc!ListenersAreFed

\* No more frames are out than the credit and the concurrent pushes allow, and credit is for
\* consumed frames only (rpc-server.ts:404-470, rpc-client.ts:566-596).
WindowHolds == Flow!WindowHolds

\* The answer of a call comes after the frames of its stream (rpc-client.ts:644-653).
FramesBeforeResponse == Flow!FramesBeforeResponse

\* A job's file stays uploaded, and the views are the projections of the store
\* (file-job-host.ts:149-208, 234-318); the bytes of an artifact have their key as long as
\* they are stored (artifact-host.ts:218-234); the count of a cache is the size of what it
\* holds, and one trip at a time fetches a content (artifact-cache.ts:60-123).
FilesAgree ==
    /\ Files!JobsHaveTheirFile /\ Files!ViewsAgree
    /\ Artifact!BytesHaveTheirKey
    /\ Cache!LedgerIsExact /\ Cache!OneTrip /\ Cache!Settled

\* Nothing changes a finished job, nor anything of a closed host
\* (file-job-host.ts:218-376), nor the end of an artifact (artifact-host.ts:226-234).
FinalStays == Files!FinishedJobsStay /\ Files!ClosedHostStays /\ Artifact!EndsStay
=============================================================================
