----------------------------- MODULE ArtifactHost -----------------------------
(***************************************************************************)
(* The lifecycle of artifacts (artifact-host.ts): a small record in the    *)
(* store, bytes in a storage that is external, and between them a private  *)
(* key that only this host holds.  Revocations, openings of expired        *)
(* artifacts and passes of reap all remove, overlap, and may fail.  Reads  *)
(* change nothing here and are left to the storage.                        *)
(***************************************************************************)
EXTENDS Integers, FiniteSets

CONSTANTS
    MaxArtifacts,
    Reapers     \* passes of reap under way at a time

VARIABLES
    record,     \* the state of each artifact, "none" before it is registered
    due,        \* artifacts whose time is over
    keys,       \* artifacts whose private key is held
    keyless,    \* adopted with a catalog, their keys not recovered
    stored,     \* artifacts whose bytes the storage has
    removing,   \* removals the storage works at
    reaping,    \* the passes of reap: what they have to look at, and since when
    shut

artifactVars == <<record, due, keys, keyless, stored, removing, reaping, shut>>

ArtifactAssumption == MaxArtifacts \in Nat

Artifacts == 1..MaxArtifacts
NoPass == [left |-> {}, at |-> {}, awaits |-> 0]

\* An empty store, or a catalog that a promoted follower adopts.
Init ==
    /\ record \in [Artifacts -> {"none", "ready"}]
    /\ stored = {a \in Artifacts : record[a] = "ready"}
    /\ keyless \in SUBSET stored /\ keys = stored \ keyless
    /\ due = {} /\ removing = {} /\ shut = FALSE
    /\ reaping = [r \in Reapers |-> NoPass]

Register(a) ==
    /\ ~shut /\ record[a] = "none"
    /\ record' = [record EXCEPT ![a] = "ready"]
    /\ keys' = keys \cup {a} /\ stored' = stored \cup {a}
    /\ UNCHANGED <<due, keyless, removing, reaping, shut>>

TimePasses(a) ==
    /\ record[a] # "none" /\ due' = due \cup {a}
    /\ UNCHANGED <<record, keys, keyless, stored, removing, reaping, shut>>

-----------------------------------------------------------------------------
\* The removal that an invalidation asks the storage for.
Removal(a, state, by) ==
    IF record[a] \in {"ready", state} /\ a \in keys THEN {[artifact |-> a, by |-> by]} ELSE {}

\* Mutant: the later end replaces the earlier one.
InvalidatedAnyway(a, state) == [record EXCEPT ![a] = state]
Invalidated(a, state) ==
    IF record[a] = "ready" THEN [record EXCEPT ![a] = state] ELSE record

Revoke(a) ==
    /\ ~shut /\ record[a] # "none"
    /\ record' = Invalidated(a, "revoked")
    /\ removing' = removing \cup Removal(a, "revoked", "caller")
    /\ UNCHANGED <<due, keys, keyless, stored, reaping, shut>>

OpenExpired(a) ==
    /\ ~shut /\ record[a] = "ready" /\ a \in due
    /\ record' = Invalidated(a, "expired")
    /\ removing' = removing \cup Removal(a, "expired", "caller")
    /\ UNCHANGED <<due, keys, keyless, stored, reaping, shut>>

ReapStarts(r) ==
    /\ reaping[r] = NoPass
    /\ reaping' = [reaping EXCEPT ![r] =
            [left |-> {a \in Artifacts : record[a] # "none"}, at |-> due, awaits |-> 0]]
    /\ UNCHANGED <<record, due, keys, keyless, stored, removing, shut>>

\* What a pass does about an artifact: nothing, or an invalidation.
ShouldExpire(pass, a) == record[a] = "ready" /\ a \in pass.at
\* Mutant: a pass looks only at what is to expire.
NoRetry(a) == FALSE
RetriesRemoval(a) == record[a] \in {"revoked", "expired"} /\ a \in keys

Settles(r, pass) == [reaping EXCEPT ![r] = IF pass.left = {} /\ pass.awaits = 0 THEN NoPass ELSE pass]

ReapNext(r) ==
    LET pass == reaping[r] IN
    /\ pass.left # {} /\ pass.awaits = 0
    /\ LET a == CHOOSE x \in pass.left : \A y \in pass.left : x <= y
           state == IF record[a] = "revoked" THEN "revoked" ELSE "expired"
           rest == [pass EXCEPT !.left = @ \ {a}]
       IN IF ShouldExpire(pass, a) \/ RetriesRemoval(a)
          THEN /\ record' = Invalidated(a, state)
               /\ removing' = removing \cup Removal(a, state, r)
               /\ reaping' = IF Removal(a, state, r) = {} THEN Settles(r, rest)
                             ELSE [reaping EXCEPT ![r] = [rest EXCEPT !.awaits = a]]
          ELSE reaping' = Settles(r, rest) /\ UNCHANGED <<record, removing>>
    /\ UNCHANGED <<due, keys, keyless, stored, shut>>

-----------------------------------------------------------------------------
(* The storage *)

\* The key goes with the bytes.
KeysAfterRemoval(a) == keys \ {a}

\* A pass goes on after the removal it waits for.
Continues(x) ==
    reaping' = IF x.by \in Reapers THEN Settles(x.by, [reaping[x.by] EXCEPT !.awaits = 0])
               ELSE reaping

Removed(x) ==
    /\ x \in removing /\ removing' = removing \ {x}
    /\ stored' = stored \ {x.artifact}
    /\ keys' = KeysAfterRemoval(x.artifact)
    /\ Continues(x)
    /\ UNCHANGED <<record, due, keyless, shut>>

\* Mutant: the key goes whether or not the bytes did.
RemovalFailsWithKey(x) ==
    /\ x \in removing /\ removing' = removing \ {x}
    /\ stored' \in {stored, stored \ {x.artifact}}
    /\ keys' = keys \ {x.artifact}
    /\ reaping' = IF x.by \in Reapers THEN [reaping EXCEPT ![x.by] = NoPass] ELSE reaping
    /\ UNCHANGED <<record, due, keyless, shut>>

\* It fails, the bytes still there or only the answer lost; a pass ends with it.
RemovalFails(x) ==
    /\ x \in removing /\ removing' = removing \ {x}
    /\ stored' \in {stored, stored \ {x.artifact}}
    /\ reaping' = IF x.by \in Reapers THEN [reaping EXCEPT ![x.by] = NoPass] ELSE reaping
    /\ UNCHANGED <<record, due, keys, keyless, shut>>

\* Passes under way go on, without keys.
Close ==
    /\ ~shut /\ shut' = TRUE /\ keys' = {}
    /\ UNCHANGED <<record, due, keyless, stored, removing, reaping>>

Next ==
    \/ \E a \in Artifacts : Register(a) \/ TimePasses(a) \/ Revoke(a) \/ OpenExpired(a)
    \/ \E r \in Reapers : ReapStarts(r) \/ ReapNext(r)
    \/ \E x \in removing : Removed(x) \/ RemovalFails(x)
    \/ Close

Spec == Init /\ [][Next]_artifactVars

-----------------------------------------------------------------------------
States == {"none", "ready", "revoked", "expired"}

TypeOK ==
    /\ record \in [Artifacts -> States]
    /\ {due, keys, keyless, stored} \subseteq SUBSET Artifacts
    /\ removing \subseteq [artifact : Artifacts, by : Reapers \cup {"caller"}]
    /\ reaping \in [Reapers -> [left : SUBSET Artifacts, at : SUBSET Artifacts,
                               awaits : {0} \cup Artifacts]]
    /\ shut \in BOOLEAN

\* Bytes of an artifact that nobody may open can still be removed: the host has their key,
\* unless it never had (artifact-host.ts:218-224, doc/ARTIFACT-RUNTIME.md:79-80).
BytesHaveTheirKey ==
    ~shut => \A a \in stored \ keyless : record[a] # "none" => a \in keys

\* An end is for ever, and is the first that came (artifact-host.ts:226-234).
EndsStay ==
    [][\A a \in Artifacts : record[a] \in {"revoked", "expired"} => record'[a] = record[a]]_artifactVars

\* What is over, its key known, and left to reap.
Gone == shut \/ \A a \in Artifacts :
            (a \in due \/ record[a] \in {"revoked", "expired"}) /\ a \notin keyless => a \notin stored
=============================================================================
