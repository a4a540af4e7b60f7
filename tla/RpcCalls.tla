------------------------------ MODULE RpcCalls ------------------------------
(***************************************************************************)
(* The calls of an RPC client (rpc-client.ts) and what its server sends    *)
(* back (rpc-server.ts).  Requests and the callbacks in their arguments    *)
(* take their ids from one pool; a response, or the end of a callback,     *)
(* gives them back.  Equal subscriptions share one logical subscription,   *)
(* whose physical call is repeated after a reconnection.  Calls are        *)
(* numbered; the number is not on the wire, it serves the properties.      *)
(***************************************************************************)
EXTENDS Integers, Sequences, SequencesExt

CONSTANTS
    Consumers,      \* who may share the subscription
    MaxCalls,
    MaxFaults       \* drops and disposals together

VARIABLES
    pool,           \* [free, top]: the stack of free ids, the highest id issued
    pending,        \* [call, id, cb]: requests waiting for a response; cb = 0: no callback
    callbacks,      \* [call, id]: the callbacks that packets can reach
    zombies,        \* ids of cancelled requests and callbacks
    settled,        \* per call: 0 open, -1 given up, m: by the response to call m
    sub,            \* the logical subscription
    connected, faults, replaced,
    toServer, toClient,
    served          \* the server's side: the calls under way and the callbacks it kept

vars ==
    <<pool, pending, callbacks, zombies, settled, sub, connected, faults, replaced,
      toServer, toClient, served>>

RpcAssumption == MaxCalls \in Nat /\ MaxFaults \in Nat

NoSub == [live |-> FALSE, recoverable |-> FALSE, consumers |-> {}, attempt |-> 0, cb |-> 0]

Init ==
    /\ pool = [free |-> <<>>, top |-> 0]
    /\ pending = {} /\ callbacks = {} /\ zombies = {}
    /\ settled = <<>> /\ sub = NoSub
    /\ connected = TRUE /\ faults = 0 /\ replaced = FALSE
    /\ toServer = <<>> /\ toClient = <<>> /\ served = {}

Ids(records) == {r.id : r \in records}

-----------------------------------------------------------------------------
(* The pool *)

NextId(p) == IF p.free = <<>> THEN p.top + 1 ELSE Last(p.free)

Issue(p) ==
    IF p.free = <<>> THEN [p EXCEPT !.top = @ + 1] ELSE [p EXCEPT !.free = Front(@)]

Release(p, id) ==
    IF id \in 1..p.top /\ id \notin ToSet(p.free) THEN [p EXCEPT !.free = Append(@, id)] ELSE p

-----------------------------------------------------------------------------
(* Calls: the callback in the arguments takes its id before the request *)

Made == Len(settled)

\* One call goes out; a call that does not wait has no id and no pending request.
SendCall(listen, withCallback, wait) ==
    LET cb    == IF withCallback THEN NextId(pool) ELSE 0
        after == IF withCallback THEN Issue(pool) ELSE pool
        id    == IF wait THEN NextId(after) ELSE 0
        call  == Made + 1
    IN  /\ Made < MaxCalls
        /\ pool' = IF wait THEN Issue(after) ELSE after
        /\ callbacks' =
              IF withCallback THEN callbacks \cup {[call |-> call, id |-> cb]} ELSE callbacks
        /\ pending' = IF wait THEN pending \cup {[call |-> call, id |-> id, cb |-> cb]} ELSE pending
        /\ settled' = Append(settled, IF wait THEN 0 ELSE call)
        /\ toServer' = Append(toServer,
              [kind |-> "call", call |-> call, id |-> id, cb |-> cb, listen |-> listen])

Call(withCallback, wait) ==
    /\ connected
    /\ SendCall(FALSE, withCallback, wait)
    /\ UNCHANGED <<zombies, sub, connected, faults, replaced, toClient, served>>

-----------------------------------------------------------------------------
(* The shared subscription *)

\* The physical call, unless there is one.
StartAttempt(s) ==
    IF s.attempt = 0
       THEN sub' = [s EXCEPT !.attempt = Made + 1, !.cb = NextId(pool)] /\ SendCall(TRUE, TRUE, TRUE)
       ELSE sub' = s /\ UNCHANGED <<pool, pending, callbacks, settled, toServer>>

\* A first consumer makes the subscription, the others join it.
Subscribe(c) ==
    /\ connected /\ c \notin sub.consumers
    /\ IF sub.live
          THEN StartAttempt([sub EXCEPT !.consumers = @ \cup {c}])
          ELSE \E declared \in BOOLEAN :
                  StartAttempt([NoSub EXCEPT !.live = TRUE, !.recoverable = declared,
                                             !.consumers = {c}])
    /\ UNCHANGED <<zombies, connected, faults, replaced, toClient, served>>

\* Mutant: the stop names no callback.
StopsNothing == [kind |-> "remove", cbs |-> {}]

\* The stop is sent without waiting; the physical call ends with its response.
StopMessage == [kind |-> "remove", cbs |-> {sub.cb}]

\* The last consumer stops the subscription; offline there is no call left to abandon.
Unsubscribe(c) ==
    /\ c \in sub.consumers
    /\ IF sub.consumers # {c}
          THEN sub' = [sub EXCEPT !.consumers = @ \ {c}] /\ UNCHANGED toServer
          ELSE /\ sub' = NoSub
               /\ toServer' = IF connected THEN Append(toServer, StopMessage) ELSE toServer
    /\ UNCHANGED <<pool, pending, callbacks, zombies, settled, connected, faults, replaced,
                   toClient, served>>

\* The continuation of the physical call.
AttemptEnds ==
    /\ sub.attempt # 0 /\ settled[sub.attempt] # 0
    /\ sub' = NoSub
    /\ UNCHANGED <<pool, pending, callbacks, zombies, settled, connected, faults, replaced,
                   toServer, toClient, served>>

-----------------------------------------------------------------------------
(* Packets from the server *)

Packet == Head(toClient)

Received(kind) ==
    /\ toClient # <<>> /\ Packet.kind = kind
    /\ toClient' = Tail(toClient)
    /\ UNCHANGED <<sub, connected, faults, replaced, toServer, served>>

\* Mutant: the callback's id is given back without asking whether it still is the call's.
AnsweredReleasesAll ==
    /\ Received("resp")
    /\ \E p \in pending :
          /\ p.id = Packet.id
          /\ pending' = pending \ {p}
          /\ settled' = [settled EXCEPT ![p.call] = Packet.call]
          /\ callbacks' = {c \in callbacks : c.id # p.cb}
          /\ pool' = Release(Release(pool, p.id), p.cb)
    /\ UNCHANGED zombies

\* A response gives back its request's id, and its callback's id if that is registered.
Answered ==
    /\ Received("resp")
    /\ \E p \in pending :
          /\ p.id = Packet.id
          /\ pending' = pending \ {p}
          /\ settled' = [settled EXCEPT ![p.call] = Packet.call]
          /\ callbacks' = {c \in callbacks : c.id # p.cb}
          /\ pool' = LET freed == Release(pool, p.id)
                     IN  IF p.cb \in Ids(callbacks) THEN Release(freed, p.cb) ELSE freed
    /\ UNCHANGED zombies

\* A response nobody waits for frees the id of a cancelled request.
AnswersZombie ==
    /\ Received("resp")
    /\ Packet.id \notin Ids(pending)
    /\ zombies' = zombies \ {Packet.id}
    /\ pool' = IF Packet.id \in zombies THEN Release(pool, Packet.id) ELSE pool
    /\ UNCHANGED <<pending, callbacks, settled>>

CallbackEnds ==
    /\ Received("end")
    /\ callbacks' = {c \in callbacks : c.id # Packet.id}
    /\ zombies' = IF Packet.id \in Ids(callbacks) THEN zombies ELSE zombies \ {Packet.id}
    /\ pool' = IF Packet.id \in Ids(callbacks) \cup zombies THEN Release(pool, Packet.id) ELSE pool
    /\ UNCHANGED <<pending, settled>>

-----------------------------------------------------------------------------
(* The server *)

\* The subscription that a callback id stands for is the newest one made with it.
Subscribers(id) == {s \in served : s.listen /\ s.cb = id}

Stopped(ids) ==
    {s \in served : s.listen /\ s.cb \in ids /\ \A t \in Subscribers(s.cb) : t.call <= s.call}

Serve ==
    /\ toServer # <<>>
    /\ toServer' = Tail(toServer)
    /\ LET m == Head(toServer)
       IN  served' =
             IF m.kind = "call"
                THEN served \cup {[call |-> m.call, id |-> m.id, cb |-> m.cb, listen |-> m.listen,
                                   due |-> ~m.listen]}
                ELSE {IF s \in Stopped(m.cbs) THEN [s EXCEPT !.due = TRUE] ELSE s : s \in served}
    /\ UNCHANGED <<pool, pending, callbacks, zombies, settled, sub, connected, faults, replaced,
                   toClient>>

Send(m) ==
    /\ toClient' = Append(toClient, m)
    /\ UNCHANGED <<pool, pending, callbacks, zombies, settled, sub, connected, faults, replaced,
                   toServer>>

\* The server ends a callback: a listener's source has closed or has fired once, and its
\* call is answered next; a method ends its stream when it likes, before or after it returns.
EndCallback(s) ==
    /\ s.cb # 0 /\ (s.listen => ~s.due)
    /\ Send([kind |-> "end", call |-> s.call, id |-> s.cb])
    /\ served' = (served \ {s})
          \cup (IF s.id = 0 THEN {} ELSE {[s EXCEPT !.cb = 0, !.due = TRUE]})

\* A method returns, or a subscription that is off resolves; a callback that was handed to a
\* method outlives the response.
Respond(s) ==
    /\ s.id # 0 /\ s.due
    /\ Send([kind |-> "resp", call |-> s.call, id |-> s.id])
    /\ served' = (served \ {s})
          \cup (IF s.cb = 0 \/ s.listen THEN {} ELSE {[s EXCEPT !.id = 0]})

\* The source of a listener closes without ending the callback first.
SourceCloses(s) ==
    /\ s.listen /\ ~s.due
    /\ served' = (served \ {s}) \cup {[s EXCEPT !.due = TRUE]}
    /\ UNCHANGED <<pool, pending, callbacks, zombies, settled, sub, connected, faults, replaced,
                   toServer, toClient>>

-----------------------------------------------------------------------------
(* The transport, and another client on the same socket *)

GivenUp == [n \in DOMAIN settled |-> IF settled[n] = 0 THEN -1 ELSE settled[n]]

\* Mutant: a drop gives the ids of the requests back.
DisconnectReleases ==
    /\ connected /\ faults < MaxFaults
    /\ connected' = FALSE /\ faults' = faults + 1
    /\ sub' = IF sub.recoverable THEN [sub EXCEPT !.attempt = 0] ELSE NoSub
    /\ settled' = GivenUp
    /\ pool' = FoldSet(LAMBDA id, p : Release(p, id), pool, Ids(pending))
    /\ pending' = {} /\ callbacks' = {}
    /\ toServer' = <<>> /\ served' = {}
    /\ toClient' \in {<<>>, toClient}
    /\ UNCHANGED <<zombies, replaced>>

\* Mutant: a drop leaves the subscription its abandoned call.
DisconnectKeepsAttempt ==
    /\ connected /\ faults < MaxFaults
    /\ connected' = FALSE /\ faults' = faults + 1
    /\ sub' = IF sub.recoverable THEN sub ELSE NoSub
    /\ settled' = GivenUp
    /\ pending' = {} /\ callbacks' = {}
    /\ toServer' = <<>> /\ served' = {}
    /\ toClient' \in {<<>>, toClient}
    /\ UNCHANGED <<pool, zombies, replaced>>

\* A drop abandons every call.  Their ids are not given back: packets that are still
\* delivered name no connection.
Disconnect ==
    /\ connected /\ faults < MaxFaults
    /\ connected' = FALSE /\ faults' = faults + 1
    /\ sub' = IF sub.recoverable THEN [sub EXCEPT !.attempt = 0] ELSE NoSub
    /\ settled' = GivenUp
    /\ pending' = {} /\ callbacks' = {}
    /\ toServer' = <<>> /\ served' = {}
    /\ toClient' \in {<<>>, toClient}
    /\ UNCHANGED <<pool, zombies, replaced>>

\* The handshake is over: what the server still declares is subscribed again.
Connect ==
    /\ ~connected /\ connected' = TRUE
    /\ \E declared \in BOOLEAN :
          IF sub.live /\ declared
             THEN StartAttempt(sub)
             ELSE sub' = NoSub /\ UNCHANGED <<pool, pending, callbacks, settled, toServer>>
    /\ UNCHANGED <<zombies, faults, replaced, toClient, served>>

\* The client is disposed of on a live socket and another takes its place; they share the pool.
Dispose ==
    /\ connected /\ faults < MaxFaults
    /\ faults' = faults + 1 /\ replaced' = TRUE
    /\ sub' = NoSub
    /\ toServer' = IF sub.live THEN Append(toServer, StopMessage) ELSE toServer
    /\ zombies' = zombies \cup Ids(pending) \cup Ids(callbacks)
    /\ settled' = GivenUp
    /\ pending' = {} /\ callbacks' = {}
    /\ UNCHANGED <<pool, connected, toClient, served>>

-----------------------------------------------------------------------------
Next ==
    \/ \E withCallback, wait \in BOOLEAN : Call(withCallback, wait)
    \/ \E c \in Consumers : Subscribe(c) \/ Unsubscribe(c)
    \/ AttemptEnds \/ Answered \/ AnswersZombie \/ CallbackEnds
    \/ Serve
    \/ \E s \in served : EndCallback(s) \/ Respond(s) \/ SourceCloses(s)
    \/ Disconnect \/ Connect \/ Dispose

Spec == Init /\ [][Next]_vars

\* What the event loops of both sides do by themselves: deliver, answer, continue.
Progress ==
    \/ AttemptEnds \/ Answered \/ AnswersZombie \/ CallbackEnds \/ Serve
    \/ \E s \in served : Respond(s)

-----------------------------------------------------------------------------
(* Properties *)

TypeOK ==
    /\ pool.top \in Nat /\ pool.free \in Seq(1..pool.top)
    /\ \A p \in pending : p.call \in DOMAIN settled /\ p.id \in 1..pool.top /\ p.cb \in 0..pool.top
    /\ \A c \in callbacks : c.call \in DOMAIN settled /\ c.id \in 1..pool.top
    /\ zombies \subseteq 1..pool.top
    /\ \A n \in DOMAIN settled : settled[n] \in {-1, 0} \cup DOMAIN settled
    /\ sub.attempt \in {0} \cup DOMAIN settled /\ sub.consumers \subseteq Consumers

\* An id is free or has one owner: a request, a callback or a cancelled one of either
\* (id-pool.ts:1-18, rpc-client.ts:650-760).
IdsHaveOneOwner ==
    /\ IsInjective(pool.free)
    /\ \A p, q \in pending : p.id = q.id => p = q
    /\ \A c, d \in callbacks : c.id = d.id => c = d
    /\ ToSet(pool.free) \cap (Ids(pending) \cup Ids(callbacks) \cup zombies) = {}
    /\ Ids(pending) \cap Ids(callbacks) = {}
    /\ zombies \cap (Ids(pending) \cup Ids(callbacks)) = {}

\* A call is settled by the response to itself, whatever was dropped, reused or ended out of
\* turn, as long as no client on the socket was disposed of (rpc-client.ts:643-672,
\* 1343-1368).
AnsweredByItsOwn == ~replaced => \A n \in DOMAIN settled : settled[n] \in {-1, 0, n}

\* A subscription with consumers has a call under way, or one whose answer is about to end
\* it; without a connection it waits for the next one (rpc-client.ts:1277-1360).
ListenersAreFed ==
    sub.live =>
        /\ sub.consumers # {}
        /\ IF connected
              THEN settled[sub.attempt] # -1 /\ (settled[sub.attempt] = 0 =>
                      \E p \in pending : p.call = sub.attempt)
              ELSE sub.recoverable

\* A callback's end takes away the callback of its own call only; a late one, whose id was
\* given back with the response, takes away nothing (rpc-client.ts:749-760).
EndsOnlyItsOwn ==
    [][toClient # <<>> /\ toClient' = Tail(toClient) /\ Packet.kind = "end"
          => \A c \in callbacks \ callbacks' : c.call = Packet.call]_vars

\* In the end only the subscription's own call is still waiting.
Settled == \A p \in pending : p.call = sub.attempt
=============================================================================
