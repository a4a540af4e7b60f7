------------------------------- MODULE RpcFlow -------------------------------
(***************************************************************************)
(* A call whose method streams frames through a callback at the pace of    *)
(* its consumer (rpc-flow.ts, rpc-server.ts, rpc-client.ts).  The client   *)
(* acknowledges cumulatively what its consumer has finished with; a push   *)
(* of the server waits while a window of frames is out, or while the       *)
(* transport holds too many packets.  The response waits for the frames.   *)
(***************************************************************************)
EXTENDS Integers, Sequences

CONSTANTS
    Window, AckEvery,       \* of the credit
    HighWater, LowWater,    \* of the transport's buffer
    Pushers,                \* pushes that a method has under way at a time
    MaxFrames

VARIABLES
    flow,       \* the server's: opened, negotiated, sent, acked, draining, closed, waiting
    method,     \* "runs", "returned"
    frames,     \* sent through the callback, counted by the flow or not
    ended,      \* the server has ended the callback
    wire,       \* to the client
    acks,       \* to the server
    stream,     \* the client's: declared, queue, busy, delivered, acked
    registered, \* the client still has the callback
    handed,     \* frames that are finished with
    slow,       \* the consumer returns promises
    response,   \* "awaited", "deferred", "answered", "givenUp"
    up

vars ==
    <<flow, method, frames, ended, wire, acks, stream, registered, handed, slow, response, up>>

serverVars == <<flow, method, frames, ended>>
clientVars == <<stream, registered, handed, slow, response>>

FlowAssumption ==
    /\ Window \in Nat \ {0} /\ AckEvery \in 1..Window
    /\ HighWater \in Nat \ {0} /\ LowWater \in 0..HighWater
    /\ Pushers \in Nat /\ MaxFrames \in Nat

NoStream == [declared |-> FALSE, queue |-> 0, busy |-> FALSE, delivered |-> 0, acked |-> 0]

Init ==
    /\ flow = [opened |-> FALSE, negotiated |-> FALSE, sent |-> 0, acked |-> 0,
               draining |-> FALSE, closed |-> FALSE, waiting |-> 0]
    /\ method = "runs" /\ frames = 0 /\ ended = FALSE
    /\ wire = <<>> /\ acks = <<>>
    /\ stream = NoStream /\ registered = TRUE /\ handed = 0
    /\ slow \in BOOLEAN /\ response = "awaited" /\ up = TRUE

-----------------------------------------------------------------------------
(* The server *)

\* What is sent on a dead transport is lost.
Sent(packet) == IF up THEN Append(wire, packet) ELSE wire

CreditBlocked(f) == f.negotiated /\ f.sent - f.acked >= Window

\* The hysteresis over the packets that the transport still holds.
WatermarkBlocked(f, w) == Len(w) > (IF f.draining THEN LowWater ELSE HighWater)

\* The watermark is read only when the credit allows more.
Gate(f, w) == IF CreditBlocked(f) THEN f ELSE [f EXCEPT !.draining = WatermarkBlocked(f, w)]

Blocked(f, w) == CreditBlocked(f) \/ WatermarkBlocked(f, w)

\* The pushes that wait are rejected.
CloseFlow(f) == IF f.opened THEN [f EXCEPT !.closed = TRUE, !.waiting = 0] ELSE f

\* A frame before the flow is opened, which neither side counts.
Plain ==
    /\ method = "runs" /\ ~flow.opened /\ ~ended /\ frames < MaxFrames
    /\ frames' = frames + 1
    /\ wire' = Sent("frame")
    /\ UNCHANGED <<flow, method, ended, acks, clientVars, up>>

\* The declaration goes before the first counted frame.
OpenFlow(negotiated) ==
    /\ method = "runs" /\ ~flow.opened /\ ~ended
    /\ flow' = [flow EXCEPT !.opened = TRUE, !.negotiated = negotiated]
    /\ wire' = IF negotiated THEN Sent("flow") ELSE wire
    /\ UNCHANGED <<method, frames, ended, acks, clientVars, up>>

\* A push sends its frame first and then waits for the gate.
Push ==
    /\ flow.opened /\ ~flow.closed /\ flow.waiting < Pushers /\ frames < MaxFrames
    /\ method = "runs"
    /\ frames' = frames + 1
    /\ wire' = Sent("frame")
    /\ LET counted == [flow EXCEPT !.sent = @ + 1]
           gated   == Gate(counted, wire')
       IN  flow' = IF Blocked(counted, wire') THEN [gated EXCEPT !.waiting = @ + 1] ELSE gated
    /\ UNCHANGED <<method, ended, acks, clientVars, up>>

\* endCallback.
EndStream ==
    /\ ~ended /\ ended' = TRUE
    /\ flow' = CloseFlow(flow)
    /\ wire' = Sent("end")
    /\ UNCHANGED <<method, frames, acks, clientVars, up>>

\* The method settles, whoever still waits, and its flow closes with it.
Return ==
    /\ method = "runs" /\ method' = "returned"
    /\ wire' = Sent("resp")
    /\ flow' = CloseFlow(flow)
    /\ UNCHANGED <<frames, ended, acks, clientVars, up>>

Wake(f) ==
    IF f.waiting = 0 \/ Blocked(f, wire)
       THEN IF f.waiting = 0 THEN f ELSE Gate(f, wire)
       ELSE [Gate(f, wire) EXCEPT !.waiting = 0]

\* Mutant: what is acknowledged is taken as an increment.
AckAdds ==
    /\ acks # <<>> /\ acks' = Tail(acks)
    /\ flow' = IF ~flow.opened \/ flow.closed \/ Head(acks) <= flow.acked
                  THEN flow
                  ELSE Wake([flow EXCEPT !.acked = @ + Head(acks)])
    /\ UNCHANGED <<method, frames, ended, wire, clientVars, up>>

\* A cumulative acknowledgement, never beyond what was sent.
AckArrives ==
    /\ acks # <<>> /\ acks' = Tail(acks)
    /\ flow' = IF ~flow.opened \/ flow.closed \/ Head(acks) <= flow.acked
                  THEN flow
                  ELSE Wake([flow EXCEPT !.acked = IF Head(acks) < flow.sent THEN Head(acks)
                                                                            ELSE flow.sent])
    /\ UNCHANGED <<method, frames, ended, wire, clientVars, up>>

\* Mutant: the poll does not ask for the transport.
PollOnlyWakes ==
    /\ flow.waiting > 0
    /\ flow' = Wake(flow)
    /\ UNCHANGED <<method, frames, ended, wire, acks, clientVars, up>>

\* The poll of the pushes that wait: a dead transport sends no acknowledgement.
Poll ==
    /\ flow.waiting > 0
    /\ flow' = IF up THEN Wake(flow) ELSE CloseFlow(flow)
    /\ UNCHANGED <<method, frames, ended, wire, acks, clientVars, up>>

\* The server on the dead transport is detached.
Detach ==
    /\ ~up /\ flow.opened /\ ~flow.closed
    /\ flow' = CloseFlow(flow)
    /\ UNCHANGED <<method, frames, ended, wire, acks, clientVars, up>>

-----------------------------------------------------------------------------
(* The client *)

Received(kind) ==
    /\ wire # <<>> /\ Head(wire) = kind
    /\ wire' = Tail(wire)
    /\ UNCHANGED <<serverVars, slow, up>>

Declared ==
    /\ Received("flow")
    /\ stream' = IF registered THEN [stream EXCEPT !.declared = TRUE] ELSE stream
    /\ UNCHANGED <<acks, registered, handed, response>>

\* One more frame is finished with: it is acknowledged when the queue is empty or enough have
\* gathered.
AckDue(s) == s.declared /\ (s.queue = 0 \/ s.delivered + 1 - s.acked >= AckEvery)

Finished(s) ==
    /\ stream' = [s EXCEPT !.delivered = @ + 1,
                           !.acked = IF AckDue(s) THEN s.delivered + 1 ELSE @,
                           !.queue = IF s.declared /\ @ > 0 THEN @ - 1 ELSE 0,
                           !.busy = s.declared /\ s.queue > 0]
    /\ acks' = IF AckDue(s) /\ up THEN Append(acks, s.delivered + 1) ELSE acks

\* Mutant: a frame is acknowledged when it arrives.
FrameAcked ==
    /\ Received("frame")
    /\ IF ~registered
          THEN UNCHANGED <<stream, acks, handed>>
       ELSE IF ~stream.declared \/ ~slow
          THEN /\ handed' = handed + 1
               /\ IF stream.declared THEN Finished(stream) ELSE UNCHANGED <<stream, acks>>
          ELSE /\ stream' = IF stream.busy THEN [stream EXCEPT !.queue = @ + 1]
                                           ELSE [stream EXCEPT !.busy = TRUE]
               /\ acks' = IF up THEN Append(acks, stream.delivered + stream.queue + 1) ELSE acks
               /\ UNCHANGED handed
    /\ UNCHANGED <<registered, response>>

\* A frame without a declared stream goes to the consumer at once; one of a stream waits for
\* the frames before it.
Frame ==
    /\ Received("frame")
    /\ IF ~registered
          THEN UNCHANGED <<stream, acks, handed>>
       ELSE IF ~stream.declared \/ ~slow
          THEN /\ handed' = handed + 1
               /\ IF stream.declared THEN Finished(stream) ELSE UNCHANGED <<stream, acks>>
          ELSE /\ stream' = IF stream.busy THEN [stream EXCEPT !.queue = @ + 1]
                                           ELSE [stream EXCEPT !.busy = TRUE]
               /\ UNCHANGED <<acks, handed>>
    /\ UNCHANGED <<registered, response>>

\* The promise of the consumer settles; the next frame is taken in the same turn.  Frames
\* behind a callback that is gone are only counted.
ConsumerSettles ==
    /\ stream.busy
    /\ Finished(stream)
    /\ handed' = handed + 1
    /\ UNCHANGED <<serverVars, wire, registered, slow, response, up>>

DropStream == [stream EXCEPT !.declared = FALSE, !.queue = 0]

CallbackEnds ==
    /\ Received("end")
    /\ registered' = FALSE /\ stream' = DropStream
    /\ UNCHANGED <<acks, handed, response>>

\* The response waits for what the stream still holds.
Drained == ~(stream.declared /\ (stream.busy \/ stream.queue > 0))

Answered ==
    /\ registered' = FALSE /\ stream' = DropStream
    /\ response' = "answered"
    /\ UNCHANGED <<acks, handed>>

\* Mutant: the response does not wait.
ResponseAtOnce ==
    /\ Received("resp")
    /\ IF response = "awaited" THEN Answered
                               ELSE UNCHANGED <<acks, registered, stream, handed, response>>

Response ==
    /\ Received("resp")
    /\ IF response = "awaited" /\ Drained
          THEN Answered
          ELSE /\ response' = IF response = "awaited" THEN "deferred" ELSE response
               /\ UNCHANGED <<acks, registered, stream, handed>>

Resume ==
    /\ response = "deferred" /\ Drained
    /\ Answered
    /\ UNCHANGED <<serverVars, wire, slow, up>>

\* A drop: the call is given up and its callback is gone; the stream goes on by itself.
Disconnect ==
    /\ up /\ up' = FALSE
    /\ wire' = <<>> /\ acks' = <<>>
    /\ registered' = FALSE
    /\ response' = IF response = "answered" THEN response ELSE "givenUp"
    /\ UNCHANGED <<serverVars, stream, handed, slow>>

-----------------------------------------------------------------------------
Next ==
    \/ Plain \/ (\E negotiated \in BOOLEAN : OpenFlow(negotiated)) \/ Push \/ EndStream \/ Return
    \/ AckArrives \/ Poll \/ Detach
    \/ Declared \/ Frame \/ ConsumerSettles \/ CallbackEnds \/ Response \/ Resume
    \/ Disconnect

Spec == Init /\ [][Next]_vars

\* The packets are delivered, the consumer settles, the timer fires.
Progress ==
    \/ AckArrives \/ Poll
    \/ Declared \/ Frame \/ ConsumerSettles \/ CallbackEnds \/ Response \/ Resume

-----------------------------------------------------------------------------
(* Properties *)

TypeOK ==
    /\ flow \in [opened : BOOLEAN, negotiated : BOOLEAN, sent : Nat, acked : Nat,
                 draining : BOOLEAN, closed : BOOLEAN, waiting : 0..Pushers]
    /\ method \in {"runs", "returned"} /\ frames \in 0..MaxFrames
    /\ wire \in Seq({"frame", "flow", "end", "resp"}) /\ acks \in Seq(Nat)
    /\ stream \in [declared : BOOLEAN, queue : Nat, busy : BOOLEAN, delivered : Nat, acked : Nat]
    /\ response \in {"awaited", "deferred", "answered", "givenUp"}
    /\ (flow.closed => flow.waiting = 0) /\ stream.acked <= stream.delivered

\* A window of frames is out at most, plus one for each other push under way; and credit is
\* given only for frames that the consumer has finished with (rpc-server.ts:404-470,
\* rpc-client.ts:566-596).
WindowHolds ==
    flow.negotiated =>
        /\ flow.sent - flow.acked <= Window + Pushers - 1
        /\ flow.acked <= stream.delivered

\* A call is answered after the last frame that its method has sent was finished with, as long
\* as the method did not end the callback itself (rpc-client.ts:644-653).
FramesBeforeResponse == response = "answered" /\ ~ended => handed = frames

\* Nobody waits for credit for ever, and what has been returned is answered or given up.
Settled ==
    /\ flow.waiting = 0 /\ wire = <<>>
    /\ response # "deferred" /\ (method = "returned" => response # "awaited")
=============================================================================
