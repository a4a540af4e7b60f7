----------------------------- MODULE ReplicaView -----------------------------
(***************************************************************************)
(* What any consumer of a replay line is promised, whatever route, gate or *)
(* reconnect its events came through: its state is at every moment the     *)
(* fold of a gap-free run of the events produced so far, it only ever      *)
(* grows at the end, and if it starts in the middle that is because the    *)
(* line has no keyframe to start from.                                     *)
(***************************************************************************)
EXTENDS Naturals

CONSTANT HasKeyframe   \* TRUE when the line can hand out its whole state

VARIABLES
    produced,          \* number of the last event of the line
    view               \* the events the consumer's state has folded in

Init ==
    /\ produced \in Nat
    /\ \E k \in 0..produced : view = 1..k

Produce == produced' = produced + 1 /\ UNCHANGED view

\* The next event: the one right after everything that is in the view.
Extend ==
    /\ \E s \in 1..produced :
        /\ \A v \in view : v < s
        /\ (view # {} /\ s > 1) => s - 1 \in view
        /\ (view = {} /\ HasKeyframe) => s = 1
        /\ view' = view \cup {s}
    /\ UNCHANGED produced

\* The whole state at some number, never losing what was there.
Replace ==
    /\ HasKeyframe
    /\ \E k \in 0..produced : view \subseteq 1..k /\ view' = 1..k
    /\ UNCHANGED produced

Next == Produce \/ Extend \/ Replace

Spec == Init /\ [][Next]_<<produced, view>>
=============================================================================
