---------------------------- MODULE InputDelivery ----------------------------
(***************************************************************************)
(* What a receiving device promises of the input frames that reach it,     *)
(* however it buffers, reorders, gives up and fails:                       *)
(*                                                                         *)
(*   - a frame may be lost, but frames take effect in the order of their   *)
(*     sequence numbers, each number at most once;                         *)
(*   - a key goes down only because a frame that arrived pressed it;       *)
(*     releasing keys is allowed at any time.                              *)
(*                                                                         *)
(* InputInjection, the translation of inject_received_frames in            *)
(* crates/kmsync/src/main.rs, is shown to implement this module.           *)
(***************************************************************************)
EXTENDS Naturals

CONSTANTS Keys, Frames

VARIABLES
  waiting,  \* frames that arrived and have neither taken effect nor been lost
  last,     \* sequence number of the frame that took effect last
  down      \* keys and buttons held down on the receiver

vars == <<waiting, last, down>>

Init == waiting = {} /\ last = 0 /\ down = {}

Arrive(f) == waiting' = waiting \cup {f} /\ UNCHANGED <<last, down>>

Lose == waiting' \subseteq waiting /\ down' \subseteq down /\ last' = last

Pressed(e) == IF e.kind = "press" THEN {e.key} ELSE {}
Released(e) == IF e.kind = "release" THEN {e.key} ELSE {}

Deliver(f) ==
  /\ f.seq > last /\ last' = f.seq
  /\ waiting' \subseteq waiting
  /\ Pressed(f.event) \subseteq down'
  /\ down' \subseteq (down \ Released(f.event)) \cup Pressed(f.event)

Next ==
  \/ \E f \in Frames : Arrive(f)
  \/ \E f \in waiting : Deliver(f)
  \/ Lose

Spec == Init /\ [][Next]_vars
=============================================================================
