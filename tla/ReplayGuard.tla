------------------------------ MODULE ReplayGuard ------------------------------
(***************************************************************************)
(* DataPlaneReplayGuard and DataPlaneReplayWindow of                       *)
(* crates/kmsync/src/transport.rs: the receiving side's memory of which    *)
(* envelopes it has opened.  Each connection has one guard, which keeps a  *)
(* window for every key epoch: the highest sequence number accepted and a  *)
(* bitmap whose bit o stands for the number highest - o.                   *)
(*                                                                         *)
(* The bitmap is a u128; here it is the set of the offsets whose bit is    *)
(* set.  Bits shifted beyond its width are gone.                           *)
(***************************************************************************)
EXTENDS Integers

CONSTANTS
  Epochs,        \* the windows of all guards: a connection and a key epoch
  Sequences,     \* the sequence numbers envelopes carry
  ReplayWindow,  \* DATA_PLANE_REPLAY_WINDOW, clamped to 1 .. 128
  BitmapWidth    \* the width of the bitmap: 128

ASSUME ReplayAssumption ==
  /\ Sequences \subseteq Nat
  /\ ReplayWindow \in Nat \ {0} /\ BitmapWidth \in Nat
  /\ ReplayWindow <= BitmapWidth

VARIABLES
  replay,    \* the window of each epoch
  accepted   \* history: the numbers each window has accepted

guardVars == <<replay, accepted>>

WindowType == [highest : Nat, seen : SUBSET (0 .. BitmapWidth - 1)]

(* or_default *)
FreshWindow == [highest |-> 0, seen |-> {}]

GuardInit ==
  /\ replay = [e \in Epochs |-> FreshWindow]
  /\ accepted = [e \in Epochs |-> {}]

(* Mutant: a number at the far edge of the window is let in unseen. *)
MutantAccepts(w, s) ==
  \/ s > w.highest
  \/ w.highest - s <= ReplayWindow /\ w.highest - s \notin w.seen

(* Whether DataPlaneReplayWindow::accept returns Ok. *)
Accepts(w, s) ==
  \/ s > w.highest
  \/ w.highest - s < ReplayWindow /\ w.highest - s \notin w.seen

(* seen << d, within the width of the bitmap *)
ShiftedBy(seen, d) == {o \in d .. BitmapWidth - 1 : o - d \in seen}

(* The number is the highest so far: the bitmap moves on. *)
MoveTo(w, s) ==
  LET d == s - w.highest IN
  [highest |-> s,
   seen |-> IF d >= BitmapWidth THEN {0} ELSE ShiftedBy(w.seen, d) \cup {0}]

(* The number is not higher: its bit is set. *)
Mark(w, s) == [highest |-> w.highest, seen |-> w.seen \cup {w.highest - s}]

AcceptNumber(e, s) ==
  /\ Accepts(replay[e], s)
  /\ replay' = [replay EXCEPT ![e] = IF s > @.highest THEN MoveTo(@, s) ELSE Mark(@, s)]
  /\ accepted' = [accepted EXCEPT ![e] = @ \cup {s}]

(* An old number or a duplicate changes nothing. *)
RejectNumber(e, s) == ~Accepts(replay[e], s) /\ UNCHANGED guardVars

GuardNext == \E e \in Epochs, s \in Sequences : AcceptNumber(e, s) \/ RejectNumber(e, s)

GuardSpec == GuardInit /\ [][GuardNext]_guardVars

-----------------------------------------------------------------------------
GuardTypeOK ==
  /\ replay \in [Epochs -> WindowType]
  /\ accepted \in [Epochs -> SUBSET Sequences]

(* The bitmap is the history: bit o is set exactly when highest - o was    *)
(* accepted, highest is the greatest accepted number, and no move of the   *)
(* window has lost or invented a bit.                                      *)
BitmapIsHistory ==
  \A e \in Epochs :
    LET w == replay[e] IN
      /\ \A s \in accepted[e] : s <= w.highest
      /\ w.highest # 0 => w.highest \in accepted[e]
      /\ \A o \in 0 .. BitmapWidth - 1 : o \in w.seen <=> w.highest - o \in accepted[e]

(* The guard's verdict is exact: it lets a number in when it was not       *)
(* accepted before and no accepted number is ReplayWindow or more ahead of *)
(* it, and only then.  So nothing is opened twice, however far the         *)
(* numbers jump, and nothing fresh within the window is refused.           *)
VerdictIsExact ==
  \A e \in Epochs, s \in Sequences :
    Accepts(replay[e], s) <=>
      s \notin accepted[e] /\ \A t \in accepted[e] : t - s < ReplayWindow
=============================================================================
