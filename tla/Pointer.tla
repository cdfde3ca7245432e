------------------------------- MODULE Pointer -------------------------------
(***************************************************************************)
(* The pointer of the desktop capture crosses an edge of the local screen: *)
(* where it enters the target, how source and target follow it, when it    *)
(* comes back (DesktopCaptureRouter in crates/kmsync/src/main.rs and the   *)
(* injection of motion in crates/kmsync/src/platform).                     *)
(*                                                                         *)
(* The source has only a ratio of the target's screen, the target only     *)
(* deltas: both must agree on where the pointer is.  Ratios are multiples  *)
(* of 1/Unit, positions on the target of 1/Unit of a pixel, so that both   *)
(* are exact; rounding of f32 is left out.  Screens begin at 0; the corner *)
(* of DesktopCapture that chooses a target is left out: there is one.      *)
(***************************************************************************)
EXTENDS Integers, Sequences, FiniteSets, FiniteSetsExt

CONSTANTS
  Layouts,   \* displays of the source: sets of [x, y, width, height]
  Screens,   \* [kind, width, height] of targets, kind "windows", "macos", "x11"
  Edges,     \* edges the target may lie at
  Threshold, \* of the edge in pixels (8)
  MaxDelta,  \* of a motion in pixels, along an axis
  MaxStray,  \* bound: pixels a tracked pointer strays from the screen
  Unit       \* a multiple of all widths and heights

ASSUME PointerAssumption ==
  /\ {Threshold, MaxDelta, Unit} \subseteq Nat \ {0} /\ MaxStray \in Nat
  /\ Layouts \subseteq SUBSET [x : Int, y : Int, width : Nat \ {0}, height : Nat \ {0}]
  /\ \A displays \in Layouts : IsFiniteSet(displays) /\ displays # {}
  /\ Screens \subseteq [kind : {"windows", "macos", "x11"},
                       width : Nat \ {0}, height : Nat \ {0}]
  /\ \A s \in Screens : Unit % s.width = 0 /\ Unit % s.height = 0
  /\ Edges \subseteq {"left", "right", "top", "bottom",
                      "topleft", "topright", "bottomleft", "bottomright"}

VARIABLES
  layout, screen, edge,
  at,       \* the local pointer
  away,     \* DesktopCaptureRouter.active
  edgeCooling,
  restore,  \* local_restore_position, <<>> or <<position>>
  ratio,    \* remote_pointer
  tracked,  \* RemotePointerState of the target, <<>> or <<position>>
  shown,    \* the target's pointer
  exact,    \* history: no motion was lost since the last position was sent
  entered   \* history: the motion that has just entered

pointerVars == <<layout, screen, edge, at, away, edgeCooling, restore, ratio, tracked, shown,
                 exact, entered>>
setting == <<layout, screen, edge>>

Point(x, y) == [x |-> x, y |-> y]

Clamp(v, low, high) == IF v < low THEN low ELSE IF v > high THEN high ELSE v

Deltas == [x : -MaxDelta..MaxDelta, y : -MaxDelta..MaxDelta]

-----------------------------------------------------------------------------
(* DisplayLayout::virtual_bounds *)
VirtualBounds(displays) ==
  LET left == Min({d.x : d \in displays})
      top == Min({d.y : d \in displays})
  IN  [x |-> left, y |-> top,
       width |-> Max({d.x + d.width : d \in displays}) - left,
       height |-> Max({d.y + d.height : d \in displays}) - top]

Bounds == VirtualBounds(layout)

Within(p, d) == p.x \in d.x..(d.x + d.width - 1) /\ p.y \in d.y..(d.y + d.height - 1)

(* Which sides an edge or a corner consists of.                            *)
Sides(e) ==
  CASE e = "topleft" -> {"left", "top"} [] e = "topright" -> {"right", "top"}
    [] e = "bottomleft" -> {"left", "bottom"} [] e = "bottomright" -> {"right", "bottom"}
    [] OTHER -> {e}

AtSide(p, b, side, threshold) ==
  CASE side = "left" -> p.x <= b.x + threshold
    [] side = "right" -> p.x >= b.x + b.width - threshold
    [] side = "top" -> p.y <= b.y + threshold
    [] side = "bottom" -> p.y >= b.y + b.height - threshold

(* CaptureRouter::at_edge, and that of DesktopCaptureRouter with 8 pixels. *)
AtEdge(p, b, e, threshold) == \A side \in Sides(e) : AtSide(p, b, side, threshold)

DesktopAtEdge(p) == AtEdge(p, Bounds, edge, Threshold)

Outward(d, side) ==
  CASE side = "left" -> d.x < 0 [] side = "right" -> d.x > 0
    [] side = "top" -> d.y < 0 [] side = "bottom" -> d.y > 0

(* edge_activation_motion_matches *)
ActivationMotion(d) == \E side \in Sides(edge) : Outward(d, side)

(* CaptureRouter::entry_position, which is DesktopCaptureRouter's too: the *)
(* opposite side, as far along it as the pointer was.                      *)
EntryPosition(p, b, e) ==
  LET along(v, low, length) == Clamp(((v - low) * Unit) \div length, 0, Unit)
  IN  [x |-> IF "left" \in Sides(e) THEN Unit ELSE IF "right" \in Sides(e) THEN 0
             ELSE along(p.x, b.x, b.width),
       y |-> IF "top" \in Sides(e) THEN Unit ELSE IF "bottom" \in Sides(e) THEN 0
             ELSE along(p.y, b.y, b.height)]

DesktopEntry(p) == EntryPosition(p, Bounds, edge)

(* remote_pointer_crossed_return_edge *)
CrossedReturnEdge(r, d) ==
  \E side \in Sides(edge) :
    CASE side = "left" -> r.x >= Unit /\ d.x > 0
      [] side = "right" -> r.x <= 0 /\ d.x < 0
      [] side = "top" -> r.y >= Unit /\ d.y > 0
      [] side = "bottom" -> r.y <= 0 /\ d.y < 0

(* What the target's heartbeat says of its displays: nothing on Linux.     *)
Reported == IF screen.kind = "x11" THEN <<>> ELSE <<screen>>

(* remote_pointer_reference_size: the target's, or else the source's.      *)
ReferenceSize == IF Reported # <<>> THEN screen ELSE Bounds

Advanced(r, d) ==
  Point(r.x + (d.x * Unit) \div ReferenceSize.width, r.y + (d.y * Unit) \div ReferenceSize.height)

-----------------------------------------------------------------------------
(* The target. *)

OnScreen(p) ==
  Point(Clamp(p.x, 0, (screen.width - 1) * Unit), Clamp(p.y, 0, (screen.height - 1) * Unit))

Rounded(v) == ((2 * v + Unit) \div (2 * Unit)) * Unit

(* normalized_pointer_position of either platform, x11_absolute_position   *)
WindowsNormalized(r) == Point((screen.width - 1) * r.x, (screen.height - 1) * r.y)

MacNormalized(r) == Point(screen.width * r.x, screen.height * r.y)

XAbsolutePosition(r) ==
  Point(Rounded((screen.width - 1) * r.x), Rounded((screen.height - 1) * r.y))

(* inject_mouse_position of either platform, inject_absolute_motion: what  *)
(* is tracked, and the system keeps the pointer on the screen.             *)
WindowsPositioned(r) ==
  [tracked |-> <<WindowsNormalized(r)>>, shown |-> OnScreen(WindowsNormalized(r))]

MacPositioned(r) == [tracked |-> <<MacNormalized(r)>>, shown |-> OnScreen(MacNormalized(r))]

XPositioned(r) == [tracked |-> <<>>, shown |-> OnScreen(XAbsolutePosition(r))]

Positioned(r) ==
  CASE screen.kind = "windows" -> WindowsPositioned(r)
    [] screen.kind = "macos" -> MacPositioned(r)
    [] screen.kind = "x11" -> XPositioned(r)

(* ensure_remote_pointer: the position of the system's pointer, once.      *)
RemotePointer(t, s) == IF t = <<>> THEN s ELSE t[1]

(* Mutant: what is tracked may leave the screen. *)
MutantWindowsMoved(p, d) == Point(p.x + d.x * Unit, p.y + d.y * Unit)

(* inject_mouse_move on Windows *)
WindowsMoved(p, d) == OnScreen(Point(p.x + d.x * Unit, p.y + d.y * Unit))

(* inject_mouse_move on macOS: RemotePointerState::apply_delta             *)
MacMoved(p, d) == Point(p.x + d.x * Unit, p.y + d.y * Unit)

(* x11_relative_motion: the server adds to its own pointer.                *)
XMoved(p, d) == OnScreen(Point(p.x + d.x * Unit, p.y + d.y * Unit))

PointerMoved(was, d) ==
  LET from == RemotePointer(was.tracked, was.shown)
      to == CASE screen.kind = "windows" -> WindowsMoved(from, d)
              [] screen.kind = "macos" -> MacMoved(from, d)
              [] screen.kind = "x11" -> XMoved(from, d)
  IN  [tracked |-> IF screen.kind = "x11" THEN <<>> ELSE <<to>>, shown |-> OnScreen(to)]

(* The bound: a pointer tracked beyond the screen. *)
NotFar(target) ==
  \A i \in DOMAIN target.tracked :
    LET p == target.tracked[i] off == OnScreen(p)
    IN  {p.x - off.x, p.y - off.y} \subseteq (-MaxStray * Unit)..(MaxStray * Unit)

Target == [tracked |-> tracked, shown |-> shown]

Becomes(target) == tracked' = target.tracked /\ shown' = target.shown

-----------------------------------------------------------------------------
PointerInit ==
  /\ layout \in Layouts /\ screen \in Screens /\ edge \in Edges
  /\ at \in {Point(d.x, d.y) : d \in layout}
  /\ away = FALSE /\ edgeCooling = FALSE /\ restore = <<>>
  /\ ratio = Point(0, 0)
  /\ tracked = <<>> /\ shown = Point(0, 0)
  /\ exact = FALSE /\ entered = <<>>

(* The local pointer follows a motion as far as there is a display.        *)
After(d) ==
  LET p == Point(at.x + d.x, at.y + d.y)
  IN  IF \E display \in layout : Within(p, display) THEN p ELSE at

MoveLocal(d) ==
  /\ ~away /\ (edgeCooling \/ ~DesktopAtEdge(After(d)) \/ ~ActivationMotion(d))
  /\ at' = After(d)
  /\ entered' = <<>>
  /\ UNCHANGED <<setting, away, edgeCooling, restore, ratio, tracked, shown, exact>>

(* The position goes ahead of the motion, which is not sent on if it leads *)
(* straight back.                                                          *)
Enter(d) ==
  /\ ~away /\ ~edgeCooling /\ DesktopAtEdge(After(d)) /\ ActivationMotion(d)
  /\ away' = TRUE /\ restore' = <<After(d)>>
  /\ LET entry == DesktopEntry(After(d))
         next == Advanced(entry, d)
     IN  IF CrossedReturnEdge(next, d)
         THEN ratio' = entry /\ Becomes(Positioned(entry))
         ELSE /\ ratio' = Point(Clamp(next.x, 0, Unit), Clamp(next.y, 0, Unit))
              /\ Becomes(PointerMoved(Positioned(entry), d))
  /\ exact' = TRUE /\ entered' = <<d>>
  /\ UNCHANGED <<setting, at, edgeCooling>>

(* restore_local_pointer: the pointer is put back to where it left.        *)
RestoreLocalPointer == at' = restore[1]

PointerRelease ==
  /\ away' = FALSE /\ edgeCooling' = TRUE
  /\ RestoreLocalPointer /\ restore' = <<>>
  /\ entered' = <<>>
  /\ UNCHANGED <<setting, ratio, tracked, shown, exact>>

Return(d) == away /\ d # Point(0, 0) /\ CrossedReturnEdge(Advanced(ratio, d), d) /\ PointerRelease

(* A motion may be lost on its way: too old, or backed off from.           *)
MoveRemote(d) ==
  /\ away /\ d # Point(0, 0)
  /\ LET next == Advanced(ratio, d)
     IN  /\ ~CrossedReturnEdge(next, d)
         /\ ratio' = Point(Clamp(next.x, 0, Unit), Clamp(next.y, 0, Unit))
  /\ \/ NotFar(PointerMoved(Target, d)) /\ Becomes(PointerMoved(Target, d)) /\ UNCHANGED exact
     \/ exact' = FALSE /\ UNCHANGED <<tracked, shown>>
  /\ entered' = <<>>
  /\ UNCHANGED <<setting, at, away, edgeCooling, restore>>

(* A motion of the device, wherever it goes.                               *)
PointerMotion == \E d \in Deltas : MoveLocal(d) \/ Enter(d) \/ Return(d) \/ MoveRemote(d)

(* A button: the position goes ahead of it.                                *)
Button ==
  /\ away
  /\ Becomes(Positioned(ratio))
  /\ exact' = TRUE /\ entered' = <<>>
  /\ UNCHANGED <<setting, at, away, edgeCooling, restore, ratio>>

ReleaseHotkey == away /\ PointerRelease

CooldownOver ==
  /\ edgeCooling /\ edgeCooling' = FALSE
  /\ UNCHANGED <<setting, at, away, restore, ratio, tracked, shown, exact, entered>>

PointerNext == PointerMotion \/ Button \/ ReleaseHotkey \/ CooldownOver

PointerSpec == PointerInit /\ [][PointerNext]_pointerVars
-----------------------------------------------------------------------------
Near(p, q) ==
  /\ 2 * (p.x - q.x) \in -3 * Unit..3 * Unit
  /\ 2 * (p.y - q.y) \in -3 * Unit..3 * Unit

(* Where the source takes the target's pointer to be.                      *)
Believed == Point(screen.width * ratio.x, screen.height * ratio.y)

(* As long as no motion is lost the source knows where the pointer of a    *)
(* Windows target is, to a pixel and a half, however often it was moved    *)
(* against the sides of the screen: both stop there (both clamp).          *)
PointersAgree == away /\ exact /\ screen.kind = "windows" => Near(shown, Believed)

(* A button goes down where the source takes the pointer to be, whatever   *)
(* motion was lost and on whatever platform (the position is sent again).  *)
ButtonLands == [][Button => Near(shown', Believed)]_pointerVars

(* Who enters a target and takes the motion back has control at home again *)
(* at once (entry_position, remote_pointer_crossed_return_edge), for each  *)
(* edge and corner and whatever the sizes of the screens.                  *)
WayBack ==
  away /\ entered # <<>> =>
    LET back == Point(-entered[1].x, -entered[1].y)
    IN  CrossedReturnEdge(Advanced(ratio, back), back)
-----------------------------------------------------------------------------
(* The same for a target of any platform: macOS tracks a pointer beyond    *)
(* the screen, and Linux has no size the source could reckon with.         *)
PointersAlwaysAgree == away /\ exact => Near(shown, Believed)
=============================================================================
