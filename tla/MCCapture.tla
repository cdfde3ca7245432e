------------------------------ MODULE MCCapture ------------------------------
(***************************************************************************)
(* The two ways to capture, for the targets of the desktop and for a       *)
(* single one, and the pointer between two screens.  A process captures in *)
(* one way, and the pointer's positions are left out of both, so one of    *)
(* Parts moves and the others stay in an initial state.                    *)
(***************************************************************************)
EXTENDS DesktopCapture, SingleCapture, Pointer

CONSTANT Parts

VARIABLE part

CaptureVars == <<part, vars, singleVars, pointerVars>>

MCProfile == MacToWindows
MCHotkey == [key |-> "Escape", modifiers |-> {"meta"}]

Display(x, y, w, h) == [x |-> x, y |-> y, width |-> w, height |-> h]

\* One display or two of different height at the source, targets of the same and of
\* another size.
MCLayouts == {{Display(0, 0, 4, 4)}, {Display(0, 0, 2, 4), Display(2, 0, 2, 2)}}
MCScreens ==
  {[kind |-> "windows", width |-> 4, height |-> 2]} \cup
  {[kind |-> k, width |-> 2, height |-> 2] : k \in {"macos", "x11"}}

CaptureInit ==
  /\ part \in Parts
  /\ Init
  /\ part # "desktop" => online = Targets /\ held = {}
  /\ SingleInit
  /\ part # "single" => mode = CHOOSE m \in Modes : TRUE
  /\ PointerInit
  /\ part # "pointer" => /\ layout = CHOOSE l \in Layouts : TRUE
                         /\ screen = CHOOSE s \in Screens : TRUE
                         /\ edge = CHOOSE e \in Edges : TRUE
                         /\ \A d \in layout : at.x <= d.x /\ at.y <= d.y

CaptureNext ==
  /\ UNCHANGED part
  /\ \/ part = "desktop" /\ Next /\ UNCHANGED <<singleVars, pointerVars>>
     \/ part = "single" /\ SingleNext /\ UNCHANGED <<vars, pointerVars>>
     \/ part = "pointer" /\ PointerNext /\ UNCHANGED <<vars, singleVars>>

CaptureSpec == CaptureInit /\ [][CaptureNext]_CaptureVars

-----------------------------------------------------------------------------
(* Under the fairness of its threads, once targets stop coming and going   *)
(* the desktop's router has the plan for them.                             *)
PlansConverge == part = "desktop" /\ CaptureFairness => PlanConverges
=============================================================================
