------------------------------- MODULE Devices -------------------------------
(***************************************************************************)
(* The input devices of two computers: the platform's capture loop on the  *)
(* source and its injector on the target (crates/kmsync/src/platform).     *)
(* Buttons, wheels, keys and motion go through two conversions each, and   *)
(* what a target injects is seen by the capture loop it runs itself.       *)
(*                                                                         *)
(* A key is its position on the keyboard.  Wheels turn by multiples of a   *)
(* quarter of a notch, as those of high resolution do.  How the router     *)
(* decides (DesktopCapture, SingleCapture) is a choice of each moment, the *)
(* way between the computers (InputPath) a queue.                          *)
(***************************************************************************)
EXTENDS Integers, Sequences, SequencesExt

CONSTANTS
  SourceSystems, TargetSystems, \* kinds of computers, of "windows", "macos", "x11", "wayland"
  Positions,        \* keys
  Mappings,         \* layouts of keyboards: functions from Positions to letters
  Standard,         \* the letters of the standard keyboard
  Turns,            \* quarters of a notch a wheel may turn by at once
  Motions,          \* of a hand: <<dx, dy>>
  MaxActions,       \* bound: of the user
  MaxRestarts       \* bound: capture loops and connections to X that end

SystemKinds == {"windows", "macos", "x11", "wayland"}

ASSUME DevicesAssumption ==
  /\ SourceSystems \subseteq SystemKinds /\ TargetSystems \subseteq SystemKinds
  /\ Standard \in Mappings /\ Turns \subseteq Int
  /\ \A p, q \in Positions : Standard[p] = Standard[q] => p = q
  /\ MaxActions \in Nat /\ MaxRestarts \in Nat

VARIABLES
  source, target,
  keyboard,   \* layout of the source's keyboard, which Windows goes by
  capturing,  \* hooks installed on the source: the callback is called
  routed,     \* the router sends to the target what is captured
  cursor,     \* the source's pointer
  last,       \* LAST_MOUSE_POS: <<>> or <<position>>
  mapping,    \* of the target's X server
  injector,   \* x11_injector: <<>> or <<the mapping it has read>>
  net,       \* InputEvents on their way
  local,      \* what the applications of the source have got
  applied,    \* what the applications of the target have got
  echoed,     \* what the target's own capture loop has made of injected input
  done,       \* history: what the user did while it was captured and routed
  refused,    \* history: injections that failed
  restarts

computers == <<source, target, keyboard>>
devicesVars == <<computers, capturing, routed, cursor, last, mapping, injector, net, local,
                 applied, echoed, done, refused, restarts>>
pointer == <<cursor, last>>

Buttons == {"left", "right", "middle", "back", "forward"}
States == {"pressed", "released"}
Axes == {"x", "y"}

ButtonEvent(b, s) == [kind |-> "button", button |-> b, state |-> s]
KeyEvent(k, s) == [kind |-> "key", key |-> k, state |-> s]
Scroll(axis, quarters) == [kind |-> "scroll", axis |-> axis, quarters |-> quarters]

(* full: the driver reports an axis that has not moved too.                *)
Move(v, full) == [kind |-> "move", by |-> v, full |-> full]

(* What a hand does.                                                       *)
Motion == {Move(v, full) : v \in Motions, full \in BOOLEAN}
Actions == {ButtonEvent(b, s) : b \in Buttons, s \in States}
             \cup {KeyEvent(k, s) : k \in Positions, s \in States}
             \cup {Scroll(axis, q) : axis \in Axes, q \in Turns \ {0}}

Sign(n) == IF n < 0 THEN -1 ELSE 1
Plus(p, v) == <<p[1] + v[1], p[2] + v[2]>>
Minus(p, q) == <<p[1] - q[1], p[2] - q[2]>>
Abs(n) == IF n < 0 THEN -n ELSE n

(* f32::round: halves go away from zero.                                   *)
Notches(quarters) == Sign(quarters) * ((Abs(quarters) + 2) \div 4)

-----------------------------------------------------------------------------
(* What the platform reports of an action: a sequence of numbered buttons  *)
(* on X, messages of the hook on Windows, CGEvents on macOS.               *)

XButton == [left |-> 1, middle |-> 2, right |-> 3, back |-> 8, forward |-> 9]

(* Wheels are buttons of X: up, down, left, right, one press per notch.    *)
XWheel(axis, quarters) ==
  IF axis = "y" THEN IF quarters > 0 THEN 4 ELSE 5 ELSE IF quarters < 0 THEN 6 ELSE 7

XReports(a) ==
  CASE a.kind = "button" -> <<[detail |-> XButton[a.button], state |-> a.state]>>
    [] a.kind = "scroll" ->
         [n \in 1..(2 * (Abs(a.quarters) \div 4)) |->
           [detail |-> XWheel(a.axis, a.quarters),
            state |-> IF n % 2 = 1 THEN "pressed" ELSE "released"]]
    [] a.kind = "key" -> <<a>>

MacReports(a) ==
  CASE a.kind = "button" -> <<[type |-> IF a.button \in {"left", "right"} THEN a.button
                                        ELSE "other", state |-> a.state]>>
    [] OTHER -> <<a>>

-----------------------------------------------------------------------------
(* What a capture loop makes of a report: nothing or one InputEvent.       *)

(* x11_button_event                                                        *)
XButtonEvent(r) ==
  LET bs == {b \in Buttons : XButton[b] = r.detail}
      turn == CASE r.detail = 4 -> Scroll("y", 4) [] r.detail = 5 -> Scroll("y", -4)
                [] r.detail = 6 -> Scroll("x", -4) [] r.detail = 7 -> Scroll("x", 4)
  IN  IF bs # {} THEN <<ButtonEvent(CHOOSE b \in bs : TRUE, r.state)>>
      ELSE IF r.detail \in 4..7 /\ r.state = "pressed" THEN <<turn>> ELSE <<>>

XCaptured(r) == IF "detail" \in DOMAIN r THEN XButtonEvent(r) ELSE <<r>>

(* mac_capture_event: every other button is the middle one.  The wheel's   *)
(* deltas are whole lines already.                                         *)
MacCapturedInput(r) ==
  CASE "type" \in DOMAIN r ->
         <<ButtonEvent(IF r.type = "other" THEN "middle" ELSE r.type, r.state)>>
    [] "type" \notin DOMAIN r /\ r.kind = "scroll" ->
         <<Scroll(r.axis, 4 * Notches(r.quarters))>>
    [] OTHER -> <<r>>

(* mouse_hook_proc and keyboard_hook_proc.  The wheel's delta is a         *)
(* fraction of WHEEL_DELTA; input with the program's marker is passed on.  *)
XButtonFromData(word) == IF word = 2 THEN "forward" ELSE "back"

(* key_from_windows_vk: the hook is given the letter the key has in the    *)
(* layout of the computer, and makes it the key that has that letter on    *)
(* the standard keyboard, if there is one.                                 *)
KeyOfLetter(letter) == CHOOSE p \in Positions : Standard[p] = letter

WindowsKeyEvent(letters, a) ==
  IF \E p \in Positions : Standard[p] = letters[a.key]
  THEN <<KeyEvent(KeyOfLetter(letters[a.key]), a.state)>> ELSE <<>>

WindowsCapturedInput(letters, a) ==
  CASE a.kind = "button" /\ a.button \in {"back", "forward"} ->
         <<ButtonEvent(XButtonFromData(IF a.button = "back" THEN 1 ELSE 2), a.state)>>
    [] a.kind = "key" -> WindowsKeyEvent(letters, a)
    [] OTHER -> <<a>>

(* mouse_hook_proc of WM_MOUSEMOVE, record_mouse_position_delta: the       *)
(* system says where the pointer would be, the event is the difference to  *)
(* where it would have been last.                                          *)
WindowsMotion(at) ==
  IF last = <<>> \/ last = <<at>> THEN <<>> ELSE <<Move(Minus(at, last[1]), TRUE)>>

(* x11_raw_motion_delta_from_fp: both axes must be in the event.           *)
XRawMotion(a) == IF a.full \/ 0 \notin {a.by[1], a.by[2]} THEN <<Move(a.by, TRUE)>> ELSE <<>>

MovedTo(kind, a, at) ==
  CASE kind = "windows" -> WindowsMotion(at)
    [] kind = "macos" -> <<Move(a.by, TRUE)>>
    [] kind = "x11" -> XRawMotion(a)
    [] kind = "wayland" -> <<>>

(* A hardware action as the capture loop of a computer of this kind, whose *)
(* keyboard has this layout, sees it.  macOS and X say which key it was.   *)
(* On Wayland there is no capture loop.                                    *)
Captured(kind, letters, a) ==
  CASE kind = "windows" -> WindowsCapturedInput(letters, a)
    [] kind = "macos" -> FlattenSeq([i \in DOMAIN MacReports(a) |->
                                       MacCapturedInput(MacReports(a)[i])])
    [] kind = "x11" -> FlattenSeq([i \in DOMAIN XReports(a) |-> XCaptured(XReports(a)[i])])
    [] kind = "wayland" -> <<>>

-----------------------------------------------------------------------------
(* What an injector makes of an InputEvent: a sequence of what             *)
(* applications get.  On Windows and macOS the codes of keys are those of  *)
(* their positions (windows_scan_code).                                    *)

(* x11_scroll_button_sequence, at most 255 presses of a wheel's button.    *)
XScrolled(e) ==
  LET steps == Notches(e.quarters)
  IN  IF steps = 0 THEN <<>>
      ELSE <<Scroll(e.axis, 4 * Sign(steps) * (IF Abs(steps) > 255 THEN 255 ELSE Abs(steps)))>>

(* x11_keysyms_for_key                                                     *)
Keysym(key) == Standard[key]

(* X11Keymap::keycode: the key that bears the letter of the standard       *)
(* keyboard in the mapping read when the injector connected; the position  *)
(* itself when no key does.                                                *)
XKeycode(read, key) ==
  LET bearers == {p \in Positions : read[p] = Keysym(key)}
  IN  IF bearers = {} THEN key ELSE CHOOSE p \in bearers : TRUE

XInjected(e, read) ==
  CASE e.kind = "button" -> <<XButtonEvent([detail |-> XButton[e.button], state |-> e.state])[1]>>
    [] e.kind = "scroll" -> XScrolled(e)
    [] e.kind = "key" -> <<KeyEvent(XKeycode(read, e.key), e.state)>>
    [] e.kind = "move" -> <<e>>

(* inject_mouse_button: what is neither left nor right is the centre.      *)
MacInjected(e) ==
  CASE e.kind = "button" -> <<ButtonEvent(IF e.button \in {"left", "right"} THEN e.button
                                          ELSE "middle", e.state)>>
    [] e.kind = "scroll" -> <<Scroll(e.axis, 4 * Notches(e.quarters))>>
    [] OTHER -> <<e>>

(* Both extra buttons made the first one.                                  *)
MutantWindowsInjected(e) ==
  IF e.kind = "button" /\ e.button = "forward" THEN <<ButtonEvent("back", e.state)>>
  ELSE IF e.kind = "scroll" THEN <<Scroll(e.axis, 4 * Notches(e.quarters))>> ELSE <<e>>

(* build_scroll_inputs: an axis that moved makes one input, of whole       *)
(* notches, even of none.                                                  *)
WindowsInjected(e) ==
  IF e.kind = "scroll" THEN <<Scroll(e.axis, 4 * Notches(e.quarters))>> ELSE <<e>>

(* Whether the hooks of the target skip what the target has injected:      *)
(* is_self_injected_event of Windows, nothing of the kind elsewhere.       *)
Marked(kind) == kind = "windows"

-----------------------------------------------------------------------------
DevicesInit ==
  /\ source \in SourceSystems /\ target \in TargetSystems /\ mapping \in Mappings
  /\ keyboard \in IF source = "windows" THEN Mappings ELSE {Standard}
  /\ capturing = FALSE /\ routed = FALSE /\ cursor = <<0, 0>> /\ last = <<>>
  /\ injector = <<>> /\ net = <<>> /\ local = <<>> /\ applied = <<>> /\ echoed = <<>>
  /\ done = <<>> /\ refused = FALSE /\ restarts = 0

(* capture_loop.  A start that fails leaves no hook, callback or tap       *)
(* behind: it is no step here.                                             *)
Starts(kind) ==
  /\ source = kind /\ ~capturing
  /\ capturing' = TRUE
  /\ UNCHANGED <<computers, routed, cursor, mapping, injector, net, local, applied, echoed,
                 done, refused, restarts>>

(* Both hooks or none; the pointer's place is not known yet.               *)
StartHooks == Starts("windows") /\ last' = <<>>

(* Both permissions are asked for when they are missing, then the tap is   *)
(* made at the head of the events of the hardware.                         *)
StartTap == Starts("macos") /\ UNCHANGED last

(* XInput2 reports the raw events of all master devices.                   *)
StartRawEvents == Starts("x11") /\ UNCHANGED last

(* GetMessageW returns no more messages, the run loop ends, the connection *)
(* to X breaks: the hooks are removed and the callback forgotten.          *)
CaptureEnds ==
  /\ capturing /\ restarts < MaxRestarts
  /\ capturing' = FALSE /\ restarts' = restarts + 1
  /\ UNCHANGED <<computers, routed, pointer, mapping, injector, net, local, applied, echoed,
                 done, refused>>

Reroute ==
  /\ routed' = ~routed
  /\ UNCHANGED <<computers, capturing, pointer, mapping, injector, net, local, applied, echoed,
                 done, refused, restarts>>

(* The user acts.  emit_capture calls the callback, whose answer Suppress  *)
(* keeps the input from the applications, except on X11, where raw events  *)
(* are copies.                                                             *)
Act(a) ==
  LET events == Captured(source, keyboard, a)
      taken == capturing /\ routed /\ events # <<>>
  IN  /\ Len(done) + Len(local) < MaxActions
      /\ net' = IF taken THEN net \o events ELSE net
      /\ local' = IF taken /\ source # "x11" THEN local ELSE Append(local, a)
      /\ done' = IF capturing /\ routed THEN Append(done, a) ELSE done
      /\ UNCHANGED <<computers, capturing, routed, pointer, mapping, injector, applied, echoed,
                     refused, restarts>>

(* The user moves.  A motion that is taken leaves the pointer where it is. *)
Hand(a) ==
  LET at == Plus(cursor, a.by)
      events == MovedTo(source, a, at)
      taken == capturing /\ routed /\ events # <<>>
  IN  /\ Len(done) + Len(local) < MaxActions
      /\ net' = IF taken THEN net \o events ELSE net
      /\ local' = IF taken /\ source # "x11" THEN local ELSE Append(local, a)
      /\ cursor' = IF taken /\ source # "x11" THEN cursor ELSE at
      /\ last' = IF capturing /\ source = "windows" THEN <<at>> ELSE last
      /\ done' = IF capturing /\ routed /\ (source = "windows" => last # <<>>)
                 THEN Append(done, a) ELSE done
      /\ UNCHANGED <<computers, capturing, routed, mapping, injector, applied, echoed, refused,
                     restarts>>

(* What the target's own capture loop makes of injected input.             *)
Seen(inputs) ==
  IF Marked(target) THEN <<>>
  ELSE FlattenSeq([i \in DOMAIN inputs |->
         IF inputs[i].kind = "move" THEN MovedTo(target, inputs[i], <<0, 0>>)
         ELSE Captured(target, mapping, inputs[i])])

(* InputInjector::inject                                                   *)
Inject ==
  /\ net # <<>> /\ target # "wayland" /\ (target = "x11" => injector # <<>>)
  /\ LET e == Head(net)
         inputs == CASE target = "windows" -> WindowsInjected(e)
                     [] target = "macos" -> MacInjected(e)
                     [] target = "x11" -> XInjected(e, injector[1])
     IN  applied' = applied \o inputs /\ echoed' = echoed \o Seen(inputs)
  /\ net' = Tail(net)
  /\ UNCHANGED <<computers, capturing, routed, pointer, mapping, injector, local, done, refused,
                 restarts>>

(* X11XTestInjector::connect, of the first event after a start or an error *)
XConnect ==
  /\ net # <<>> /\ target = "x11" /\ injector = <<>>
  /\ injector' = <<mapping>>
  /\ UNCHANGED <<computers, capturing, routed, pointer, mapping, net, local, applied, echoed,
                 done, refused, restarts>>

(* Injection is refused: on Wayland always, on X11 when the connection     *)
(* cannot be made or is lost.  The event is gone and so is the injector.   *)
Refuse ==
  /\ net # <<>>
  /\ \/ target = "wayland"
     \/ target = "x11" /\ restarts < MaxRestarts
  /\ restarts' = IF target = "x11" THEN restarts + 1 ELSE restarts
  /\ injector' = <<>> /\ net' = Tail(net) /\ refused' = TRUE
  /\ UNCHANGED <<computers, capturing, routed, pointer, mapping, local, applied, echoed, done>>

(* The user of the target changes the layout of its keyboard.              *)
Remap(m) ==
  /\ target = "x11" /\ m # mapping /\ restarts < MaxRestarts
  /\ mapping' = m /\ restarts' = restarts + 1
  /\ UNCHANGED <<computers, capturing, routed, pointer, injector, net, local, applied, echoed,
                 done, refused>>

DevicesNext ==
  \/ StartHooks \/ StartTap \/ StartRawEvents \/ CaptureEnds \/ Reroute \/ Inject \/ XConnect \/ Refuse
  \/ \E a \in Actions : Act(a)
  \/ \E a \in Motion : Hand(a)
  \/ \E m \in Mappings : Remap(m)

DevicesSpec == DevicesInit /\ [][DevicesNext]_devicesVars

-----------------------------------------------------------------------------
(* A computer with an Apple keyboard or mouse has three buttons at both    *)
(* ends of the way.                                                        *)
KnownTo(kind, a) ==
  a.kind = "button" /\ kind = "macos" => a.button \in {"left", "right", "middle"}

Whole(a) == a.kind = "scroll" => a.quarters % 4 = 0

(* An injector that is never refused reads the mapping once.               *)
StandardRead == target = "x11" /\ injector # <<>> => injector[1] = Standard

(* The layout of a Windows source has the letter where the standard one    *)
(* has it.                                                                 *)
SameLetter(a) == source = "windows" /\ a.kind = "key" => keyboard[a.key] = Standard[a.key]

(* The motion of a Windows source is that of MotionArrives.                *)
MovesWhole(a) == a.kind = "move" => source # "windows" /\ (source = "x11" => a.full)

Common(a) == /\ KnownTo(source, a) /\ KnownTo(target, a) /\ Whole(a) /\ MovesWhole(a)
             /\ SameLetter(a)
             /\ a.kind = "key" => StandardRead

(* The notches of an axis in a sequence of events; other events as such.   *)
TurnOf(e, axis) == IF e.kind = "scroll" /\ e.axis = axis THEN e.quarters ELSE 0
PressedOf(e) ==
  CASE e.kind = "scroll" -> <<>>
    [] e.kind = "move" -> <<[e EXCEPT !.full = TRUE]>>
    [] OTHER -> <<e>>

Turned(s, axis) ==
  LET upTo[n \in 0..Len(s)] == IF n = 0 THEN 0 ELSE upTo[n - 1] + TurnOf(s[n], axis)
  IN  upTo[Len(s)]
Pressed(s) ==
  LET upTo[n \in 0..Len(s)] == IF n = 0 THEN <<>> ELSE upTo[n - 1] \o PressedOf(s[n])
  IN  upTo[Len(s)]

(* Arriving: once all is injected and nothing was refused, the target's    *)
(* applications got the buttons, keys and motion of the hand while its     *)
(* input was routed, in that order, and the wheels turned by as much, from *)
(* each system to each other, as far as both know the button, the wheel    *)
(* turned by whole notches, a Windows source has the key where the         *)
(* standard keyboard has it and an X target has the standard layout.       *)
ArrivesAsIs ==
  /\ net = <<>> /\ ~refused /\ target # "wayland"
  /\ \A i \in DOMAIN done : Common(done[i])
  => /\ Pressed(applied) = Pressed(done)
     /\ \A axis \in Axes : Turned(applied, axis) = Turned(done, axis)

(* docs/DESKTOP_CLIENT_DESIGN.md:232 says of the default mode that it      *)
(* sends the positions of keys, and todo.md:157 that scan codes make them  *)
(* accurate on Windows: between two computers with Windows the target's    *)
(* applications get the keys of the hand.                                  *)
Keyed(s) == SelectSeq(s, LAMBDA e : e.kind = "key")
PositionsArrive ==
  source = "windows" /\ target = "windows" /\ net = <<>> => Keyed(applied) = Keyed(done)

(* Motion of a Windows source is sent as far as it was made, but for the   *)
(* one that makes the pointer's place known.  It is not: a motion that is  *)
(* kept from the system leaves the pointer where it was, last is where it  *)
(* would be.                                                               *)
Path(s) == FoldSeq(LAMBDA e, p : IF e.kind = "move" THEN Plus(p, e.by) ELSE p, <<0, 0>>, s)
MotionArrives == source = "windows" /\ target # "wayland" /\ net = <<>> /\ ~refused
                 => Path(applied) = Path(done)

(* No loop: the hooks of a Windows target leave out what the program has   *)
(* injected, whatever it is (the marker KMSYNC_INJECTED_EVENT_MARKER).     *)
InjectedIsSkipped == target = "windows" => echoed = <<>>

(* todo.md:159 says so of every system: injected events are marked and     *)
(* filtered by the capture so that nothing loops.                          *)
NoEchoAnywhere == echoed = <<>>
=============================================================================
