------------------------------- MODULE Keymap -------------------------------
(***************************************************************************)
(* How a captured key becomes the key a target injects: the compiled       *)
(* profile (kmsync-core/src/keymap.rs, profile.rs) and the keys each       *)
(* platform can capture and inject (crates/kmsync/src/platform).           *)
(*                                                                         *)
(* A key is its name, a key event [key, down, modifiers] has a set of      *)
(* modifiers.  Keyboard layouts, input methods, scrolling and the pointer  *)
(* multiplier are left out: the events they change carry no key.           *)
(***************************************************************************)
EXTENDS Sequences, SequencesExt, FiniteSets

WithKey(e, k, ms) == [e EXCEPT !.key = k, !.modifiers = ms]

-----------------------------------------------------------------------------
(* Shortcuts. *)

PrimaryModifier(os) == IF os = "macos" THEN {"meta"} ELSE {"control"}

Meaning(action, key, modifiers) == [action |-> action, key |-> key, modifiers |-> modifiers]

PrimaryShortcuts(os) ==
  {Meaning(s[1], s[2], PrimaryModifier(os)) :
     s \in {<<"copy", "C">>, <<"paste", "V">>, <<"cut", "X">>, <<"undo", "Z">>,
            <<"select all", "A">>, <<"find", "F">>}}

(* Shortcuts that mean an action on an operating system (from_key_event).  *)
Recognised(os) ==
  PrimaryShortcuts(os) \cup
  IF os = "macos"
  THEN {Meaning("switch app", "Tab", {"meta"}), Meaning("redo", "Z", {"meta", "shift"})}
  ELSE {Meaning("switch app", "Tab", {"alt"}), Meaning("redo", "Y", {"control"})}

RedoShortcut(os) ==
  IF os = "macos" THEN Meaning("redo", "Z", {"meta", "shift"})
                  ELSE Meaning("redo", "Y", {"control"})

SwitchAppShortcut(os) == Meaning("switch app", "Tab", IF os = "macos" THEN {"meta"} ELSE {"alt"})

(* The shortcut that stands for an action there (key_event_for_os).        *)
Produced(os) == PrimaryShortcuts(os) \cup {RedoShortcut(os), SwitchAppShortcut(os)}

MeaningsOf(os, e) == {s \in Recognised(os) : s.key = e.key /\ s.modifiers = e.modifiers}

-----------------------------------------------------------------------------
(* The compiled profile: [source, target, media, text, mappings]. *)

(* compile refuses a source key that is mapped twice.                      *)
Compiles(p) ==
  \A i, j \in DOMAIN p.mappings : i # j => p.mappings[i].from # p.mappings[j].from

Mapping(from, to) == [from |-> from, to |-> to]

Default(source, target, mappings) ==
  [source |-> source, target |-> target, media |-> FALSE, text |-> TRUE,
   mappings |-> mappings]

MacToWindows == Default("macos", "windows",
  <<Mapping("LeftMeta", "LeftControl"), Mapping("RightMeta", "RightControl"),
    Mapping("LeftAlt", "LeftAlt"), Mapping("RightAlt", "RightAlt")>>)

WindowsToMac == Default("windows", "macos",
  <<Mapping("LeftControl", "LeftMeta"), Mapping("RightControl", "RightMeta"),
    Mapping("LeftAlt", "LeftAlt"), Mapping("RightAlt", "RightAlt"),
    Mapping("LeftMeta", "LeftMeta"), Mapping("RightMeta", "RightMeta")>>)

FunctionRowMedia ==
  [F1 |-> "BrightnessDown", F2 |-> "BrightnessUp", F7 |-> "MediaPreviousTrack",
   F8 |-> "MediaPlayPause", F9 |-> "MediaNextTrack", F10 |-> "VolumeMute",
   F11 |-> "VolumeDown", F12 |-> "VolumeUp"]

KeyMap(p, k) ==
  LET to == {m.to : m \in {x \in Range(p.mappings) : x.from = k}}
  IN  IF to = {} THEN k ELSE CHOOSE t \in to : TRUE

TransformKey(p, k) ==
  IF p.media /\ k \in DOMAIN FunctionRowMedia THEN FunctionRowMedia[k] ELSE KeyMap(p, k)

ModifierForKey(k) ==
  CASE k \in {"LeftControl", "RightControl"} -> {"control"}
    [] k \in {"LeftShift", "RightShift"} -> {"shift"}
    [] k \in {"LeftAlt", "RightAlt"} -> {"alt"}
    [] k \in {"LeftMeta", "RightMeta"} -> {"meta"}
    [] OTHER -> {}

LeftKey == [control |-> "LeftControl", alt |-> "LeftAlt", meta |-> "LeftMeta"]

TransformModifiers(p, ms) ==
  (ms \cap {"shift"}) \cup
  UNION {ModifierForKey(TransformKey(p, LeftKey[m])) : m \in ms \ {"shift"}}

(* transform_key_event: in text mode a shortcut becomes the target's       *)
(* shortcut for the same action.                                           *)
TransformKeyEvent(p, e) ==
  IF p.text /\ MeaningsOf(p.source, e) # {}
  THEN LET s == CHOOSE m \in MeaningsOf(p.source, e) : TRUE
           t == CHOOSE m \in Produced(p.target) : m.action = s.action
       IN  WithKey(e, t.key, t.modifiers)
  ELSE IF e.modifiers = {} /\ p.media /\ e.key \in DOMAIN FunctionRowMedia
  THEN WithKey(e, FunctionRowMedia[e.key], {})
  ELSE WithKey(e, TransformKey(p, e.key), TransformModifiers(p, e.modifiers))

-----------------------------------------------------------------------------
(* The keys of the platforms, as the tables of their adapters have them.   *)

Letters == {"A", "B", "C", "D", "E", "F", "G", "H", "I", "J", "K", "L", "M", "N", "O", "P", "Q",
            "R", "S", "T", "U", "V", "W", "X", "Y", "Z"}
Digits == {"Num0", "Num1", "Num2", "Num3", "Num4", "Num5", "Num6", "Num7", "Num8", "Num9"}
FunctionRow == {"F1", "F2", "F3", "F4", "F5", "F6", "F7", "F8", "F9", "F10", "F11", "F12"}
ModifierKeys == {"LeftControl", "LeftShift", "LeftAlt", "LeftMeta",
                 "RightControl", "RightShift", "RightAlt", "RightMeta"}
Common ==
  Letters \cup Digits \cup FunctionRow \cup ModifierKeys \cup
  {"Enter", "Escape", "Backspace", "Tab", "Space", "CapsLock", "Home", "PageUp", "Delete",
   "End", "PageDown", "ArrowRight", "ArrowLeft", "ArrowDown", "ArrowUp"}
Punctuation == {"Minus", "Equal", "LeftBracket", "RightBracket", "Backslash", "Semicolon",
                "Quote", "Grave", "Comma", "Dot", "Slash"}
PcKeys == {"PrintScreen", "ScrollLock", "Pause", "Insert", "NumLock"}
Numpad == {"NumpadDivide", "NumpadMultiply", "NumpadSubtract", "NumpadAdd", "NumpadEnter",
           "Numpad0", "Numpad1", "Numpad2", "Numpad3", "Numpad4", "Numpad5", "Numpad6",
           "Numpad7", "Numpad8", "Numpad9", "NumpadDecimal", "NumpadEqual"}
HighFunctionKeys == {"F13", "F14", "F15", "F16", "F17", "F18", "F19", "F20", "F21", "F22",
                     "F23", "F24"}
KanaKeys == {"Kana", "Eisu"}
ImeKeys == {"ImeOn", "ImeOff"}
MediaKeys == {"BrightnessDown", "BrightnessUp", "MediaPlay", "MediaPause", "MediaRecord",
              "MediaFastForward", "MediaRewind", "MediaNextTrack", "MediaPreviousTrack",
              "MediaStop", "MediaPlayPause", "VolumeMute", "VolumeUp", "VolumeDown"}
AllKeys == Common \cup Punctuation \cup PcKeys \cup Numpad \cup HighFunctionKeys \cup KanaKeys
           \cup ImeKeys \cup MediaKeys \cup {"Fn", "Globe"}

MacCaptured == Common \cup Punctuation \cup KanaKeys
WindowsCaptured == Common \cup PcKeys \cup KanaKeys \cup ImeKeys
LinuxCaptured == Common \cup Punctuation \cup PcKeys \cup Numpad \cup HighFunctionKeys

MacInjected == Common \cup Punctuation \cup KanaKeys
WindowsInjected == Common \cup PcKeys
LinuxInjected == AllKeys

(* The kinds of modifiers that are down. *)
ModifiersDown(held) == UNION {ModifierForKey(h) : h \in held}

(* macOS reports a modifier key by its kind: down while any key of the     *)
(* kind is down; Caps Lock, which has no kind, always as up.               *)
ModifierIsActive(k, held) ==
  ModifierForKey(k) # {} /\ ModifierForKey(k) \subseteq ModifiersDown(held)

(* A key event as the platform hands it over, held being what is down      *)
(* after it.                                                               *)
CapturedKeyEvent(os, k, d, held) ==
  [key |-> k,
   down |-> IF os = "macos" /\ k \in ModifierKeys \cup {"CapsLock"}
            THEN ModifierIsActive(k, held) ELSE d,
   modifiers |-> ModifiersDown(held)]

Captured(os) ==
  CASE os = "macos" -> MacCaptured [] os = "windows" -> WindowsCaptured
    [] os = "linux" -> LinuxCaptured

Injectable(os) ==
  CASE os = "macos" -> MacInjected [] os = "windows" -> WindowsInjected
    [] os = "linux" -> LinuxInjected
=============================================================================
