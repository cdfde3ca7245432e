----------------------------- MODULE ProfileText -----------------------------
(***************************************************************************)
(* From the text of a profile to the table that transforms keys: parsing   *)
(* (Profile::from_config_json in kmsync-core/src/profile.rs), the names    *)
(* and codes of keys (event.rs) and the compiled table (keymap.rs).  The   *)
(* same profile can be written in several ways.                            *)
(*                                                                         *)
(* A text has its fields, where an optional one may be Missing, and two    *)
(* sequences: the mapping of names of keys, in which no name is twice, and *)
(* the targets of the layout.  The multipliers for scrolling and pointing  *)
(* and the names of devices are taken over as they are and left out.       *)
(***************************************************************************)
EXTENDS Integers, Sequences, FiniteSets, SequencesExt

CONSTANTS
  Missing,
  Mapped,   \* sets of pairs of keys that are tried as mappings
  TextLayouts   \* layouts tried: [targets, edges]

VARIABLES
  text,   \* as it is written
  meantProfile   \* what it was to say: [ok, keys, modes, layout]

profileTextVars == <<text, meantProfile>>

-----------------------------------------------------------------------------
(* Keys, their codes and their names. *)

Run(from, keys) == [from |-> from, keys |-> keys]

(* The codes of the keys, which follow each other except for the gaps.     *)
CodeRuns ==
  {Run(4, <<"A", "B", "C", "D", "E", "F", "G", "H", "I", "J", "K", "L", "M", "N", "O", "P",
            "Q", "R", "S", "T", "U", "V", "W", "X", "Y", "Z">>),
   Run(30, <<"Num1", "Num2", "Num3", "Num4", "Num5", "Num6", "Num7", "Num8", "Num9", "Num0",
             "Enter", "Escape", "Backspace", "Tab", "Space", "Minus", "Equal",
             "LeftBracket", "RightBracket", "Backslash">>),
   Run(51, <<"Semicolon", "Quote", "Grave", "Comma", "Dot", "Slash", "CapsLock", "F1", "F2",
             "F3", "F4", "F5", "F6", "F7", "F8", "F9", "F10", "F11", "F12", "PrintScreen",
             "ScrollLock", "Pause", "Insert", "Home", "PageUp", "Delete", "End", "PageDown",
             "ArrowRight", "ArrowLeft", "ArrowDown", "ArrowUp", "NumLock", "NumpadDivide",
             "NumpadMultiply", "NumpadSubtract", "NumpadAdd", "NumpadEnter", "Numpad1",
             "Numpad2", "Numpad3", "Numpad4", "Numpad5", "Numpad6", "Numpad7", "Numpad8",
             "Numpad9", "Numpad0", "NumpadDecimal">>),
   Run(103, <<"NumpadEqual", "F13", "F14", "F15", "F16", "F17", "F18", "F19", "F20", "F21",
              "F22", "F23", "F24">>),
   Run(136, <<"Kana", "Eisu">>), Run(144, <<"ImeOn", "ImeOff">>),
   Run(224, <<"LeftControl", "LeftShift", "LeftAlt", "LeftMeta",
              "RightControl", "RightShift", "RightAlt", "RightMeta">>),
   Run(4207, <<"BrightnessDown", "BrightnessUp">>),
   Run(4272, <<"MediaPlay", "MediaPause", "MediaRecord", "MediaFastForward", "MediaRewind",
               "MediaNextTrack", "MediaPreviousTrack", "MediaStop">>),
   Run(4301, <<"MediaPlayPause">>), Run(4322, <<"VolumeMute">>),
   Run(4329, <<"VolumeUp", "VolumeDown">>), Run(4336, <<"Fn", "Globe">>)}

Keys == UNION {ToSet(r.keys) : r \in CodeRuns}

CodeOf == [k \in Keys |->
  LET r == CHOOSE x \in CodeRuns : k \in ToSet(x.keys)
  IN  r.from + (CHOOSE i \in DOMAIN r.keys : r.keys[i] = k) - 1]

Codes == {CodeOf[k] : k \in Keys}

(* from_u16. *)
FromCode == [c \in Codes |-> CHOOSE k \in Keys : CodeOf[k] = c]

(* The names beside the plain one, which is the key's own name.  Those     *)
(* that a family of keys has (digits, keypad, locks) are given for one.    *)
OtherNames ==
  [Enter |-> {"return"}, Escape |-> {"esc"}, Dot |-> {"period"}, Insert |-> {"ins"},
   PageUp |-> {"pgup"}, PageDown |-> {"pgdn"}, Delete |-> {"del"}, ArrowRight |-> {"right"},
   ArrowLeft |-> {"left"}, ArrowDown |-> {"down"}, ArrowUp |-> {"up"}, Kana |-> {"lang1"},
   Eisu |-> {"lang2"}, NumpadEnter |-> {"keypad_enter"}, Numpad1 |-> {"keypad1"},
   MediaNextTrack |-> {"media_next"},
   MediaPreviousTrack |-> {"media_previous", "media_prev"},
   VolumeMute |-> {"mute"}, Fn |-> {"function"}]

(* Mutant: the next page is taken for the previous one.                    *)
MutantNamesOf(k) ==
  CASE k = "PageUp" -> {k, "pgup", "pgdn"} [] k = "PageDown" -> {k}
    [] OTHER -> {k} \cup IF k \in DOMAIN OtherNames THEN OtherNames[k] ELSE {}

NamesOf(k) == {k} \cup IF k \in DOMAIN OtherNames THEN OtherNames[k] ELSE {}

KeysNamed(name) == {k \in Keys : name \in NamesOf(k)}

-----------------------------------------------------------------------------
(* Parsing. *)

Systems == {"macos", "windows", "linux"}
Presets == {"keep_mac_habit", "keep_windows_habit", "keep_linux_habit", "target_os_habit",
            "custom"}

(* What the words of an optional field stand for, and what is taken when   *)
(* it is missing.                                                          *)
Words ==
  [function_key_mode |-> [standard |-> "standard", media |-> "media"],
   keyboard_mode |-> [physical |-> "physical", text |-> "text"],
   source_layout |-> [us_ansi |-> "us_ansi", ansi |-> "us_ansi", us |-> "us_ansi",
                      iso |-> "iso", jis |-> "jis", custom |-> "custom"],
   target_layout |-> [us_ansi |-> "us_ansi", ansi |-> "us_ansi", us |-> "us_ansi",
                      iso |-> "iso", jis |-> "jis", custom |-> "custom"],
   non_english |-> [physical_fallback |-> "physical_fallback",
                    ime_passthrough |-> "ime_passthrough", unicode_text |-> "unicode_text"]]

DefaultWord ==
  [function_key_mode |-> "standard", keyboard_mode |-> "text", source_layout |-> "us_ansi",
   target_layout |-> "us_ansi", non_english |-> "ime_passthrough"]

Fields == DOMAIN Words

GivenText(t, f) == IF t.modes[f] = Missing THEN DefaultWord[f] ELSE t.modes[f]

ModesParse(t) == \A f \in Fields : GivenText(t, f) \in DOMAIN Words[f]

(* parse_device_layout: no target twice, and edges lead to targets.        *)
LayoutParses(layout) ==
  /\ IsInjective(layout.targets)
  /\ \A edge \in DOMAIN layout.edges :
       layout.edges[edge] # Missing => layout.edges[edge] \in ToSet(layout.targets)

Parses(t) ==
  /\ \A i \in DOMAIN t.mapping : \A j \in {1, 2} : KeysNamed(t.mapping[i][j]) # {}
  /\ t.source \in Systems /\ t.target \in Systems /\ t.preset \in Presets
  /\ ModesParse(t) /\ LayoutParses(t.layout)

(* parse_profile_key. *)
KeyNamed(name) == CHOOSE k \in KeysNamed(name) : TRUE

Parsed(t) ==
  [mappings |-> [i \in DOMAIN t.mapping |->
                   <<KeyNamed(t.mapping[i][1]), KeyNamed(t.mapping[i][2])>>],
   modes |-> [f \in Fields |-> Words[f][GivenText(t, f)]],
   layout |-> t.layout]

(* The table has the key of every code, then what is mapped.               *)
WithMapping(table, m) == [table EXCEPT ![CodeOf[m[1]]] = m[2]]
KeyTable(mappings) ==
  LET upTo[n \in 0..Len(mappings)] ==
        IF n = 0 THEN FromCode ELSE WithMapping(upTo[n - 1], mappings[n])
  IN  upTo[Len(mappings)]

Compiles(mappings) ==
  \A i, j \in DOMAIN mappings : i # j => CodeOf[mappings[i][1]] # CodeOf[mappings[j][1]]

TextAccepted(t) == Parses(t) /\ Compiles(Parsed(t).mappings)

-----------------------------------------------------------------------------
(* Writing a profile. *)

Plain == [mapping |-> <<>>, source |-> "macos", target |-> "windows",
          preset |-> "keep_mac_habit", modes |-> DefaultWord,
          layout |-> [targets |-> <<>>, edges |-> [left |-> Missing, right |-> Missing]]]

TextOfKeys(pairs) ==
  [text |-> [Plain EXCEPT !.mapping = SetToSeq(pairs)],
   meant |-> [ok |-> TRUE, keys |-> pairs, modes |-> DefaultWord, layout |-> Plain.layout]]
TextOfWord(f, w, layout) ==
  [text |-> [Plain EXCEPT !.modes[f] = w, !.layout = layout],
   meant |-> [ok |-> TRUE, keys |-> {}, layout |-> layout,
              modes |-> [DefaultWord EXCEPT ![f] = Words[f][w]]]]

PlainTexts ==
  {TextOfKeys(pairs) : pairs \in Mapped} \cup
  UNION {{TextOfWord(f, w, layout) : w \in DOMAIN Words[f], layout \in TextLayouts} :
           f \in Fields}

ASSUME ProfileTextAssumption ==
  /\ \A f \in Fields : Missing \notin DOMAIN Words[f]
  /\ \A pairs \in Mapped :
       /\ IsFiniteSet(pairs) /\ pairs \subseteq Keys \X Keys
       /\ \A p, q \in pairs : p[1] = q[1] => p = q
  /\ Missing # "nobody"
  /\ \A layout \in TextLayouts :
       /\ layout = [targets |-> layout.targets, edges |-> layout.edges]
       /\ layout.targets \in Seq(ToSet(layout.targets)) /\ "left" \in DOMAIN layout.edges
       /\ LayoutParses(layout) /\ "nobody" \notin ToSet(layout.targets)

SavedText(t) == text = t.text /\ meantProfile = t.meant

ProfileTextInit == \E t \in PlainTexts : SavedText(t)

(* Another name of a key.                                                  *)
UseOtherKeyName(i, j) ==
  /\ text.mapping[i][j] \in DOMAIN OtherNames
  /\ \E name \in OtherNames[text.mapping[i][j]] :
       text' = [text EXCEPT !.mapping[i][j] = name]
  /\ UNCHANGED meantProfile

(* Another word for the same, or none where the default is meant; only in  *)
(* texts that map no key, which bounds the combinations.                   *)
UseOtherWord(f) ==
  /\ text.mapping = <<>>
  /\ \/ text' = [text EXCEPT !.modes[f] = Missing] /\ meantProfile.modes[f] = DefaultWord[f]
     \/ \E w \in DOMAIN Words[f] :
          text' = [text EXCEPT !.modes[f] = w] /\ meantProfile.modes[f] = Words[f][w]
  /\ UNCHANGED meantProfile

(* What must be refused: a key mapped under two of its names, a name that  *)
(* no key has, an edge that leads to no target, a target listed twice.     *)
Spoil ==
  /\ meantProfile' = [meantProfile EXCEPT !.ok = FALSE]
  /\ \/ \E pair \in meantProfile.keys :
          /\ pair[1] \in DOMAIN OtherNames
          /\ \A i \in DOMAIN text.mapping : text.mapping[i][1] \notin OtherNames[pair[1]]
          /\ \E name \in OtherNames[pair[1]] :
               text' = [text EXCEPT !.mapping = Append(@, <<name, "A">>)]
     \/ text' = [text EXCEPT !.mapping = Append(@, <<"nothing", "A">>)]
     \/ text' = [text EXCEPT !.layout.edges.left = "nobody"]
     \/ /\ text.layout.targets # <<>>
        /\ text' = [text EXCEPT !.layout.targets = Append(@, @[1])]

ProfileTextNext ==
  /\ meantProfile.ok
  /\ \/ \E i \in DOMAIN text.mapping : \E j \in {1, 2} : UseOtherKeyName(i, j)
     \/ \E f \in Fields : UseOtherWord(f)
     \/ Spoil

ProfileTextSpec == ProfileTextInit /\ [][ProfileTextNext]_profileTextVars

-----------------------------------------------------------------------------
(* A profile does what was meant, however its text says it: every key is   *)
(* transformed as mapped, or stays itself, and the modes and the layout    *)
(* are taken over.  It is refused exactly when the text contradicts        *)
(* itself or names what does not exist.                                    *)
TextIsFollowed ==
  /\ TextAccepted(text) <=> meantProfile.ok
  /\ meantProfile.ok =>
       /\ Parsed(text).modes = meantProfile.modes
       /\ Parsed(text).layout = meantProfile.layout
       /\ LET table == KeyTable(Parsed(text).mappings)
              mapped == {pair[1] : pair \in meantProfile.keys}
          IN  /\ \A pair \in meantProfile.keys : table[CodeOf[pair[1]]] = pair[2]
              /\ \A k \in Keys \ mapped : table[CodeOf[k]] = k
=============================================================================
