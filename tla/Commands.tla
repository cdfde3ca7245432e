------------------------------ MODULE Commands ------------------------------
(***************************************************************************)
(* The command line of the daemon (Args::parse in crates/kmsync/src/       *)
(* main.rs) against what the usage it prints and the user's guide promise  *)
(* of a line (print_help, docs/USER_GUIDE.md).                             *)
(*                                                                         *)
(* An argument is the sequence of the parts that + or a comma separates in *)
(* it, mostly of one.  Numbers and addresses are their texts; letter case  *)
(* and spaces around a part are left out.  Arguments that follow the last  *)
(* one a command takes are ignored.                                        *)
(***************************************************************************)
EXTENDS Integers, Sequences, FiniteSets, SequencesExt

CONSTANTS
  Spelled,      \* for each kind of argument, texts and what they say to their writer
  Wrong,        \* for each kind of argument, texts that say nothing
  SerialNumber  \* what macOS adds to the arguments of a started app

VARIABLES
  args,  \* the command line
  meant  \* what it is to mean: the command and some of its arguments, by name

commandsVars == <<args, meant>>

-----------------------------------------------------------------------------
(* What the parser takes the arguments of each kind for. *)

Refused == [ok |-> FALSE, value |-> "refused"]
Accepted(v) == [ok |-> TRUE, value |-> v]

ProfileWords ==
  {<<"mac-to-windows", "mac_to_windows">>, <<"windows-to-mac", "windows_to_mac">>}

(* The corners are told apart by their last word only.                     *)
MutantEdgeWords ==
  {<<e, e>> : e \in {"left", "right", "top", "bottom"}} \cup
  {<<w, "top_left">> : w \in {"top-left", "left-top", "tl", "bottom-left", "left-bottom", "bl"}}
  \cup
  {<<w, "top_right">> : w \in {"top-right", "right-top", "tr", "bottom-right", "br"}}

EdgeWords ==
  {<<e, e>> : e \in {"left", "right", "top", "bottom"}} \cup
  {<<w, "top_left">> : w \in {"top-left", "left-top", "tl"}} \cup
  {<<w, "top_right">> : w \in {"top-right", "right-top", "tr"}} \cup
  {<<w, "bottom_left">> : w \in {"bottom-left", "left-bottom", "bl"}} \cup
  {<<w, "bottom_right">> : w \in {"bottom-right", "right-bottom", "br"}}

(* The modes that take no edge, and so no threshold, hot key or cooldown.  *)
ModeWords ==
  {<<"all", "always">>} \cup {<<w, "locked">> : w \in {"lock", "locked", "local"}}

EnabledWords ==
  {<<w, "on">> : w \in {"enabled", "enable", "on", "true", "1"}} \cup
  {<<w, "off">> : w \in {"disabled", "disable", "off", "false", "0"}}

ModifierWords ==
  {<<w, "control">> : w \in {"ctrl", "control"}} \cup {<<"shift", "shift">>} \cup
  {<<w, "alt">> : w \in {"alt", "option"}} \cup
  {<<w, "meta">> : w \in {"meta", "cmd", "command", "super", "win", "windows"}}

(* The names of keys, those that matter here (Key::from_name).             *)
KeyWords == {<<w, "Escape">> : w \in {"escape", "esc"}} \cup {<<"k", "K">>}

ChunkWords == {<<n, n>> : n \in {"1", "1024"}}  \* 1 to 1024, not 0 or 1025

NumberWords == {<<n, n>> : n \in {"1", "2", "250", "300", "1048576"}}
ThresholdWords == NumberWords \cup {<<"1.5", "1.5">>}
AddressWords == {<<n, n>> : n \in {"ip:24800"}}

Meanings(words, w) == {p[2] : p \in {q \in words : q[1] = w}}
Word(words, arg) ==
  IF Len(arg) # 1 \/ Meanings(words, arg[1]) = {} THEN Refused
  ELSE Accepted(CHOOSE v \in Meanings(words, arg[1]) : TRUE)

(* Hotkey::parse: any number of modifiers and exactly one other key.       *)
HotkeyMeant(arg) ==
  LET others == SelectSeq(arg, LAMBDA part : Meanings(ModifierWords, part) = {})
  IN  IF Len(others) # 1 \/ Meanings(KeyWords, others[1]) = {} THEN Refused
      ELSE Accepted(<<Meanings(KeyWords, others[1]),
                      UNION {Meanings(ModifierWords, arg[i]) : i \in DOMAIN arg}>>)

DefaultSensitive == {"1password", "bitwarden"}

Meaning(kind, arg) ==
  CASE kind = "profile" -> Word(ProfileWords, arg)
    [] kind = "mode" -> Word(ModeWords \cup EdgeWords, arg)
    [] kind = "threshold" -> Word(ThresholdWords, arg)
    [] kind = "hotkey" -> HotkeyMeant(arg)
    [] kind \in {"number", "cooldown"} -> Word(NumberWords, arg)
    [] kind = "apps" -> Accepted(ToSet(arg) \ {""})
    [] kind = "sensitive" -> Accepted(DefaultSensitive \cup (ToSet(arg) \ {""}))
    [] kind = "enabled" -> Word(EnabledWords, arg)
    [] kind = "chunk" -> Word(ChunkWords, arg)
    [] kind = "address" -> Word(AddressWords, arg)
    [] OTHER -> Accepted(arg)

-----------------------------------------------------------------------------
(* What each command takes, in order, and what it takes for an argument    *)
(* that is left out.                                                       *)

Needs(name, kind) == [name |-> name, kind |-> kind, default |-> Refused]
Parameter(name, kind, default) == [name |-> name, kind |-> kind, default |-> Accepted(default)]

DefaultConfig == <<"default config">>
NotGiven == <<"not given">>
DefaultRelease == <<{"Escape"}, {"control", "alt"}>>

ConfigTaken == Parameter("config_path", "path", DefaultConfig)
ConfigNeeded == Needs("config_path", "path")
TargetNeeded == Needs("target", "address")
ProfileTaken == Parameter("profile", "profile", "mac_to_windows")

CaptureTaken ==
  <<ProfileTaken, Parameter("mode", "mode", "always"), Parameter("threshold", "threshold", "2"),
    Parameter("hotkey", "hotkey", DefaultRelease), Parameter("cooldown", "cooldown", "250"),
    Parameter("apps", "apps", {})>>

SendCommands ==
  [word : {"self-test"}, takes : {<<ProfileTaken>>}] \cup
  [word : {"listen"}, takes : {<<Needs("bind", "address")>>}] \cup
  [word : {"send-demo"}, takes : {<<TargetNeeded, ProfileTaken>>}]

ProbeCommands ==
  [word : {"target-probe", "target-input-test"},
   takes : {<<ConfigNeeded, Needs("target", "id")>>}]

CaptureCommands ==
  [word : {"capture-send"}, takes : {<<TargetNeeded>> \o CaptureTaken}] \cup
  [word : {"capture-connect"},
   takes : {<<ConfigNeeded, Needs("target", "id")>> \o CaptureTaken}]

ServiceCommands == [word : {"core-service", "heartbeat"}, takes : {<<ConfigTaken>>}]

ClipboardCommands ==
  [word : {"clip-get"}, takes : {<<>>}] \cup
  [word : {"clip-set"}, takes : {<<Needs("text", "text")>>}] \cup
  [word : {"clip-send"}, takes : {<<TargetNeeded>>}] \cup
  [word : {"clip-watch"},
   takes : {<<TargetNeeded, Parameter("interval", "number", "1"),
              Parameter("max_bytes", "number", "1048576"),
              Parameter("enabled", "enabled", "on"), Parameter("ttl", "number", "300"),
              Parameter("sensitive", "sensitive", DefaultSensitive)>>}] \cup
  [word : {"file-send"},
   takes : {<<TargetNeeded, Needs("file_path", "path"),
              Parameter("chunk_bytes", "chunk", "1024")>>}]

ControlCommands ==
  [word : {"devices", "profiles", "windows-service"}, takes : {<<ConfigTaken>>}] \cup
  [word : {"connection-diagnostics"},
   takes : {<<ConfigNeeded, Needs("target", "id")>>}] \cup
  [word : {"profile-set"},
   takes : {<<ConfigNeeded, Needs("source", "id"), Needs("target", "id"),
              Needs("profile_path", "path")>>}] \cup
  [word : {"update-check"},
   takes : {<<ConfigTaken, Parameter("device_id", "id", NotGiven),
              Parameter("platform", "word", NotGiven), Parameter("version", "word", NotGiven),
              Parameter("channel", "word", NotGiven)>>}] \cup
  [word : {"ipc-endpoint"}, takes : {<<>>}] \cup
  [word : {"ipc-serve-once", "ipc-ping"},
   takes : {<<Parameter("endpoint", "path", NotGiven)>>}]

PositionalCommands ==
  SendCommands \cup ProbeCommands \cup CaptureCommands \cup ServiceCommands \cup
  ClipboardCommands \cup ControlCommands \cup
  [word : {"info", "request-permissions", "help"}, takes : {<<>>}]

CommandWords ==
  {<<c.word, c.word>> : c \in PositionalCommands} \cup
  {<<"permissions", "request-permissions">>, <<"--help", "help">>, <<"-h", "help">>,
   <<"diagnose-desktop", "desktop-diagnostics">>} \cup
  {<<w, w>> : w \in {"desktop", "desktop-diagnostics", "status", "ping", "layout-editor",
                     "control-panel"}}

-----------------------------------------------------------------------------
(* Parsing. *)

Command(word, fields) == [ok |-> TRUE, word |-> word, fields |-> fields]
NoCommand == [ok |-> FALSE, word |-> "", fields |-> <<>>]

(* In a mode that takes no edge, what would be of it is not even read.     *)
ParsePositional(c, given) ==
  LET takes == c.takes
      Parsed(i) == IF i > Len(given) THEN takes[i].default ELSE Meaning(takes[i].kind, given[i])
      atEdge == \A i \in DOMAIN takes :
        takes[i].kind = "mode" => Parsed(i).value \notin {"always", "locked"}
      read == {i \in DOMAIN takes :
                 atEdge \/ takes[i].kind \notin {"threshold", "hotkey", "cooldown"}}
      At(name) == CHOOSE i \in read : takes[i].name = name
  IN  IF \E i \in read : ~Parsed(i).ok THEN NoCommand
      ELSE Command(c.word, [name \in {takes[i].name : i \in read} |-> Parsed(At(name)).value])

(* parse_desktop_command: --output and its path anywhere, otherwise the    *)
(* configuration and then the output.                                      *)
DesktopArgument(s, arg) ==
  CASE s.awaited -> [s EXCEPT !.output = <<arg>>, !.awaited = FALSE]
    [] ~s.awaited /\ arg \in {<<"--output">>, <<"-o">>} -> [s EXCEPT !.awaited = TRUE]
    [] OTHER -> IF s.config = <<>> THEN [s EXCEPT !.config = <<arg>>]
                ELSE IF s.output = <<>> THEN [s EXCEPT !.output = <<arg>>]
                ELSE [s EXCEPT !.ok = FALSE]

NoArgument == [config |-> <<>>, output |-> <<>>, awaited |-> FALSE, ok |-> TRUE]

ParseDesktop(given) ==
  LET upTo[n \in 0..Len(given)] ==
        IF n = 0 THEN NoArgument ELSE DesktopArgument(upTo[n - 1], given[n])
      s == upTo[Len(given)]
  IN  IF ~s.ok \/ s.awaited THEN NoCommand
      ELSE Command("desktop",
                   [config_path |-> IF s.config = <<>> THEN DefaultConfig ELSE s.config[1],
                    output_path |-> IF s.output = <<>> THEN NotGiven ELSE s.output[1]])

ParseDiagnostics(given) ==
  LET paths == SelectSeq(given, LAMBDA arg : arg # <<"--probe-targets">>)
  IN  IF Len(paths) > 1 THEN NoCommand
      ELSE Command("desktop-diagnostics",
                   [config_path |-> IF paths = <<>> THEN DefaultConfig ELSE paths[1],
                    probe_targets |-> Len(paths) < Len(given)])

OwnArguments(line) ==
  LET upTo[n \in 0..Len(line)] ==
        IF n = 0 THEN <<>>
        ELSE IF line[n] = SerialNumber THEN upTo[n - 1] ELSE Append(upTo[n - 1], line[n])
  IN  upTo[Len(line)]

Parse(line) ==
  LET own == OwnArguments(line)
      words == IF own = <<>> THEN {"desktop"} ELSE Meanings(CommandWords, own[1][1])
      given == IF own = <<>> THEN <<>> ELSE Tail(own)
  IN  IF words = {} THEN NoCommand
      ELSE LET word == CHOOSE w \in words : TRUE IN
        CASE word = "desktop" -> ParseDesktop(given)
          [] word = "desktop-diagnostics" -> ParseDiagnostics(given)
          [] word \in {"status", "ping", "layout-editor", "control-panel"} ->
               Command(word, [ui_args |-> given])
          [] OTHER ->
               ParsePositional(CHOOSE c \in PositionalCommands : c.word = word, given)

-----------------------------------------------------------------------------
(* The usage the daemon prints: the arguments without brackets, those in   *)
(* brackets, each with its kind.                                           *)

Usage(word, needed, more) == [word |-> word, needed |-> Len(needed), takes |-> needed \o more]

HelpConfig == <<"config_path", "path">>
HelpTarget == <<"target", "address">>
HelpDevice == <<"target", "id">>
HelpProfile == <<"profile", "profile">>
HelpCapture ==
  <<HelpProfile, <<"mode", "mode">>, <<"threshold", "threshold">>, <<"hotkey", "hotkey">>,
    <<"cooldown", "cooldown">>, <<"apps", "apps">>>>

Usages ==
  {Usage(w, <<>>, <<>>) : w \in {"info", "request-permissions", "clip-get", "ipc-endpoint"}} \cup
  {Usage(w, <<HelpConfig>>, <<>>) :
     w \in {"core-service", "heartbeat", "devices", "profiles", "windows-service"}} \cup
  {Usage(w, <<HelpConfig, HelpDevice>>, <<>>) :
     w \in {"target-probe", "target-input-test", "connection-diagnostics"}} \cup
  {Usage(w, <<>>, <<<<"endpoint", "path">>>>) : w \in {"ipc-serve-once", "ipc-ping"}} \cup
  {Usage("self-test", <<>>, <<HelpProfile>>),
   Usage("listen", <<<<"bind", "address">>>>, <<>>),
   Usage("send-demo", <<HelpTarget>>, <<HelpProfile>>),
   Usage("capture-send", <<HelpTarget>>, HelpCapture),
   Usage("capture-connect", <<HelpConfig, HelpDevice>>, HelpCapture),
   Usage("clip-set", <<<<"text", "text">>>>, <<>>),
   Usage("clip-send", <<HelpTarget>>, <<>>),
   Usage("clip-watch", <<HelpTarget>>,
         <<<<"interval", "number">>, <<"max_bytes", "number">>, <<"enabled", "enabled">>,
           <<"ttl", "number">>, <<"sensitive", "sensitive">>>>),
   Usage("file-send", <<HelpTarget, <<"file_path", "path">>>>, <<<<"chunk_bytes", "chunk">>>>),
   Usage("profile-set", <<HelpConfig, <<"source", "id">>, HelpDevice,
                          <<"profile_path", "path">>>>, <<>>),
   Usage("update-check", <<HelpConfig>>,
         <<<<"device_id", "id">>, <<"platform", "word">>, <<"version", "word">>,
           <<"channel", "word">>>>)}

(* What the guide says of arguments that are left out: Ctrl+Alt+Esc        *)
(* returns control, chunks are of 1024 bytes, common password managers are *)
(* filtered.                                                               *)
Promised ==
  [hotkey |-> <<{"Escape"}, {"alt", "control"}>>, chunk |-> "1024",
   sensitive |-> {"bitwarden", "1password"}]

(* What a line is to mean whose arguments are said: those that are written *)
(* and those that are promised, but nothing of an edge without one.        *)
MeantBy(u, said) ==
  LET atEdge == \E i \in DOMAIN said :
        u.takes[i][2] = "mode" /\ said[i][2] \notin {"always", "locked"}
      told == {i \in DOMAIN u.takes :
                 /\ i \in DOMAIN said \/ u.takes[i][2] \in DOMAIN Promised
                 /\ u.takes[i][2] \in {"threshold", "hotkey", "cooldown"} => atEdge}
      At(name) == CHOOSE i \in told : u.takes[i][1] = name
      Told(i) == IF i \in DOMAIN said THEN said[i][2] ELSE Promised[u.takes[i][2]]
  IN  [ok |-> TRUE, word |-> u.word,
       says |-> [name \in {u.takes[i][1] : i \in told} |-> Told(At(name))]]

Nothing == [ok |-> FALSE, word |-> "", says |-> <<>>]

(* The first n arguments in all the ways they can be said.                 *)
Sayings(u, n) ==
  LET upTo[m \in 0..n] ==
        IF m = 0 THEN {<<>>}
        ELSE {Append(said, pair) : said \in upTo[m - 1], pair \in Spelled[u.takes[m][2]]}
  IN  upTo[n]

Typed(line, m) == args = line /\ meant = m

Positional(u, said) ==
  Typed(<<<<u.word>>>> \o [i \in DOMAIN said |-> said[i][1]], MeantBy(u, said))

(* The window is opened with a configuration and an output, named or not;  *)
(* without any argument it is opened as well.                              *)
Opened(config, output) ==
  [ok |-> TRUE, word |-> "desktop", says |-> [config_path |-> config, output_path |-> output]]

DesktopWays ==
  LET c == <<"config">>  o == <<"output">>  D == <<<<"desktop">>>>
      flags == {<<"-o">>, <<"--output">>}
  IN  {<<line, Opened(DefaultConfig, NotGiven)>> : line \in {<<>>, D}} \cup
      {<<D \o <<c>>, Opened(c, NotGiven)>>, <<D \o <<c, o>>, Opened(c, o)>>} \cup
      {<<D \o <<c, f, o>>, Opened(c, o)>> : f \in flags} \cup
      {<<D \o <<f, o, c>>, Opened(c, o)>> : f \in flags} \cup
      {<<D \o <<f, o>>, Opened(DefaultConfig, o)>> : f \in flags} \cup
      {<<D \o <<c, f>>, Nothing>> : f \in flags} \cup
      {<<D \o <<f, o, c, c>>, Nothing>> : f \in flags} \cup
      {<<D \o <<c, o, c>>, Nothing>>}

Diagnosed(config, probe) ==
  [ok |-> TRUE, word |-> "desktop-diagnostics",
   says |-> [config_path |-> config, probe_targets |-> probe]]

DiagnosticsWays ==
  LET c == <<"config">>  probe == <<"--probe-targets">>  D == <<<<"desktop-diagnostics">>>>
  IN  {<<D, Diagnosed(DefaultConfig, FALSE)>>, <<D \o <<c>>, Diagnosed(c, FALSE)>>,
       <<D \o <<c, probe>>, Diagnosed(c, TRUE)>>, <<D \o <<probe, c>>, Diagnosed(c, TRUE)>>,
       <<D \o <<c, c>>, Nothing>>}

UiWays ==
  {<<<<<<word>>, <<"profile">>, <<"output">>>>,
     [ok |-> TRUE, word |-> word, says |-> [ui_args |-> <<<<"profile">>, <<"output">>>>]]>> :
     word \in {"layout-editor", "control-panel"}}

ASSUME CommandsAssumption ==
  /\ \A u \in Usages : \A i \in DOMAIN u.takes :
       u.takes[i][2] \in DOMAIN Spelled /\ u.takes[i][2] \in DOMAIN Wrong
  /\ \A kind \in DOMAIN Spelled : \A pair \in Spelled[kind] : pair[1] # SerialNumber
  /\ \A kind \in DOMAIN Wrong : SerialNumber \notin Wrong[kind]

CommandsInit ==
  \/ \E u \in Usages : \E n \in u.needed..Len(u.takes) :
       \E said \in Sayings(u, n) : Positional(u, said)
  \/ \E way \in DesktopWays \cup DiagnosticsWays \cup UiWays : Typed(way[1], way[2])

(* macOS adds its argument, wherever it likes.                             *)
AddSerialNumber(i) ==
  /\ SerialNumber \notin ToSet(args)
  /\ args' = InsertAt(args, i, SerialNumber)
  /\ UNCHANGED meant

(* An argument that would be read says nothing.                            *)
Misspell(u, i) ==
  /\ meant.ok /\ SerialNumber \notin ToSet(args)
  /\ i + 1 \in DOMAIN args /\ args[1] = <<u.word>> /\ u.takes[i][1] \in DOMAIN meant.says
  /\ \E arg \in Wrong[u.takes[i][2]] : args' = [args EXCEPT ![i + 1] = arg]
  /\ meant' = Nothing

(* The last argument without brackets is forgotten.  Only that of the      *)
(* configuration may be.                                                   *)
Forget(u) ==
  /\ meant.ok /\ SerialNumber \notin ToSet(args)
  /\ args # <<>> /\ args[1] = <<u.word>> /\ Len(args) = u.needed + 1
  /\ u.needed # 0 /\ u.takes[u.needed] # HelpConfig
  /\ args' = Front(args)
  /\ meant' = Nothing

CommandsNext ==
  \/ \E i \in 1..(Len(args) + 1) : AddSerialNumber(i)
  \/ \E u \in Usages : Forget(u) \/ \E i \in DOMAIN u.takes : Misspell(u, i)

CommandsSpec == CommandsInit /\ [][CommandsNext]_commandsVars

-----------------------------------------------------------------------------
(* A line that follows the printed usage is taken for its command, with    *)
(* each argument that is written for what it says to its writer, and with  *)
(* what the guide promises for one that is not; wherever macOS puts its    *)
(* own argument.  A line that says nothing is refused.                     *)
Understood ==
  LET p == Parse(args)
  IN  /\ p.ok = meant.ok
      /\ meant.ok => /\ p.word = meant.word
                     /\ \A name \in DOMAIN meant.says : p.fields[name] = meant.says[name]
=============================================================================
