------------------------------ MODULE MCValues ------------------------------
(***************************************************************************)
(* What one device reads, computes and shows: its identity, its counters,  *)
(* the view and the labels of its window, frames on the wire, input events *)
(* of its adapters, mDNS answers, its command line and its profile.  No    *)
(* property speaks of two of them, so one of Parts moves and the others    *)
(* stay in their first state.                                              *)
(***************************************************************************)
EXTENDS Identity, Telemetry, DesktopView, StatusLabels, WireFormat, Devices,
        MdnsDiscovery, Commands, ProfileText

CONSTANT Parts

VARIABLE part

ValuesVars == <<part, identityVars, telemetryVars, viewVars, desktop, wireVars, devicesVars,
                mdnsVars, commandsVars, profileTextVars>>

\* What a part starts with: one of S, or always the same while another part moves.
Inputs(p, S) == IF part = p THEN S ELSE {CHOOSE x \in S : TRUE}

ValuesInit ==
  /\ part \in Parts
  /\ \E packets \in Inputs("mdns", Answers) : Answered(packets)
  /\ TelemetryInit
  /\ DevicesInit
  /\ part # "devices" => /\ source = "windows" /\ target = "windows"
                         /\ mapping = Standard /\ keyboard = Standard
  /\ \E listed \in Inputs("view", Inventories), chosen \in Inputs("view", Masters),
        slots \in Inputs("view", Layouts) : Listed(listed, chosen, slots)
  /\ \E p \in Inputs("identity", Packages) : Installed(p)
  /\ \E f \in Inputs("wire", SentFrames) : Sending(f)
  /\ \E d \in Inputs("labels", Desktops) : desktop = d
  /\ IF part = "commands" THEN CommandsInit ELSE Typed(<<>>, Opened(DefaultConfig, NotGiven))
  /\ \E t \in Inputs("profile", PlainTexts) : SavedText(t)

Rest(p) ==
  /\ p # "identity" => UNCHANGED identityVars
  /\ p # "telemetry" => UNCHANGED telemetryVars
  /\ p # "view" => UNCHANGED viewVars
  /\ p # "labels" => UNCHANGED desktop
  /\ p # "wire" => UNCHANGED wireVars
  /\ p # "devices" => UNCHANGED devicesVars
  /\ p # "mdns" => UNCHANGED mdnsVars
  /\ p # "commands" => UNCHANGED commandsVars
  /\ p # "profile" => UNCHANGED profileTextVars

ValuesNext ==
  /\ UNCHANGED part
  /\ \/ part = "identity" /\ IdentityNext
     \/ part = "telemetry" /\ TelemetryNext
     \/ part = "view" /\ ViewNext
     \/ part = "labels" /\ LabelNext
     \/ part = "wire" /\ WireNext
     \/ part = "devices" /\ DevicesNext
     \/ part = "mdns" /\ MdnsNext
     \/ part = "commands" /\ CommandsNext
     \/ part = "profile" /\ ProfileTextNext
  /\ Rest(part)

ValuesSpec == ValuesInit /\ [][ValuesNext]_ValuesVars

-----------------------------------------------------------------------------
(* Identity.                                                               *)

Package(os, installed, home, dirs, found) ==
  [os |-> os, installed |-> installed, home |-> home, configs |-> dirs, identities |-> found]

NoFiles == [d \in {} |-> NoFile]
InUser(f) == [d \in {"user"} |-> f]

(* Packages as they are installed, and earlier versions' files.            *)
MCPackages ==
  {Package("windows", TRUE, TRUE, {"exe/configs"}, NoFiles),
   Package("windows", TRUE, TRUE, {"exe/configs"},
           [d \in {"exe/configs"} |-> File(Old, Old, "ref")]),
   Package("macos", TRUE, TRUE, {"package/configs"}, NoFiles),
   Package("linux", FALSE, TRUE, {}, NoFiles),
   Package("linux", FALSE, FALSE, {"cwd/config", "exe/configs"}, NoFiles)} \cup
  {Package("windows", TRUE, TRUE, {"user"}, InUser(f)) :
     f \in {File(Old, Old, "inline"), File(NoId, Old, "ref"), File(Old, Old, "neither"), Blank}}
  \cup
  {Package("macos", TRUE, TRUE, {"user"}, InUser(f)) :
     f \in {File(Old, Old, "ref"), File(NoId, Old, "inline"), Blank, Junk}}

-----------------------------------------------------------------------------
(* DesktopView and StatusLabels.                                           *)

MCPresences ==
    {{}, {[fresh |-> TRUE, lan |-> {}, public |-> "p", seen |-> 1]}} \cup
    {{[fresh |-> v[1], lan |-> {"ip"}, public |-> "p", seen |-> v[2]]} :
        v \in {<<TRUE, 1>>, <<TRUE, 2>>, <<FALSE, 2>>}}

PlacedAs(left, right) ==
    [slot \in Slots |-> CASE slot = "left" -> left [] slot = "right" -> right
                          [] OTHER -> NoDevice]
MCPlaced == {PlacedAs(2, 1)}

MCTargets ==
  {{}} \cup {{p} : p \in TargetPeer} \cup
  {{p, q} : p, q \in [online : {TRUE}, relay : {"unknown", "offline"},
                     subnet : {"same", "other"}]}

-----------------------------------------------------------------------------
(* WireFormat: a frame of every kind.                                      *)

FrameOf(p) == [sequence |-> 7, time |-> 8, payload |-> p]
InputOf(e) == FrameOf([kind |-> "input", source |-> 1, target |-> 2, version |-> 3,
                         channel |-> ChannelFor(e), event |-> e])
ControlOf(p) == FrameOf([kind |-> "control", source |-> 1] @@ p)
FilesFrame(fs) == FrameOf([kind |-> "files", source |-> 1, version |-> 2, files |-> fs])

MCEvents ==
  {[kind |-> "key", key |-> "A", state |-> "pressed", modifiers |-> {"meta"}],
   [kind |-> "button", button |-> "left", state |-> "released"]} \cup
  {[kind |-> k, x |-> 5, y |-> 6] : k \in {"move", "position", "scroll"}}

MCFrames ==
  {InputOf(e) : e \in MCEvents} \cup
  {FrameOf(p) : p \in {PlainClip(1, 2, <<>>), PlainClip(1, 2, <<"a", "b">>),
                     UrlClip(1, 2, <<"u">>), HtmlClip(1, 2, <<>>, <<"a">>),
                     HtmlClip(1, 2, <<"h">>, <<"a", "b">>),
                     ImageClip(1, 2, 1, 1, <<"r", "g", "b", "a">>)}} \cup
  {FilesFrame(fs) : fs \in {<<>>, <<FileMetadata(<<"a">>, 5, 6)>>,
                         <<FileMetadata(<<"/", "b">>, 5, 6), FileMetadata(<<" ">>, 7, 8)>>,
                         <<FileMetadata(<<"a", "b", "c", "d">>, 5, 6)>>}} \cup
  {ControlOf([message |-> "heartbeat", session |-> 3, sequence |-> 4]),
   ControlOf([message |-> "capabilities", min |-> 3, max |-> 4, channels |-> {"clipboard"}]),
   ControlOf([message |-> "config_version", version |-> 3]),
   ControlOf([message |-> "session_state", session |-> 3, state |-> "active"])}

MCFiles == {<<>>, <<"x">>, <<"x", "y">>, <<"x", "y", "z">>, <<"w", "x", "y", "z">>}

-----------------------------------------------------------------------------
(* Devices.                                                                *)

MCMotions == {<<1, 0>>, <<2, -1>>}
MCTurns == {-4, 1, 8}
MCStandard == [p \in Positions |-> p]
MCMappings == {MCStandard, [p \in Positions |-> IF p = "q" THEN "a" ELSE "q"]}

-----------------------------------------------------------------------------
(* MdnsDiscovery: two devices and single faults of every kind.             *)

MCServices ==
  {[instance |-> "d1", target |-> <<"h1", "local">>, port |-> "p1", id |-> "id1",
    addresses |-> {"a1", "a2"}],
   [instance |-> "d2", target |-> <<"h2", "local">>, port |-> "p2", id |-> "id2",
    addresses |-> {"a3"}]}

MCFaults ==
  [at : 0..35, cell : {Cut, End, Label("h1"), Datum("x"), Pointer(0), Pointer(4),
                       Pointer(9)}]
  \cup {[at |-> i, cell |-> Pointer(i + j)] : i \in 0..35, j \in 0..2}

-----------------------------------------------------------------------------
(* Commands: what the texts of the printed usage and of the guide say, and *)
(* other words for the same.                                               *)

Itself(texts) == {<<<<w>>, <<w>>>> : w \in texts}
Number(texts) == {<<<<w>>, w>> : w \in texts}

MCSpelled ==
  [path |-> Itself({"p"}), id |-> Itself({"d"}), text |-> Itself({"t"}), word |-> Itself({"w"}),
   address |-> Number({"ip:24800"}),
   profile |-> {<<<<"mac-to-windows">>, "mac_to_windows">>,
                <<<<"windows-to-mac">>, "windows_to_mac">>},
   mode |-> {<<<<"all">>, "always">>, <<<<"lock">>, "locked">>, <<<<"left">>, "left">>,
             <<<<"bottom">>, "bottom">>, <<<<"top-left">>, "top_left">>,
             <<<<"tr">>, "top_right">>, <<<<"bottom-left">>, "bottom_left">>,
             <<<<"right-bottom">>, "bottom_right">>},
   threshold |-> Number({"1.5"}),
   hotkey |-> {<<<<"ctrl", "alt", "escape">>, <<{"Escape"}, {"control", "alt"}>>>>,
               <<<<"esc", "option", "cmd">>, <<{"Escape"}, {"alt", "meta"}>>>>,
               <<<<"k">>, <<{"K"}, {}>>>>},
   cooldown |-> Number({"300"}),
   apps |-> {<<<<"notes", "">>, {"notes"}>>},
   sensitive |-> {<<<<"">>, {"1password", "bitwarden"}>>,
                  <<<<"notes">>, {"1password", "bitwarden", "notes"}>>},
   enabled |-> {<<<<"enabled">>, "on">>, <<<<"disabled">>, "off">>, <<<<"0">>, "off">>},
   chunk |-> Number({"1", "1024"}), number |-> Number({"2", "300"})]

MCWrong ==
  [kind \in DOMAIN MCSpelled |->
     CASE kind \in {"profile", "mode", "enabled", "address"} -> {<<"other">>}
       [] kind \in {"number", "cooldown"} -> {<<"1.5">>}
       [] kind = "threshold" -> {<<"far">>}
       [] kind = "chunk" -> {<<"0">>, <<"1025">>}
       [] kind = "hotkey" -> {<<"k", "esc">>, <<"ctrl", "alt">>, <<"ctrl", "", "k">>}
       [] OTHER -> {}]

MCSerialNumber == <<"-psn_0_1">>

-----------------------------------------------------------------------------
(* ProfileText: names of keys, keys that change places, layouts.           *)

MCMapped ==
  {{<<k, to>>} : k \in Keys, to \in {"PageDown"}} \cup
  {{<<"PageUp", "PageDown">>, <<"PageDown", to>>} : to \in {"PageUp", "Fn"}} \cup
  {{<<"LeftMeta", "LeftControl">>, <<"LeftControl", "LeftMeta">>}}

MCTextLayouts ==
  {[targets |-> <<"b">>, edges |-> [left |-> Missing, right |-> "b"]],
   [targets |-> <<"b", "c">>, edges |-> [left |-> "b", right |-> "c"]]}
=============================================================================
