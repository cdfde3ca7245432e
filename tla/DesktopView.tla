----------------------------- MODULE DesktopView -----------------------------
(***************************************************************************)
(* What a computer makes of the device list of the server: entries of one  *)
(* computer are merged, the layout is expressed in the entries kept, the   *)
(* capture plan follows the layout, and the window edits it.               *)
(***************************************************************************)
EXTENDS Naturals, Sequences, FiniteSetsExt, SequencesExt

CONSTANTS
    Own,            \* id of this computer
    NoDevice,
    OldIds,         \* ids of another computer, registered again and again
    Presences,      \* presences: no record, or [fresh, lan, public, seen]
    Masters, Layouts, \* masters and layouts to begin with
    MaxLayoutEdits  \* bound: edits of the layout

ASSUME DesktopViewAssumption == Own \notin OldIds /\ NoDevice \notin OldIds \cup {Own}

DeviceIds == OldIds \cup {Own}
Slots == {"left", "right", "top", "bottom"}

VARIABLES
    inventory,      \* the devices as the server lists them, a sequence
    master,         \* the id of the master, or NoDevice
    placed,         \* the layout in the configuration file: slot -> id or NoDevice
    loaded,         \* what the window loaded last: [layout, devices]
    edited,         \* the layout of the window
    layoutEdits

viewVars == <<inventory, master, placed, loaded, edited, layoutEdits>>

Item(id, presence, relay, disabled) ==
    [id |-> id, presence |-> presence, relay |-> relay, disabled |-> disabled]

-----------------------------------------------------------------------------
(* build_peer_state_index                                                  *)

Present(item) == item.presence # {}
Online(item) == \E p \in item.presence : p.fresh
RelayOnline(item) == item.relay = "online"
LastSeen(item) == IF Present(item) THEN (CHOOSE p \in item.presence : TRUE).seen ELSE 0

\* All entries have the name, the system and the key of the one computer in common.
PeerKey(item) ==
    CASE \E p \in item.presence : p.lan # {} ->
           <<"lan", (CHOOSE p \in item.presence : TRUE).lan>>
      [] \E p \in item.presence : p.lan = {} /\ p.public # "" ->
           <<"public", (CHOOSE p \in item.presence : TRUE).public>>
      [] OTHER -> <<"key", {}>>

Bit(condition) == IF condition THEN 1 ELSE 0

\* Ids are numbers in the model; any total order does.
Rank(item) == <<Bit(Online(item)), Bit(RelayOnline(item)), LastSeen(item), item.id>>

Exceeds(a, b) ==
    \E i \in DOMAIN a : a[i] > b[i] /\ \A j \in 1..(i - 1) : a[j] = b[j]

\* peer_item_is_better
Better(candidate, existing) == Exceeds(Rank(candidate), Rank(existing))

Others(items) == SelectSeq(items, LAMBDA item : item.id # Own /\ ~item.disabled)

Select(selected, item) ==
    IF \E kept \in selected : PeerKey(kept) = PeerKey(item)
    THEN {IF PeerKey(kept) = PeerKey(item) /\ Better(item, kept) THEN item ELSE kept :
             kept \in selected}
    ELSE selected \cup {item}

Selected(items) == FoldLeft(Select, {}, Others(items))

Available(item) == Online(item) \/ RelayOnline(item)

\* The id an entry stands for in the layout.
Canonical(items, id) ==
    LET kept == {item \in Selected(items) :
                   \E entry \in Range(Others(items)) :
                      entry.id = id /\ PeerKey(entry) = PeerKey(item)}
    IN  IF \E item \in kept : item.id = id \/ Available(item)
        THEN (CHOOSE item \in kept : TRUE).id ELSE id

\* canonicalize_layout_targets
Shown(items, layout) == [slot \in Slots |-> Canonical(items, layout[slot])]

ShownLayout == Shown(inventory, placed)

-----------------------------------------------------------------------------
(* The role, the connection to the master and the capture plan.            *)

\* role_for_topology
Role == IF master = Own THEN "master" ELSE "client"

\* master_connection_state
MasterState ==
    CASE master = Own -> "self"
      [] \E item \in Range(inventory) : item.id = master /\ Online(item) -> "connecting"
      [] OTHER -> "disconnected"

\* desktop_capture_plan_from_state: edge -> target
CapturePlan ==
    IF Role # "master" THEN {}
    ELSE {<<slot, ShownLayout[slot]>> :
            slot \in {s \in Slots : \E item \in Selected(inventory) :
                        item.id = ShownLayout[s] /\ Online(item)}}

-----------------------------------------------------------------------------
(* Editing the layout in the window.                                       *)

\* DesktopLayout::validate
Valid(layout) ==
    \A s, t \in Slots : s # t /\ layout[s] # NoDevice => layout[s] # layout[t]

\* local IPC (SetLayout) and the button of the window refuse a layout that is not valid.
ASSUME LayoutsAssumption ==
    \A layout \in Layouts : layout \in [Slots -> DeviceIds \cup {NoDevice}] /\ Valid(layout)

\* load_state and apply_state: what was edited and not saved is gone.
Loaded(items, layout) ==
    [layout |-> Shown(items, layout), devices |-> {item.id : item \in Selected(items)}]

Load(items, layout) ==
    /\ placed' = layout
    /\ loaded' = Loaded(items, layout) /\ edited' = loaded'.layout

MutantClearDuplicates(layout, changed) == layout

\* native_layout_clear_duplicate_targets
ClearDuplicates(layout, changed) ==
    [slot \in Slots |-> IF slot # changed /\ layout[slot] = layout[changed]
                        THEN NoDevice ELSE layout[slot]]

\* The list offers this computer, the computers loaded last, and none.  Choosing what is
\* there already changes nothing.
EditSlot(slot, id) ==
    /\ layoutEdits < MaxLayoutEdits /\ layoutEdits' = layoutEdits + 1
    /\ id \in loaded.devices \cup {Own, NoDevice} /\ id # edited[slot]
    /\ edited' = ClearDuplicates([edited EXCEPT ![slot] = id], slot)
    /\ UNCHANGED <<inventory, master, placed, loaded>>

\* save_layout; one that is not valid is refused, and stays as it is in the window.
SaveLayout ==
    /\ Valid(edited) /\ Load(inventory, edited)
    /\ UNCHANGED <<inventory, master, layoutEdits>>

Without(layout, id) ==
    [slot \in Slots |-> IF layout[slot] = id THEN NoDevice ELSE layout[slot]]

\* delete_device: the server forgets the device; the layout of the window without it is
\* written, valid or not, and the write may fail.
RemoveDevice(id) ==
    /\ layoutEdits < MaxLayoutEdits /\ layoutEdits' = layoutEdits + 1
    /\ id \in loaded.devices
    /\ LET left == SelectSeq(inventory, LAMBDA item : item.id # id)
       IN  /\ inventory' = left
           /\ \/ /\ Load(left, Without(edited, id))
                 /\ master' = IF master = id THEN NoDevice ELSE master
              \/ Load(left, placed) /\ UNCHANGED master

\* The window refreshes itself.
Refreshed ==
    /\ Load(inventory, placed)
    /\ UNCHANGED <<inventory, master, layoutEdits>>

\* The server lists its devices in any order.
Relist ==
    /\ \E i \in 1..(Len(inventory) - 1) :
          inventory' = [inventory EXCEPT ![i] = inventory[i + 1], ![i + 1] = inventory[i]]
    /\ UNCHANGED <<master, placed, loaded, edited, layoutEdits>>

\* The first of three entries may have a relay connection, or be disabled.
Inventories ==
    {[i \in 1..3 |-> Item(order[i], presences[i], IF i = 1 THEN relay ELSE "offline",
                          i = 1 /\ disabled)] :
        order \in {o \in [1..3 -> OldIds] : \A i, j \in 1..3 : i < j => o[i] < o[j]},
        presences \in [1..3 -> Presences], relay \in {"unknown", "online"},
        disabled \in BOOLEAN}

Listed(listed, chosen, slots) ==
    /\ inventory = listed /\ master = chosen /\ placed = slots
    /\ loaded = Loaded(listed, slots) /\ edited = loaded.layout
    /\ layoutEdits = 0

ViewInit ==
    \E listed \in Inventories, chosen \in Masters, slots \in Layouts :
        Listed(listed, chosen, slots)

ViewNext ==
    \/ \E slot \in Slots, id \in DeviceIds \cup {NoDevice} : EditSlot(slot, id)
    \/ \E id \in OldIds : RemoveDevice(id)
    \/ SaveLayout \/ Refreshed \/ Relist

ViewSpec == ViewInit /\ [][ViewNext]_viewVars

-----------------------------------------------------------------------------
(* Properties.                                                             *)

\* The devices shown and the layout shown do not depend on the order in which the server
\* lists the devices.
OrderDoesNotMatter ==
    [][placed' = placed /\ Range(inventory') = Range(inventory) =>
          Selected(inventory') = Selected(inventory) /\ ShownLayout' = ShownLayout]_viewVars

\* A master captures for every place of its layout whose computer is online under any of
\* its entries, whichever entry the layout names; and what is shown is never rewritten again.
PlacesFollowTheComputer ==
    \A slot \in Slots :
        /\ Canonical(inventory, ShownLayout[slot]) = ShownLayout[slot]
        /\ \A named, other \in Range(Others(inventory)) :
              /\ placed[slot] = named.id /\ PeerKey(named) = PeerKey(other)
              /\ Online(other) /\ Role = "master"
              => \E id \in OldIds : <<slot, id>> \in CapturePlan

\* The window refuses to save a layout only for a computer that was in both places when the
\* layout was loaded, merged from two entries or stored so, and that the user has left there;
\* never for what has been selected since.
EditsStayValid ==
    \A s, t \in Slots :
        s # t /\ edited[s] = edited[t] /\ edited[s] # NoDevice =>
            loaded.layout[s] = edited[s] /\ loaded.layout[t] = edited[t]

\* The layout shown is one that can be saved.
ShownIsValid == Valid(ShownLayout)
=============================================================================
