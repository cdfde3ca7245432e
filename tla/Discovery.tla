------------------------------ MODULE Discovery ------------------------------
(***************************************************************************)
(* How a device finds and connects to another one: candidates from the     *)
(* server's list and from mDNS, tried in order                             *)
(* (crates/kmsync/src/client/mod.rs), by `capture-connect`, which retries  *)
(* until it is connected, and by the transmit thread of the desktop        *)
(* capture, which falls back to the relay (crates/kmsync/src/main.rs).     *)
(*                                                                         *)
(* Meanwhile the target changes its addresses, the server stops and        *)
(* returns, and the list stays as the last heartbeat left it.  An address  *)
(* is a number whose tens are its subnet; 0 cannot be parsed.  The port,   *)
(* keys and versions are left out.                                         *)
(***************************************************************************)
EXTENDS Integers, Sequences, SequencesExt, FiniteSets, TLC

CONSTANTS
  Addresses,  \* addresses the target may have
  Locals,     \* sets of addresses this device may have
  MaxMoves  \* changes of the network tried

ASSUME DiscoveryAssumption ==
  Addresses \subseteq Nat \ {0} /\ Locals \subseteq SUBSET Nat /\ MaxMoves \in Nat

NoLink == 0
Relay == 1 \* no address is that small

Subnet(address) == address \div 10

VARIABLES
  net,     \* [server, known, disabled, online, ips, announced, reach, local]
  moves, \* of net, so far
  caller,  \* "connect" or "desktop"
  pc,
  seen,    \* what the caller read of the net
  offers,  \* candidates left to try
  tried,   \* candidates that failed
  last,    \* DirectLanReconnectState: [current, ips, candidates, count]
  link     \* NoLink, Relay or an address

discoveryVars == <<net, moves, caller, pc, seen, offers, tried, last, link>>
netVars == <<net, moves>>
callVars == <<caller, pc, seen, offers, tried, last, link>>

-----------------------------------------------------------------------------
(* Candidates.  Those behind a NAT and relays are never passed in.         *)

Candidate(kind, address) == [kind |-> kind, address |-> address]

Priority(c) == CASE c.kind = "mdns" -> 400 [] c.kind = "backend" -> 300

(* sort_connection_candidates *)
Sorted(cs) ==
  SortSeq(cs, LAMBDA l, r : \/ Priority(l) > Priority(r)
                            \/ Priority(l) = Priority(r) /\ l.address < r.address)

(* dedupe_candidates_by_address: the first of an address stays.            *)
Deduped(cs) ==
  FoldLeft(LAMBDA kept, c :
             IF \E i \in DOMAIN kept : kept[i].address = c.address THEN kept
             ELSE Append(kept, c), <<>>, cs)

(* collect_connection_candidates *)
Collected(mdns, online, ips) ==
  LET parsed == IF online THEN SelectSeq(ips, LAMBDA a : a # 0) ELSE <<>>
  IN  Deduped(Sorted([i \in DOMAIN mdns |-> Candidate("mdns", mdns[i])] \o
                     [i \in DOMAIN parsed |-> Candidate("backend", parsed[i])]))

(* candidate_matches_local_subnet *)
Near(c, ips) == \E ip \in ips : Subnet(ip) = Subnet(c.address)

Before(l, r, ips) ==
  \/ Near(l, ips) /\ ~Near(r, ips)
  \/ /\ Near(l, ips) <=> Near(r, ips)
     /\ \/ Priority(l) > Priority(r)
        \/ Priority(l) = Priority(r) /\ l.address < r.address

(* prioritize_direct_candidates_for_local_network *)
Prioritized(cs, ips) == SortSeq(cs, LAMBDA l, r : Before(l, r, ips))

(* DirectLanReconnectState::reconnect_reason *)
Reason(healthy, ips, cs) ==
  CASE last.current = <<>> -> "initial connection"
    [] ~healthy -> "connection lost"
    [] last.ips # ips -> "local network changed"
    [] last.candidates # cs -> "remote candidates changed"
    [] OTHER -> "none"

(* What classify_diagnostic_kind takes for a failed connection.            *)
(* Mutant: failed candidates are not among them. *)
MutantRetryable == {"request failed", "no candidates", "failed to connect"}

Retryable == {"request failed", "no candidates", "all candidates failed", "failed to connect"}

-----------------------------------------------------------------------------
DiscoveryInit ==
  /\ \E local \in Locals, a \in Addresses :
       net = [server |-> TRUE, known |-> TRUE, disabled |-> FALSE, online |-> TRUE,
              ips |-> <<0, a>>, announced |-> <<>>, reach |-> {a}, local |-> local]
  /\ moves = 0
  /\ caller \in {"connect", "desktop"}
  /\ pc = "idle"
  /\ seen = [ips |-> <<>>, online |-> FALSE, mdns |-> <<>>, local |-> {}]
  /\ offers = <<>> /\ tried = <<>>
  /\ last = [current |-> <<>>, ips |-> {}, candidates |-> <<>>, count |-> 0]
  /\ link = NoLink

-----------------------------------------------------------------------------
(* The network changes. *)

Changes(new) ==
  /\ moves < MaxMoves
  /\ moves' = moves + 1
  /\ net' = new
  /\ UNCHANGED callVars

Orders(S) == SetToSeqs(S)

TargetMoves == \E r \in SUBSET Addresses : Changes([net EXCEPT !.reach = r])

TargetHeartbeat ==
  \E s \in Orders(net.reach) :
    net.server /\ Changes([net EXCEPT !.ips = s, !.online = TRUE, !.known = TRUE])

TargetExpires == Changes([net EXCEPT !.online = FALSE])

TargetAnnounces ==
  \E s \in Orders(net.reach) \cup {<<>>} : Changes([net EXCEPT !.announced = s])

TargetRemoved ==
  Changes([net EXCEPT !.known = FALSE]) \/ Changes([net EXCEPT !.disabled = ~@])

DeviceMoves == \E l \in Locals : Changes([net EXCEPT !.local = l])

ServerStops == Changes([net EXCEPT !.server = ~@])

-----------------------------------------------------------------------------
(* refresh_target_direct_lan_connection_with_timeout *)

Begin ==
  /\ pc = "idle" /\ link = NoLink
  /\ pc' = "list"
  /\ offers' = <<>> /\ tried' = <<>>
  /\ UNCHANGED <<netVars, caller, seen, last, link>>

(* What an error leads to: capture-connect waits and begins again if it    *)
(* takes the error for a failed connection, the transmit thread asks for   *)
(* the relay.                                                              *)
Fails(error) ==
  pc' = CASE caller = "desktop" -> "relay"
          [] caller = "connect" /\ error \in Retryable -> "idle"
          [] OTHER -> error

ListDevices ==
  /\ pc = "list"
  /\ IF net.server
     THEN /\ seen' = [seen EXCEPT !.ips = net.ips, !.online = net.online]
          /\ CASE ~net.known -> Fails("not found")
               [] net.known /\ net.disabled -> Fails("disabled")
               [] OTHER -> pc' = "discover"
     ELSE Fails("request failed") /\ UNCHANGED seen
  /\ UNCHANGED <<netVars, caller, offers, tried, last, link>>

(* An announcement may be missed.                                          *)
Discover ==
  /\ pc = "discover"
  /\ \E mdns \in {<<>>, net.announced} :
       LET cs == Prioritized(Collected(mdns, seen.online, seen.ips), net.local)
       IN  /\ seen' = [seen EXCEPT !.mdns = mdns, !.local = net.local]
           /\ Reason(FALSE, net.local, cs) # "none"
           /\ offers' = cs
  /\ pc' = "try"
  /\ UNCHANGED <<netVars, caller, tried, last, link>>

(* try_direct_lan_connection, DirectLanReconnectState::refresh             *)
TrySucceeds ==
  /\ pc = "try" /\ offers # <<>> /\ Head(offers).address \in net.reach
  /\ last' = [current |-> <<Head(offers)>>, ips |-> seen.local,
              candidates |-> tried \o offers,
              count |-> IF last.current # <<>> THEN last.count + 1 ELSE last.count]
  /\ pc' = "again"
  /\ UNCHANGED <<netVars, caller, seen, offers, tried, link>>

TryFails ==
  /\ pc = "try" /\ offers # <<>> /\ Head(offers).address \notin net.reach
  /\ tried' = Append(tried, Head(offers))
  /\ offers' = Tail(offers)
  /\ UNCHANGED <<netVars, caller, pc, seen, last, link>>

NothingLeft ==
  /\ pc = "try" /\ offers = <<>>
  /\ last' = [last EXCEPT !.current = <<>>]
  /\ Fails(IF tried = <<>> THEN "no candidates" ELSE "all candidates failed")
  /\ UNCHANGED <<netVars, caller, seen, offers, tried, link>>

(* The connection that was tried is dropped, and made again to be used.    *)
Connect ==
  /\ pc = "again"
  /\ IF last.current[1].address \in net.reach
     THEN pc' = "connected" /\ link' = last.current[1].address
     ELSE Fails("failed to connect") /\ UNCHANGED link
  /\ UNCHANGED <<netVars, caller, seen, offers, tried, last>>

ConnectRelay ==
  /\ pc = "relay"
  /\ IF net.server THEN pc' = "connected" /\ link' = Relay
     ELSE pc' = "idle" /\ UNCHANGED link
  /\ UNCHANGED <<netVars, caller, seen, offers, tried, last>>

Works == IF link = Relay THEN net.server ELSE link \in net.reach

(* transmit_desktop_capture_event: a sender that fails is removed.  Its    *)
(* reconnect state was that of one attempt.                                *)
SenderFails ==
  /\ caller = "desktop" /\ pc = "connected" /\ ~Works
  /\ pc' = "idle" /\ link' = NoLink
  /\ last' = [current |-> <<>>, ips |-> {}, candidates |-> <<>>, count |-> 0]
  /\ UNCHANGED <<netVars, caller, seen, offers, tried>>

DiscoveryNext ==
  \/ TargetMoves \/ TargetHeartbeat \/ TargetExpires \/ TargetAnnounces \/ TargetRemoved
  \/ DeviceMoves \/ ServerStops
  \/ Begin \/ ListDevices \/ Discover \/ TrySucceeds \/ TryFails \/ NothingLeft \/ Connect
  \/ ConnectRelay \/ SenderFails

(* Every step of the caller ends: requests, answers to mDNS and            *)
(* connections have timeouts.  The network owes nothing.                   *)
DiscoveryFairness ==
  WF_discoveryVars(\/ Begin \/ ListDevices \/ Discover \/ TrySucceeds \/ TryFails
                   \/ NothingLeft \/ Connect \/ ConnectRelay \/ SenderFails)

DiscoverySpec == DiscoveryInit /\ [][DiscoveryNext]_discoveryVars /\ DiscoveryFairness

-----------------------------------------------------------------------------
Offered ==
  {Candidate("mdns", seen.mdns[i]) : i \in DOMAIN seen.mdns} \cup
  IF seen.online THEN {Candidate("backend", seen.ips[i]) : i \in DOMAIN seen.ips} ELSE {}

(* The candidate connected to is the best one that answered: whatever was  *)
(* offered on this subnet, or by mDNS on as near a subnet, was tried       *)
(* first, and no address was tried twice.                                  *)
BestChosen ==
  pc = "again" =>
    LET chosen == last.current[1]
        was(a) == \E i \in DOMAIN tried : tried[i].address = a
    IN  /\ ~was(chosen.address)
        /\ Cardinality({tried[i].address : i \in DOMAIN tried}) = Len(tried)
        /\ \A c \in Offered :
             c.address \notin {0, chosen.address} /\ ~was(c.address) =>
               /\ Near(c, seen.local) => Near(chosen, seen.local)
               /\ (Near(c, seen.local) <=> Near(chosen, seen.local)) =>
                    (c.kind = "mdns" => chosen.kind = "mdns")

Reachable ==
  /\ net.server /\ net.known /\ ~net.disabled /\ net.online
  /\ \E i \in DOMAIN net.ips : net.ips[i] \in net.reach

(* A target that stays reachable is connected to, however often it could   *)
(* not be reached before; capture-connect gives up only if the target was  *)
(* removed or disabled when it looked.                                     *)
ReachableIsReached ==
  <>[]Reachable => <>(\/ link # NoLink /\ (caller = "desktop" => Works)
                      \/ pc \in {"not found", "disabled"})

(* The capture of the desktop always comes back to a working link once the *)
(* server stays up.                                                        *)
DesktopRelinks == caller = "desktop" => (<>[](net.server) => <>[](link # NoLink /\ Works))
-----------------------------------------------------------------------------
(* "Relay 建立后仍保留后台直连重试，直连恢复后可从 Relay 切回直连。" (connect.md:182): *)
(* a relayed connection returns to a direct one when that is possible.     *)
BackToDirect == caller = "desktop" => (<>[]Reachable => <>(link \notin {NoLink, Relay}))
=============================================================================
