---------------------------- MODULE MdnsDiscovery ----------------------------
(***************************************************************************)
(* Discovery of devices on the local network (discover_mdns_lan_endpoints  *)
(* in crates/kmsync/src/client/mod.rs): a query is sent and the answers    *)
(* that arrive before the deadline are parsed.                             *)
(*                                                                         *)
(* A packet is a sequence of cells: a label, the end of a name, a pointer  *)
(* to an offset, the fixed part of a record with its type and the number   *)
(* of cells of its data, or a datum.  Offsets start at 0.  What is         *)
(* malformed is a cell out of place or a packet cut short; letters, the    *)
(* case of names, the classes of records and questions in an answer are    *)
(* left out.                                                               *)
(***************************************************************************)
EXTENDS Integers, Sequences, FiniteSets, SequencesExt

CONSTANTS
  Services,  \* advertised: [instance, target, port, id, addresses]
  MaxJumps,  \* pointers followed in a name (12)
  Faults     \* how packets are damaged: [at, cell], or [at, cell |-> Cut]

(* Instances have names of their own, a host its addresses, and no name    *)
(* has more labels than pointers are followed.                             *)
ASSUME MdnsAssumption ==
  /\ MaxJumps \in Nat /\ MaxJumps >= 2
  /\ IsFiniteSet(Services)
  /\ \A s \in Services :
       /\ s.target \in Seq(ToSet(s.target)) /\ Len(s.target) \in 1..(MaxJumps + 1)
       /\ IsFiniteSet(s.addresses)
  /\ \A s, t \in Services :
       /\ s.instance = t.instance => s = t
       /\ s.target = t.target => s.addresses = t.addresses

VARIABLES
  sent,      \* the answers on their way: [of, has, packet, count]
  heard,     \* those that were received
  listening, \* before the deadline
  endpoints  \* [device, address, port]

mdnsVars == <<sent, heard, listening, endpoints>>

ServiceType == <<"kmsync", "local">>

Label(l) == [kind |-> "label", text |-> l]
End == [kind |-> "end"]
Pointer(to) == [kind |-> "pointer", to |-> to]
Fixed(type, length) == [kind |-> "fixed", type |-> type, length |-> length]
Datum(d) == [kind |-> "datum", value |-> d]
Cut == [kind |-> "cut"]

PacketCell(packet, offset) == packet[offset + 1]
Within(packet, offset) == offset < Len(packet)

-----------------------------------------------------------------------------
(* read_dns_name: the labels and the offset after the name.                *)
NoName == [ok |-> FALSE]
Name(labels, after) == [ok |-> TRUE, name |-> labels, after |-> after]

Offsets(packet) == 0..(Len(packet) - 1)

(* The first cell from an offset on that is not a label.                   *)
LabelsEnd(packet, offset) ==
  {e \in Offsets(packet) : /\ e >= offset /\ PacketCell(packet, e).kind # "label"
                           /\ \A o \in offset..(e - 1) : PacketCell(packet, o).kind = "label"}

(* Mutant: the offset is left behind what was pointed to.                  *)
MutantCellAfter(end, rest) == rest.after

(* The first pointer ends the name.                                        *)
CellAfter(end, rest) == end + 1

(* The names at all offsets, given what is read behind a pointer.          *)
NamesBy(packet, pointed) ==
  [offset \in Offsets(packet) |->
     LET end == CHOOSE e \in LabelsEnd(packet, offset) : TRUE
         labels == [i \in 1..(end - offset) |-> PacketCell(packet, offset + i - 1).text]
         cell == PacketCell(packet, end)
     IN  IF LabelsEnd(packet, offset) = {} THEN NoName
         ELSE IF cell.kind = "end" THEN Name(labels, end + 1)
         ELSE IF cell.kind # "pointer" \/ cell.to \notin Offsets(packet) THEN NoName
         ELSE LET rest == pointed[cell.to] IN
              IF rest.ok THEN Name(labels \o rest.name, CellAfter(end, rest)) ELSE NoName]

(* The names in which fewer than n pointers are followed: the jump is      *)
(* refused when more than MaxJumps were made before.                       *)
NamesIn(packet) ==
  LET within[n \in 0..(MaxJumps + 2)] ==
        IF n = 0 THEN [offset \in Offsets(packet) |-> NoName]
        ELSE NamesBy(packet, within[n - 1])
  IN  within

ReadName(packet, offset) ==
  IF Within(packet, offset) THEN NamesIn(packet)[MaxJumps + 2][offset] ELSE NoName

(* DnsRecord::parse: the fixed part and all of the data must be there.     *)
Record(name, type, start, length) ==
  [name |-> name, type |-> type, start |-> start, length |-> length]

ParseRecord(packet, offset) ==
  LET read == ReadName(packet, offset)
      start == read.after + 1
      fixed == PacketCell(packet, read.after)
      whole == /\ read.ok
               /\ Within(packet, read.after)
               /\ fixed.kind = "fixed"
               /\ start + fixed.length <= Len(packet)
  IN  IF whole THEN <<Record(read.name, fixed.type, start, fixed.length)>> ELSE <<>>

(* The records up to the first that cannot be parsed, at most count: what  *)
(* cannot be parsed is tried again and again.                              *)
ParseNext(packet, parsed) ==
  LET next == ParseRecord(packet, parsed.at)
  IN  IF next = <<>> THEN parsed
      ELSE [records |-> parsed.records \o next, at |-> next[1].start + next[1].length]

ParseRecords(packet, count) ==
  LET parsed[n \in 0..count] ==
        IF n = 0 THEN [records |-> <<>>, at |-> 0] ELSE ParseNext(packet, parsed[n - 1])
  IN  parsed[count].records

(* service_instance_device_id: the instance without the type of service.   *)
InstanceDevice(instance) ==
  IF IsStrictSuffix(ServiceType, instance) THEN SubSeq(instance, 1, Len(instance) - 2)
  ELSE instance

(* parse_mdns_lan_endpoints: pointers to instances of the service, where   *)
(* an instance is, who it is, and the addresses of hosts.  Of two records  *)
(* of an instance the later one counts.                                    *)
RecordsOf(records, type, name) ==
  {i \in DOMAIN records : records[i].type = type /\ records[i].name = name}
Latest(S) == CHOOSE i \in S : \A j \in S : j <= i

RecordDatum(packet, record, n) == PacketCell(packet, record.start + n)

InstancesIn(packet, records) ==
  {ReadName(packet, records[i].start).name :
     i \in {n \in RecordsOf(records, "PTR", ServiceType) : ReadName(packet, records[n].start).ok}}

LocatedIn(packet, records, instance) ==
  {i \in RecordsOf(records, "SRV", instance) :
     /\ records[i].length >= 2
     /\ RecordDatum(packet, records[i], 0).kind = "datum"
     /\ ReadName(packet, records[i].start + 1).ok}

(* read_txt_device_id: the first entry that gives the identity; devices    *)
(* are named by sequences of labels.                                       *)
GivenIn(packet, records, type, name) ==
  {i \in RecordsOf(records, type, name) :
     records[i].length = 1 /\ RecordDatum(packet, records[i], 0).kind = "datum"}

DeviceIn(packet, records, instance) ==
  LET texts == GivenIn(packet, records, "TXT", instance)
  IN  IF texts = {} THEN InstanceDevice(instance)
      ELSE <<RecordDatum(packet, records[Latest(texts)], 0).value>>

EndpointsIn(packet, records, instance) ==
  LET located == records[Latest(LocatedIn(packet, records, instance))]
      host == ReadName(packet, located.start + 1).name
      device == DeviceIn(packet, records, instance)
  IN  IF LocatedIn(packet, records, instance) = {} \/ device = <<>> THEN {}
      ELSE {[device |-> device, address |-> RecordDatum(packet, records[i], 0).value,
             port |-> RecordDatum(packet, located, 0).value] :
              i \in GivenIn(packet, records, "A", host)}

ParsedPacket(packet, count) ==
  LET records == ParseRecords(packet, count)
  IN  UNION {EndpointsIn(packet, records, instance) : instance \in InstancesIn(packet, records)}

-----------------------------------------------------------------------------
(* The answers of a responder: the records of a service, names compressed  *)
(* to pointers where they, or all but their first label, were written      *)
(* before.                                                                 *)
InstanceName(s) == <<s.instance>> \o ServiceType

Resource(name, type, data, of) == [name |-> name, type |-> type, data |-> data, of |-> of]

PointerRecord(s) == Resource(ServiceType, "PTR", <<>>, InstanceName(s))
PlaceRecord(s) == Resource(InstanceName(s), "SRV", <<s.port>>, s.target)
IdentityRecord(s) == Resource(InstanceName(s), "TXT", <<s.id>>, <<>>)
AddressRecord(s, a) == Resource(s.target, "A", <<a>>, <<>>)

OtherRecords(s) ==
  <<PlaceRecord(s), IdentityRecord(s)>> \o SetToSeq({AddressRecord(s, a) : a \in s.addresses})

(* The first cell of a name, or of the rest of one, in a packet.           *)
WrittenName(packet, name) ==
  {o \in Offsets(packet) : /\ PacketCell(packet, o).kind = "label"
                           /\ ReadName(packet, o).ok /\ ReadName(packet, o).name = name}
PointerTo(packet, name) == Pointer(CHOOSE o \in WrittenName(packet, name) : TRUE)

EncodedName(packet, name) ==
  IF WrittenName(packet, name) # {} THEN <<PointerTo(packet, name)>>
  ELSE IF WrittenName(packet, Tail(name)) # {}
    THEN <<Label(Head(name)), PointerTo(packet, Tail(name))>>
  ELSE [i \in DOMAIN name |-> Label(name[i])] \o <<End>>

EncodedRecord(packet, r) ==
  LET named == packet \o EncodedName(packet, r.name)
      data == [i \in DOMAIN r.data |-> Datum(r.data[i])]
      target == IF r.of = <<>> THEN <<>> ELSE EncodedName(named, r.of)
  IN  ((named \o <<Fixed(r.type, Len(data) + Len(target))>>) \o data) \o target

Encoded(records) ==
  LET written[n \in 0..Len(records)] ==
        IF n = 0 THEN <<>> ELSE EncodedRecord(written[n - 1], records[n])
  IN  written[Len(records)]

Damaged(packet, fault) ==
  IF ~Within(packet, fault.at) THEN packet
  ELSE IF fault.cell = Cut THEN SubSeq(packet, 1, fault.at)
  ELSE [packet EXCEPT ![fault.at + 1] = fault.cell]

Answer(of, has, records) ==
  [of |-> of, has |-> has, packet |-> Encoded(records), count |-> Len(records)]

AllRecords(s) == <<PointerRecord(s)>> \o OtherRecords(s)

(* One packet for all services, one for each, or two for each: the pointer *)
(* to the instance and the rest.                                           *)
Answers ==
  {{Answer(Services, {"which", "where"}, FlattenSeq([i \in 1..Cardinality(Services) |->
                                                 AllRecords(SetToSeq(Services)[i])]))},
   {Answer({s}, {"which", "where"}, AllRecords(s)) : s \in Services},
   {Answer({s}, {"which"}, <<PointerRecord(s)>>) : s \in Services} \cup
     {Answer({s}, {"where"}, OtherRecords(s)) : s \in Services}}

-----------------------------------------------------------------------------
Answered(packets) ==
  sent = packets /\ heard = {} /\ listening = TRUE /\ endpoints = {}

MdnsInit == \E packets \in Answers : Answered(packets)

(* recv_from within the time that remains: every packet is parsed by       *)
(* itself, and what was found twice is listed once.                        *)
ReceiveAnswer(a) ==
  /\ listening
  /\ heard' = heard \cup {a}
  /\ endpoints' = endpoints \cup ParsedPacket(a.packet, a.count)
  /\ UNCHANGED <<sent, listening>>

(* A responder's error in one packet, or one packet that is longer than    *)
(* the buffer of 1500 bytes.                                               *)
Damage(a, fault) ==
  /\ listening /\ heard = {}
  /\ \A b \in sent : b.has # {}
  /\ sent' = (sent \ {a}) \cup
              {[a EXCEPT !.packet = Damaged(@, fault), !.of = {}, !.has = {}]}
  /\ UNCHANGED <<heard, listening, endpoints>>

Deadline ==
  /\ listening
  /\ listening' = FALSE
  /\ UNCHANGED <<sent, heard, endpoints>>

MdnsNext ==
  \/ Deadline
  \/ \E a \in sent : ReceiveAnswer(a) \/ \E fault \in Faults : Damage(a, fault)

MdnsSpec == MdnsInit /\ [][MdnsNext]_mdnsVars

-----------------------------------------------------------------------------
Advertised(S) ==
  UNION {{[device |-> <<s.id>>, address |-> a, port |-> s.port] : a \in s.addresses} : s \in S}

(* Every service that was heard of in one packet is found at all of its    *)
(* addresses, however the names were compressed; and nothing else is, as   *)
(* long as all packets were in order.                                      *)
WholeIsUnderstood ==
  LET whole == {a \in heard : a.has = {"which", "where"}}
  IN  /\ Advertised(UNION {a.of : a \in whole}) \subseteq endpoints
      /\ (\A a \in heard : a.has # {}) => endpoints \subseteq Advertised(Services)

(* A service whose records were all heard, in one packet or several, is    *)
(* found.  It is not when they came in two packets: each is parsed by      *)
(* itself.                                                                 *)
HeardIsFound ==
  \A s \in Services :
    {"which", "where"} \subseteq UNION {a.has : a \in {h \in heard : s \in h.of}}
      => Advertised({s}) \subseteq endpoints
=============================================================================
