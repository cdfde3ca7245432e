------------------------------ MODULE Clipboard ------------------------------
(***************************************************************************)
(* Clipboard synchronisation.  On a device, the watch process reads the    *)
(* clipboard when it has changed and sends it to its target; the clipboard *)
(* thread of the core service applies what arrives.  The two are separate  *)
(* processes, each with a ClipboardSyncState of its own, and meet only in  *)
(* the clipboard.                                                          *)
(***************************************************************************)
EXTENDS Naturals, Sequences

CONSTANTS
    Devices,
    Links,          \* sets of pairs: who may watch for whom
    Texts,          \* contents
    Large,          \* contents above the size limit
    QueueSize,      \* frames waiting for the clipboard thread
    MaxCopies,      \* bound: times users copy something
    MaxSends,       \* bound: frames of a watch process
    MaxFaults,      \* bound: failures and restarts
    Nothing

ASSUME ClipboardAssumption ==
    /\ \A links \in Links : links \subseteq Devices \X Devices
    /\ Large \subseteq Texts
    /\ QueueSize \in Nat \ {0}
    /\ MaxCopies \in Nat /\ MaxSends \in Nat /\ MaxFaults \in Nat
    /\ Nothing \notin Texts

VARIABLES
    links,          \* who watches for whom, in this behaviour
    counters,       \* devices whose clipboard reports changes instead of being polled
    clip,           \* device -> [text, copy, at]: the content, and for the properties the
                    \* number of the copy it stems from and the device it was copied on
    watch,          \* device -> the watch process: pc, last, changed, seen, version, start,
                    \* and whether its connection reaches the service it was made to
    wire,           \* device -> frames its watch process sent and nobody received
    queue,          \* device -> frames waiting for its clipboard thread
    service,        \* device -> "up" or "down"
    applied,        \* device -> last_applied_remote of its clipboard thread
    copies, faults,
    skipped,        \* history: devices whose last content the policy held back
    lost            \* history: devices of whose frames the last was lost

clipboardVars == <<links, counters, clip, watch, wire, queue, service, applied, copies,
                   faults, skipped, lost>>
faultVars == <<links, counters, faults>>

Watchers == {l[1] : l \in links}
Target(d) == CHOOSE e \in Devices : <<d, e>> \in links

Watching(content, start) == [pc |-> "waiting", last |-> content, changed |-> FALSE,
                          seen |-> Nothing, version |-> 1, start |-> start,
                             linked |-> TRUE]

ClipboardInit ==
    /\ links \in Links
    /\ counters \in {{}, Devices}
    /\ clip = [d \in Devices |-> [text |-> Nothing, copy |-> 0, at |-> d]]
    /\ watch = [d \in Devices |-> Watching(clip[d], 1)]
    /\ wire = [d \in Devices |-> <<>>]
    /\ queue = [d \in Devices |-> <<>>]
    /\ service = [d \in Devices |-> "up"]
    /\ applied = [d \in Devices |-> Nothing]
    /\ copies = 0 /\ faults = 0 /\ skipped = {} /\ lost = {}

\* The clipboard of d is set, by whomever; the watch process may be told.
SetClip(d, content) ==
    /\ clip' = [clip EXCEPT ![d] = content]
    /\ watch' = [watch EXCEPT ![d].changed = TRUE]

Copy(d, text) ==
    /\ copies < MaxCopies /\ copies' = copies + 1
    /\ SetClip(d, [text |-> text, copy |-> copies', at |-> d])
    /\ UNCHANGED <<faultVars, wire, queue, service, applied, skipped, lost>>

-----------------------------------------------------------------------------
(* The watch process.                                                      *)

\* wait_for_clipboard_change: with a change counter only what changed since the wait began
\* is looked at; with polling the content always is.
Notice(d) ==
    /\ d \in Watchers /\ watch[d].pc = "waiting"
    /\ d \in counters => watch[d].changed
    /\ IF clip[d].text = watch[d].last.text
       THEN /\ watch[d].changed
            /\ watch' = [watch EXCEPT ![d].changed = FALSE]
       ELSE watch' = [watch EXCEPT ![d].pc = "handling", ![d].seen = clip[d]]
    /\ UNCHANGED <<faultVars, clip, wire, queue, service, applied, copies, skipped, lost>>

\* The content is dealt with and the next wait begins.
Handled(d) == [watch EXCEPT ![d].pc = "waiting", ![d].last = watch[d].seen,
                            ![d].changed = FALSE, ![d].seen = Nothing]

\* The policy blocks content that is too large, or any while a blacklisted application is
\* active, which is looked up only now.
Skip(d, sensitive) ==
    /\ watch[d].pc = "handling"
    /\ sensitive \/ watch[d].seen.text \in Large
    /\ watch' = Handled(d)
    /\ skipped' = skipped \cup {d}
    /\ UNCHANGED <<faultVars, clip, wire, queue, service, applied, copies, lost>>

\* next_local_content.  last_applied_remote of this process is never set, so
\* should_send_local_content always agrees.
Frame(d) == [source |-> <<d, watch[d].start>>, version |-> watch[d].version,
             content |-> watch[d].seen]

\* The connection is made once: when its service has ended, the frame gets nowhere, whether
\* the sender is told or not.
SendChange(d) ==
    /\ watch[d].pc = "handling" /\ watch[d].seen.text \notin Large
    /\ watch[d].version <= MaxSends
    /\ watch' = [Handled(d) EXCEPT ![d].version = @ + 1]
    /\ wire' = IF watch[d].linked THEN [wire EXCEPT ![d] = Append(@, Frame(d))] ELSE wire
    /\ lost' = IF watch[d].linked THEN lost \ {d} ELSE lost \cup {d}
    /\ skipped' = skipped \ {d}
    /\ UNCHANGED <<faultVars, clip, queue, service, applied, copies>>

\* Reading the clipboard fails, or sending does because the connection is gone: the process
\* ends.
WatchFails(d) ==
    /\ d \in Watchers /\ watch[d].pc # "ended"
    /\ IF watch[d].pc = "handling" /\ ~watch[d].linked THEN UNCHANGED faults
       ELSE faults < MaxFaults /\ faults' = faults + 1
    /\ watch' = [watch EXCEPT ![d].pc = "ended"]
    /\ UNCHANGED <<links, counters, clip, wire, queue, service, applied, copies, skipped,
                   lost>>

\* The user starts it again, which connects: the present content counts as known.
WatchStarts(d) ==
    /\ watch[d].pc = "ended" /\ service[Target(d)] = "up"
    /\ watch' = [watch EXCEPT ![d] = Watching(clip[d], @.start + 1)]
    /\ lost' = IF clip[d] = watch[d].last THEN lost ELSE lost \cup {d}
    /\ UNCHANGED <<faultVars, clip, wire, queue, service, applied, copies, skipped>>

-----------------------------------------------------------------------------
(* The core service.                                                       *)

\* queue_received_clipboard_frame: a full queue drops the frame.
ReceiveClip(d) ==
    /\ wire[d] # <<>> /\ service[Target(d)] = "up"
    /\ wire' = [wire EXCEPT ![d] = Tail(@)]
    /\ LET room == Len(queue[Target(d)]) < QueueSize
       IN  /\ queue' = IF room THEN [queue EXCEPT ![Target(d)] = Append(@, Head(wire[d]))]
                       ELSE queue
           /\ lost' = IF room \/ Len(wire[d]) > 1 THEN lost ELSE lost \cup {d}
    /\ UNCHANGED <<faultVars, clip, watch, service, applied, copies, skipped>>

MutantSignature(frame) == frame.content.text
Signature(frame) == <<frame.source, frame.version, frame.content.text>>

\* should_apply_remote; the source of a watch process is never that of a service.
New(e, frame) == applied[e] # Signature(frame)

Apply(e) ==
    /\ queue[e] # <<>>
    /\ queue' = [queue EXCEPT ![e] = Tail(@)]
    /\ LET frame == Head(queue[e])
       IN  IF New(e, frame)
           THEN SetClip(e, frame.content) /\ applied' = [applied EXCEPT ![e] = Signature(frame)]
           ELSE UNCHANGED <<clip, watch, applied>>
    /\ UNCHANGED <<faultVars, wire, service, copies, skipped, lost>>

Affected(e) == {d \in Watchers : Target(d) = e /\
                  (wire[d] # <<>> \/ \E i \in DOMAIN queue[e] : queue[e][i].source[1] = d)}

\* The clipboard cannot be set, or another part of the service fails: the process ends.
ServiceEnds(e) ==
    /\ service[e] = "up"
    /\ faults < MaxFaults /\ faults' = faults + 1
    /\ service' = [service EXCEPT ![e] = "down"]
    /\ queue' = [queue EXCEPT ![e] = <<>>]
    /\ wire' = [d \in Devices |-> IF d \in Affected(e) THEN <<>> ELSE wire[d]]
    /\ lost' = lost \cup Affected(e)
    /\ watch' = [d \in Devices |->
                   [watch[d] EXCEPT !.linked = @ /\ ~(d \in Watchers /\ Target(d) = e)]]
    /\ UNCHANGED <<links, counters, clip, applied, copies, skipped>>

ServiceStarts(e) ==
    /\ service[e] = "down"
    /\ service' = [service EXCEPT ![e] = "up"]
    /\ applied' = [applied EXCEPT ![e] = Nothing]
    /\ UNCHANGED <<faultVars, clip, watch, wire, queue, copies, skipped, lost>>

ClipboardNext ==
    \E d \in Devices :
        \/ \E text \in Texts : Copy(d, text)
        \/ Notice(d) \/ SendChange(d) \/ WatchFails(d) \/ WatchStarts(d)
        \/ \E sensitive \in BOOLEAN : Skip(d, sensitive)
        \/ ReceiveClip(d) \/ Apply(d) \/ ServiceEnds(d) \/ ServiceStarts(d)

\* The processes run: what is there is read, sent, received and applied.
ClipboardFairness ==
    \A d \in Devices :
        /\ WF_clipboardVars(Notice(d))
        /\ WF_clipboardVars(SendChange(d) \/ Skip(d, FALSE))
        /\ WF_clipboardVars(ReceiveClip(d))
        /\ WF_clipboardVars(Apply(d))

ClipboardSpec == ClipboardInit /\ [][ClipboardNext]_clipboardVars /\ ClipboardFairness

-----------------------------------------------------------------------------
(* Properties.                                                             *)

\* A change made while the watch process handles the one before is counted when it starts
\* to wait again, and not noticed.
Missed(d) == d \in counters /\ watch[d].pc = "waiting" /\ ~watch[d].changed

\* The copy the watch process has seen; copying the same content again is no change.
LastCopy(d) ==
    IF clip[d].text = watch[d].last.text THEN watch[d].last.copy ELSE clip[d].copy

\* With one of two devices watching, what its user copied last gets to the other, where
\* only a later copy by the user replaces it; unless it was held back, missed or lost, or a
\* process has ended.
CopiesArrive ==
    <>[](\A d \in Watchers : links = {<<d, Target(d)>>} =>
            LET e == Target(d)
            IN  \/ clip[e].text = clip[d].text
                \/ clip[e].at = e /\ clip[e].copy > LastCopy(d)
                \/ d \in skipped \cup lost \/ Missed(d)
                \/ watch[d].pc = "ended" \/ service[e] = "down")

\* What a user copied on a device is not replaced there by something copied there earlier,
\* which comes back from the other device.
NoEcho ==
    [][\A d \in Devices :
          clip[d].at = d /\ clip'[d].at = d /\ clip'[d].text # clip[d].text =>
            clip'[d].copy > clip[d].copy]_clipboardVars
=============================================================================
