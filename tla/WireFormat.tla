----------------------------- MODULE WireFormat -----------------------------
(***************************************************************************)
(* The frames devices exchange: kmsync-core/src/protocol.rs, and the       *)
(* frames of a file transfer (crates/kmsync/src/main.rs).                  *)
(*                                                                         *)
(* A wire is a sequence of cells [w, v]: a value v that takes w bytes.     *)
(* Bytes of texts and data are cells of one byte.  What a decoder reads at *)
(* an offset is the cell that lies exactly there, and Garbled otherwise,   *)
(* so that its offsets are compared with what the encoder wrote.  Numbers  *)
(* are small, hashes are left symbolic, the text encoding is taken to be   *)
(* valid, and what the codes stand for is kept instead of the codes.       *)
(***************************************************************************)
EXTENDS Integers, Sequences, SequencesExt, FiniteSets

CONSTANTS
  Max16,     \* largest number of two bytes (65535)
  Frames,    \* frames tried
  Files,     \* files tried: sequences of bytes
  ChunkSizes,\* sizes of a chunk tried
  Sizes      \* sizes of a buffer tried

Garbled == "garbled"
Failed(error) == [error |-> error]

Cell(w, v) == [w |-> w, v |-> v]
Bytes(s) == [i \in DOMAIN s |-> Cell(1, s[i])]

(* The i-th cell takes the bytes Ends(ws)[i - 1]..Ends(ws)[i] - 1.         *)
Ends(ws) ==
  LET end[i \in 0..Len(ws)] == IF i = 0 THEN 0 ELSE end[i - 1] + ws[i].w IN end

Width(ws) == Ends(ws)[Len(ws)]

(* The cells that lie within the bytes from..to - 1.                       *)
Between(ws, from, to) ==
  LET end == Ends(ws)
      inside == {i \in DOMAIN ws : end[i - 1] >= from /\ end[i] <= to}
  IN  IF inside = {} THEN <<>>
      ELSE SubSeq(ws, CHOOSE i \in inside : \A j \in inside : i <= j,
                      CHOOSE i \in inside : \A j \in inside : i >= j)

From(ws, from) == Between(ws, from, Width(ws))

ReadAt(ws, from, w) ==
  LET c == Between(ws, from, from + w)
  IN  IF Len(c) = 1 /\ c[1].w = w THEN c[1].v ELSE Garbled

TextAt(ws, from, to) ==
  LET c == Between(ws, from, to)
  IN  IF \A i \in DOMAIN c : c[i].w = 1 THEN [i \in DOMAIN c |-> c[i].v] ELSE <<Garbled>>

-----------------------------------------------------------------------------
(* Texts and names. *)

(* sanitize_clipboard_file_name: spaces around the name and what is before *)
(* its last separator go.                                                  *)
Trim(s) ==
  LET kept == {i \in DOMAIN s : s[i] # " "}
  IN  IF kept = {} THEN <<>>
      ELSE SubSeq(s, CHOOSE i \in kept : \A j \in kept : i <= j,
                     CHOOSE i \in kept : \A j \in kept : i >= j)

Sanitized(name) ==
  LET s == Trim(name)
      cuts == {0} \cup {i \in DOMAIN s : s[i] \in {"/", "\\"}}
      base == SubSeq(s, (CHOOSE i \in cuts : \A j \in cuts : i >= j) + 1, Len(s))
  IN  IF base = <<>> THEN <<"unnamed">> ELSE base

FileMetadata(name, size, hash) == [name |-> Sanitized(name), size |-> size, hash |-> hash]

(* Clipboard contents.  An option is a sequence of at most one element.    *)
Clip(source, version, format, text, html, image) ==
  [kind |-> "clipboard", source |-> source, version |-> version, format |-> format,
   text |-> text, html |-> html, image |-> image]

PlainClip(source, version, text) == Clip(source, version, "plain", text, <<>>, <<>>)
UrlClip(source, version, text) == Clip(source, version, "url", text, <<>>, <<>>)
HtmlClip(source, version, html, text) == Clip(source, version, "html", text, <<html>>, <<>>)
ImageClip(source, version, width, height, rgba) ==
  Clip(source, version, "image", <<>>, <<>>,
       <<[width |-> width, height |-> height, rgba |-> rgba]>>)

UsesContentFrame(p) == p.format # "plain" \/ p.html # <<>> \/ p.image # <<>>

HtmlOf(p) == IF p.html = <<>> THEN <<>> ELSE p.html[1]

-----------------------------------------------------------------------------
(* What may be sent. *)

IsText(s) == s \in Seq(ToSet(s))

IsEvent(e) ==
  \/ e.kind = "key" /\ e = [kind |-> "key", key |-> e.key, state |-> e.state,
                             modifiers |-> e.modifiers]
  \/ e.kind \in {"move", "position", "scroll"} /\ e = [kind |-> e.kind, x |-> e.x, y |-> e.y]
  \/ e.kind = "button" /\ e = [kind |-> "button", button |-> e.button, state |-> e.state]

IsInput(p) ==
  /\ p = [kind |-> "input", source |-> p.source, target |-> p.target, version |-> p.version,
          channel |-> p.channel, event |-> p.event]
  /\ IsEvent(p.event)

(* An image has four bytes a pixel.                                        *)
IsClip(p) ==
  \/ p = PlainClip(p.source, p.version, p.text) /\ IsText(p.text)
  \/ p = UrlClip(p.source, p.version, p.text) /\ IsText(p.text)
  \/ /\ p.format = "html" /\ p = HtmlClip(p.source, p.version, p.html[1], p.text)
     /\ IsText(p.text) /\ IsText(p.html[1])
  \/ /\ p.format = "image"
     /\ LET i == p.image[1]
        IN  /\ p = ImageClip(p.source, p.version, i.width, i.height, i.rgba)
            /\ i.width \in Nat \ {0} /\ i.height \in Nat \ {0}
            /\ IsText(i.rgba) /\ Len(i.rgba) = 4 * (i.width * i.height)

(* A file is named as its name is read: what path.file_name() gave.        *)
IsFile(m) ==
  /\ m = [name |-> m.name, size |-> m.size, hash |-> m.hash]
  /\ IsText(m.name) /\ Sanitized(m.name) = m.name

IsFiles(p) ==
  /\ p = [kind |-> "files", source |-> p.source, version |-> p.version, files |-> p.files]
  /\ IsText(p.files) /\ \A i \in DOMAIN p.files : IsFile(p.files[i])

IsChunk(p) ==
  /\ p = [kind |-> "chunk", transfer |-> p.transfer, source |-> p.source, file |-> p.file,
          offset |-> p.offset, total |-> p.total, index |-> p.index, final |-> p.final,
          data |-> p.data]
  /\ IsText(p.data)

IsControl(p) ==
  \/ p.message = "heartbeat" /\ p = [kind |-> "control", message |-> "heartbeat",
       source |-> p.source, session |-> p.session, sequence |-> p.sequence]
  \/ p.message = "capabilities" /\ p = [kind |-> "control", message |-> "capabilities",
       source |-> p.source, min |-> p.min, max |-> p.max, channels |-> p.channels]
  \/ p.message = "config_version" /\ p = [kind |-> "control", message |-> "config_version",
       source |-> p.source, version |-> p.version]
  \/ p.message = "session_state" /\ p = [kind |-> "control", message |-> "session_state",
       source |-> p.source, session |-> p.session, state |-> p.state]

IsPayload(p) ==
  \/ p.kind = "input" /\ IsInput(p)
  \/ p.kind = "clipboard" /\ IsClip(p)
  \/ p.kind = "files" /\ IsFiles(p)
  \/ p.kind = "chunk" /\ IsChunk(p)
  \/ p.kind = "control" /\ IsControl(p)

IsFrame(f) ==
  /\ f = [sequence |-> f.sequence, time |-> f.time, payload |-> f.payload]
  /\ IsPayload(f.payload)

ASSUME WireAssumption ==
  /\ Max16 \in Nat /\ ChunkSizes \subseteq Nat \ {0} /\ Sizes \subseteq Nat
  /\ \A f \in Frames : IsFrame(f)
  /\ \A data \in Files : IsText(data)

-----------------------------------------------------------------------------
(* Encoding. *)

EncodedEvent(e) ==
  CASE e.kind = "key" -> <<Cell(1, "key"), Cell(2, e.key), Cell(1, e.state),
                           Cell(1, e.modifiers)>>
    [] e.kind \in {"move", "position", "scroll"} ->
         <<Cell(1, e.kind), Cell(4, e.x), Cell(4, e.y)>>
    [] e.kind = "button" -> <<Cell(1, "button"), Cell(1, e.button), Cell(1, e.state)>>

(* ProtocolEvent::encode, the frame of the first version.                  *)
EncodedLegacy(f) ==
  <<Cell(4, "SYN1"), Cell(8, f.sequence), Cell(8, f.time)>> \o EncodedEvent(f.payload.event)

Fits(n) == n <= Max16

(* A length the vector encoder cannot write is written as 0.               *)
Length16(n) == Cell(2, IF Fits(n) THEN n ELSE 0)

EncodedInput(p) ==
  <<Cell(16, p.source), Cell(16, p.target), Cell(2, p.version), Cell(1, p.channel)>>
  \o EncodedEvent(p.event)

EncodedText(p) ==
  <<Cell(16, p.source), Cell(8, p.version), Cell(8, "hash")>> \o Bytes(p.text)

(* Mutant: the rich text goes first. *)
MutantContentTexts(p) == Bytes(HtmlOf(p)) \o Bytes(p.text)

ContentTexts(p) == Bytes(p.text) \o Bytes(HtmlOf(p))

(* The two lengths of a content frame are the size of an image.            *)
EncodedContent(p) ==
  LET image == p.format = "image"
  IN  <<Cell(16, p.source), Cell(8, p.version), Cell(8, "hash"), Cell(1, p.format),
        Cell(4, IF image THEN p.image[1].width ELSE Len(p.text)),
        Cell(4, IF image THEN p.image[1].height ELSE Len(HtmlOf(p)))>>
      \o (ContentTexts(p) \o (IF image THEN Bytes(p.image[1].rgba) ELSE <<>>))

EncodedFile(m) ==
  <<Cell(8, m.size), Cell(8, m.hash), Length16(Len(m.name))>> \o Bytes(m.name)

(* The entries of the first n files.                                       *)
EncodedUpTo(files) ==
  LET upTo[n \in 0..Len(files)] ==
        IF n = 0 THEN <<>> ELSE upTo[n - 1] \o EncodedFile(files[n])
  IN  upTo

EncodedFiles(p) ==
  <<Cell(16, p.source), Cell(8, p.version), Cell(8, "hash"), Length16(Len(p.files))>>
  \o EncodedUpTo(p.files)[Len(p.files)]

EncodedChunk(p) ==
  <<Cell(16, p.transfer), Cell(16, p.source), Cell(4, p.file), Cell(8, p.offset),
    Cell(8, p.total), Cell(4, p.index), Cell(1, p.final)>> \o Bytes(p.data)

ControlBody(p) ==
  CASE p.message = "heartbeat" -> <<Cell(16, p.session), Cell(8, p.sequence)>>
    [] p.message = "capabilities" -> <<Cell(2, p.min), Cell(2, p.max), Cell(1, p.channels)>>
    [] p.message = "config_version" -> <<Cell(8, p.version)>>
    [] p.message = "session_state" -> <<Cell(16, p.session), Cell(1, p.state)>>

EncodedControl(p) == <<Cell(1, p.message), Cell(16, p.source)>> \o ControlBody(p)

PayloadType(p) ==
  CASE p.kind = "input" -> "input"
    [] p.kind = "clipboard" -> IF UsesContentFrame(p) THEN "content" ELSE "text"
    [] OTHER -> p.kind

EncodedPayload(p) ==
  CASE PayloadType(p) = "input" -> EncodedInput(p)
    [] PayloadType(p) = "text" -> EncodedText(p)
    [] PayloadType(p) = "content" -> EncodedContent(p)
    [] PayloadType(p) = "files" -> EncodedFiles(p)
    [] PayloadType(p) = "chunk" -> EncodedChunk(p)
    [] PayloadType(p) = "control" -> EncodedControl(p)

(* encode_vec *)
EncodedVec(f) ==
  LET payload == EncodedPayload(f.payload)
  IN  <<Cell(4, "SYN2"), Cell(8, f.sequence), Cell(8, f.time),
        Cell(1, PayloadType(f.payload)), Cell(4, Width(payload))>> \o payload

LengthsFit(p) ==
  p.kind = "files" => Fits(Len(p.files)) /\ \A i \in DOMAIN p.files : Fits(Len(p.files[i].name))

(* encode_into writes the same for a buffer that is large enough, and      *)
(* nothing otherwise.                                                      *)
IntoWrites(f, size) == size >= Width(EncodedVec(f)) /\ LengthsFit(f.payload)

-----------------------------------------------------------------------------
(* Decoding.  A decoder is given the cells and tests lengths in bytes. *)

DecodedEvent(ws) ==
  LET kind == ReadAt(ws, 0, 1)
  IN  CASE Width(ws) = 0 -> Failed("too_short")
        [] kind = "key" ->
             IF Width(ws) < 5 THEN Failed("too_short")
             ELSE [kind |-> kind, key |-> ReadAt(ws, 1, 2), state |-> ReadAt(ws, 3, 1),
                   modifiers |-> ReadAt(ws, 4, 1)]
        [] kind \in {"move", "position", "scroll"} ->
             IF Width(ws) < 9 THEN Failed("too_short")
             ELSE [kind |-> kind, x |-> ReadAt(ws, 1, 4), y |-> ReadAt(ws, 5, 4)]
        [] kind = "button" ->
             IF Width(ws) < 3 THEN Failed("too_short")
             ELSE [kind |-> kind, button |-> ReadAt(ws, 1, 1), state |-> ReadAt(ws, 2, 1)]
        [] OTHER -> Failed("unknown_event_type")

IsFailed(x) == "error" \in DOMAIN x

ChannelFor(e) == IF e.kind = "move" THEN "unreliable" ELSE "reliable"

Envelope(source, target, version, channel, event) ==
  IF IsFailed(event) THEN event
  ELSE [kind |-> "input", source |-> source, target |-> target, version |-> version,
        channel |-> channel, event |-> event]

LegacyEnvelope(event) ==
  IF IsFailed(event) THEN event ELSE Envelope(0, 0, 0, ChannelFor(event), event)

Framed(ws, payload) ==
  IF IsFailed(payload) THEN payload
  ELSE [sequence |-> ReadAt(ws, 4, 8), time |-> ReadAt(ws, 12, 8), payload |-> payload]

(* ProtocolEvent::decode *)
DecodedLegacy(ws) ==
  IF Width(ws) < 21 THEN Failed("too_short")
  ELSE IF ReadAt(ws, 0, 4) # "SYN1" THEN Failed("bad_magic")
  ELSE Framed(ws, LegacyEnvelope(DecodedEvent(From(ws, 20))))

DecodedInput(ws) ==
  IF Width(ws) < 36 THEN Failed("too_short")
  ELSE Envelope(ReadAt(ws, 0, 16), ReadAt(ws, 16, 16), ReadAt(ws, 32, 2), ReadAt(ws, 34, 1),
                DecodedEvent(From(ws, 35)))

DecodedText(ws) ==
  IF Width(ws) < 32 THEN Failed("too_short")
  ELSE PlainClip(ReadAt(ws, 0, 16), ReadAt(ws, 16, 8), TextAt(ws, 32, Width(ws)))

(* clipboard_from_parts *)
FromParts(source, version, format, text, html) ==
  CASE format = "plain" -> PlainClip(source, version, text)
    [] format = "url" -> UrlClip(source, version, text)
    [] format = "html" -> HtmlClip(source, version, html, text)

DecodedContent(ws) ==
  IF Width(ws) < 41 THEN Failed("too_short")
  ELSE LET source == ReadAt(ws, 0, 16)
           version == ReadAt(ws, 16, 8)
           format == ReadAt(ws, 32, 1)
           first == ReadAt(ws, 33, 4)
           second == ReadAt(ws, 37, 4)
       IN  IF Width(ws) < 41 + first + second THEN Failed("too_short")
           ELSE IF format = "image"
           THEN ImageClip(source, version, first, second, TextAt(ws, 41, Width(ws)))
           ELSE FromParts(source, version, format, TextAt(ws, 41, 41 + first),
                          TextAt(ws, 41 + first, 41 + first + second))

(* One more entry is read behind those in acc.                             *)
WithNextFile(ws, acc) ==
  LET name == acc.at + 18
      end == name + ReadAt(ws, acc.at + 16, 2)
  IN  IF acc.short \/ Width(ws) < name \/ Width(ws) < end
      THEN [acc EXCEPT !.short = TRUE]
      ELSE [at |-> end, short |-> FALSE,
            files |-> Append(acc.files, FileMetadata(TextAt(ws, name, end), ReadAt(ws, acc.at, 8),
                                                     ReadAt(ws, acc.at + 8, 8)))]

NoFileYet == [at |-> 34, files |-> <<>>, short |-> FALSE]

(* What was read after n entries.                                          *)
DecodedUpTo(ws, count) ==
  LET upTo[n \in 0..count] == IF n = 0 THEN NoFileYet ELSE WithNextFile(ws, upTo[n - 1])
  IN  upTo

DecodedFiles(ws) ==
  IF Width(ws) < 34 THEN Failed("too_short")
  ELSE LET count == ReadAt(ws, 32, 2)
           all == DecodedUpTo(ws, count)[count]
       IN  IF all.short THEN Failed("too_short")
           ELSE [kind |-> "files", source |-> ReadAt(ws, 0, 16), version |-> ReadAt(ws, 16, 8),
                 files |-> all.files]

DecodedChunk(ws) ==
  IF Width(ws) < 57 THEN Failed("too_short")
  ELSE [kind |-> "chunk", transfer |-> ReadAt(ws, 0, 16), source |-> ReadAt(ws, 16, 16),
        file |-> ReadAt(ws, 32, 4), offset |-> ReadAt(ws, 36, 8), total |-> ReadAt(ws, 44, 8),
        index |-> ReadAt(ws, 52, 4), final |-> ReadAt(ws, 56, 1),
        data |-> TextAt(ws, 57, Width(ws))]

ControlLength(m) ==
  CASE m = "heartbeat" -> 41 [] m = "capabilities" -> 22
    [] m = "config_version" -> 25 [] m = "session_state" -> 34

DecodedControl(ws) ==
  LET m == ReadAt(ws, 0, 1)
      source == ReadAt(ws, 1, 16)
  IN  IF Width(ws) = 0 THEN Failed("too_short")
      ELSE IF Width(ws) < ControlLength(m) THEN Failed("too_short")
      ELSE CASE m = "heartbeat" ->
                  [kind |-> "control", message |-> m, source |-> source,
                   session |-> ReadAt(ws, 17, 16), sequence |-> ReadAt(ws, 33, 8)]
             [] m = "capabilities" ->
                  [kind |-> "control", message |-> m, source |-> source,
                   min |-> ReadAt(ws, 17, 2), max |-> ReadAt(ws, 19, 2),
                   channels |-> ReadAt(ws, 21, 1)]
             [] m = "config_version" ->
                  [kind |-> "control", message |-> m, source |-> source,
                   version |-> ReadAt(ws, 17, 8)]
             [] m = "session_state" ->
                  [kind |-> "control", message |-> m, source |-> source,
                   session |-> ReadAt(ws, 17, 16), state |-> ReadAt(ws, 33, 1)]

(* The two types no encoder writes any more come first.                    *)
DecodedPayload(type, ws) ==
  CASE type = "event" -> LET f == DecodedLegacy(ws) IN IF IsFailed(f) THEN f ELSE f.payload
    [] type = "old_text" -> PlainClip(0, 0, TextAt(ws, 0, Width(ws)))
    [] type = "input" -> DecodedInput(ws)
    [] type = "text" -> DecodedText(ws)
    [] type = "content" -> DecodedContent(ws)
    [] type = "files" -> DecodedFiles(ws)
    [] type = "chunk" -> DecodedChunk(ws)
    [] type = "control" -> DecodedControl(ws)
    [] OTHER -> Failed("unknown_event_type")

PayloadHasCome(ws) == Width(ws) >= 25 + ReadAt(ws, 21, 4)

(* ProtocolFrame::decode.  The length is tested for a frame of the first   *)
(* version too.                                                            *)
Decoded(ws) ==
  IF Width(ws) < 25 THEN Failed("too_short")
  ELSE IF ReadAt(ws, 0, 4) # "SYN2" THEN DecodedLegacy(ws)
  ELSE IF ~PayloadHasCome(ws) THEN Failed("too_short")
  ELSE Framed(ws, DecodedPayload(ReadAt(ws, 20, 1),
                                 Between(ws, 25, 25 + ReadAt(ws, 21, 4))))

-----------------------------------------------------------------------------
(* build_file_transfer_frames *)

Chunks(data, size) ==
  [i \in 1..((Len(data) + size - 1) \div size) |->
     SubSeq(data, (i - 1) * size + 1, IF i * size > Len(data) THEN Len(data) ELSE i * size)]

ChunkPayload(offset, total, index, final, data) ==
  [kind |-> "chunk", transfer |-> "transfer", source |-> "sender", file |-> 0,
   offset |-> offset, total |-> total, index |-> index, final |-> final, data |-> data]

IsLast(next, total) == next >= total

TransferFrames(name, data, size) ==
  LET chunks == Chunks(data, size)
      frame(n, p) == [sequence |-> n, time |-> n, payload |-> p]
      metadata == [kind |-> "files", source |-> "sender", version |-> 1,
                   files |-> <<FileMetadata(name, Len(data), "hash")>>]
      chunk(i) ==
        LET offset == (i - 1) * size
        IN  ChunkPayload(offset, Len(data), i - 1, IsLast(offset + Len(chunks[i]), Len(data)),
                         chunks[i])
  IN  <<frame(1, metadata)>> \o
      IF data = <<>> THEN <<frame(2, ChunkPayload(0, 0, 0, TRUE, <<>>))>>
      ELSE [i \in DOMAIN chunks |-> frame(i + 1, chunk(i))]

-----------------------------------------------------------------------------
(* A frame is encoded, travels and is decoded. *)

VARIABLES
  frame,  \* to send
  wire,   \* what is on the way
  fate,   \* history: it is "whole", "cut" or "followed" by something else
  got     \* what was decoded

wireVars == <<frame, wire, fate, got>>

SentFrames ==
  Frames \cup UNION {ToSet(TransferFrames(<<"f">>, d, s)) : d \in Files, s \in ChunkSizes}

Sending(f) == frame = f /\ wire = <<>> /\ fate = "whole" /\ got = <<>>

WireInit == \E f \in SentFrames : Sending(f)

Encode ==
  /\ wire = <<>>
  /\ \/ wire' = EncodedVec(frame)
     \/ frame.payload.kind = "input" /\ wire' = EncodedLegacy(frame)
     \/ /\ \E size \in Sizes : IntoWrites(frame, size)
        /\ wire' = EncodedVec(frame)
  /\ UNCHANGED <<frame, fate, got>>

(* The frame is cut or runs into what follows it.                          *)
Travel ==
  /\ wire # <<>> /\ got = <<>> /\ fate = "whole"
  /\ \/ /\ \E n \in 1..(Len(wire) - 1) : wire' = SubSeq(wire, 1, n)
        /\ fate' = "cut"
     \/ /\ wire' = wire \o <<Cell(1, "junk")>>
        /\ fate' = "followed"
  /\ UNCHANGED <<frame, got>>

Decode ==
  /\ wire # <<>> /\ got = <<>>
  /\ got' = <<Decoded(wire)>>
  /\ UNCHANGED <<frame, wire, fate>>

WireNext == Encode \/ Travel \/ Decode

WireSpec == WireInit /\ [][WireNext]_wireVars

-----------------------------------------------------------------------------
FromWire(f) == IF wire[1].v = "SYN2" THEN f
               ELSE [f EXCEPT !.payload = LegacyEnvelope(@.event)]

(* A frame that arrives whole is decoded as what was sent, whichever       *)
(* encoder wrote it and whatever follows it in the buffer.                 *)
RoundTrip ==
  got # <<>> /\ fate # "cut" /\ Width(wire) >= 25 /\ LengthsFit(frame.payload)
    => got[1] = FromWire(frame)

(* Of a frame that was cut nothing is decoded: half a frame is never taken *)
(* for another one.                                                        *)
CutIsRefused == got # <<>> /\ fate = "cut" => got[1] = Failed("too_short")

(* A frame is decoded as what was sent or refused.                         *)
FramesRoundTrip == RoundTrip /\ CutIsRefused

(* The chunks of a transfer are the file: in order, without gap or         *)
(* overlap, of one total size, the last one and no other marked final.     *)
ChunksAreTheFile ==
  \A data \in Files, size \in ChunkSizes :
    LET frames == TransferFrames(<<"f">>, data, size)
        chunk(i) == frames[i + 1].payload
        end(i) == chunk(i).offset + Len(chunk(i).data)
        n == Len(frames) - 1
    IN  /\ n >= 1 /\ chunk(1).offset = 0 /\ end(n) = Len(data)
        /\ \A i \in 1..(n - 1) : chunk(i + 1).offset = end(i)
        /\ \A i \in 1..n : /\ chunk(i).final <=> i = n
                           /\ chunk(i).total = Len(data)
                           /\ SubSeq(data, chunk(i).offset + 1, end(i)) = chunk(i).data
-----------------------------------------------------------------------------
(* Not kept: the two encoders agree on what cannot be written.             *)
EncodersAgree == wire # <<>> => LengthsFit(frame.payload)

(* Not kept: a frame of the first version is decoded.                      *)
LegacyIsDecoded == got # <<>> /\ fate # "cut" => ~IsFailed(got[1])
=============================================================================
