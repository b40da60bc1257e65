----------------------------- MODULE E2EEFraming -----------------------------
(***************************************************************************)
(* E2EECrypto of packages/core/src/encryption/e2ee.ts: a stream of chunks  *)
(* is cut into frames and sealed one frame behind the source; the envelope *)
(* is stored, and what a storage gives back of it is opened frame by frame.*)
(* A cipher is a tagged value: a tag vouches for the upload whose header   *)
(* it was made under, for a frame's number, for its being the last one and *)
(* for its bytes.  Magic, header tail, length and tag take one unit each.  *)
(***************************************************************************)
EXTENDS Integers, SequencesExt

CONSTANTS
  FrameSize,   \* plaintext units of a full frame
  MaxFrames,   \* 2^32 in the code
  Lengths,     \* lengths of the payloads under study
  ChunkSizes   \* of the chunks that the source and the storage hand over

ASSUME FrameAssumption == FrameSize \in Nat \ {0} /\ MaxFrames \in Nat \ {0}
ASSUME LengthsAssumption == Lengths \subseteq Nat
ASSUME ChunksAssumption == ChunkSizes \subseteq Nat \ {0}

VARIABLES
  length,    \* of the payload
  older,     \* the format of what the path held before
  taken,     \* how much of the payload the source has handed over
  chunk,     \* what is left of its last chunk
  frame,     \* the frame being filled
  pending,   \* the full frame that is held back: at most one
  index,     \* of the next frame to seal or to open
  envelope,  \* what encryptStream yielded
  input,     \* what the storage has still to deliver
  ended,     \* the reader has seen the end of it
  buffered,  \* what the reader holds
  current,   \* the frame that was read and is not opened yet
  output,    \* what decryptStream yielded
  pc,
  intact     \* history: the storage delivers the whole envelope as it was

writer == <<taken, chunk, frame, pending, envelope>>
reader == <<input, ended, buffered, current, output>>
vars == <<length, older, writer, index, reader, pc, intact>>

-----------------------------------------------------------------------------
(* The units of an envelope.                                               *)

Magic(version)     == [what |-> "magic", version |-> version]
Params(of)         == [what |-> "tail", of |-> of]
Size(n)            == [what |-> "size", n |-> n]
Tag(of, i, final, bytes) ==
  [what |-> "tag", of |-> of, index |-> i, final |-> final, bytes |-> bytes]
Cipher(of, i, b)   == [what |-> "cipher", of |-> of, index |-> i, byte |-> b]
Junk               == [what |-> "junk"]

Header(version, of) == <<Magic(version), Params(of)>>

Sealed(of, i, bytes) == [k \in 1..Len(bytes) |-> Cipher(of, i, bytes[k])]

\* Mutant: the last frame is not marked.
EncryptFrameUnmarkedMutant(of, i, final, bytes) ==
  <<Size(Len(bytes)), Tag(of, i, FALSE, bytes)>> \o Sealed(of, i, bytes)

EncryptFrame(of, i, final, bytes) ==
  <<Size(Len(bytes)), Tag(of, i, final, bytes)>> \o Sealed(of, i, bytes)

Plain == [i \in 1..length |-> i]
Old   == [i \in 1..(FrameSize + 1) |-> -i]

FrameCount(n) == IF n = 0 THEN 1 ELSE (n + FrameSize - 1) \div FrameSize

\* encryptedSize, which rejects what the frame counter has no room for.
EncryptedSizes(n) ==
  IF FrameCount(n) > MaxFrames THEN {} ELSE {2 + n + 2 * FrameCount(n)}

\* The layout of the design document, all at once.
WholeEnvelope(of, bytes) ==
  Header("V3", of) \o
  FlattenSeq([i \in 1..FrameCount(Len(bytes)) |->
    EncryptFrame(of, i - 1, i = FrameCount(Len(bytes)),
      SubSeq(bytes, (i - 1) * FrameSize + 1,
             IF i * FrameSize < Len(bytes) THEN i * FrameSize ELSE Len(bytes)))])

\* V2 and V1: one tag over everything.
LegacyEnvelope(of, bytes) ==
  Header("V2", of) \o <<Tag(of, 0, TRUE, bytes)>> \o Sealed(of, 0, bytes)

OldEnvelope ==
  IF older = "V3" THEN WholeEnvelope("old", Old) ELSE LegacyEnvelope("old", Old)

Init ==
  /\ length \in Lengths /\ older \in {"V2", "V3"}
  /\ taken = 0 /\ chunk = <<>> /\ frame = <<>> /\ pending = <<>> /\ index = 0
  /\ envelope = Header("V3", "new")
  /\ input = <<>> /\ ended = FALSE /\ buffered = <<>> /\ current = <<>>
  /\ output = <<>> /\ pc = "encrypt" /\ intact = TRUE

-----------------------------------------------------------------------------
(* encryptStream over frameSource.                                         *)

\* The source hands over its next chunk.
Pull ==
  /\ pc = "encrypt" /\ chunk = <<>> /\ taken < length
  /\ \E k \in ChunkSizes :
       /\ taken + k <= length
       /\ chunk' = SubSeq(Plain, taken + 1, taken + k)
       /\ taken' = taken + k
  /\ UNCHANGED <<length, older, frame, pending, index, envelope, reader, pc, intact>>

\* The frame before this one turns out not to be the last.
Yield(full) ==
  /\ frame' = <<>> /\ pending' = full
  /\ IF pending = <<>> THEN UNCHANGED <<envelope, index>>
     ELSE /\ envelope' = envelope \o EncryptFrame("new", index, FALSE, pending)
          /\ index' = index + 1

Fill ==
  /\ pc = "encrypt" /\ chunk # <<>> /\ index < MaxFrames
  /\ LET room == FrameSize - Len(frame)
         take == IF room < Len(chunk) THEN room ELSE Len(chunk)
         more == frame \o SubSeq(chunk, 1, take)
     IN  /\ chunk' = SubSeq(chunk, take + 1, Len(chunk))
         /\ IF Len(more) = FrameSize THEN Yield(more)
            ELSE frame' = more /\ UNCHANGED <<pending, index, envelope>>
  /\ UNCHANGED <<length, older, taken, reader, pc, intact>>

\* The source is exhausted: its last, short frame.
Remainder ==
  /\ pc = "encrypt" /\ chunk = <<>> /\ taken = length
  /\ frame # <<>> /\ index < MaxFrames
  /\ Yield(frame)
  /\ UNCHANGED <<length, older, taken, chunk, reader, pc, intact>>

\* Mutant: a payload without a byte gets no frame.
SealLastNoEmptyMutant ==
  /\ pc = "encrypt" /\ chunk = <<>> /\ taken = length /\ frame = <<>>
  /\ index < MaxFrames
  /\ envelope' = IF pending = <<>> THEN envelope
                 ELSE envelope \o EncryptFrame("new", index, TRUE, pending)
  /\ pc' = "store"
  /\ UNCHANGED <<length, older, taken, chunk, frame, pending, index, reader, intact>>

\* "A zero-byte file still needs one authenticated final frame."
SealLast ==
  /\ pc = "encrypt" /\ chunk = <<>> /\ taken = length /\ frame = <<>>
  /\ index < MaxFrames
  /\ envelope' = envelope \o EncryptFrame("new", index, TRUE, pending)
  /\ pc' = "store"
  /\ UNCHANGED <<length, older, taken, chunk, frame, pending, index, reader, intact>>

\* The source fails, or the frame counter is exhausted.
EncryptFails ==
  /\ pc = "encrypt"
  /\ pc' = "broken"
  /\ UNCHANGED <<length, older, writer, index, reader, intact>>

-----------------------------------------------------------------------------
(* The storage.                                                            *)

Splices(s, t) ==
  {SubSeq(s, 1, i) \o SubSeq(t, j, Len(t)) : i \in 0..Len(s), j \in 1..(Len(t) + 1)}

\* The runs i+1..j and j+1..k change places.
Exchanged(s, i, j, k) ==
  SubSeq(s, 1, i) \o SubSeq(s, j + 1, k) \o SubSeq(s, i + 1, j) \o SubSeq(s, k + 1, Len(s))

\* Cut off, with a part missing or repeated, begun as one object and ended as
\* another, with a unit spoilt or with two runs exchanged.
Damaged ==
  LET whole == Len(envelope) IN
  Splices(envelope, envelope)
  \cup Splices(envelope, OldEnvelope) \cup Splices(OldEnvelope, envelope)
  \cup {ReplaceAt(envelope, i, Junk) : i \in 1..whole}
  \cup {Exchanged(envelope, i, j, k) : i \in 0..whole, j \in 1..whole, k \in 2..whole}

\* After an upload that failed the storage has what it had before, or a part.
Keep ==
  /\ pc \in {"store", "broken"}
  /\ input' \in {envelope} \cup Damaged
  /\ intact' = (pc = "store" /\ input' = envelope)
  /\ pc' = "magic" /\ index' = 0
  /\ UNCHANGED <<length, older, writer, ended, buffered, current, output>>

-----------------------------------------------------------------------------
(* decryptStream over AsyncByteReader.                                     *)

\* How much of its input the next step needs.
Wanted == CASE pc \in {"magic", "tail", "first", "next"} -> 1
            [] pc = "frame" -> 1 + current.size
            [] OTHER -> 0

\* readExactly, readRemaining: the storage delivers some more, or the end.
Read ==
  /\ Len(buffered) < Wanted \/ pc = "legacy"
  /\ ~ended
  /\ \/ \E k \in ChunkSizes :
          /\ k <= Len(input)
          /\ buffered' = buffered \o SubSeq(input, 1, k)
          /\ input' = SubSeq(input, k + 1, Len(input))
          /\ UNCHANGED ended
     \/ input = <<>> /\ ended' = TRUE /\ UNCHANGED <<input, buffered>>
  /\ UNCHANGED <<length, older, writer, index, current, output, pc, intact>>

Drop(n) == buffered' = SubSeq(buffered, n + 1, Len(buffered))

Fail == pc' = "failed" /\ UNCHANGED <<index, buffered, current, output>>

Idle == UNCHANGED <<length, older, writer, input, ended, intact>>

\* The download breaks off with an error.
Break ==
  /\ pc \in {"magic", "tail", "first", "frame", "next", "legacy"} /\ ~ended
  /\ pc' = "lost"
  /\ UNCHANGED <<index, buffered, current, output>> /\ Idle

\* "Truncated envelope", "Missing authenticated final frame".
Truncated ==
  /\ pc \in {"magic", "tail", "first", "frame"}
  /\ ended /\ Len(buffered) < Wanted
  /\ Fail /\ Idle

OnMagic ==
  /\ pc = "magic" /\ buffered # <<>>
  /\ IF buffered[1] = Magic("V3")
       THEN pc' = "tail" /\ Drop(1)
       ELSE pc' = "legacy" /\ UNCHANGED buffered
  /\ UNCHANGED <<index, current, output>> /\ Idle

\* The header of another upload, or a spoilt one, only shows at the first tag.
OnTail ==
  /\ pc = "tail" /\ buffered # <<>>
  /\ \/ /\ current' = [of |-> buffered[1]] /\ pc' = "first"
        /\ Drop(1) /\ UNCHANGED <<index, output>>
     \/ /\ buffered[1].what # "tail"  \* iterations or frame size out of range
        /\ Fail
  /\ Idle

\* What stands where a length is expected.
LengthsOf(unit) == IF unit.what = "size" THEN {unit.n} ELSE 0..(FrameSize + 1)

\* "frame length exceeds declared frame size" is found before it is read.
BeginFrame ==
  \E n \in LengthsOf(buffered[1]) :
    IF n > FrameSize THEN Fail
    ELSE /\ current' = [of |-> current.of, size |-> n]
         /\ pc' = "frame" /\ Drop(1)
         /\ UNCHANGED <<index, output>>

OnFirst ==
  /\ pc = "first" /\ buffered # <<>>
  /\ BeginFrame /\ Idle

OnFrame ==
  /\ pc = "frame" /\ Len(buffered) >= Wanted
  /\ current' = [of |-> current.of, tag |-> buffered[1],
                 cipher |-> SubSeq(buffered, 2, Wanted)]
  /\ pc' = "next" /\ Drop(Wanted)
  /\ UNCHANGED <<index, output>> /\ Idle

\* Mutant: the tag says nothing of a frame's number.
OpenUnnumberedMutant(of, i, final, tag, cipher) ==
  IF /\ tag.what = "tag" /\ Params(tag.of) = of /\ tag.final = final
     /\ cipher = Sealed(tag.of, tag.index, tag.bytes)
  THEN {tag.bytes} ELSE {}

\* decipher.final(): the bytes, if the tag vouches for them under this header,
\* number and finality.
Open(of, i, final, tag, cipher) ==
  IF /\ tag.what = "tag" /\ Params(tag.of) = of /\ tag.index = i /\ tag.final = final
     /\ cipher = Sealed(tag.of, i, tag.bytes)
  THEN {tag.bytes} ELSE {}

Deliver(final) ==
  LET opened == Open(current.of, index, final, current.tag, current.cipher) IN
  \/ /\ opened # {} /\ index < MaxFrames
     /\ output' = output \o CHOOSE bytes \in opened : TRUE
     /\ IF final
          THEN pc' = "done" /\ UNCHANGED <<index, buffered, current>>
          ELSE pc' = "first" /\ index' = index + 1 /\ UNCHANGED <<buffered, current>>
  \/ (opened = {} \/ index >= MaxFrames) /\ Fail

\* A frame is the last one if nothing follows it.
OnNext ==
  /\ pc = "next"
  /\ buffered # <<>> \/ ended
  /\ Deliver(buffered = <<>>) /\ Idle

\* decryptLegacy reads everything, then opens it in one piece.
OnLegacy ==
  /\ pc = "legacy" /\ ended
  /\ IF /\ Len(buffered) >= 3 /\ buffered[1] = Magic("V2")
        /\ Open(buffered[2], 0, TRUE, buffered[3], SubSeq(buffered, 4, Len(buffered))) # {}
     THEN output' = buffered[3].bytes /\ pc' = "done" /\ UNCHANGED <<index, buffered, current>>
     ELSE Fail
  /\ Idle

Encrypt == Pull \/ Fill \/ Remainder \/ SealLast \/ EncryptFails

Decrypt ==
  \/ Read
  \/ Break
  \/ Truncated
  \/ OnMagic
  \/ OnTail
  \/ OnFirst
  \/ OnFrame
  \/ OnNext
  \/ OnLegacy

Next == Encrypt \/ Keep \/ Decrypt

Spec == Init /\ [][Next]_vars

-----------------------------------------------------------------------------
(* Properties.                                                             *)

\* However the source cuts the payload into chunks, the stream yields the one
\* envelope of the documented layout, as long as encryptedSize announced, and
\* never completes one that encryptedSize rejects.
SameEnvelope ==
  pc = "store" =>
    envelope = WholeEnvelope("new", Plain) /\ Len(envelope) \in EncryptedSizes(length)

\* Whatever the storage gives back of two uploads to one path, what the reader
\* releases is the beginning of one of the payloads, and it ends without an
\* error only after all of it.
WholeOrFailed ==
  /\ IsPrefix(output, Plain) \/ IsPrefix(output, Old)
  /\ pc = "done" => output \in {Plain, Old}

\* An envelope that comes back as it was is never rejected, however its bytes
\* are cut into chunks, and gives the payload.
RoundTrip ==
  intact => pc # "failed" /\ (pc = "done" => output = Plain)

=============================================================================
