------------------------------ MODULE Base64Stream ------------------------------
(***************************************************************************)
(* The two streaming base64 conversions: write_blob_as_base64 of           *)
(* src/src/request_encode.rs, which encodes a blob into the request body   *)
(* from reads of any length, and Base64DecodedReader of src/src/upload.rs, *)
(* which decodes an image chunk by chunk into buffers of any length, with  *)
(* the length and the digest that are declared before it: the digest is of *)
(* the chunks that sha256_hex_base64 decodes on its own.                   *)
(*                                                                         *)
(* The encoder's input is the sequence 1..n; a quad of its output is the   *)
(* tuple of the one to three bytes it encodes.  The decoder's input is a   *)
(* text of data characters and padding; byte k of quad q is <<q, k>>.      *)
(***************************************************************************)
EXTENDS Naturals, Sequences, FiniteSets

CONSTANTS
    BlobLengths,    \* lengths of the blobs to encode
    ReadBytes,      \* CHUNK_BYTES of the encoder
    TextLengths,    \* lengths of the texts to decode
    ChunkChars,     \* BASE64_STREAM_INPUT_CHARS
    Rooms           \* free space in the buffers of poll_read

ASSUME StreamConstants ==
    /\ BlobLengths \subseteq Nat /\ TextLengths \subseteq Nat
    /\ ReadBytes \in Nat \ {0} /\ ReadBytes % 3 = 0
    /\ ChunkChars \in Nat \ {0} /\ ChunkChars % 4 = 0
    /\ Rooms \subseteq Nat \ {0}

VARIABLES
    job,            \* "encode", "hash" or "decode"
    state,          \* "run", "ok" or "error"
    out,            \* quads written, bytes hashed, or bytes put into buffers
    \* the encoder
    blob,           \* length of the blob
    taken,          \* bytes read from it
    carry,          \* bytes read and not encoded yet
    content_length,
    \* the hash and the decoder
    text,
    offset,
    \* the decoder
    pending, pending_offset,
    room, filled    \* of the buffer of the current poll

encoder == <<blob, taken, carry, content_length>>
decoder == <<text, offset, pending, pending_offset, room, filled>>
vars == <<job, state, out, encoder, decoder>>

Data == "A"
Pad == "="

--------------------------------------------------------------------------------
(* The two conversions of the base64 crate, on whole inputs *)

\* STANDARD.encode_slice: groups of three, and a shorter one at the end.
Encode(bytes) ==
    [q \in 1..(Len(bytes) + 2) \div 3 |->
        SubSeq(bytes, 3 * q - 2, IF 3 * q <= Len(bytes) THEN 3 * q ELSE Len(bytes))]

\* STANDARD.decode_slice takes whole quads with padding in the last one only.
WellFormed(chars) ==
    /\ Len(chars) % 4 = 0
    /\ \A k \in DOMAIN chars : chars[k] = Pad =>
         /\ k > Len(chars) - 2
         /\ chars[Len(chars)] = Pad

Padding(chars) == Cardinality({k \in DOMAIN chars : chars[k] = Pad})

\* The bytes of a well-formed text that starts after `before' characters.
Decode(chars, before) ==
    [k \in 1..(Len(chars) \div 4) * 3 - Padding(chars) |->
        <<(before \div 4) + ((k + 2) \div 3), ((k - 1) % 3) + 1>>]

--------------------------------------------------------------------------------
(* write_blob_as_base64 *)

\* write_counted.
WriteCounted(quads) ==
    /\ out' = out \o quads
    /\ content_length' = content_length + 4 * Len(quads)

\* Mutant: what is left over after whole groups is forgotten.
EncodeReadNoCarry(n) ==
    LET input == carry \o [k \in 1..n |-> taken + k]
        complete_len == (Len(input) \div 3) * 3
    IN  /\ taken' = taken + n
        /\ WriteCounted(Encode(SubSeq(input, 1, complete_len)))
        /\ carry' = <<>>

\* A read fills part of the buffer behind the carried bytes; whole groups are
\* encoded and up to two bytes are carried on.
EncodeRead(n) ==
    LET input == carry \o [k \in 1..n |-> taken + k]
        complete_len == (Len(input) \div 3) * 3
    IN  /\ taken' = taken + n
        /\ WriteCounted(Encode(SubSeq(input, 1, complete_len)))
        /\ carry' = SubSeq(input, complete_len + 1, Len(input))

Read ==
    /\ job = "encode" /\ state = "run"
    /\ \E n \in 1..ReadBytes : n <= blob - taken /\ EncodeRead(n)
    /\ UNCHANGED <<job, state, blob, decoder>>

\* The reader is at its end: the carried bytes make the last quad.
ReadEnds ==
    /\ job = "encode" /\ state = "run" /\ taken = blob
    /\ WriteCounted(Encode(carry))
    /\ state' = "ok"
    /\ UNCHANGED <<job, blob, taken, carry, decoder>>

\* The reader of a spilled blob, or the writer, fails.
ReadFails ==
    /\ job = "encode" /\ state = "run"
    /\ state' = "error"
    /\ UNCHANGED <<job, out, encoder, decoder>>

--------------------------------------------------------------------------------
(* Base64DecodedReader *)

\* The length declared to the host; no length, no upload.
decoded_base64_len ==
    IF text = <<>> THEN 0
    ELSE (Len(text) \div 4) * 3 -
         (IF text[Len(text)] # Pad THEN 0 ELSE IF text[Len(text) - 1] = Pad THEN 2 ELSE 1)

\* Mutant: chunks of characters that are no multiple of four.
ChunkEndUnaligned(from) == IF Len(text) - from <= ChunkChars THEN Len(text) ELSE from + ChunkChars - 1

next_base64_chunk_end(from) == IF Len(text) - from <= ChunkChars THEN Len(text) ELSE from + ChunkChars

NextChunk == SubSeq(text, offset + 1, next_base64_chunk_end(offset))

\* sha256_hex_base64: the next chunk is decoded and hashed, or the upload fails.
HashChunk ==
    /\ job = "hash" /\ state = "run" /\ offset < Len(text)
    /\ IF WellFormed(NextChunk)
         THEN /\ out' = out \o Decode(NextChunk, offset)
              /\ offset' = next_base64_chunk_end(offset)
              /\ UNCHANGED state
         ELSE state' = "error" /\ UNCHANGED <<out, offset>>
    /\ UNCHANGED <<job, encoder, text, pending, pending_offset, room, filled>>

HashEnds ==
    /\ job = "hash" /\ state = "run" /\ offset >= Len(text)
    /\ state' = "ok"
    /\ UNCHANGED <<job, out, encoder, decoder>>

\* The consumer polls with a buffer.
Poll ==
    /\ job = "decode" /\ state = "run" /\ room = 0
    /\ room' \in Rooms
    /\ filled' = 0
    /\ UNCHANGED <<job, state, out, encoder, text, offset, pending, pending_offset>>

\* Pending bytes are copied as far as there is room.
CopyPending ==
    LET available == Len(pending) - pending_offset
        to_copy == IF available < room THEN available ELSE room
    IN  /\ out' = out \o SubSeq(pending, pending_offset + 1, pending_offset + to_copy)
        /\ room' = room - to_copy
        /\ filled' = filled + to_copy
        /\ pending' = IF to_copy = available THEN <<>> ELSE pending
        /\ pending_offset' = IF to_copy = available THEN 0 ELSE pending_offset + to_copy

Copy ==
    /\ job = "decode" /\ state = "run" /\ room > 0 /\ pending_offset < Len(pending)
    /\ CopyPending
    /\ UNCHANGED <<job, state, encoder, text, offset>>

\* The next chunk is decoded, or the stream ends with InvalidData.
Refill ==
    /\ job = "decode" /\ state = "run" /\ room > 0 /\ pending_offset >= Len(pending) /\ offset < Len(text)
    /\ IF WellFormed(NextChunk)
         THEN /\ pending' = Decode(NextChunk, offset)
              /\ offset' = next_base64_chunk_end(offset)
              /\ UNCHANGED state
         ELSE state' = "error" /\ UNCHANGED <<pending, offset>>
    /\ UNCHANGED <<job, out, encoder, text, pending_offset, room, filled>>

\* Mutant: at the end of the text the poll stays pending.
TextEndsPending ==
    /\ job = "decode" /\ state = "run" /\ room > 0 /\ pending_offset >= Len(pending) /\ offset >= Len(text)
    /\ UNCHANGED vars

\* At the end of the text the poll returns; for the consumer an empty buffer
\* is the end of the stream.
TextEnds ==
    /\ job = "decode" /\ state = "run" /\ room > 0 /\ pending_offset >= Len(pending) /\ offset >= Len(text)
    /\ state' = IF filled = 0 THEN "ok" ELSE state
    /\ room' = 0
    /\ UNCHANGED <<job, out, encoder, text, offset, pending, pending_offset, filled>>

--------------------------------------------------------------------------------
Init ==
    /\ out = <<>>
    /\ taken = 0 /\ carry = <<>> /\ content_length = 0
    /\ offset = 0 /\ pending = <<>> /\ pending_offset = 0 /\ room = 0 /\ filled = 0
    /\ \/ job = "encode" /\ state = "run" /\ blob \in BlobLengths /\ text = <<>>
       \/ /\ job \in {"hash", "decode"} /\ blob = 0
          /\ text \in UNION {[1..n -> {Data, Pad}] : n \in TextLengths}
          /\ state = IF job = "decode" /\ Len(text) % 4 # 0 THEN "error" ELSE "run"

Next ==
    \/ Read \/ ReadEnds \/ ReadFails
    \/ HashChunk \/ HashEnds
    \/ Poll \/ Copy \/ Refill \/ TextEnds

\* Each is driven by a task that goes on until the end of the stream.
Spec == Init /\ [][Next]_vars /\ WF_vars(Next)

--------------------------------------------------------------------------------
(* Properties *)

\* However the reads cut the blob, the body holds the encoding of the whole
\* blob, with no padding inside, and content-length is its length.
EncodedAsWhole ==
    job = "encode" /\ state = "ok" =>
        /\ out = Encode([k \in 1..blob |-> k])
        /\ content_length = 4 * Len(out)

\* However the buffers cut the bytes, a text that is base64 as a whole is
\* hashed for R2 and delivered in full, in order, in the length declared.  A
\* text that is not ends in an error, or falls short of the length declared:
\* padding at the end of a chunk in the middle is taken for the end of a text.
DecodedAsDeclared ==
    job \in {"hash", "decode"} =>
        /\ WellFormed(text) =>
             /\ state # "error"
             /\ state = "ok" => out = Decode(text, 0) /\ Len(out) = decoded_base64_len
        /\ ~WellFormed(text) /\ state = "ok" => Len(out) < decoded_base64_len

\* Every stream comes to its end: no poll returns an empty buffer before it,
\* and none goes on for ever.
StreamsEnd == <>(state # "run")
================================================================================
