------------------------------- MODULE FlacFrame -------------------------------
(***************************************************************************)
(* flac_frame.rs: the pass over an encoded recording that makes every      *)
(* frame header name its sample rate, which flacenc leaves to STREAMINFO.  *)
(* The bytes are real bytes and the checksums real checksums.  The encoder *)
(* is external: a recording is a list of frames, each with the fields its  *)
(* header depends on, and Stream serializes them.                          *)
(***************************************************************************)
EXTENDS Integers, Sequences, SequencesExt, Bitwise

CONSTANTS
    Numbers,        \* number of the first frame of a recording
    BlockCodes,     \* block-size codes
    RateCodes,      \* sample-rate codes the encoder leaves in the headers
    Payloads,       \* the coded audio of a frame
    Metadata,       \* last byte before the first frame
    Rates,          \* sample rates the pass is asked to name
    Errors,         \* by how much a told frame length may be wrong
    MaxFrames, MaxPasses

ASSUME FlacFrameAssumption ==
    /\ Numbers \subseteq Nat /\ BlockCodes \subseteq 1..15 /\ RateCodes \subseteq 0..14
    /\ \A p \in Payloads : p \in Seq(0..255)
    /\ Metadata \subseteq 0..255 /\ Rates \subseteq Nat /\ Errors \subseteq Int
    /\ MaxFrames \in Nat /\ MaxPasses \in Nat

VARIABLES
    metadata, frames,   \* what was encoded
    original, lengths,  \* its bytes, and the length of each frame
    encoded,            \* the bytes now
    passes, rewritten,  \* passes so far, and what the last one returned
    wanted               \* history: the rates with a code asked for with the right lengths

recording == <<metadata, frames, original, lengths>>
flacVars == <<recording, encoded, passes, rewritten, wanted>>

-----------------------------------------------------------------------------
(* Checksums.  A 16-bit one is its two bytes, high and low.  A table has   *)
(* the remainder of each byte i at i + 1: as tuples, evaluated once.       *)

CRC8_POLY == 7
CRC16_POLY == 32773

Tabulated(f) == <<>> \o [i \in 1..256 |-> f[i - 1]]
XOR == Tabulated([a \in 0..255 |-> Tabulated([b \in 0..255 |-> a ^^ b])])
xor(a, b) == XOR[a + 1][b + 1]

\* The remainder of i in a register of w bits, after eight shifts.
Remainder(i, w, poly) ==
    FoldLeft(LAMBDA c, bit : IF c < 2^(w - 1) THEN 2 * c ELSE ((2 * c) % 2^w) ^^ poly,
             i * 2^(w - 8), [bit \in 1..8 |-> bit])

CRC8_TABLE == Tabulated([i \in 0..255 |-> Remainder(i, 8, CRC8_POLY)])
CRC16_TABLE == Tabulated([i \in 0..255 |-> LET r == Remainder(i, 16, CRC16_POLY)
                                           IN  <<r \div 256, r % 256>>])

crc8(bytes) == FoldLeft(LAMBDA crc, byte : CRC8_TABLE[xor(crc, byte) + 1], 0, bytes)

crc16(bytes) ==
    FoldLeft(LAMBDA crc, byte : LET t == CRC16_TABLE[xor(crc[1], byte) + 1]
                                IN  <<xor(crc[2], t[1]), t[2]>>,
             <<0, 0>>, bytes)

-----------------------------------------------------------------------------
(* The encoder, as flacenc and the format define it.                       *)

\* The number of a frame, coded as UTF-8 codes a character, up to 31 bits.
CodedNumber(n) ==
    LET tail(k) == [i \in 1..k |-> 128 + ((n \div 64^(k - i)) % 64)]
    IN  IF n < 128 THEN <<n>>
        ELSE LET k == CHOOSE j \in 1..5 : /\ j < 5 => n < 2^(5 * j + 6)
                                          /\ \A i \in 1..(j - 1) : n >= 2^(5 * i + 6)
             IN  <<(256 - 2^(7 - k)) + (n \div 64^k)>> \o tail(k)

\* Codes 6 and 7 put the block size after the number.
BlockSizeBytes(block) == CASE block = 6 -> <<191>> [] block = 7 -> <<15, 255>> [] OTHER -> <<>>
RateBytes(rate) == CASE rate = 12 -> <<48>> [] rate \in {13, 14} -> <<187, 128>> [] OTHER -> <<>>

Header(f) ==
    LET head == <<255, 248, f.block * 16 + f.rate, 8>> \o CodedNumber(f.number)
                \o BlockSizeBytes(f.block) \o RateBytes(f.rate)
    IN  Append(head, crc8(head))

Frame(f) == LET body == Header(f) \o f.payload IN body \o crc16(body)

MAGIC == <<102, 76, 97, 67>>
Stream(m, fs) == Append(MAGIC, m) \o FlattenSeq([i \in DOMAIN fs |-> Frame(fs[i])])

FlacInit ==
    /\ metadata \in Metadata
    /\ \E first \in Numbers, n \in 1..MaxFrames :
         \E block \in [1..n -> BlockCodes], rate \in [1..n -> RateCodes], p \in [1..n -> Payloads] :
            frames = [i \in 1..n |-> [number |-> first + i - 1, block |-> block[i],
                                      rate |-> rate[i], payload |-> p[i]]]
    /\ original = Stream(metadata, frames) /\ lengths = [i \in DOMAIN frames |-> Len(Frame(frames[i]))]
    /\ encoded = original /\ passes = 0 /\ rewritten = 0 /\ wanted = <<>>

-----------------------------------------------------------------------------
(* The pass.  None is 0 for a code and for a length.                       *)

sample_rate_code(rate_hz) ==
    CASE rate_hz = 88200 -> 1 [] rate_hz = 176400 -> 2 [] rate_hz = 192000 -> 3
      [] rate_hz = 8000 -> 4 [] rate_hz = 16000 -> 5 [] rate_hz = 22050 -> 6
      [] rate_hz = 24000 -> 7 [] rate_hz = 32000 -> 8 [] rate_hz = 44100 -> 9
      [] rate_hz = 48000 -> 10 [] rate_hz = 96000 -> 11 [] OTHER -> 0

\* Mutated utf8_coded_number_len: no number longer than three bytes.
ShortNumbersOnly(lead) ==
    CASE lead \in 0..127 -> 1 [] lead \in 192..223 -> 2 [] lead \in 224..239 -> 3 [] OTHER -> 0

utf8_coded_number_len(lead) ==
    CASE lead \in 0..127 -> 1 [] lead \in 192..223 -> 2 [] lead \in 224..239 -> 3
      [] lead \in 240..247 -> 4 [] lead \in 248..251 -> 5 [] lead \in 252..253 -> 6
      [] lead = 254 -> 7 [] OTHER -> 0

frame_header_len(frame) ==
    LET number == utf8_coded_number_len(frame[5])
        block == CASE frame[3] \div 16 = 6 -> 1 [] frame[3] \div 16 = 7 -> 2 [] OTHER -> 0
        rate == CASE frame[3] % 16 = 12 -> 1 [] frame[3] % 16 \in {13, 14} -> 2 [] OTHER -> 0
    IN  IF \/ Len(frame) < 6 \/ frame[1] # 255 \/ frame[2] \div 4 # 62
           \/ number = 0 \/ frame[3] % 16 = 15
        THEN 0 ELSE 4 + number + block + rate + 1

\* Where frame i starts, and its bytes, when the lengths are as told.
FrameStart(bytes, told, i) ==
    Len(bytes) - FoldLeft(LAMBDA a, b : a + b, 0, SubSeq(told, i, Len(told)))
Told(bytes, told, i) ==
    SubSeq(bytes, FrameStart(bytes, told, i) + 1, FrameStart(bytes, told, i) + told[i])

\* A frame that starts with the sync code, parses, and carries the CRC-8 of its header.
IsFrame(frame) ==
    LET n == frame_header_len(frame)
    IN  n > 0 /\ Len(frame) >= n + 2 /\ frame[n] = crc8(SubSeq(frame, 1, n - 1))

\* Mutated preflight: frames that name the rate already may stand among the others.
PreflightOfMixed(bytes, told, code) ==
    \A i \in DOMAIN told : IsFrame(Told(bytes, told, i)) /\ Told(bytes, told, i)[3] % 16 \in {0, code}

\* "Rewritable": every frame is one, and none names its rate.
preflight(bytes, told, code) ==
    \A i \in DOMAIN told : IsFrame(Told(bytes, told, i)) /\ Told(bytes, told, i)[3] % 16 = 0

\* Mutated rewrite_frame: the frame's checksum is of the old header.
RewriteFooterFirst(frame, code) ==
    LET n == frame_header_len(frame)
        named == [frame EXCEPT ![3] = (@ - (@ % 16)) + code]
        body == SubSeq([named EXCEPT ![n] = crc8(SubSeq(named, 1, n - 1))], 1, Len(frame) - 2)
    IN  body \o crc16(SubSeq(frame, 1, Len(frame) - 2))

\* Mutated rewrite_frame: the checksum is added to the frame, the old one left in.
RewriteAddsFooter(frame, code) ==
    LET n == frame_header_len(frame)
        named == [frame EXCEPT ![3] = @ + code]
        body == [named EXCEPT ![n] = crc8(SubSeq(named, 1, n - 1))]
    IN  body \o crc16(body)

\* The code, the CRC-8 of the header, the CRC-16 of the frame, in this order.
rewrite_frame(frame, code) ==
    LET n == frame_header_len(frame)
        named == [frame EXCEPT ![3] = (@ - (@ % 16)) + code]
        body == SubSeq([named EXCEPT ![n] = crc8(SubSeq(named, 1, n - 1))], 1, Len(frame) - 2)
    IN  body \o crc16(body)

\* Lengths whose sum overflows exceed the stream as well.
Eligible(bytes, told, code) ==
    /\ code # 0 /\ FrameStart(bytes, told, 1) >= 0 /\ IsPrefix(MAGIC, bytes)
    /\ preflight(bytes, told, code)

rewrite_frame_sample_rates(told, rate_hz) ==
    LET code == sample_rate_code(rate_hz)
    IN  IF Eligible(encoded, told, code)
        THEN /\ encoded' = SubSeq(encoded, 1, FrameStart(encoded, told, 1))
                           \o FlattenSeq([i \in DOMAIN told |->
                                            rewrite_frame(Told(encoded, told, i), code)])
             /\ rewritten' = Len(told)
        ELSE UNCHANGED encoded /\ rewritten' = 0

\* finalize_recording tells the lengths as the encoder counts them; here one may be wrong.
ToldLengths == {lengths} \cup {[lengths EXCEPT ![i] = @ + e] : i \in DOMAIN lengths, e \in Errors}

Passes(told, rate_hz) ==
    /\ passes < MaxPasses /\ passes' = passes + 1
    /\ rewrite_frame_sample_rates(told, rate_hz)
    /\ wanted' = IF told = lengths /\ sample_rate_code(rate_hz) # 0 THEN Append(wanted, rate_hz) ELSE wanted
    /\ UNCHANGED recording

FlacNext == \E told \in ToldLengths, rate_hz \in Rates : Passes(told, rate_hz)
FlacSpec == FlacInit /\ [][FlacNext]_flacVars

-----------------------------------------------------------------------------
\* Bytes are bytes, and the count is of frames.
FlacTypeOK ==
    /\ encoded \in Seq(0..255) /\ Len(encoded) = Len(original)
    /\ rewritten \in {0, Len(frames)} /\ passes \in 0..MaxPasses

Unnamed == \A i \in DOMAIN frames : frames[i].rate = 0
Naming(code) == [i \in DOMAIN frames |-> [frames[i] EXCEPT !.rate = code]]

\* Once asked, with the right lengths, for a rate that has a code, the stream is the one the
\* encoder would have written had it named the first such rate in every header: the audio,
\* the lengths and the block sizes stay, and a later pass changes nothing.
RateIsNamed ==
    wanted # <<>> /\ Unnamed => encoded = Stream(metadata, Naming(sample_rate_code(wanted[1])))

\* Wrong lengths, a rate without a code, and a stream in which a frame names its rate leave
\* every byte as it was.  Comment of rewrite_frame_sample_rates: "either rewrites every frame
\* or leaves `encoded` untouched".
AllOrNothing == wanted = <<>> \/ ~Unnamed => encoded = original

\* A decoder finds both checksums of every frame to be zero.
ChecksumsHold ==
    \A i \in DOMAIN frames :
        LET frame == Told(encoded, lengths, i)
        IN  crc16(frame) = <<0, 0>> /\ crc8(SubSeq(frame, 1, Len(Header(frames[i])))) = 0

\* The pass leaves a stream that plays at the rate it names, or the one it was given.
FlacInv ==
    /\ FlacTypeOK /\ RateIsNamed /\ AllOrNothing /\ ChecksumsHold
=============================================================================
