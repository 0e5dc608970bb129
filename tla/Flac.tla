-------------------------------- MODULE Flac --------------------------------
(***************************************************************************)
(* flac_encoder and flac_decoder (lib/util/flac.cpp): the wrappers that    *)
(* feed libFLAC and take its output through callbacks.                     *)
(*                                                                         *)
(* Compressed data is a sequence of cells <<tag, value, k>>, one per byte. *)
(* A sample is <<hi, lo>>, its two bytes; the samples of all channels at   *)
(* one time are one element of a sequence.                                 *)
(***************************************************************************)
EXTENDS Integers, Sequences, SequencesExt, FiniteSets, FiniteSetsExt

CONSTANT MinBlock    \* the smallest block size libFLAC takes: 16
ASSUME MinBlockAssumption == MinBlock \in Nat \ {0}

ByteCell(n) == <<"byte", n, 0>>
Stale == <<"stale", 0, 0>>    \* what a byte of a buffer held before

-----------------------------------------------------------------------------
(* libFLAC, as far as the wrappers use it *)

\* Besides its header and checksum a frame takes a byte if all its samples are equal,
\* the low bytes if all high bytes are 0, and else all bytes.
FrameSize(block) ==
  LET channels == DOMAIN block[1]
      cells == Len(block) * Cardinality(channels)
      quiet == \A k \in DOMAIN block, c \in channels : block[k][c][2] = 0
  IN  2 + (IF Cardinality(ToSet(block)) = 1 THEN 1 ELSE IF quiet THEN cells ELSE 2 * cells)
Frame(block) == [k \in 1..FrameSize(block) |-> <<"frame", block, k>>]

Marker == [k \in 1..4 |-> <<"fLaC", 0, k>>]
MetaBlock(last, info) ==
  <<ByteCell(IF last THEN 128 ELSE 0), ByteCell(0), ByteCell(0), ByteCell(2)>>
  \o [k \in 1..2 |-> <<"info", info, k>>]

\* The pieces in which FLAC__stream_encoder hands out a stream, one per callback.
Pieces(samples, blocksize) ==
  <<Marker, MetaBlock(FALSE, blocksize), MetaBlock(TRUE, 0)>>
  \o IF samples = <<>> THEN <<>>
     ELSE [b \in 1..((Len(samples) + blocksize - 1) \div blocksize) |->
        Frame(SubSeq(samples, (b - 1) * blocksize + 1, Min({b * blocksize, Len(samples)})))]

-----------------------------------------------------------------------------
(* flac_encoder *)

FlacEncoder(blocksize, strip) ==
  [blocksize |-> blocksize, strip |-> strip, length |-> 0, offset |-> 0, out |-> <<>>,
   ignore |-> 0, found |-> FALSE]

\* reset with a buffer: skip the marker, then blocks up to the last one.
ResetEncoder(e, buflength) ==
  [e EXCEPT !.length = buflength, !.offset = 0, !.out = <<>>,
            !.ignore = IF e.strip THEN 4 ELSE 0, !.found = ~e.strip]

\* write_callback.  What does not fit is counted and not copied; a copy starts at the
\* beginning of the piece, whatever was skipped of it.
RECURSIVE WriteCallback(_, _, _)
WriteCallback(e, buffer, offset) ==
  LET left == Len(buffer) - offset
      skip == Min({left, e.ignore})
      fits == e.offset + left <= e.length
  IN  IF left = 0 THEN e
      ELSE IF e.ignore # 0
      THEN WriteCallback([e EXCEPT !.ignore = @ - skip], buffer, offset + skip)
      ELSE IF ~e.found
      THEN WriteCallback([e EXCEPT !.found = buffer[offset + 1][2] >= 128,
                                   !.ignore = buffer[offset + 4][2]], buffer, offset + 4)
      ELSE [e EXCEPT !.out = IF fits THEN @ \o SubSeq(buffer, 1, left) ELSE @,
                     !.offset = @ + left]

SwapSample(s) == [c \in DOMAIN s |-> Reverse(s[c])]
Swapped(samples, swap) == IF swap THEN [k \in DOMAIN samples |-> SwapSample(samples[k])] ELSE samples

\* reset ignores that libFLAC refused to start; encode_interleaved then fails.
CanEncode(e) == e.blocksize = 0 \/ e.blocksize >= MinBlock

\* encode_interleaved and finish: the encoder afterwards; its offset is the result of
\* finish.  The batches in which samples are handed over leave no trace in the stream.
EncodeInterleaved(e, samples, swap) ==
  LET pieces == Pieces(Swapped(samples, swap), e.blocksize)
      f[k \in 0..Len(pieces)] == IF k = 0 THEN e ELSE WriteCallback(f[k - 1], pieces[k], 0)
  IN  f[Len(pieces)]

\* encode takes one sequence per channel.
EncodeChannels(e, channels, swap) ==
  EncodeInterleaved(e, [k \in DOMAIN channels[1] |-> [c \in DOMAIN channels |-> channels[c][k][1]]], swap)

\* The bytes the caller finds in the buffer.
Encoded(e) == e.out \o [k \in 1..(e.offset - Len(e.out)) |-> Stale]

-----------------------------------------------------------------------------
(* flac_decoder *)

\* The header made up for a stream whose own was stripped.
CustomHeader(blocksize) == Marker \o MetaBlock(TRUE, blocksize)

\* reset with a custom header: fed is what libFLAC has read of both buffers, used how
\* much of it it has decoded.
ResetDecoder(blocksize, data) ==
  [first |-> CustomHeader(blocksize), second |-> data, offset |-> 0, fed |-> <<>>,
   used |-> Len(CustomHeader(blocksize)), eof |-> FALSE, out |-> <<>>]

\* read_callback: up to n bytes, of the first buffer and then of the second.
ReadCallback(d, n) ==
  LET all == d.first \o d.second
      got == SubSeq(all, d.offset + 1, Min({d.offset + n, Len(all)}))
  IN  [d EXCEPT !.fed = @ \o got, !.offset = @ + Len(got), !.eof = got = <<>>]

\* write_callback: as many samples of the block as are still wanted.
DecoderWrite(d, block, length, swap) ==
  [d EXCEPT !.out = @ \o SubSeq(Swapped(block, swap), 1, Min({Len(block), length - Len(d.out)}))]

ReadSize == 5    \* bytes libFLAC asks for at a time

\* FLAC__stream_decoder_process_single: decodes the frame that comes next, or reads
\* on, or skips a byte where no frame starts.
ProcessSingle(d, length, swap) ==
  LET at == SubSeq(d.fed, d.used + 1, Len(d.fed))
      block == at[1][2]
  IN  IF at = <<>> THEN ReadCallback(d, ReadSize)
      ELSE IF at[1][1] # "frame" \/ at[1][3] # 1 THEN [d EXCEPT !.used = @ + 1]
      ELSE IF Len(at) < FrameSize(block) THEN ReadCallback(d, ReadSize)
      ELSE IF SubSeq(at, 1, FrameSize(block)) # Frame(block) THEN [d EXCEPT !.used = @ + 1]
      ELSE [DecoderWrite(d, block, length, swap) EXCEPT !.used = @ + FrameSize(block)]

\* decode_interleaved: process_single never fails at the end of the data, so a stream
\* that is too short is asked for more forever: eof with less than length samples.
RECURSIVE DecodeInterleaved(_, _, _)
DecodeInterleaved(d, length, swap) ==
  IF Len(d.out) >= length \/ d.eof THEN d
  ELSE DecodeInterleaved(ProcessSingle(d, length, swap), length, swap)

\* finish: the bytes of the caller's buffer that were decoded.
FinishDecoder(d) == d.used - Len(d.first)
=============================================================================
