------------------------------- MODULE CdToc -------------------------------
(***************************************************************************)
(* The table of contents of a CD (cdrom_file::toc and track_input_info,    *)
(* lib/util/cdrom.h) and what all its parsers use (lib/util/cdrom.cpp).    *)
(*                                                                         *)
(* A time is the sequence of its numbers, a file [size, riff, chunks], a   *)
(* parser's result [toc, info, err].  Tracks count from 0, as in the code. *)
(***************************************************************************)
EXTENDS Integers, Sequences, FiniteSets, TLC

CONSTANTS MAX_TRACKS,    \* 99
          MAX_INDEX,     \* 99
          HighDensity,   \* 45000, where the second area of a GD-ROM starts
          ImgNames       \* the file names that end in ".img"

CD_TRACK_MODE1 == 0
CD_TRACK_MODE1_RAW == 1
CD_TRACK_MODE2 == 2
CD_TRACK_MODE2_FORM1 == 3
CD_TRACK_MODE2_FORM2 == 4
CD_TRACK_MODE2_FORM_MIX == 5
CD_TRACK_MODE2_RAW == 6
CD_TRACK_AUDIO == 7
CD_TRACK_RAW_DONTCARE == 8
CD_SUB_NORMAL == 0
CD_SUB_RAW == 1
CD_SUB_NONE == 2
SECTOR == 2352    \* MAX_SECTOR_DATA

Folded(op(_, _), base, seq) ==
  LET f[k \in 0..Len(seq)] == IF k = 0 THEN base ELSE op(f[k - 1], seq[k]) IN f[Len(seq)]
Upto(n) == [k \in 1..n |-> k - 1]    \* the loop "for (i = 0; i < n; i++)"

\* memset(&toc, 0) and track_input_entry::reset.
NoTrack == [trktype |-> 0, subtype |-> 0, datasize |-> 0, subsize |-> 0, frames |-> 0, extraframes |-> 0,
            pregap |-> 0, postgap |-> 0, pgtype |-> 0, pgsub |-> 0, pgdatasize |-> 0, pgsubsize |-> 0,
            control |-> {}, session |-> 0, padframes |-> 0, splitframes |-> 0,
            log |-> 0, phys |-> 0, chd |-> 0, logframes |-> 0, area |-> "SINGLE"]
NoEntry == [fname |-> "", offset |-> 0, swap |-> FALSE, idx |-> [i \in 0..MAX_INDEX |-> -1], leadin |-> -1, leadout |-> -1]
NoToc == [numtrks |-> 0, numsessions |-> 0, flags |-> {}, tracks |-> [t \in 0..MAX_TRACKS |-> NoTrack]]
NoInfo == [t \in 0..(MAX_TRACKS - 1) |-> NoEntry]
Cleared == [toc |-> NoToc, info |-> NoInfo, err |-> "NONE"]
Failed(p, e) == [p EXCEPT !.err = e]
Bytes(track) == track.datasize + track.subsize

-----------------------------------------------------------------------------
(* Type strings and times *)

TypeStrings ==
  ("MODE1" :> <<0, 2048>>) @@ ("MODE1/2048" :> <<0, 2048>>) @@ ("MODE1_RAW" :> <<1, 2352>>) @@ ("MODE1/2352" :> <<1, 2352>>)
  @@ ("MODE2" :> <<2, 2336>>) @@ ("MODE2/2336" :> <<2, 2336>>) @@ ("MODE2_FORM1" :> <<3, 2048>>) @@ ("MODE2/2048" :> <<3, 2048>>)
  @@ ("MODE2_FORM2" :> <<4, 2324>>) @@ ("MODE2/2324" :> <<4, 2324>>) @@ ("MODE2_FORM_MIX" :> <<5, 2336>>)
  @@ ("MODE2_RAW" :> <<6, 2352>>) @@ ("MODE2/2352" :> <<6, 2352>>) @@ ("CDI/2352" :> <<6, 2352>>) @@ ("AUDIO" :> <<7, 2352>>)
SubtypeStrings == ("RW" :> CD_SUB_NORMAL) @@ ("RW_RAW" :> CD_SUB_RAW)

ConvertTypeStringToTrackInfo(s, t) ==
  IF s \in DOMAIN TypeStrings THEN [t EXCEPT !.trktype = TypeStrings[s][1], !.datasize = TypeStrings[s][2]] ELSE t
ConvertTypeStringToPregapInfo(s, t) ==
  IF s \in DOMAIN TypeStrings THEN [t EXCEPT !.pgtype = TypeStrings[s][1], !.pgdatasize = TypeStrings[s][2]] ELSE t
ConvertSubtypeStringToTrackInfo(s, t) ==
  IF s \in DOMAIN SubtypeStrings THEN [t EXCEPT !.subtype = SubtypeStrings[s], !.subsize = 96] ELSE t
ConvertSubtypeStringToPregapInfo(s, t) ==
  IF s \in DOMAIN SubtypeStrings THEN [t EXCEPT !.pgsub = SubtypeStrings[s], !.pgsubsize = 96] ELSE t

LOCAL Names == <<"MODE1", "MODE1_RAW", "MODE2", "MODE2_FORM1", "MODE2_FORM2", "MODE2_FORM_MIX", "MODE2_RAW", "AUDIO">>
GetTypeString(n) == IF n \in 0..7 THEN Names[n + 1] ELSE "UNKNOWN"
GetSubtypeString(n) == IF n \in 0..1 THEN <<"RW", "RW_RAW">>[n + 1] ELSE "NONE"

\* One number is a count of frames; missing numbers are zero.
MsfToFrames(token) ==
  LET part(k) == IF k <= Len(token) THEN token[k] ELSE 0 IN
  IF Len(token) = 1 THEN token[1] ELSE part(3) + (part(2) + part(1) * 60) * 75

GetFileSize(files, name) == IF name \in DOMAIN files THEN files[name].size ELSE 0

\* Walk the chunks to "fmt ", check it, walk on to "data": <<length, offset>>, or
\* <<0, 0>> for a file that is not a 44.1 kHz 16-bit stereo WAV.
ParseWavSample(files, name) ==
  LET chunks == IF name \in DOMAIN files THEN files[name].chunks ELSE <<>>
      named(id, from) == {k \in from..Len(chunks) : chunks[k].id = id}
      first(ks) == CHOOSE k \in ks : \A j \in ks : k <= j
      at(k) == Folded(LAMBDA o, c : o + 8 + c.length, 12, SubSeq(chunks, 1, k - 1)) + 8
      fmt == first(named("fmt ", 1))
      data == first(named("data", fmt + 1))
  IN  IF /\ name \in DOMAIN files /\ files[name].riff
         /\ named("fmt ", 1) # {}
         /\ chunks[fmt].format = <<1, 2, 44100, 16>>    \* PCM, stereo, rate, bits
         /\ named("data", fmt + 1) # {}
      THEN <<chunks[data].length, at(data)>> ELSE <<0, 0>>

=============================================================================
