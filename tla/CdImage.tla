------------------------------ MODULE CdImage ------------------------------
(***************************************************************************)
(* A CD as a CHD: CdCompressor::read_data and the track helpers of         *)
(* sys/cd_shim.cpp, the track metadata, frame layout and sector reads of   *)
(* cdrom_file (lib/util/cdrom.cpp), the extractors of src/cd.rs.           *)
(*                                                                         *)
(* Bytes are pieces [file, at, len, swap] of the source files; swap is     *)
(* TRUE when the bytes of each pair are exchanged.  A CHD is [version,     *)
(* unit, frames, meta], frames a sequence of pieces, one per frame.        *)
(***************************************************************************)
EXTENDS DiscSheet

CONSTANT FramesPerHunk    \* 8 unless the caller asks for another hunk size

TRACK_PADDING == 4
FRAME_SIZE == SECTOR + 96

LOCAL Least(m, n) == IF m < n THEN m ELSE n
Blank == [file |-> "", at |-> 0, len |-> 0, swap |-> FALSE]
Piece(file, at, len, swap) == IF len <= 0 THEN Blank ELSE [file |-> file, at |-> at, len |-> len, swap |-> swap]
FileBytes(files, name, at, n) == Piece(name, at, Least(n, GetFileSize(files, name) - at), FALSE)
Part(p, startoffs, n) == Piece(p.file, p.at + startoffs, Least(n, p.len - startoffs), p.swap /\ startoffs < SECTOR)    \* subcode is not exchanged
Exchanged(p) == Piece(p.file, p.at, p.len, ~p.swap)

-----------------------------------------------------------------------------
(* Writing: chd_shim_toc_* and CdCompressor *)

Padding(frames) == ((frames + TRACK_PADDING - 1) \div TRACK_PADDING) * TRACK_PADDING - frames
PadTracks(toc) ==
  LET padded(track) == [track EXCEPT !.extraframes = Padding(track.frames)] IN
  [toc EXCEPT !.tracks = [t \in DOMAIN @ |-> IF t < toc.numtrks THEN padded(@[t]) ELSE @[t]]]

Stored(track) == track.frames + track.extraframes
FirstFrame(toc, t) == Folded(LAMBDA s, n : s + Stored(toc.tracks[n]), 0, Upto(t))
LogicalFrames(toc) == FirstFrame(toc, toc.numtrks)
TrackOf(toc, f) == CHOOSE t \in 0..(toc.numtrks - 1) : FirstFrame(toc, t) <= f /\ f < FirstFrame(toc, t + 1)

\* The bytes of frame k of track t: padding, the split frames at the start of the next
\* track's file, or the track's own.
FrameBytes(files, toc, info, t, k, last) ==
  LET track == toc.tracks[t]
      own == track.frames - track.splitframes
      padded == own - track.padframes    \* as an offset in the file it must not wrap
      bytes == IF k >= own THEN FileBytes(files, last, (k - own) * Bytes(track), Bytes(track))
               ELSE IF k >= padded /\ info[t].offset + padded * Bytes(track) >= 0 THEN Blank
               ELSE FileBytes(files, last, info[t].offset + k * Bytes(track), Bytes(track))
  IN  IF k >= track.frames THEN Blank ELSE IF info[t].swap THEN Exchanged(bytes) ELSE bytes

CompressorFrame_KeepsFile(files, gone, toc, info, first, c, f) ==
  LET t == TrackOf(toc, f)
      k == f - FirstFrame(toc, t)
      track == toc.tracks[t]
      insplit == k >= track.frames - track.splitframes /\ k < track.frames
      opened(d, name) == [d EXCEPT !.last = name, !.open = name \notin gone, !.short = name \in gone]
      entered == IF (f = first \/ k = 0) /\ ~c.open THEN opened(c, info[t].fname) ELSE c
      switched(d) == IF ~d.short /\ insplit /\ d.last # info[t + 1].fname THEN opened(d, info[t + 1].fname) ELSE d
      read(d) == IF d.short THEN d ELSE [d EXCEPT !.out = Append(@, FrameBytes(files, toc, info, t, k, d.last))]
  IN  IF c.short THEN c ELSE read(switched(entered))
\* Frame f of a read that starts at frame first.  c is [last, open, out, short]: m_lastfile,
\* whether m_file is open, the frames read, and whether a file could not be opened.
CompressorFrame(files, gone, toc, info, first, c, f) ==
  LET t == TrackOf(toc, f)
      k == f - FirstFrame(toc, t)
      track == toc.tracks[t]
      insplit == k >= track.frames - track.splitframes /\ k < track.frames
      opened(d, name) == [d EXCEPT !.last = name, !.open = name \notin gone, !.short = name \in gone]
      entered == IF (f = first \/ k = 0) /\ (~c.open \/ c.last # info[t].fname) THEN opened(c, info[t].fname) ELSE c
      switched(d) == IF ~d.short /\ insplit /\ d.last # info[t + 1].fname THEN opened(d, info[t + 1].fname) ELSE d
      read(d) == IF d.short THEN d ELSE [d EXCEPT !.out = Append(@, FrameBytes(files, toc, info, t, k, d.last))]
  IN  IF c.short THEN c ELSE read(switched(entered))

CompressorRead(files, gone, toc, info, comp, first, count) ==
  Folded(LAMBDA c, k : CompressorFrame(files, gone, toc, info, first, c, first + k),
         [last |-> comp.last, open |-> comp.open, out |-> <<>>, short |-> FALSE], Upto(count))

WriteMetadata_NoMark(toc) ==
  LET gd == "GDROM" \in toc.flags
      record(n) == LET t == toc.tracks[n] IN
        [track |-> n + 1, type |-> GetTypeString(t.trktype), subtype |-> GetSubtypeString(t.subtype), frames |-> t.frames,
         pad |-> IF gd THEN t.padframes ELSE 0, pregap |-> t.pregap, valid |-> FALSE,
         pgtype |-> GetTypeString(t.pgtype), pgsub |-> GetSubtypeString(t.pgsub), postgap |-> t.postgap]
  IN  (IF gd THEN "CHGD" ELSE "CHT2") :> [k \in 1..toc.numtrks |-> record(k - 1)]
WriteMetadata(toc) ==
  LET gd == "GDROM" \in toc.flags
      record(n) == LET t == toc.tracks[n] IN
        [track |-> n + 1, type |-> GetTypeString(t.trktype), subtype |-> GetSubtypeString(t.subtype), frames |-> t.frames,
         pad |-> IF gd THEN t.padframes ELSE 0, pregap |-> t.pregap, valid |-> ~gd /\ t.pgdatasize > 0,
         pgtype |-> GetTypeString(t.pgtype), pgsub |-> GetSubtypeString(t.pgsub), postgap |-> t.postgap]
  IN  (IF gd THEN "CHGD" ELSE "CHT2") :> [k \in 1..toc.numtrks |-> record(k - 1)]

-----------------------------------------------------------------------------
(* Reading: parse_metadata, the constructors and the sector reads *)

LOCAL Tags == <<"CHTR", "CHT2", "CHGT", "CHGD">>
MetaTrack(meta, p, k) ==
  LET has(j) == Tags[j] \in DOMAIN meta /\ k < Len(meta[Tags[j]])
      tag == Tags[CHOOSE j \in 1..4 : has(j) /\ \A i \in 1..(j - 1) : ~has(i)]
      r == meta[tag][k + 1]
      typed == ConvertTypeStringToTrackInfo(r.type, [NoTrack EXCEPT !.subtype = CD_SUB_NONE, !.pgsub = CD_SUB_NONE])
      sub == [ConvertSubtypeStringToTrackInfo(r.subtype, typed) EXCEPT
                !.frames = r.frames, !.padframes = r.pad, !.extraframes = Padding(r.frames), !.pregap = r.pregap, !.postgap = r.postgap]
      gap == IF r.valid THEN ConvertTypeStringToPregapInfo(r.pgtype, sub) ELSE sub
      full == IF r.pregap > 0 THEN ConvertSubtypeStringToPregapInfo(r.pgsub, gap) ELSE sub
      flags == CASE tag = "CHGT" -> {"GDROMLE", "GDROM"} [] tag = "CHGD" -> {"GDROM"} [] OTHER -> {}
  IN  IF p.stop \/ p.err # "NONE" THEN p
      ELSE IF \A j \in 1..4 : ~has(j) THEN [p EXCEPT !.stop = TRUE]
      ELSE IF r.track \notin 1..MAX_TRACKS \/ typed.datasize = 0 THEN Failed(p, "INVALID_DATA")
      ELSE [p EXCEPT !.toc = [@ EXCEPT !.flags = @ \union flags, !.numtrks = k + 1, !.tracks[r.track - 1] = full]]

SwapEndian(x) ==
  ((x % 256) * 256 + ((x \div 256) % 256)) * 65536 + ((x \div 65536) % 256) * 256 + (x \div 16777216)

\* The oldest files have one record of words, in either byte order.
OldMetadata(words) ==
  LET swap == words.numtrks > MAX_TRACKS
      word(x) == IF swap THEN SwapEndian(x) ELSE x
      track(w) == [NoTrack EXCEPT !.trktype = word(w[1]), !.subtype = word(w[2]), !.datasize = word(w[3]),
                                  !.subsize = word(w[4]), !.frames = word(w[5]), !.extraframes = word(w[6])]
  IN  [NoToc EXCEPT !.numtrks = word(words.numtrks), !.numsessions = 1,
                    !.tracks = [t \in DOMAIN @ |-> IF t < Len(words.tracks) THEN track(words.tracks[t + 1]) ELSE NoTrack]]

ParseMetadata(meta) ==
  LET p == Folded(LAMBDA q, k : MetaTrack(meta, q, k),
                  [toc |-> [NoToc EXCEPT !.numsessions = 1], err |-> "NONE", stop |-> FALSE], Upto(MAX_TRACKS))
  IN  IF p.err # "NONE" \/ p.toc.numtrks > 0 THEN [toc |-> p.toc, err |-> p.err]
      ELSE IF "CHCD" \in DOMAIN meta THEN [toc |-> OldMetadata(meta["CHCD"]), err |-> "NONE"]
      ELSE [toc |-> p.toc, err |-> "METADATA_NOT_FOUND"]

\* The first frame of every track: on the disc, among the frames of the tracks, and in
\* the CHD.  A pregap that is in the image moves only the start of its own track.
LOCAL TrackFrames(toc, t) == Folded(LAMBDA s, n : s + toc.tracks[n].frames, 0, Upto(t))
LOCAL Placed(toc, infile, gap(_), after(_)) ==
  LET log(t) == Folded(LAMBDA s, n : s + gap(n) + toc.tracks[n].frames + toc.tracks[n].postgap + after(n), 0, Upto(t))
      of(t, track) == [track EXCEPT !.phys = TrackFrames(toc, t), !.chd = IF infile THEN 0 ELSE FirstFrame(toc, t),
                                    !.log = log(t) + IF t = toc.numtrks THEN 0 ELSE IF track.pgdatasize = 0 THEN gap(t) ELSE gap(t) + track.pregap,
                                    !.logframes = IF t = toc.numtrks THEN 0 ELSE track.frames - track.pregap]
  IN  [toc EXCEPT !.tracks = [t \in DOMAIN @ |-> IF t <= toc.numtrks THEN of(t, @[t]) ELSE @[t]]]

LOCAL MissingPregap(track) == IF track.pgdatasize = 0 THEN track.pregap ELSE 0
LayoutChd_NoSpill(toc) ==
  LET l == Placed(toc, FALSE, LAMBDA n : MissingPregap(toc.tracks[n]), LAMBDA n : 0) IN
  [l EXCEPT !.tracks = [t \in DOMAIN @ |-> [l.tracks[t] EXCEPT !.chd = l.tracks[t].phys]]]
LayoutChd(toc) == Placed(toc, FALSE, LAMBDA n : MissingPregap(toc.tracks[n]), LAMBDA n : 0)
LayoutFile(toc, info) ==
  LET multi == "MULTISESSION" \in toc.flags
      leadin(n) == IF multi /\ info[n].leadin # -1 THEN info[n].leadin ELSE 0
      leadout(n) == IF multi /\ info[n].leadout # -1 THEN info[n].leadout ELSE 0
  IN  Placed(toc, TRUE, LAMBDA n : MissingPregap(toc.tracks[n]) + leadin(n), leadout)

\* <<track, CHD frame>> of a frame; past the end it is the frame itself, in track 0.
LOCAL Before(toc, lba, start(_)) == {t \in 0..(toc.numtrks - 1) : lba < start(toc.tracks[t + 1])}
LOCAL First(ts) == CHOOSE t \in ts : \A u \in ts : t <= u
PhysicalToChdLba(toc, lba) ==
  LET ts == Before(toc, lba, LAMBDA track : track.phys) IN
  IF ts = {} THEN <<0, lba>> ELSE LET t == First(ts) IN <<t, lba - toc.tracks[t].phys + toc.tracks[t].chd>>
LogicalToChdLba(toc, lba) ==
  LET ts == Before(toc, lba, LAMBDA track : track.log) IN
  IF ts = {} THEN <<0, lba>> ELSE LET t == First(ts) IN <<t, lba - toc.tracks[t].log + toc.tracks[t].chd>>

\* A disc is [toc, chd], or [toc, info, files] when it is read from the image itself.
\* chd_file::read_bytes fails past the last hunk.
LOCAL ChdBytes(chd, sector, startoffs, length) ==
  LET end == ((Len(chd.frames) + FramesPerHunk - 1) \div FramesPerHunk) * FramesPerHunk IN
  IF sector \notin 0..(end - 1) THEN [ok |-> FALSE, data |-> Blank]
  ELSE [ok |-> TRUE, data |-> IF sector < Len(chd.frames) THEN Part(chd.frames[sector + 1], startoffs, length) ELSE Blank]

ReadPartialSector(d, lba, sector, t, startoffs, length, phys) ==
  LET track == d.toc.tracks[t]
      inchd == "chd" \in DOMAIN d
      at == sector + IF track.pgdatasize # 0 /\ (~phys \/ ~inchd) THEN track.pregap ELSE 0
      read == IF inchd THEN ChdBytes(d.chd, at, startoffs, length)
              ELSE [ok |-> TRUE, data |-> FileBytes(d.files, d.info[t].fname, d.info[t].offset + at * Bytes(track) + startoffs, length)]
      needswap == IF inchd THEN "GDROMLE" \in d.toc.flags /\ track.trktype = CD_TRACK_AUDIO ELSE d.info[t].swap
  IN  IF ~phys /\ track.pgdatasize = 0 /\ lba < track.log THEN [ok |-> TRUE, data |-> Blank]
      ELSE IF needswap /\ startoffs < SECTOR THEN [read EXCEPT !.data = Exchanged(@)] ELSE read

\* <<startoffs, length>> of a supported conversion from the type of a track.
Conversion(datatype, tracktype) ==
  CASE datatype = CD_TRACK_MODE1 /\ tracktype = CD_TRACK_MODE1_RAW -> <<16, 2048>>
    [] datatype = CD_TRACK_MODE1_RAW /\ tracktype = CD_TRACK_MODE1 -> <<0, 2048>>
    [] datatype = CD_TRACK_MODE1 /\ tracktype \in {CD_TRACK_MODE2_FORM1, CD_TRACK_MODE2_RAW} -> <<24, 2048>>
    [] datatype = CD_TRACK_MODE1 /\ tracktype = CD_TRACK_MODE2_FORM_MIX -> <<8, 2048>>
    [] datatype = CD_TRACK_MODE2 /\ tracktype \in {CD_TRACK_MODE1_RAW, CD_TRACK_MODE2_RAW} -> <<16, 2336>>
    [] OTHER -> <<0, 0>>

ReadData(d, lba, datatype, phys) ==
  LET at == IF phys THEN PhysicalToChdLba(d.toc, lba) ELSE LogicalToChdLba(d.toc, lba)
      track == d.toc.tracks[at[1]]
      whole == datatype \in {track.trktype, CD_TRACK_RAW_DONTCARE}
      range == IF whole THEN <<0, track.datasize>> ELSE Conversion(datatype, track.trktype)
  IN  IF range = <<0, 0>> THEN [ok |-> FALSE, data |-> Blank]
      ELSE ReadPartialSector(d, lba, at[2], at[1], range[1], range[2], phys)

ReadSubcode(d, lba, phys) ==
  LET at == IF phys THEN PhysicalToChdLba(d.toc, lba) ELSE LogicalToChdLba(d.toc, lba)
      track == d.toc.tracks[at[1]]
  IN  IF track.subsize = 0 THEN [ok |-> FALSE, data |-> Blank]
      ELSE ReadPartialSector(d, lba, at[2], at[1], track.datasize, track.subsize, phys)

GetTrack(d, frame) == LogicalToChdLba(d.toc, frame)[1]

\* The last index that is not after the frame; an unset one ends the search, and a disc
\* without index marks is all index 1.
GetTrackIndex(d, frame) ==
  LET t == GetTrack(d, frame)
      idx == IF "chd" \in DOMAIN d THEN NoEntry.idx ELSE d.info[t].idx
      offset == frame - d.toc.tracks[t].log
      upto(i) == \A j \in 0..i : idx[j] # -1 /\ offset >= idx[j]
      found == {i \in 0..MAX_INDEX : upto(i)}
      index == IF found = {} THEN 0 ELSE CHOOSE i \in found : \A j \in found : j <= i
  IN  IF idx[index] = -1 THEN 1 ELSE index

-----------------------------------------------------------------------------
(* Extraction: src/cd.rs *)

LOCAL Nonneg(n) == IF n < 0 THEN 0 ELSE n
EmittedFrames(toc, t) == Nonneg(toc.tracks[t].frames - toc.tracks[t].padframes) + toc.tracks[t].splitframes
Locate(toc, t, frame) ==
  LET split == toc.tracks[t].splitframes IN
  IF t > 0 /\ frame < split
  THEN <<t - 1, toc.tracks[t - 1].phys + toc.tracks[t - 1].frames - split + frame>>
  ELSE <<t, toc.tracks[t].phys + frame - split>>
ReadFrame_NoSwap(d, t, frame, swapaudio) ==
  LET at == Locate(d.toc, t, frame) IN ReadData(d, at[2], d.toc.tracks[at[1]].trktype, TRUE)
ReadFrame(d, t, frame, swapaudio) ==
  LET at == Locate(d.toc, t, frame)
      src == d.toc.tracks[at[1]]
      r == ReadData(d, at[2], src.trktype, TRUE)
  IN  IF swapaudio /\ src.trktype = CD_TRACK_AUDIO THEN [r EXCEPT !.data = Exchanged(@)] ELSE r
Emitted(d, t, swapaudio) == [k \in 1..EmittedFrames(d.toc, t) |-> ReadFrame(d, t, k - 1, swapaudio).data]

MsfString(frames) == <<frames \div (75 * 60), (frames \div 75) % 60, frames % 75>>
CueMode(track) ==
  IF track.trktype = CD_TRACK_AUDIO THEN "AUDIO"
  ELSE IF track.trktype \in {CD_TRACK_MODE1, CD_TRACK_MODE1_RAW} THEN IF track.datasize = 2048 THEN "MODE1/2048" ELSE "MODE1/2352"
  ELSE CASE track.datasize = 2048 -> "MODE2/2048" [] track.datasize = 2324 -> "MODE2/2324"
         [] track.datasize = 2336 -> "MODE2/2336" [] OTHER -> "MODE2/2352"
CueTrackLines_NoIndex0(t, track, at) ==
  <<<<"TRACK", t + 1, CueMode(track)>>>>
  \o (IF track.pregap = 0 THEN <<<<"INDEX", 1, MsfString(at)>>>>
      ELSE IF track.pgdatasize = 0 THEN <<<<"PREGAP", MsfString(track.pregap)>>, <<"INDEX", 1, MsfString(at)>>>>
      ELSE <<<<"INDEX", 1, MsfString(at + track.pregap)>>>>)
  \o (IF track.postgap > 0 THEN <<<<"POSTGAP", MsfString(track.postgap)>>>> ELSE <<>>)
CueTrackLines(t, track, at) ==
  <<<<"TRACK", t + 1, CueMode(track)>>>>
  \o (IF track.pregap = 0 THEN <<<<"INDEX", 1, MsfString(at)>>>>
      ELSE IF track.pgdatasize = 0 THEN <<<<"PREGAP", MsfString(track.pregap)>>, <<"INDEX", 1, MsfString(at)>>>>
      ELSE <<<<"INDEX", 0, MsfString(at)>>, <<"INDEX", 1, MsfString(at + track.pregap)>>>>)
  \o (IF track.postgap > 0 THEN <<<<"POSTGAP", MsfString(track.postgap)>>>> ELSE <<>>)

\* One .bin with the sectors of all tracks, and the sheet that describes it.
ExtractToCue(d) ==
  [lines |-> Folded(LAMBDA s, t : s \o CueTrackLines(t, d.toc.tracks[t], TrackFrames(d.toc, t)),
                    <<<<"FILE", "out.bin", "BINARY">>>>, Upto(d.toc.numtrks)),
   bin |-> Folded(LAMBDA s, t : s \o Emitted(d, t, TRUE), <<>>, Upto(d.toc.numtrks)),
   size |-> Folded(LAMBDA s, t : s + EmittedFrames(d.toc, t) * d.toc.tracks[t].datasize, 0, Upto(d.toc.numtrks))]

\* One file per track, and the index of where the tracks start.
OutNames == <<"out01", "out02", "out03", "out04">>
ExtractToGdi(d) ==
  LET tracks == d.toc.tracks
      lba(t) == Folded(LAMBDA s, n : s + EmittedFrames(d.toc, n) + tracks[n].padframes, 0, Upto(t))
      line(t) == <<t + 1, lba(t), IF tracks[t].trktype = CD_TRACK_AUDIO THEN 0 ELSE 4, tracks[t].datasize, OutNames[t + 1], 0>>
  IN  [lines |-> <<<<d.toc.numtrks>>>> \o [k \in 1..d.toc.numtrks |-> line(k - 1)],
       files |-> [k \in 1..d.toc.numtrks |-> Emitted(d, k - 1, d.chd.version > 4)],
       sizes |-> [k \in 1..d.toc.numtrks |-> EmittedFrames(d.toc, k - 1) * tracks[k - 1].datasize]]

\* The user data of a disc with one mode 1 track.
ExtractToIso(d) ==
  IF d.toc.numtrks # 1 \/ d.toc.tracks[0].trktype \notin {CD_TRACK_MODE1, CD_TRACK_MODE1_RAW} THEN <<"UNSUPPORTED_FORMAT">>
  ELSE <<"NONE", [k \in 1..d.toc.tracks[0].frames |-> ReadData(d, d.toc.tracks[0].phys + k - 1, CD_TRACK_MODE1, TRUE).data]>>
=============================================================================
