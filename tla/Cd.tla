--------------------------------- MODULE Cd ---------------------------------
(***************************************************************************)
(* A disc image becomes a CHD and is read again: create_from_cue, the      *)
(* extractors and CdCookedReader of src/cd.rs, over cdrom_file and the     *)
(* CD shim.                                                                *)
(*                                                                         *)
(* Hunks are read in order by one thread, as in the compression pipeline,  *)
(* and come back unchanged from the codecs.  A source file may vanish      *)
(* after the sheet was parsed; one that is open stays readable.            *)
(***************************************************************************)
EXTENDS CdImage

CONSTANTS Images,     \* what a run starts from: a disc image, or a CHD of an older version
          ReadSizes,  \* how much a caller of CdCookedReader asks for
          MaxFaults   \* bound: reads of the CHD that fail, and files that vanish

COOKED == 2048    \* COOKED_MODE1_SIZE

VARIABLES image,    \* [name, ext, lines, files], or [chd, files] for an old CHD
          phase,    \* new, parsed, writing, made, open, failed
          parsed,   \* the table of contents and track inputs
          gone,     \* the source files that vanished
          comp,     \* CdCompressor: m_lastfile, m_file
          chd,
          disc,     \* the cdrom_file over the CHD
          reader,   \* CdCookedReader: track, pos, cache_frame, cache
          result,   \* what the last read returned
          out,      \* what was extracted, and by which function
          faults
vars == <<image, phase, parsed, gone, comp, chd, disc, reader, result, out, faults>>

NoChd == [version |-> 5, unit |-> 0, frames |-> <<>>, meta |-> <<>>]
NoReader == [track |-> -1, pos |-> 0, cached |-> -1, cache |-> Blank]
Torn == [file |-> "torn", at |-> 0, len |-> COOKED, swap |-> FALSE]    \* what a failed read leaves in the buffer
NoResult == [pos |-> -1, len |-> 0, data |-> Blank]

Init == /\ \E k \in DOMAIN Images : image = Images[k]
        /\ phase = IF "chd" \in DOMAIN image THEN "made" ELSE "new"
        /\ chd = IF "chd" \in DOMAIN image THEN image.chd ELSE NoChd
        /\ parsed = Cleared /\ gone = {} /\ comp = [last |-> "", open |-> FALSE]
        /\ disc = <<>> /\ reader = NoReader /\ result = NoResult /\ out = [by |-> "none"] /\ faults = 0

-----------------------------------------------------------------------------
Parse == /\ phase = "new"
         /\ parsed' = ParseToc(image.files, image)
         /\ phase' = IF parsed'.err = "NONE" THEN "parsed" ELSE "failed"
         /\ UNCHANGED <<image, gone, comp, chd, disc, reader, result, out, faults>>

\* pad_tracks, logical_bytes, create_file, write_metadata.
Create == /\ phase = "parsed"
          /\ LET toc == PadTracks(parsed.toc) IN
             /\ parsed' = [parsed EXCEPT !.toc = toc]
             /\ IF LogicalFrames(toc) = 0 THEN phase' = "failed" /\ UNCHANGED chd
                ELSE phase' = "writing" /\ chd' = [version |-> 5, unit |-> FRAME_SIZE, frames |-> <<>>, meta |-> WriteMetadata(toc)]
          /\ UNCHANGED <<image, gone, comp, disc, reader, result, out, faults>>

\* read_data for the next hunk; a short read ends the compression.
Compress ==
  /\ phase = "writing" /\ Len(chd.frames) < LogicalFrames(parsed.toc)
  /\ LET first == Len(chd.frames)
         left == LogicalFrames(parsed.toc) - first
         c == CompressorRead(image.files, gone, parsed.toc, parsed.info, comp, first, IF left < FramesPerHunk THEN left ELSE FramesPerHunk)
     IN  /\ comp' = [last |-> c.last, open |-> c.open]
         /\ IF c.short THEN phase' = "failed" /\ UNCHANGED chd
            ELSE chd' = [chd EXCEPT !.frames = @ \o c.out] /\ UNCHANGED phase
  /\ UNCHANGED <<image, parsed, gone, disc, reader, result, out, faults>>

Finish == /\ phase = "writing" /\ Len(chd.frames) = LogicalFrames(parsed.toc)
          /\ phase' = "made"
          /\ UNCHANGED <<image, parsed, gone, comp, chd, disc, reader, result, out, faults>>

Vanish(f) == /\ phase = "writing" /\ faults < MaxFaults /\ f \notin gone
             /\ gone' = gone \union {f} /\ faults' = faults + 1
             /\ UNCHANGED <<image, phase, parsed, comp, chd, disc, reader, result, out>>

\* Cdrom::open: the unit size first, then cdrom_file's constructor.
OpenDisc == /\ phase = "made"
            /\ LET m == ParseMetadata(chd.meta) IN
               IF chd.unit # FRAME_SIZE \/ m.err # "NONE" THEN phase' = "failed" /\ UNCHANGED disc
               ELSE phase' = "open" /\ disc' = [toc |-> LayoutChd(m.toc), chd |-> chd]
            /\ UNCHANGED <<image, parsed, gone, comp, chd, reader, result, out, faults>>

Extract == /\ phase = "open" /\ out.by = "none" /\ reader = NoReader
           /\ \/ out' = [by |-> "cue", made |-> ExtractToCue(disc)]
              \/ out' = [by |-> "gdi", made |-> ExtractToGdi(disc)]
              \/ out' = [by |-> "iso", made |-> ExtractToIso(disc)]
           /\ UNCHANGED <<image, phase, parsed, gone, comp, chd, disc, reader, result, faults>>

-----------------------------------------------------------------------------
(* CdCookedReader *)

Cookable == {CD_TRACK_MODE1, CD_TRACK_MODE1_RAW, CD_TRACK_MODE2_FORM1, CD_TRACK_MODE2_RAW, CD_TRACK_MODE2_FORM_MIX}
OpenTrack(t) == /\ phase = "open" /\ reader = NoReader /\ out.by = "none"
                /\ t < disc.toc.numtrks /\ disc.toc.tracks[t].trktype \in Cookable
                /\ reader' = [NoReader EXCEPT !.track = t]
                /\ UNCHANGED <<image, phase, parsed, gone, comp, chd, disc, result, out, faults>>

ReaderLen == disc.toc.tracks[reader.track].frames * COOKED
LoadFrame_EarlyMark(frame, fails) ==
  LET r == ReadData(disc, disc.toc.tracks[reader.track].phys + frame, CD_TRACK_MODE1, TRUE) IN
  IF reader.cached = frame THEN [ok |-> TRUE, reader |-> reader]
  ELSE IF fails \/ ~r.ok THEN [ok |-> FALSE, reader |-> [reader EXCEPT !.cached = frame, !.cache = Torn]]
  ELSE [ok |-> TRUE, reader |-> [reader EXCEPT !.cached = frame, !.cache = r.data]]
LoadFrame(frame, fails) ==
  LET r == ReadData(disc, disc.toc.tracks[reader.track].phys + frame, CD_TRACK_MODE1, TRUE) IN
  IF reader.cached = frame THEN [ok |-> TRUE, reader |-> reader]
  ELSE IF fails \/ ~r.ok THEN [ok |-> FALSE, reader |-> [reader EXCEPT !.cached = -1, !.cache = Torn]]
  ELSE [ok |-> TRUE, reader |-> [reader EXCEPT !.cached = frame, !.cache = r.data]]

\* A read stops at the end of its sector and of the track.
Read(n, fails) ==
  /\ reader.track >= 0 /\ reader.pos < ReaderLen
  /\ fails => faults < MaxFaults
  /\ LET off == reader.pos % COOKED
         load == LoadFrame(reader.pos \div COOKED, fails)
         len == IF n < COOKED - off THEN n ELSE COOKED - off
     IN  /\ reader' = [load.reader EXCEPT !.pos = IF load.ok THEN @ + len ELSE @]
         /\ result' = IF load.ok THEN [pos |-> reader.pos, len |-> len, data |-> Part(load.reader.cache, off, len)] ELSE NoResult
         /\ faults' = IF fails /\ ~load.ok THEN faults + 1 ELSE faults
  /\ UNCHANGED <<image, phase, parsed, gone, comp, chd, disc, out>>

Seek(pos) == /\ reader.track >= 0 /\ pos <= ReaderLen /\ pos # reader.pos
             /\ reader' = [reader EXCEPT !.pos = pos] /\ result' = NoResult
             /\ UNCHANGED <<image, phase, parsed, gone, comp, chd, disc, out, faults>>

Next == \/ Parse \/ Create \/ Compress \/ Finish \/ OpenDisc \/ Extract
        \/ \E f \in DOMAIN image.files : Vanish(f)
        \/ \E t \in 0..(MAX_TRACKS - 1) : OpenTrack(t)
        \/ \E n \in ReadSizes, fails \in BOOLEAN : Read(n, fails)
        \/ \E k \in 0..2 : Seek(k * COOKED)
Spec == Init /\ [][Next]_vars

-----------------------------------------------------------------------------
LOCAL Made == phase \in {"made", "open"} /\ "chd" \notin DOMAIN image
LOCAL Tracks(toc) == 0..(toc.numtrks - 1)
LOCAL Sources == {parsed.info[t].fname : t \in Tracks(parsed.toc)}
LOCAL Agree(a, b, fields) == \A f \in fields : a[f] = b[f]

\* Sheets that describe the whole of their files: cue and gdi sheets with one file, or
\* one file for each track, and ISOs.  A LEAD-OUT takes its frames out of the file.
LOCAL Whole ==
  /\ image.ext \in {"cue", "gdi", "iso"}
  /\ Cardinality(Sources) \in {1, parsed.toc.numtrks}
  /\ image.ext = "cue" => \A k \in DOMAIN image.lines : image.lines[k][1] = "REM" => image.lines[k][2] # "LEAD-OUT"

LOCAL Extent(f) ==
  LET wav == ParseWavSample(image.files, f) IN
  IF wav = <<0, 0>> THEN <<0, image.files[f].size>> ELSE <<wav[2], wav[1] + wav[2]>>
\* Pieces that follow one another from the start of f to its end.
LOCAL Tiles(pieces, f, swap) ==
  /\ pieces # <<>> /\ pieces[1].at = Extent(f)[1]
  /\ \A k \in 1..(Len(pieces) - 1) : pieces[k + 1].at = pieces[k].at + pieces[k].len
  /\ pieces[Len(pieces)].at + pieces[Len(pieces)].len = Extent(f)[2]
  /\ \A k \in DOMAIN pieces : pieces[k].swap \in swap
LOCAL Of(pieces, f) == SelectSeq(pieces, LAMBDA p : p.file = f)

\* The frames of a new CHD hold every byte of every source file, once and in order,
\* whatever track a frame was moved to and whichever file was open before.
NothingLost == Made /\ Whole => \A f \in Sources : Tiles(Of(chd.frames, f), f, BOOLEAN)

\* What the metadata keeps of the table of contents comes back from it.
TocSurvives ==
  phase = "open" /\ Made =>
    /\ disc.toc.numtrks = parsed.toc.numtrks
    /\ \A t \in Tracks(parsed.toc) :
         Agree(disc.toc.tracks[t], parsed.toc.tracks[t],
               {"trktype", "subtype", "datasize", "subsize", "frames", "extraframes", "pregap", "postgap"}
               \union IF "GDROM" \in parsed.toc.flags THEN {"padframes"} ELSE {"pgdatasize"})

\* An extracted .bin, .gdi or .iso holds the bytes of the source files in the order of
\* the source, audio as little-endian as it was there.
ExtractedIsSource ==
  Made /\ Whole /\ (\A t \in Tracks(parsed.toc) : parsed.toc.tracks[t].subsize = 0) =>
    CASE out.by = "cue" -> /\ \A f \in Sources : Tiles(Of(out.made.bin, f), f, {FALSE})
                           /\ \A k \in DOMAIN out.made.bin : out.made.bin[k] # Blank
      [] out.by = "gdi" -> image.ext = "gdi" => \A t \in Tracks(parsed.toc) :
                             LET f == parsed.info[t].fname IN Tiles(out.made.files[t + 1], f, {FALSE})
      [] out.by = "iso" -> out.made[1] = "NONE" /\ parsed.toc.tracks[0].datasize = COOKED => Tiles(out.made[2], parsed.info[0].fname, {FALSE})
      [] OTHER -> TRUE

\* The extracted sheet, parsed again, describes the disc it was extracted from: a cue
\* sheet that of a CD, a gdi sheet that of a GD-ROM.
LOCAL OutFile(size) == [size |-> size, riff |-> FALSE, chunks |-> <<>>]
ExtractedSheetParses ==
  LET toc == disc.toc
      same(p, fields) == /\ p.err = "NONE" /\ p.toc.numtrks = toc.numtrks
                         /\ \A t \in Tracks(toc) : /\ Agree(p.toc.tracks[t], toc.tracks[t], fields)
                                                  /\ CueMode(p.toc.tracks[t]) = CueMode(toc.tracks[t])
      gdfiles == [f \in {OutNames[k] : k \in 1..toc.numtrks} |-> OutFile(out.made.sizes[CHOOSE k \in DOMAIN OutNames : OutNames[k] = f])]
  IN  /\ out.by = "cue" /\ "GDROM" \notin toc.flags =>
           same(ParseCue("out.bin" :> OutFile(out.made.size), out.made.lines),
                {"datasize", "frames", "pregap", "postgap", "pgdatasize"})
      /\ out.by = "gdi" /\ "GDROM" \in toc.flags =>
           same(ParseGdi(gdfiles, out.made.lines), {"trktype", "datasize", "frames", "padframes"})

\* Extraction undoes creation: the files and the sheet that come out are those that went
\* in (cd.rs, extract_to_cue, extract_to_gdi, extract_to_iso).
ExtractionTrue == ExtractedIsSource /\ ExtractedSheetParses

\* A sector of a track reads the same from the CHD and from the image it was made of,
\* as a whole, as user data and its subcode; the disc knows which track it is in.  Of a
\* single file with REM LEAD-OUT the last real frames are left out: the lead-out is
\* counted as their padding (cdrom.cpp:2769), and CdCompressor stores zeros for padding
\* (cd_shim.cpp:91).
SameDisc ==
  LET toc == LayoutFile(parsed.toc, parsed.info)
      source == [toc |-> toc, info |-> parsed.info, files |-> image.files]
      body(t) == 0..(toc.tracks[t].logframes - toc.tracks[t].padframes - toc.tracks[t].splitframes - 1)
  IN  phase = "open" /\ Made =>
        \A t \in Tracks(toc) : \A k \in body(t), type \in {CD_TRACK_RAW_DONTCARE, CD_TRACK_MODE1, CD_TRACK_MODE2} :
          LET lba == disc.toc.tracks[t].log + k IN
          /\ ReadData(disc, lba, type, FALSE) = ReadData(source, toc.tracks[t].log + k, type, FALSE)
          /\ ReadSubcode(disc, lba, FALSE) = ReadSubcode(source, toc.tracks[t].log + k, FALSE)
          /\ GetTrack(disc, lba) = t /\ GetTrackIndex(disc, lba) = 1

\* What CdCookedReader returns is the user data at its position, after failed reads and
\* seeks as well.
LOCAL UserOffset == (CD_TRACK_MODE1 :> 0) @@ (CD_TRACK_MODE1_RAW :> 16) @@ (CD_TRACK_MODE2_RAW :> 24) @@ (CD_TRACK_MODE2_FORM_MIX :> 8)
ReaderFaithful ==
  result.pos >= 0 =>
    LET track == disc.toc.tracks[reader.track]
        held == chd.frames[FirstFrame(disc.toc, reader.track) + result.pos \div COOKED + 1]
    IN  result.data = Part(held, UserOffset[track.trktype] + (result.pos % COOKED), result.len)

\* Whoever reads the disc gets it: sector by sector through cdrom_file, and as a stream
\* through CdCookedReader.
ReadsTrue == SameDisc /\ ReaderFaithful
=============================================================================
