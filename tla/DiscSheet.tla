----------------------------- MODULE DiscSheet -----------------------------
(***************************************************************************)
(* The other parsers of lib/util/cdrom.cpp and parse_toc, which chooses by *)
(* the extension: Sega GDI, Nero NRG, ISO and cdrdao TOC.                  *)
(*                                                                         *)
(* A disc image is [ext, name, lines]; the lines of an NRG file are its    *)
(* chunks, an ISO has none.                                                *)
(***************************************************************************)
EXTENDS CueSheet

-----------------------------------------------------------------------------
(* parse_gdi *)

UnclosedQuote == "unclosed"    \* a file name whose opening quote is never closed
LOCAL Token(l, k) == IF k <= Len(l) THEN l[k] ELSE 0

GdiType(trktype, trksize) ==
  CASE trktype = 4 /\ trksize = 2352 -> <<CD_TRACK_MODE1_RAW, 2352>>
    [] trktype = 4 /\ trksize = 2048 -> <<CD_TRACK_MODE1, 2048>>
    [] trktype = 0 -> <<CD_TRACK_AUDIO, 2352>>
    [] OTHER -> <<0, 0>>

\* The track before is padded up to the start of this one.
GdiTrack(files, p, l) ==
  LET n == l[1] - 1
      type == GdiType(Token(l, 3), Token(l, 4))
      lba == Token(l, 2)
      known == p.toc.tracks[n].datasize # 0
      track == [p.toc.tracks[n] EXCEPT
                  !.trktype = type[1], !.datasize = type[2], !.subtype = CD_SUB_NONE, !.subsize = 0, !.pgsub = CD_SUB_NONE,
                  !.phys = lba, !.frames = GetFileSize(files, l[5]) \div l[4], !.padframes = 0]
      dif == lba - (p.toc.tracks[n - 1].frames + p.toc.tracks[n - 1].phys)
      padded == IF n = 0 THEN p.toc.tracks
                ELSE [p.toc.tracks EXCEPT ![n - 1] = [@ EXCEPT !.frames = @ + dif, !.padframes = dif]]
  IN  IF \/ p.err # "NONE"
         \/ n \notin 0..(p.expected - 1)
         \/ type[2] = 0 \/ Token(l, 5) = UnclosedQuote
         \/ Len(l) # 6
      THEN Failed(p, "INVALID_DATA")
      ELSE [p EXCEPT !.trackcnt = IF known THEN @ ELSE @ + 1,
                     !.toc.tracks = [padded EXCEPT ![n] = track],
                     !.info[n] = [@ EXCEPT !.swap = type[1] = CD_TRACK_AUDIO, !.offset = 0, !.fname = l[5]]]

\* Every track that was announced must have been described.
GdiDone(p, n) ==
  IF p.err # "NONE" THEN p
  ELSE IF p.trackcnt # n \/ \E t \in 0..(n - 1) : p.toc.tracks[t].datasize = 0 THEN Failed(p, "INVALID_DATA")
  ELSE [p EXCEPT !.toc.numtrks = n, !.toc.numsessions = 1]

ParseGdi(files, lines) ==
  LET n == lines[1][1]
      start == [toc |-> [NoToc EXCEPT !.flags = {"GDROM"}], info |-> NoInfo, err |-> "NONE", expected |-> n, trackcnt |-> 0]
      nonempty == SelectSeq(Tail(lines), LAMBDA l : l # <<>>)
  IN  IF lines = <<>> \/ n = 0 \/ n - 1 > MAX_TRACKS THEN Failed(Cleared, "INVALID_DATA")
      ELSE GdiDone(Folded(LAMBDA p, l : GdiTrack(files, p, l), start, nonempty), n)

-----------------------------------------------------------------------------
(* parse_nero and parse_iso *)

NeroModes == (0 :> CD_TRACK_MODE1) @@ (1536 :> CD_TRACK_MODE2_RAW) @@ (1792 :> CD_TRACK_AUDIO)

\* d is a track of the DAOX chunk, p.offset where the data of this track starts.
NeroTrack(name, p, d) ==
  LET gap == d.index1 - d.index0
      track == [NoTrack EXCEPT !.trktype = NeroModes[d.mode], !.datasize = d.size, !.subtype = CD_SUB_NONE, !.pgsub = CD_SUB_NONE,
                               !.pregap = gap \div d.size, !.frames = (d.end - d.index1) \div d.size]
      entry == [NoEntry EXCEPT !.fname = name, !.offset = p.offset + gap, !.idx[0] = 0, !.idx[1] = 0,
                               !.swap = NeroModes[d.mode] = CD_TRACK_AUDIO]
  IN  IF p.err # "NONE" THEN p
      ELSE IF d.mode \notin DOMAIN NeroModes THEN Failed(p, "UNSUPPORTED_FORMAT")
      ELSE [p EXCEPT !.toc.tracks[d.track - 1] = track, !.info[d.track - 1] = entry, !.offset = @ + d.end - d.index1]

NeroChunk(name, p, c) ==
  IF c.id # "DAOX" \/ p.err # "NONE" THEN p
  ELSE Folded(LAMBDA q, d : NeroTrack(name, q, d), [p EXCEPT !.toc.numtrks = Len(c.tracks), !.offset = 0], c.tracks)

\* The chain of chunks is followed up to "END!".
ParseNero(name, image) ==
  LET start == [toc |-> [NoToc EXCEPT !.numsessions = 1], info |-> NoInfo, err |-> "NONE", offset |-> 0] IN
  IF image.id # "NER5" \/ image.large THEN Failed(Cleared, "UNSUPPORTED_FORMAT")
  ELSE Folded(LAMBDA p, c : NeroChunk(name, p, c), start, image.chunks)

ParseIso(files, name) ==
  LET size == GetFileSize(files, name)
      fits == <<<<CD_TRACK_MODE1, 2048>>, <<CD_TRACK_MODE2, 2336>>, <<CD_TRACK_MODE2_RAW, 2352>>>>
      k == CHOOSE j \in 1..3 : size % fits[j][2] = 0 /\ \A i \in 1..(j - 1) : size % fits[i][2] # 0
      track == [NoTrack EXCEPT !.trktype = fits[k][1], !.datasize = fits[k][2], !.frames = size \div fits[k][2],
                               !.subtype = CD_SUB_NONE, !.pgsub = CD_SUB_NONE]
  IN  IF \A j \in 1..3 : size % fits[j][2] # 0 THEN Failed(Cleared, "UNSUPPORTED_FORMAT")
      ELSE [toc |-> [NoToc EXCEPT !.numtrks = 1, !.numsessions = 1, !.tracks[0] = track],
            info |-> [NoInfo EXCEPT ![0] = [NoEntry EXCEPT !.fname = name, !.idx[0] = 0, !.idx[1] = 0]], err |-> "NONE"]

-----------------------------------------------------------------------------
(* parse_toc *)

TocTrack(p, l) ==
  LET n == p.trknum + 1
      fresh == [p.toc.tracks[n] EXCEPT !.trktype = CD_TRACK_MODE1, !.datasize = 0, !.subtype = CD_SUB_NONE, !.subsize = 0,
                                       !.pgsub = CD_SUB_NONE, !.padframes = 0]
      typed == ConvertTypeStringToTrackInfo(l[2], fresh)
      sub == IF Len(l) > 2 THEN ConvertSubtypeStringToTrackInfo(l[3], typed) ELSE typed
  IN  IF typed.datasize = 0 THEN Failed(p, "UNSUPPORTED_FORMAT")
      ELSE [p EXCEPT !.trknum = n, !.toc.tracks[n] = sub]

\* After the name and SWAP come an offset in bytes (<<"#", n>>) or a time, then a length,
\* or one more offset and the length.  The first track may have its length alone.
TocFile(p, l) ==
  LET n == p.trknum
      bytes == Bytes(p.toc.tracks[n])
      swap == Len(l) > 2 /\ l[3] = <<"SWAP">>
      rest == SubSeq(l, IF swap THEN 4 ELSE 3, Len(l))
      istime(k) == k <= Len(rest) /\ rest[k][1] # "#"
      time(k) == MsfToFrames(rest[k][2])
      offset == IF istime(1) THEN time(1) * bytes ELSE IF rest # <<>> THEN rest[1][2] ELSE 0
      lone == ~istime(2) /\ n = 0 /\ offset # 0
      more == istime(2) /\ istime(3)
      frames == IF more THEN time(3) ELSE IF istime(2) THEN time(2) ELSE IF lone THEN offset \div bytes ELSE 0
  IN  [p EXCEPT !.info[n] = [@ EXCEPT !.fname = l[2], !.swap = swap,
                                      !.offset = IF lone THEN 0 ELSE IF more THEN offset + time(2) * bytes ELSE offset],
                !.toc.tracks[n].frames = frames]

LOCAL Control(p, on, flag) ==
  [p EXCEPT !.toc.tracks[p.trknum].control = IF on THEN @ \union {flag} ELSE @ \ {flag}]

TocLine(p, l) ==
  IF p.err # "NONE" THEN p
  ELSE CASE l[1] = "NO" -> Control(p, FALSE, IF l[2] = "COPY" THEN "COPY" ELSE "PREEMPHASIS")
         [] l[1] = "COPY" -> Control(p, TRUE, "COPY")
         [] l[1] = "PRE_EMPHASIS" -> Control(p, TRUE, "PREEMPHASIS")
         [] l[1] = "TWO_CHANNEL_AUDIO" -> Control(p, FALSE, "4CH")
         [] l[1] = "FOUR_CHANNEL_AUDIO" -> Control(p, TRUE, "4CH")
         [] l[1] \in {"DATAFILE", "AUDIOFILE", "FILE"} -> TocFile(p, l)
         [] l[1] = "TRACK" -> TocTrack(p, l)
         [] l[1] = "START" -> [p EXCEPT !.toc.tracks[p.trknum].pregap = MsfToFrames(l[2])]
         [] OTHER -> p

ParseCdrdao(lines) ==
  LET start == [toc |-> NoToc, info |-> NoInfo, err |-> "NONE", trknum |-> -1]
      ended(p) == [p EXCEPT !.toc.numtrks = p.trknum + 1, !.toc.numsessions = 1]
  IN  ended(Folded(TocLine, start, lines))

\* A sheet that cannot be opened leaves the table of contents alone.
ParseToc(files, image) ==
  LET p == CASE image.ext = "gdi" -> ParseGdi(files, image.lines)
             [] image.ext = "cue" -> ParseCue(files, image.lines)
             [] image.ext = "nrg" -> ParseNero(image.name, image.lines)
             [] image.ext \in {"iso", "cdr", "toast"} -> ParseIso(files, image.name)
             [] OTHER -> ParseCdrdao(image.lines)
  IN  IF image.name \notin DOMAIN files THEN Failed(Cleared, "NO_SUCH_FILE")
      ELSE [toc |-> p.toc, info |-> p.info, err |-> p.err]
=============================================================================
