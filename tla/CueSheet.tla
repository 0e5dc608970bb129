------------------------------ MODULE CueSheet ------------------------------
(***************************************************************************)
(* cdrom_file::parse_cue (lib/util/cdrom.cpp): CDRWIN sheets with one or   *)
(* several files, several sessions, and Redump sheets of GD-ROMs.          *)
(*                                                                         *)
(* A line is the sequence of its tokens: <<"INDEX", 1, <<0, 2, 0>>>>.      *)
(* Lines about a track come after a TRACK line, as in every sheet.         *)
(***************************************************************************)
EXTENDS CdToc

\* Both areas must be announced for a Redump GD-ROM sheet.
IsGdicue(lines) == \A area \in {"SINGLE-DENSITY", "HIGH-DENSITY"} : \E k \in DOMAIN lines : lines[k] = <<"REM", area>>

CueStart(lines) ==
  [toc |-> [NoToc EXCEPT !.flags = IF IsGdicue(lines) THEN {"GDROM"} ELSE {}], info |-> NoInfo, err |-> "NONE",
   gdrom |-> IsGdicue(lines), trknum |-> -1, lastfname |-> "", wav |-> <<0, 0>>, session |-> 0, sessionpregap |-> 0,
   multibin |-> FALSE, leadin |-> -1, area |-> "SINGLE"]

CueRem(p, l) ==
  CASE l[2] = "SESSION" -> [p EXCEPT !.session = l[3] - 1, !.toc.flags = @ \union IF l[3] > 1 THEN {"MULTISESSION"} ELSE {}]
    [] l[2] = "PREGAP" /\ "MULTISESSION" \in p.toc.flags -> [p EXCEPT !.sessionpregap = MsfToFrames(l[3])]
    [] l[2] = "LEAD-OUT" -> [p EXCEPT !.info[p.trknum].leadout = MsfToFrames(l[3])]
    [] l[2] = "LEAD-IN" -> [p EXCEPT !.leadin = MsfToFrames(l[3])]
    [] l[2] = "SINGLE-DENSITY" /\ p.gdrom -> [p EXCEPT !.area = "SINGLE"]
    [] l[2] = "HIGH-DENSITY" /\ p.gdrom -> [p EXCEPT !.area = "HIGH"]
    [] OTHER -> p

CueFile(files, p, l) ==
  LET q == [p EXCEPT !.lastfname = l[2], !.multibin = @ \/ (p.lastfname # "" /\ l[2] # p.lastfname)]
      wav == ParseWavSample(files, l[2])
  IN  CASE l[3] = "BINARY" -> [q EXCEPT !.info[p.trknum + 1].swap = FALSE]
        [] l[3] = "MOTOROLA" -> [q EXCEPT !.info[p.trknum + 1].swap = TRUE]
        [] l[3] = "WAVE" -> IF wav[1] = 0 THEN Failed(q, "INVALID_DATA") ELSE [q EXCEPT !.wav = wav]
        [] OTHER -> Failed(q, "UNSUPPORTED_FORMAT")

\* The pregap of a session counts with the lead-in of its first track.
CueTrack(p, l) ==
  LET n == l[2] - 1
      old == p.toc.tracks[n]
      fresh == [old EXCEPT !.session = p.session, !.subtype = CD_SUB_NONE, !.subsize = 0, !.pgsub = CD_SUB_NONE,
                           !.pregap = 0, !.padframes = 0, !.datasize = 0, !.area = p.area,
                           !.frames = IF p.wav[1] # 0 THEN p.wav[1] \div SECTOR ELSE @]
      typed == ConvertTypeStringToTrackInfo(l[3], fresh)
      sub == IF Len(l) > 3 THEN ConvertSubtypeStringToTrackInfo(l[4], typed) ELSE typed
      leadin == IF p.sessionpregap = 0 THEN p.leadin
                ELSE IF p.leadin = -1 THEN p.sessionpregap ELSE p.leadin + p.sessionpregap
      entry == [NoEntry EXCEPT !.swap = p.info[n].swap, !.fname = p.lastfname, !.leadin = leadin, !.offset = p.wav[2]]
  IN  IF typed.datasize = 0 THEN Failed(p, "UNSUPPORTED_FORMAT")
      ELSE [p EXCEPT !.trknum = n, !.toc.tracks[n] = sub, !.info[n] = entry,
                     !.leadin = -1, !.sessionpregap = 0, !.wav = <<0, 0>>]

CueIndex(p, l) ==
  LET n == p.trknum
      at == MsfToFrames(l[3])
      q == [p EXCEPT !.info[n].idx[l[2]] = at]
      t == p.toc.tracks[n]
      zero == p.info[n].idx[0]
  IN  IF l[2] \notin 0..MAX_INDEX THEN Failed(p, "INVALID_DATA")
      ELSE IF l[2] # 1 THEN q
      ELSE IF t.pregap = 0 /\ zero # -1
      THEN [q EXCEPT !.toc.tracks[n] = [t EXCEPT !.pregap = at - zero, !.pgtype = t.trktype, !.pgdatasize = t.datasize]]
      ELSE IF zero = -1 THEN [q EXCEPT !.info[n].idx[0] = at]
      ELSE q

CueFlags == ("DCP" :> "COPY") @@ ("4CH" :> "4CH") @@ ("PRE" :> "PREEMPHASIS")

CueLine(files, p, l) ==
  IF p.err # "NONE" THEN p
  ELSE CASE l[1] = "REM" -> CueRem(p, l)
         [] l[1] = "FILE" -> CueFile(files, p, l)
         [] l[1] = "TRACK" -> CueTrack(p, l)
         [] l[1] = "INDEX" -> CueIndex(p, l)
         [] l[1] = "PREGAP" -> [p EXCEPT !.toc.tracks[p.trknum].pregap = MsfToFrames(l[2])]
         [] l[1] = "POSTGAP" -> [p EXCEPT !.toc.tracks[p.trknum].postgap = MsfToFrames(l[2])]
         [] l[1] = "FLAGS" -> [p EXCEPT !.toc.tracks[p.trknum].control = {CueFlags[f] : f \in DOMAIN CueFlags \intersect l[2]}]
         [] OTHER -> p

\* Length and offset of track n: to the end of its file, to the next track in it, or
\* the whole file.  A WAV track has them already.
CueLength(files, p, n) ==
  LET t == p.toc.tracks[n]
      e == p.info[n]
      before == p.toc.tracks[n - 1]
      follow == p.info[n - 1].offset + before.frames * Bytes(before)
      tlen == GetFileSize(files, e.fname)
      sized(offset, frames) == [p EXCEPT !.info[n].offset = offset, !.toc.tracks[n].frames = frames]
      samelast == n + 1 >= p.toc.numtrks /\ n > 0 /\ e.fname = p.info[n - 1].fname
      samenext == n + 1 < p.toc.numtrks /\ e.fname = p.info[n + 1].fname
      upto == p.info[n + 1].idx[0] - e.idx[0]
  IN  IF samelast
      THEN IF tlen = 0 THEN Failed(p, "NO_SUCH_FILE") ELSE sized(follow, (tlen - follow) \div Bytes(t))
      ELSE IF samenext
      THEN IF upto = 0 THEN Failed(p, "INVALID_DATA") ELSE sized(IF n > 0 THEN follow ELSE e.offset, upto)
      ELSE IF t.frames # 0 THEN p
      ELSE IF tlen = 0 THEN Failed(p, "NO_SUCH_FILE") ELSE sized(0, tlen \div Bytes(t))

\* Sessions in files of their own get standard lead-outs and lead-ins.
CueSessionGaps(p, n) ==
  LET t == p.toc.tracks[n]
      changes(m) == t.session # p.toc.tracks[m].session
      leadout == IF p.info[n].leadout = -1 /\ n + 1 < p.toc.numtrks /\ changes(n + 1)
                 THEN IF t.session = 0 THEN 6750 ELSE 2250 ELSE p.info[n].leadout
      leadin == IF p.info[n].leadin = -1 /\ n > 0 /\ changes(n - 1) THEN 4500 ELSE p.info[n].leadin
  IN  [p EXCEPT !.info[n].leadout = leadout, !.info[n].leadin = leadin]

\* In one file, a lead-out cuts its track short and the next track starts after it.
CueTrim(p, n) ==
  LET out == p.info[n].leadout
      end == out - p.info[n].idx[0]
  IN  IF out = -1 \/ end < 0 \/ p.toc.tracks[n].frames < end THEN p
      ELSE [p EXCEPT !.toc.tracks[n].frames = end,
                     !.info[n].leadout = IF n + 1 < p.toc.numtrks THEN p.info[n + 1].idx[0] - out ELSE @]
CueSkipLeadout(p, n) ==
  LET out == p.info[n - 1].leadout IN
  IF n = 0 \/ out = -1 \/ p.info[n - 1].fname \in ImgNames THEN p
  ELSE [p EXCEPT !.toc.tracks[n - 1].padframes = @ + out, !.toc.tracks[n].frames = @ - out,
                 !.info[n].offset = @ + out * Bytes(p.toc.tracks[n])]

CueTrackEnd(files, p, n) ==
  LET swapped == IF p.toc.tracks[n].trktype = CD_TRACK_AUDIO THEN [p EXCEPT !.info[n].swap = TRUE] ELSE p
      sessions(q) == IF q.err # "NONE" \/ "MULTISESSION" \notin q.toc.flags THEN q
                     ELSE IF q.multibin THEN CueSessionGaps(q, n) ELSE CueSkipLeadout(CueTrim(q, n), n)
  IN  IF p.err # "NONE" THEN p
      ELSE IF p.info[n].idx[1] = -1 THEN Failed(p, "INVALID_DATA")
      ELSE IF p.info[n].offset # 0 THEN swapped
      ELSE sessions(CueLength(files, swapped, n))

\* Redump tracks hold their pregap, TOSEC tracks that of the next: it moves to the end
\* of the track before.
GdStripPregap(p, n) ==
  LET gap == p.toc.tracks[n].pregap IN
  [p EXCEPT !.toc.tracks[n - 1] = [@ EXCEPT !.frames = @ + gap, !.splitframes = @ + gap],
            !.toc.tracks[n] = [@ EXCEPT !.frames = @ - gap, !.pregap = 0, !.pgtype = 0],
            !.info[n] = [@ EXCEPT !.offset = @ + gap * Bytes(p.toc.tracks[n]), !.idx[1] = @ - gap]]

GdPlace(p, n) ==
  LET a == p.toc.tracks[n - 1]
      dif == HighDensity - (a.frames + a.phys)
  IN  IF p.toc.tracks[n].area = "HIGH" /\ a.area = "SINGLE"
      THEN [p EXCEPT !.toc.tracks[n].phys = HighDensity,
                     !.toc.tracks[n - 1] = [a EXCEPT !.frames = @ + dif, !.padframes = dif]]
      ELSE [p EXCEPT !.toc.tracks[n].phys = a.phys + a.frames]

ParseCue(files, lines) ==
  LET ended(p) == [p EXCEPT !.toc.numtrks = p.trknum + 1, !.toc.numsessions = p.session + 1]
      lengths(p) == Folded(LAMBDA q, n : CueTrackEnd(files, q, n), p, IF p.err = "NONE" THEN Upto(p.toc.numtrks) ELSE <<>>)
      later(p) == IF p.gdrom /\ p.err = "NONE" THEN Tail(Upto(p.toc.numtrks)) ELSE <<>>
      placed(p) == Folded(GdPlace, Folded(GdStripPregap, p, later(p)), later(p))
  IN  placed(lengths(ended(Folded(LAMBDA p, l : CueLine(files, p, l), CueStart(lines), lines))))
=============================================================================
