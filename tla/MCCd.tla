-------------------------------- MODULE MCCd --------------------------------
EXTENDS Cd

LOCAL File(size) == [size |-> size, riff |-> FALSE, chunks |-> <<>>]
LOCAL Wav(format, frames) ==
  [size |-> 56 + frames * SECTOR, riff |-> TRUE,
   chunks |-> <<[id |-> "fmt ", length |-> 16, format |-> format], [id |-> "LIST", length |-> 4],
                [id |-> "data", length |-> frames * SECTOR]>>]
LOCAL CdAudio == <<1, 2, 44100, 16>>
LOCAL Sheet(ext, lines, files) == [name |-> "sheet", ext |-> ext, lines |-> lines, files |-> files @@ ("sheet" :> File(1))]
LOCAL At(n) == <<0, 0, n>>
LOCAL Raw == SECTOR
LOCAL Bin(lines) == <<<<"FILE", "a.bin", "BINARY">>>> \o lines

\* One .bin: a pregap in the file, one that is not, a postgap, subcode.
LOCAL OneBin ==
  Sheet("cue", Bin(<<<<"TRACK", 1, "MODE1/2352">>, <<"FLAGS", {"DCP"}>>, <<"INDEX", 1, At(0)>>, <<"POSTGAP", At(1)>>,
                     <<"TRACK", 2, "AUDIO">>, <<"INDEX", 0, At(3)>>, <<"INDEX", 1, At(4)>>,
                     <<"TRACK", 3, "AUDIO">>, <<"PREGAP", At(2)>>, <<"INDEX", 1, At(6)>>>>), "a.bin" :> File(7 * Raw))
LOCAL Subcode ==
  Sheet("cue", Bin(<<<<"TRACK", 1, "MODE2/2352", "RW_RAW">>, <<"INDEX", 1, At(0)>>>>), "a.bin" :> File(2 * (Raw + 96)))
LOCAL ManyFiles ==
  Sheet("cue", Bin(<<<<"TRACK", 1, "MODE2/2336">>, <<"INDEX", 1, At(0)>>, <<"FILE", "b.wav", "WAVE">>, <<"TRACK", 2, "AUDIO">>,
                     <<"INDEX", 1, At(0)>>, <<"FILE", "c.bin", "MOTOROLA">>, <<"TRACK", 3, "AUDIO">>, <<"INDEX", 0, At(0)>>,
                     <<"INDEX", 1, At(2)>>>>),
        ("a.bin" :> File(2 * 2336)) @@ ("b.wav" :> Wav(CdAudio, 2)) @@ ("c.bin" :> File(3 * Raw)))

\* Two sessions, in two files and in one.
LOCAL Sessions(second) ==
  <<<<"REM", "SESSION", 1>>, <<"TRACK", 1, "AUDIO">>, <<"INDEX", 1, At(0)>>>>
  \o second \o <<<<"REM", "PREGAP", At(2)>>, <<"TRACK", 2, "MODE1/2048">>>>
LOCAL TwoFiles ==
  Sheet("cue", Bin(Sessions(<<<<"REM", "SESSION", 2>>, <<"FILE", "b.bin", "BINARY">>>>) \o <<<<"INDEX", 1, At(0)>>>>),
        ("a.bin" :> File(2 * Raw)) @@ ("b.bin" :> File(2 * 2048)))
LOCAL LeadOut(name) ==
  Sheet("cue", <<<<"FILE", name, "BINARY">>, <<"REM", "SESSION", 1>>, <<"TRACK", 1, "AUDIO">>, <<"INDEX", 1, At(0)>>,
                 <<"REM", "LEAD-OUT", At(3)>>, <<"REM", "SESSION", 2>>, <<"REM", "LEAD-IN", At(1)>>, <<"REM", "PREGAP", At(1)>>,
                 <<"TRACK", 2, "MODE1/2352">>, <<"INDEX", 1, At(5)>>>>, name :> File(7 * Raw))

\* A GD-ROM as a Redump sheet and as a TOSEC one.
LOCAL GdFile(k) == <<"gd1", "gd2", "gd3">>[k]
LOCAL Gdrom ==
  Sheet("cue", <<<<"REM", "SINGLE-DENSITY">>, <<"FILE", "gd1", "BINARY">>, <<"TRACK", 1, "MODE1/2352">>, <<"INDEX", 1, At(0)>>,
                 <<"FILE", "gd2", "BINARY">>, <<"TRACK", 2, "AUDIO">>, <<"INDEX", 0, At(0)>>, <<"INDEX", 1, At(1)>>,
                 <<"REM", "HIGH-DENSITY">>, <<"FILE", "gd3", "BINARY">>, <<"TRACK", 3, "MODE1/2352">>, <<"INDEX", 1, At(0)>>>>,
        [f \in {"gd1", "gd2", "gd3"} |-> File(3 * Raw)])
LOCAL Gdi(n, second, third) ==
  Sheet("gdi", <<<<n>>, <<1, 0, 4, 2352, "gd1", 0>>, second, <<>>, third>>, [f \in {"gd1", "gd2", "gd3"} |-> File(2 * Raw)])

LOCAL Iso(size) == [name |-> "sheet", ext |-> "iso", lines |-> <<>>, files |-> "sheet" :> File(size)]
LOCAL Toc ==
  Sheet("toc", <<<<"CD_ROM">>, <<"TRACK", "MODE1_RAW">>, <<"COPY">>, <<"DATAFILE", "a.bin", <<"time", At(3)>>>>,
                 <<"TRACK", "AUDIO", "RW">>, <<"NO", "COPY">>, <<"PRE_EMPHASIS">>, <<"TWO_CHANNEL_AUDIO">>,
                 <<"FILE", "b.bin", <<"SWAP">>, <<"time", At(0)>>, <<"time", At(2)>>>>, <<"START", At(1)>>,
                 <<"TRACK", "AUDIO">>, <<"FOUR_CHANNEL_AUDIO">>, <<"NO", "PRE_EMPHASIS">>,
                 <<"AUDIOFILE", "c.bin", <<"#", Raw>>, <<"time", At(1)>>, <<"time", At(1)>>>>>>,
        ("a.bin" :> File(3 * Raw)) @@ ("b.bin" :> File(2 * (Raw + 96))) @@ ("c.bin" :> File(3 * Raw)))
LOCAL Nero(id, mode) ==
  Sheet("nrg", [id |-> id, large |-> FALSE,
                chunks |-> <<[id |-> "CUEX"], [id |-> "DAOX",
                   tracks |-> <<[track |-> 1, mode |-> mode, size |-> 2048, index0 |-> 0, index1 |-> 0, end |-> 4096],
                                [track |-> 2, mode |-> 1792, size |-> Raw, index0 |-> 4096, index1 |-> 4096 + Raw, end |-> 4096 + 3 * Raw]>>]>>],
        <<>>)

LOCAL BadSheets ==
  <<[Sheet("cue", <<>>, <<>>) EXCEPT !.name = "missing"],
    Sheet("cue", Bin(<<<<"TRACK", 1, "AUDIO">>, <<"INDEX", 0, At(0)>>>>), "a.bin" :> File(Raw)),
    Sheet("cue", Bin(<<<<"TRACK", 1, "AUDIO">>, <<"INDEX", 3, At(0)>>>>), "a.bin" :> File(Raw)),
    Sheet("cue", Bin(<<<<"TRACK", 1, "AUDIO">>, <<"INDEX", 1, At(0)>>>>), <<>>),
    Sheet("cue", Bin(<<<<"TRACK", 1, "MODE9/2352">>>>), "a.bin" :> File(Raw)),
    Sheet("cue", <<<<"FILE", "a.mp3", "MP3">>, <<"TRACK", 1, "AUDIO">>>>, <<>>),
    Sheet("cue", <<<<"FILE", "a.wav", "WAVE">>, <<"TRACK", 1, "AUDIO">>>>, "a.wav" :> Wav(<<1, 1, 22050, 8>>, 1)),
    Sheet("cue", Bin(<<<<"TRACK", 1, "AUDIO">>, <<"INDEX", 1, At(0)>>, <<"TRACK", 2, "AUDIO">>, <<"INDEX", 1, At(0)>>>>), "a.bin" :> File(Raw)),
    Gdi(3, <<2, 4, 0, 2352, UnclosedQuote, 0>>, <<>>), Gdi(3, <<2, 4, 7, 2352, "gd2", 0>>, <<>>), Gdi(3, <<2, 4, 0, 2352, "gd2", 0>>, <<>>),
    Gdi(2, <<3, 4, 0, 2352, "gd3", 0>>, <<>>), Gdi(0, <<>>, <<>>), Iso(2047), Nero("NERO", 0), Nero("NER5", 2816),
    Sheet("toc", <<<<"TRACK", "VIDEO">>>>, <<>>), Sheet("toc", <<>>, <<>>)>>

\* CHDs of older versions, with the records they used.
LOCAL Record(track, type, frames, pregap) ==
  [track |-> track, type |-> type, subtype |-> "NONE", frames |-> frames, pad |-> 0, pregap |-> pregap,
   valid |-> FALSE, pgtype |-> "MODE1", pgsub |-> "NONE", postgap |-> 0]
LOCAL OldChd(version, unit, n, size, meta) ==
  [chd |-> [version |-> version, unit |-> unit, meta |-> meta, frames |-> [k \in 1..n |-> Piece("old", (k - 1) * size, size, FALSE)]], files |-> <<>>]
LOCAL Word(x) == SwapEndian(x)
LOCAL OldChds ==
  <<OldChd(3, FRAME_SIZE, 4, 2048, "CHTR" :> <<Record(1, "MODE1", 3, 0)>>),
    OldChd(4, FRAME_SIZE, 8, Raw, "CHGT" :> <<Record(1, "MODE1_RAW", 4, 0), Record(2, "AUDIO", 4, 0)>>),
    OldChd(3, FRAME_SIZE, 4, Raw, "CHCD" :> [numtrks |-> 1, tracks |-> <<<<1, 2, Raw, 0, 4, 0>>>>]),
    OldChd(3, FRAME_SIZE, 4, Raw, "CHCD" :> [numtrks |-> Word(1), tracks |-> <<<<Word(1), Word(2), Word(Raw), 0, Word(4), 0>>>>]),
    OldChd(4, FRAME_SIZE, 4, 2336, "CHTR" :> <<Record(1, "MODE2_FORM_MIX", 4, 0)>>),
    OldChd(3, FRAME_SIZE, 4, Raw, "CHTR" :> <<Record(9, "AUDIO", 4, 0)>>),
    OldChd(3, FRAME_SIZE, 4, Raw, <<>>),
    OldChd(4, 512, 4, 512, "CHTR" :> <<Record(1, "AUDIO", 4, 0)>>)>>

MCImages == <<OneBin, Subcode, ManyFiles, TwoFiles, LeadOut("a.bin"), LeadOut("a.img"), Gdrom,
              Gdi(3, <<2, 3, 0, 2352, "gd2", 0>>, <<3, 12, 4, 2352, "gd3", 0>>),
              Iso(3 * 2048), Iso(2336), Iso(Raw), Toc, Nero("NER5", 0)>> \o BadSheets \o OldChds
=============================================================================
