------------------------------ MODULE ReadPipe ------------------------------
(***************************************************************************)
(* Reading and decoding a file: format/detector.h, the container readers   *)
(* of format/, the decoders of acodec/ and what they use of                *)
(* acodec/alib3-bridge/, between core/file-read.h and the interface.       *)
(*                                                                         *)
(* A file is Hdrs header units followed by packets of S samples; each read *)
(* returns one unit.  Samples are numbered from 1 and travel as sequences; *)
(* the position a filter believes it is at (audio.pos, from 0) is kept     *)
(* apart from the samples themselves.  The container and codec libraries   *)
(* (avpack, alib3) are external: Lib says what a reader gets from them.    *)
(***************************************************************************)
EXTENDS ChainOps, FiniteSets

CONSTANTS
  S,          \* samples of a packet
  P,          \* packets of a complete file
  PageLen,    \* packets of an Ogg page
  PerMsec,    \* samples per unit of time a seek is given in
  DETECT_FRAMES,
  Targets,    \* times the user seeks to
  MaxSeeks,
  CdPerSec,   \* CD frames of a second; a frame is a unit of time here
  Cues,       \* parts of a file, <<first frame, end>>, that are tracks of a cue sheet
  Untils      \* values of -until; 0: none

ReadAssumptions ==
  /\ {S, P, PageLen, PerMsec, DETECT_FRAMES, CdPerSec} \subseteq Nat \ {0}
  /\ Cues \subseteq Nat \X Nat /\ Untils \subseteq Nat
  /\ Targets \subseteq Nat /\ MaxSeeks \in Nat
  /\ \A x \in Targets : x * PerMsec < P * S - 1

VARIABLES
  file,   \* [cont, codec, units, id3, ext, info, cue]: the file; phi_track_conf:
          \* info_only, seek_cdframes and until_cdframes
  conv,   \* the conveyor
  trk,    \* phi_track: audio.seek, .seek_req, .pos, .total, format.rate, input.seek,
          \* oaudio.clear, conf.until_msec
  filt,   \* the objects of the filters
  heard,  \* what came out: samples, and Mark(x) for each seek asked for
  asked   \* seeks the user made

readVars == <<file, conv, trk, filt, heard, asked>>

None == [k |-> "none", s |-> <<>>]
Mark(x) == -x - 1

Kinds == {<<"mp3", "mpeg">>, <<"flac", "flac">>, <<"wav", "none">>, <<"ape", "ape">>,
          <<"wv", "wavpack">>, <<"mp4", "aac">>, <<"mp4", "alac">>, <<"ogg", "opus">>,
          <<"ogg", "vorbis">>, <<"ogg", "flac">>, <<"aac", "aac">>, <<"mpc", "mpc">>,
          <<"caf", "alac">>, <<"avi", "mpeg">>, <<"mkv", "aac">>, <<"mkv", "vorbis">>}

Drop(s, n) == SubSeq(s, n + 1, Len(s))
Take(s, n) == SubSeq(s, 1, n)
Least(a, b) == IF a < b THEN a ELSE b
Most(a, b) == IF a > b THEN a ELSE b

\* msec_to_samples, samples_to_msec.
ToSamples(msec) == msec * PerMsec
ToMsec(samples) == samples \div PerMsec

\* Header units of the file; samples the encoder put before and after.
Hdrs == CASE file.cont = "wv" -> 0
          [] file.cont = "ogg" /\ file.codec = "vorbis" -> 3
          [] file.cont = "ogg" -> 2
          [] OTHER -> 1
Delay == IF <<file.cont, file.codec>> \in {<<"mp3", "mpeg">>, <<"mp4", "aac">>, <<"ogg", "opus">>}
         THEN 1 ELSE 0
Padding == IF <<file.cont, file.codec>> \in {<<"mp3", "mpeg">>, <<"mp4", "aac">>, <<"ogg", "opus">>,
                                             <<"ogg", "vorbis">>, <<"mp4", "alac">>} THEN 1 ELSE 0
Total == P * S - Delay - Padding

Unit(u) ==
  CASE u > file.units -> None
    [] u <= Hdrs -> [k |-> "file", s |-> <<-u>>]
    [] OTHER -> [k |-> "file", s |-> [i \in 1..S |-> (u - Hdrs - 1) * S + i]]

-----------------------------------------------------------------------------
(* File input and format detection.                                        *)

\* Mutant: the end of the file is not looked for.
FrProcessForever(c) ==
  LET off == IF c.t.iseek # 0 THEN c.t.iseek ELSE c.f.off
      d == Unit(off)
  IN Ret([c EXCEPT !.t.iseek = 0, !.f.off = IF d = None THEN off ELSE off + 1, !.f.eof = d = None], "DATA", d)

\* fr_process.
FrProcess(c) ==
  LET off == IF c.t.iseek # 0 THEN c.t.iseek ELSE c.f.off
      d == Unit(off)
      a == [c EXCEPT !.t.iseek = 0, !.f.off = IF d = None THEN off ELSE off + 1, !.f.eof = d = None]
  IN IF c.f.eof /\ d = None THEN Ret(a, "DONE", None) ELSE Ret(a, "DATA", d)

\* Some formats have no signature; an ID3 tag may stand before two of them.
FileFormatDetect ==
  CASE file.id3 -> "id3" [] file.cont \in {"ape", "aac", "mpc"} -> "unk" [] OTHER -> file.cont

\* The header, or else the name, says which reader to use.
Detected ==
  CASE FileFormatDetect = "unk" -> file.ext
    [] FileFormatDetect = "id3" -> IF file.ext = "flac" THEN "flac" ELSE "mp3"
    [] OTHER -> FileFormatDetect

IsPart == file.cue # <<0, 0>>

\* fdetcr_open.  A track of a cue sheet begins with a seek.
FdetcrOpen(c) ==
  LET a == [c EXCEPT !.t.seek = @ + file.cue[1], !.t.sreq = c.t.seek + file.cue[1] > 0,
                     !.add = <<"reader", "cue">>]
  IN CASE Detected # file.cont -> Ret(c, "ERR", None)
       [] IsPart -> Ret(a, "DONE", c.din)
       [] OTHER -> Ret([c EXCEPT !.add = <<"reader">>], "DONE", c.din)

-----------------------------------------------------------------------------
(* What the readers share.                                                 *)

NewReader == [s |-> "hdr", in |-> None, seek |-> -1, from |-> 0, hdr |-> 0, rate |-> FALSE,
              eof |-> FALSE, done |-> FALSE, cur |-> 0, pos |-> 0, page |-> 0, l |-> ""]

PacketOf(d) == (d.s[1] - 1) \div S + 1
PageOf(p) == ((p - 1) \div PageLen) * PageLen + 1

\* The library: the unit it seeks to for a sample, and what it makes of the
\* input.  A seek waits until the headers have been returned.  A .wav reader
\* seeks to the very sample, an Ogg one to the page.
LandsOn(x) ==
  LET p == Least(x \div S + 1, P)
  IN Hdrs + IF file.cont = "ogg" THEN PageOf(p) ELSE p

Lib(c) ==
  LET f == c.f
      pkt == PacketOf(f.in)
      skip == IF f.from > (pkt - 1) * S THEN f.from - (pkt - 1) * S ELSE 0
  IN CASE f.seek # -1 /\ f.hdr = Hdrs ->
            [c EXCEPT !.f.l = "SEEK", !.t.iseek = LandsOn(f.seek), !.f.seek = -1, !.f.in = None,
                      !.f.done = FALSE, !.f.from = IF file.cont = "wav" THEN f.seek ELSE 0]
       [] f.in = None -> [c EXCEPT !.f.l = IF f.done THEN "DONE" ELSE "MORE"]
       [] f.in.s[1] < 0 ->
            [c EXCEPT !.f.l = "HEADER", !.out = [k |-> "hdr", s |-> f.in.s], !.f.in = None,
                      !.f.hdr = -f.in.s[1]]
       [] OTHER ->
            [c EXCEPT !.f.l = "DATA", !.out = [k |-> "pkt", s |-> Drop(f.in.s, skip)], !.f.in = None,
                      !.f.cur = (IF file.cont = "ogg" THEN PageOf(pkt) - 1 ELSE pkt - 1) * S + skip,
                      !.f.done = pkt = P /\ file.cont \notin {"wv", "aac"}]

TakeAny(c) == IF c.din = None THEN c ELSE [c EXCEPT !.f.in = c.din]
TakeNext(c) == IF c.fwd THEN [c EXCEPT !.f.in = c.din, !.f.eof = c.din = None] ELSE c

\* audio.seek_req is taken and the library told.
ServeSeek(c) ==
  IF c.t.sreq /\ c.t.seek # -1
  THEN [c EXCEPT !.t.sreq = FALSE, !.f.seek = ToSamples(c.t.seek)] ELSE c
ServeRated(c) == IF c.f.rate THEN ServeSeek(c) ELSE c
ServeInData(c) == IF c.f.s = "data" THEN ServeSeek(c) ELSE c

\* The header is known: audio.format, audio.total.
Format(c) == [c EXCEPT !.f.rate = TRUE, !.t.rate = TRUE, !.t.total = Total, !.f.s = "data"]
AddDecoder(c) == [c EXCEPT !.add = <<"dec">>]

\* The end of a reader's loop: atEnd is returned when there is no more
\* input, atDone when the library has returned the last packet.
Outcome(c, atEnd, atDone) ==
  CASE c.f.l = "DATA" -> Ret([c EXCEPT !.t.pos = c.f.cur], "DATA", c.out)
    [] c.f.l = "MORE" -> Ret(c, IF c.first THEN atEnd ELSE "MORE", None)
    [] c.f.l = "SEEK" -> Ret(c, "MORE", None)
    [] c.f.l = "DONE" -> Ret(c, atDone, None)

-----------------------------------------------------------------------------
(* The readers: the process function of each.                              *)

Mp3Process(c) ==
  LET a == Lib(ServeRated(TakeAny(c)))
  IN IF a.f.l # "HEADER" THEN Outcome(a, "DONE", "LASTOUT")
     ELSE IF file.info THEN Ret(Format(a), "LASTOUT", None)
     ELSE Outcome(Lib(ServeRated(AddDecoder(Format(a)))), "DONE", "LASTOUT")

FlacInRead(c) ==
  LET a == Lib(ServeRated(TakeNext(c)))
  IN IF a.f.l # "HEADER" THEN Outcome(a, "DONE", "DONE")
     ELSE IF file.info THEN Ret(Format(a), "LASTOUT", None)
     ELSE Outcome(Lib(ServeRated(AddDecoder(Format(a)))), "DONE", "DONE")

\* PCM: no decoder.
WavProcess(c) ==
  LET a == Lib(ServeInData(TakeNext(c)))
  IN IF a.f.l # "HEADER" THEN Outcome(a, "DONE", "DONE")
     ELSE IF file.info THEN Ret(Format(a), "LASTOUT", None)
     ELSE Outcome(Lib(ServeInData(Format(a))), "DONE", "DONE")

\* The header goes to the decoder, which sets the sample rate.
ApeInProcess(c) ==
  LET a == Lib(ServeInData(TakeNext(c)))
  IN IF a.f.l # "HEADER" THEN Outcome(a, "LASTOUT", "LASTOUT")
     ELSE Ret(AddDecoder([a EXCEPT !.f.s = "data"]), "DATA", a.out)

\* There is no header: the decoder is added with the first block.
WvInProcess(c) ==
  LET a == Lib(ServeInData(TakeNext(c)))
      first == a.f.l = "DATA" /\ a.f.s = "hdr"
  IN Outcome(IF first THEN [AddDecoder(a) EXCEPT !.f.s = "data", !.t.total = Total] ELSE a,
             "LASTOUT", "LASTOUT")

\* The codec configuration is the first block, before any packet.
Mp4rDecode(c) ==
  LET a == Lib(ServeInData(TakeNext(c)))
  IN IF a.f.l # "HEADER" THEN Outcome(a, "DONE", "LASTOUT")
     ELSE IF file.info THEN Ret(AddDecoder(Format(a)), "DONE", a.out)
     ELSE Ret(ServeInData(AddDecoder(Format(a))), "DATA", a.out)

\* add_decoder: the filter that reads the tags goes before the decoder.
OggAdded ==
  IF file.codec = "flac" THEN <<"flacogg">>
  ELSE IF file.info THEN <<"meta">> ELSE <<"meta", "dec">>

\* Every packet is passed on, headers included; the sample rate is known
\* when another filter has read the first of them.
OggDecode(c) ==
  LET s == IF c.f.s = "info" THEN [c EXCEPT !.f.s = "data", !.f.rate = c.t.rate] ELSE c
      a == Lib(ServeRated(TakeNext(s)))
      b == IF a.f.l \in {"HEADER", "DATA"} /\ a.f.s = "hdr"
           THEN [a EXCEPT !.f.s = "info", !.t.total = P * S - Padding, !.add = OggAdded] ELSE a
  IN IF a.f.l = "HEADER" THEN Ret([b EXCEPT !.t.pos = 0], "DATA", b.out)
     ELSE Outcome(b, "LASTOUT", "LASTOUT")

\* A seek drops the frames before the target; the position is that of the
\* end of the frame.
AacAdtsProcess(c) ==
  LET a == Lib(TakeNext(c))
      end == a.f.pos + S
      drops == a.t.sreq /\ a.t.seek # -1 /\ end < ToSamples(a.t.seek)
      next == [a EXCEPT !.f.pos = end]
  IN CASE a.f.l = "HEADER" -> Ret(AddDecoder([Format(a) EXCEPT !.t.total = 0]), "DATA", a.out)
       [] a.f.l = "DATA" /\ drops -> Outcome(Lib(next), "LASTOUT", "LASTOUT")
       [] a.f.l = "DATA" -> Ret([next EXCEPT !.t.pos = end,
                                 !.t.sreq = IF a.t.seek # -1 THEN FALSE ELSE @], "DATA", a.out)
       [] OTHER -> Outcome(a, "LASTOUT", "LASTOUT")

\* More input is asked for even when there is none left.
MpcProcess(c) ==
  LET a == Lib(ServeRated(TakeAny(c)))
  IN IF a.f.l = "HEADER" THEN Ret(AddDecoder(Format(a)), "DATA", a.out)
     ELSE Outcome(a, "MORE", "LASTOUT")

\* A seek is never served.
CafProcess(c) ==
  LET a == Lib(TakeNext(c))
  IN IF a.f.l # "HEADER" THEN Outcome(a, "DONE", "DONE")
     ELSE IF file.info THEN Ret(AddDecoder(Format(a)), "LASTOUT", None)
     ELSE Ret(AddDecoder(Format(a)), "DATA", a.out)

AviProcess(c) ==
  LET a == Lib(TakeNext(c))
  IN IF a.f.l # "HEADER" THEN Outcome(a, "DONE", "DONE")
     ELSE Ret(AddDecoder(Format(a)), "DATA", a.out)

\* Vorbis headers come one by one out of the codec configuration; block
\* times are in milliseconds.
MkvProcess(c) ==
  LET s == ServeInData(TakeNext(c))
      a == Lib(s)
      n == c.f.page
      vorbis == [a EXCEPT !.add = <<"meta", "dec">>, !.t.rate = TRUE, !.t.total = Total, !.f.s = "vorbis",
                          !.f.page = 1]
      o == Outcome(a, "DONE", "DONE")
  IN CASE c.f.s = "vorbis" /\ n < 3 ->
            Ret([TakeNext(c) EXCEPT !.f.page = n + 1], "DATA", [k |-> "hdr", s |-> <<-n - 1>>])
       [] c.f.s = "vorbis" ->
            LET d == Lib([TakeNext(c) EXCEPT !.f.s = "data"]) IN Outcome(d, "DONE", "DONE")
       [] a.f.l = "HEADER" /\ file.codec = "vorbis" -> Ret(vorbis, "DATA", a.out)
       [] a.f.l = "HEADER" -> Ret(AddDecoder(Format(a)), "DATA", a.out)
       [] OTHER -> [o EXCEPT !.t.pos = IF a.f.l = "DATA" THEN ToSamples(ToMsec(a.f.cur)) ELSE @]

ReaderProcess(c) ==
  IF c.t.stop THEN Ret(c, "LASTOUT", None)
  ELSE CASE file.cont = "mp3" -> Mp3Process(c)
         [] file.cont = "flac" -> FlacInRead(c)
         [] file.cont = "wav" -> WavProcess(c)
         [] file.cont = "ape" -> ApeInProcess(c)
         [] file.cont = "wv" -> WvInProcess(c)
         [] file.cont = "mp4" -> Mp4rDecode(c)
         [] file.cont = "ogg" -> OggDecode(c)
         [] file.cont = "aac" -> AacAdtsProcess(c)
         [] file.cont = "mpc" -> MpcProcess(c)
         [] file.cont = "caf" -> CafProcess(c)
         [] file.cont = "avi" -> AviProcess(c)
         [] file.cont = "mkv" -> MkvProcess(c)

-----------------------------------------------------------------------------
(* The filters between an Ogg reader and the decoder.                      *)

\* vorbismeta_read: the first packet is kept, the second is read for tags;
\* then both are passed on.
VorbismetaRead(c) ==
  CASE c.f.s = "hdr" -> Ret([c EXCEPT !.f.s = "tags", !.f.in = c.din, !.t.rate = TRUE], "MORE", None)
    [] c.f.s = "tags" -> Ret([c EXCEPT !.f.s = "pass", !.f.in = c.din], "DATA", c.f.in)
    [] OTHER -> Ret(c, IF file.info THEN "LASTOUT" ELSE "DONE", c.f.in)

\* opusmeta_read takes the same steps.
OpusmetaRead(c) == VorbismetaRead(c)

\* flacogg_in_read: frames before the target are dropped unless the Ogg
\* reader has served the seek.
FlacoggInRead(c) ==
  LET a == IF ~c.fwd THEN c
           ELSE IF c.f.page = c.t.pos THEN [c EXCEPT !.f.in = c.din]
           ELSE [c EXCEPT !.f.in = c.din, !.f.pos = c.t.pos, !.f.page = c.t.pos]
      d == a.f.in
      e == [a EXCEPT !.f.in = None]
      seeks == c.t.sreq /\ c.t.seek # -1
  IN CASE c.t.stop -> Ret(c, "LASTOUT", None)
       [] d = None -> Ret(a, IF c.first THEN "DONE" ELSE "MORE", None)
       [] d.k = "hdr" /\ -d.s[1] < Hdrs -> Ret([e EXCEPT !.t.rate = TRUE], "MORE", None)
       [] d.k = "hdr" -> IF file.info THEN Ret(e, "LASTOUT", None) ELSE Ret(AddDecoder(e), "MORE", None)
       [] seeks /\ ToSamples(c.t.seek) >= a.f.pos + S -> Ret([e EXCEPT !.f.pos = @ + S], "MORE", None)
       [] OTHER -> Ret([e EXCEPT !.f.pos = @ + S, !.t.pos = a.f.pos,
                                 !.t.sreq = IF seeks THEN FALSE ELSE @], "DATA", d)

-----------------------------------------------------------------------------
(* The decoders.  skip is the sample to start at; Unset stands for the     *)
(* value each of them keeps when there is none.  An Ff operator is the     *)
(* bridge to a codec library: what it returns, its state and its samples.  *)

Unset == -1
NewDecoder == [s |-> "new", in |-> None, skip |-> Unset, cur |-> 0, page |-> 0, n |-> 0,
               cache |-> <<>>, total |-> 0]

Pcm(s) == [k |-> "pcm", s |-> s]
NoInput(c) == Ret(c, IF c.first THEN "DONE" ELSE "MORE", None)
Rmore(f) == [r |-> "RMORE", f |-> f, pcm |-> <<>>]
Rdata(f, pcm) == [r |-> "RDATA", f |-> [f EXCEPT !.skip = Unset], pcm |-> pcm]

\* Samples to leave out of a block of n that begins at f.cur, ...
ToSkip(f, n) == IF f.skip = Unset THEN 0 ELSE Least(Most(f.skip - f.cur, 0), n)
\* ... and with the decoders that only look inside the block.
ToSkipInside(f, n) == IF f.cur < f.skip /\ f.skip < f.cur + n THEN f.skip - f.cur ELSE 0

\* Mutant: the encoder's delay is forgotten.
SkipFromNoDelay(c, delay) ==
  IF c.fwd /\ c.t.seek # -1 THEN [c EXCEPT !.f.skip = ToSamples(c.t.seek)] ELSE c

\* A seek that has been served is finished inside the packet.
SkipFrom(c, delay) ==
  IF c.fwd /\ c.t.seek # -1 THEN [c EXCEPT !.f.skip = ToSamples(c.t.seek) + delay] ELSE c

MpegDecOpen(c) == [c EXCEPT !.f.s = "data", !.f.skip = IF Delay # 0 THEN Delay ELSE Unset]

\* mpeg_dec_process: a new request drops what there is.  Only the encoder's
\* delay and padding are cut off, a target inside a frame is not looked for.
MpegDecProcess(c) ==
  LET a == IF c.f.s = "new" THEN MpegDecOpen(c) ELSE c
      b == IF c.fwd THEN [a EXCEPT !.f.in = c.din, !.f.cur = c.t.pos] ELSE [a EXCEPT !.f.in = None]
      n == Len(b.f.in.s)
      sk == ToSkip(b.f, n)
      pos == b.f.cur - Delay + sk
      left == n - sk
      cut == IF Padding # 0 /\ pos < c.t.total /\ pos + left > c.t.total
             THEN Least(pos + left - c.t.total, Padding) ELSE 0
  IN CASE c.t.sreq -> Ret([a EXCEPT !.f.skip = Unset], IF c.first THEN "DONE" ELSE "OK", None)
       [] n = 0 \/ b.f.in.k # "pkt" -> NoInput(b)
       [] sk = n -> NoInput([b EXCEPT !.f.cur = @ + n])
       [] OTHER -> Ret([b EXCEPT !.f.skip = Unset, !.f.cur = @ + n, !.t.pos = pos], "DATA",
                       Pcm(Take(Drop(b.f.in.s, sk), left - cut)))

\* aac_open: the configuration is the first block.
AacOpen(c) == [c EXCEPT !.f.s = "cache", !.f.skip = Delay, !.f.total = c.t.total, !.din = None]

FfaacDecode(f) ==
  LET n == Len(f.in.s)
      sk == IF f.skip = Unset THEN 0 ELSE Most(f.skip - f.cur, 0)
      left == n - sk
      cut == IF f.cur + n >= f.total + Delay /\ left >= Padding THEN Padding ELSE 0
      end == [f EXCEPT !.in = None]
  IN CASE f.in.k = "file" -> [r |-> "RERR", f |-> end, pcm |-> <<>>]
       [] n = 0 \/ sk >= n -> Rmore(end)
       [] OTHER -> Rdata([end EXCEPT !.cur = @ + sk], Take(Drop(f.in.s, sk), left - cut))

\* The frames gathered to find out the format go out together.
AacCached(c, f, fresh) ==
  Ret([c EXCEPT !.f = [f EXCEPT !.cache = <<>>, !.s = "pass"],
                !.t.pos = Most(f.cur - Delay + fresh - Len(f.cache), 0)], "DATA", Pcm(f.cache))

\* aac_decode: the first DETECT_FRAMES frames are gathered.
AacDecode(c) ==
  LET o == IF c.f.s = "new" THEN AacOpen(c) ELSE c
      a == SkipFrom(IF c.fwd THEN [o EXCEPT !.f.in = o.din, !.f.cur = c.t.pos] ELSE o, Delay)
      d == FfaacDecode(a.f)
      g == [d.f EXCEPT !.cache = @ \o d.pcm, !.n = @ + 1]
      gathering(f) == IF ~c.first THEN Ret([a EXCEPT !.f = f], "MORE", None)
                      ELSE IF f.cache = <<>> THEN Ret([a EXCEPT !.f = f], "DONE", None)
                      ELSE AacCached(a, f, 0)
  IN CASE c.f.s = "new" /\ c.din = None -> Ret(c, "ERR", None)
       [] d.r = "RERR" -> Ret([a EXCEPT !.f = d.f], "MORE", None)
       [] d.r = "RMORE" -> gathering(d.f)
       [] a.f.s = "cache" /\ g.n # DETECT_FRAMES -> gathering(g)
       [] a.f.s = "cache" -> AacCached(a, g, Len(d.pcm))
       [] OTHER -> Ret([a EXCEPT !.f = d.f, !.t.pos = d.f.cur - Delay], "DATA", Pcm(d.pcm))

\* alac_open, ffalac_open.
AlacOpen(c) == [c EXCEPT !.f.s = "data", !.f.total = c.t.total, !.din = None]

\* ffalac_decode: the last frame is cut at the total.
FfalacDecode(f) ==
  LET n == Len(f.in.s)
      end == Least(f.cur + n, f.total)
  IN IF n = 0 THEN Rmore(f)
     ELSE Rdata([f EXCEPT !.in = None, !.cur = end], Drop(Take(f.in.s, end - f.cur), ToSkip(f, n)))

AlacInDecode(c) ==
  LET o == IF c.f.s = "new" THEN AlacOpen(c) ELSE c
      a == SkipFrom(IF c.fwd THEN [o EXCEPT !.f.in = o.din, !.f.cur = c.t.pos] ELSE o, 0)
      d == FfalacDecode(a.f)
  IN CASE c.f.s = "new" /\ c.din = None -> Ret(c, "ERR", None)
       [] a.f.in.k = "file" -> Ret(a, "ERR", None)
       [] d.r = "RMORE" -> NoInput(a)
       [] OTHER -> Ret([a EXCEPT !.f = d.f, !.t.pos = d.f.cur - Len(d.pcm)], "DATA", Pcm(d.pcm))

\* ape_parse: the first block is the header.
ApeHeader(c) == Ret([c EXCEPT !.f.s = "data", !.t.rate = TRUE, !.t.total = Total], "DATA", None)

FfapeDecode(f, s, start) ==
  LET b == [f EXCEPT !.cur = start]
      sk == ToSkipInside(b, Len(s))
  IN Rdata([b EXCEPT !.cur = start + sk], Drop(s, sk))

ApeDecDecode(c) ==
  LET a == SkipFrom(c, 0)
      d == FfapeDecode(a.f, c.din.s, c.t.pos)
  IN CASE c.din = None -> NoInput(a)
       [] c.f.s = "new" -> ApeHeader(a)
       [] OTHER -> Ret([a EXCEPT !.f = d.f, !.t.pos = d.f.cur], "DATA", Pcm(d.pcm))

FfflacDecode(f, s) ==
  LET sk == ToSkipInside(f, Len(s)) IN Rdata([f EXCEPT !.cur = @ + sk], Drop(s, sk))

FlacDecDecode(c) ==
  LET a == [c EXCEPT !.f.skip = IF c.t.seek # -1 THEN ToSamples(c.t.seek) ELSE @, !.f.cur = c.t.pos]
      d == FfflacDecode(a.f, c.din.s)
  IN CASE c.first -> Ret(c, "DONE", None)
       [] c.din = None -> Ret(a, "MORE", None)
       [] OTHER -> Ret([a EXCEPT !.f = d.f, !.t.pos = d.f.cur], "OK", Pcm(d.pcm))

MpcDecOpen(c) == [c EXCEPT !.f.s = "data", !.din = None]

\* ffmpc_decode: several frames (here of one sample) in a block, returned one
\* by one.
FfmpcDecode(f) ==
  LET b == IF f.cache = <<>> THEN [f EXCEPT !.cache = f.in.s, !.in = None] ELSE f
      n == Len(b.cache)
      sk == ToSkip(b, n)
  IN IF sk = n THEN Rmore([b EXCEPT !.cache = <<>>, !.cur = @ + n])
     ELSE Rdata([b EXCEPT !.cache = Drop(@, sk + 1), !.cur = @ + sk + 1], <<b.cache[sk + 1]>>)

\* mpc_dec_process: a new seek drops the rest of the block.
MpcDecProcess(c) ==
  LET o == IF c.f.s = "new" THEN MpcDecOpen(c) ELSE c
      i == IF c.fwd /\ o.din # None THEN [o EXCEPT !.f.in = o.din, !.f.cur = c.t.pos] ELSE o
      a == SkipFrom(i, 0)
      d == FfmpcDecode(a.f)
  IN CASE c.t.seek # -1 /\ ~c.fwd -> Ret([i EXCEPT !.f.cache = <<>>], "MORE", None)
       [] d.r = "RMORE" -> NoInput([a EXCEPT !.f = d.f])
       [] OTHER -> Ret([a EXCEPT !.f = d.f, !.t.pos = d.f.cur - 1], "DATA", Pcm(d.pcm))

\* ffopus_seek and ffopus_setpos: the position is taken from the page once.
FfopusSeek(c) == IF c.fwd /\ c.t.seek # -1 THEN [SkipFrom(c, Delay) EXCEPT !.f.cur = 0] ELSE c
FfopusSetpos(c) ==
  IF c.fwd /\ c.f.page # c.t.pos + 1 THEN [c EXCEPT !.f.cur = c.t.pos, !.f.page = c.t.pos + 1] ELSE c

\* ffopus_decode: a target beyond the packet, and the end of the last page.
FfopusDecode(f, s) ==
  LET n == Len(s)
      sk == ToSkip(f, n)
      cur == f.cur + sk
      r == IF cur < f.total /\ cur + n - sk >= f.total THEN f.total - cur ELSE n - sk
  IN IF sk = n THEN Rmore([f EXCEPT !.cur = cur])
     ELSE Rdata([f EXCEPT !.cur = cur + r], Take(Drop(s, sk), r))

OpusInDecode(c) ==
  LET hdr == c.f.s \in {"new", "tags"}
      s == IF c.f.s = "data1" THEN [c EXCEPT !.f.s = "data", !.f.total = c.t.total, !.t.total = @ - Delay] ELSE c
      a == FfopusSetpos(FfopusSeek(s))
      d == FfopusDecode(a.f, IF c.fwd THEN c.din.s ELSE <<>>)
  IN CASE hdr /\ ~c.fwd -> Ret(c, "MORE", None)
       [] hdr -> NoInput([c EXCEPT !.f.s = IF c.f.s = "new" THEN "tags" ELSE "data1",
                                   !.f.skip = IF c.f.s = "new" THEN Delay ELSE @])
       [] c.f.s = "data1" /\ file.info -> Ret(c, "LASTOUT", None)
       [] d.r = "RMORE" -> NoInput([a EXCEPT !.f = d.f])
       [] OTHER -> Ret([a EXCEPT !.f = d.f, !.t.pos = d.f.cur - Len(d.pcm)], "DATA", Pcm(d.pcm))

\* ffvorbis_decode: a target behind the position is taken to be the position.
FfvorbisDecode(f, s) ==
  LET n == Len(s)
      sk == ToSkip(f, n)
      cur == f.cur + sk
      r == IF f.total # 0 THEN Least(n - sk, f.total - cur) ELSE n - sk
  IN IF sk = n THEN Rmore([f EXCEPT !.cur = cur])
     ELSE Rdata([f EXCEPT !.cur = cur + r], Take(Drop(s, sk), r))

\* The three header packets.
VorbisHeader(c) ==
  LET a == [c EXCEPT !.f.s = CASE c.f.s = "new" -> "tags" [] c.f.s = "tags" -> "book" [] OTHER -> "data1"]
  IN IF c.f.s = "book" THEN NoInput(a) ELSE Ret(a, "MORE", None)

VorbisInDecode(c) ==
  LET hdr == c.f.s \in {"new", "tags", "book"}
      s == IF c.f.s = "data1" THEN [c EXCEPT !.f.s = "data", !.f.total = c.t.total] ELSE c
      a == IF hdr THEN c ELSE SkipFrom(s, 0)
      b == IF c.fwd /\ c.f.page # c.t.pos THEN [a EXCEPT !.f.cur = c.t.pos, !.f.page = c.t.pos] ELSE a
      d == FfvorbisDecode(b.f, IF c.fwd THEN c.din.s ELSE <<>>)
  IN CASE hdr /\ ~c.fwd -> Ret(c, "MORE", None)
       [] hdr -> VorbisHeader(b)
       [] c.f.s = "data1" /\ file.info -> Ret(c, "LASTOUT", None)
       [] d.r = "RMORE" -> NoInput([b EXCEPT !.f = d.f])
       [] OTHER -> Ret([b EXCEPT !.f = d.f, !.t.pos = d.f.cur - Len(d.pcm)], "DATA", Pcm(d.pcm))

\* ffwvpk_decode: the format is returned before the samples of the first
\* block.
FfwvpkDecode(f, start) ==
  LET b == [f EXCEPT !.cur = start]
      sk == ToSkipInside(b, Len(f.in.s))
  IN CASE f.in = None -> Rmore(f)
       [] f.s = "new" -> [r |-> "RHDR", f |-> [f EXCEPT !.s = "delayed"], pcm |-> <<>>]
       [] OTHER -> Rdata([b EXCEPT !.in = None, !.cur = start + sk], Drop(f.in.s, sk))

\* wvpk_dec_decode: that first block is dropped if there is a seek to do.
WvpkDecDecode(c) ==
  LET s == IF c.f.s = "delayed" THEN [c EXCEPT !.f.s = "data"] ELSE c
      a == SkipFrom(IF c.fwd THEN [s EXCEPT !.f.in = c.din] ELSE s, 0)
      d == FfwvpkDecode(a.f, c.t.pos)
  IN CASE c.f.s = "delayed" /\ c.t.seek > 0 -> Ret(s, "MORE", None)
       [] d.r = "RMORE" -> NoInput(a)
       [] d.r = "RHDR" -> Ret([a EXCEPT !.f = d.f, !.t.rate = TRUE], "DATA", None)
       [] OTHER -> Ret([a EXCEPT !.f = d.f, !.t.pos = d.f.cur], "DATA", Pcm(d.pcm))

DecoderProcess(c) ==
  CASE file.codec = "mpeg" -> MpegDecProcess(c)
    [] file.codec = "aac" -> AacDecode(c)
    [] file.codec = "alac" -> AlacInDecode(c)
    [] file.codec = "ape" -> ApeDecDecode(c)
    [] file.codec = "flac" -> FlacDecDecode(c)
    [] file.codec = "mpc" -> MpcDecProcess(c)
    [] file.codec = "opus" -> OpusInDecode(c)
    [] file.codec = "vorbis" -> VorbisInDecode(c)
    [] file.codec = "wavpack" -> WvpkDecDecode(c)

-----------------------------------------------------------------------------
(* Parts of a file, the interface and the output.                          *)

CdToSamples(v) == ToSamples(v)
\* cdframes_to_msec: whole seconds.
CdToMsec(v) == (v \div CdPerSec) * CdPerSec

CuehookOpen(c) ==
  [c EXCEPT !.f = "open", !.t.total = @ - CdToSamples(file.cue[1]),
            !.t.until = IF file.cue[2] # 0 THEN @ + CdToMsec(file.cue[2] - file.cue[1]) ELSE @]

\* cuehook_process: positions are those of the part, on the way back a
\* target becomes one of the file.
CuehookProcess(c) ==
  LET a == IF c.f = "new" THEN CuehookOpen(c) ELSE c
  IN IF c.fwd
     THEN Ret([a EXCEPT !.t.pos = Most(@ - CdToSamples(file.cue[1]), 0)],
              IF c.first THEN "DONE" ELSE "DATA", c.din)
     ELSE Ret([a EXCEPT !.t.seek = IF @ # -1 THEN @ + CdToMsec(file.cue[1]) ELSE @], "MORE", None)

UntilOpen(c) == [c EXCEPT !.f = c.t.until, !.t.total = ToSamples(c.t.until)]

\* until_process: what follows the target ends the track.
UntilProcess(c) ==
  LET a == IF c.f = 0 THEN UntilOpen(c) ELSE c
      end == ToSamples(a.f)
  IN CASE c.f = 0 /\ c.t.until = 0 -> Ret(c, "DONE", c.din)
       [] c.first -> Ret(a, "DONE", c.din)
       [] c.t.pos + Len(c.din.s) >= end ->
            Ret(a, "LASTOUT", [c.din EXCEPT !.s = Take(@, Most(end - c.t.pos, 0))])
       [] OTHER -> Ret(a, "OK", c.din)

\* tuiplay_process, gtrk_process.
UiProcess(c) ==
  CASE c.t.stop -> Ret(c, "FIN", None)
    [] ~c.t.rate /\ ~c.f.shown -> Ret(c, "ERR", None)
    [] c.f.seek # -1 -> Ret([c EXCEPT !.f.shown = TRUE, !.t.seek = c.f.seek, !.f.seek = -1], "MORE", None)
    [] ~c.fwd \/ (c.din = None /\ ~c.first) -> Ret([c EXCEPT !.f.shown = TRUE], "MORE", None)
    [] OTHER -> Ret([c EXCEPT !.f.shown = TRUE, !.t.seek = IF c.t.sreq THEN @ ELSE -1],
                    IF c.first THEN "DONE" ELSE "DATA", c.din)

\* audio_out_write, from the outside: the data is taken at once or after a
\* wait; a seek drops it.
OutProcess(c, wait) ==
  LET d == IF c.t.clear THEN [c EXCEPT !.t.clear = FALSE, !.f.busy = FALSE] ELSE c
  IN CASE c.t.stop -> Ret(c, "FIN", None)
       [] c.t.clear /\ c.t.sreq -> Ret(d, "MORE", None)
       [] wait -> Ret([d EXCEPT !.f.busy = TRUE], "ASYNC", None)
       [] OTHER -> Ret([d EXCEPT !.f.busy = FALSE], IF c.first THEN "DONE" ELSE "MORE", None)

-----------------------------------------------------------------------------
(* The track.                                                              *)

NewTrack(seek, until) ==
  [until |-> until, seek |-> seek, sreq |-> seek > 0, pos |-> 0, total |-> 0, rate |-> FALSE, iseek |-> 0, clear |-> FALSE,
   stop |-> FALSE]

NewFilters ==
  [file |-> [off |-> 1, eof |-> FALSE], reader |-> NewReader, meta |-> NewReader, flacogg |-> NewReader,
   dec |-> NewDecoder, cue |-> "new", until |-> 0, ui |-> [seek |-> -1, shown |-> FALSE], out |-> [busy |-> FALSE]]

\* qe_play: the chain for playing, and the one for showing information; the
\* file may be shorter than its header says.
ReadInit ==
  /\ \E k \in Kinds, short \in BOOLEAN, info \in BOOLEAN, id3 \in BOOLEAN, named \in BOOLEAN, cue \in Cues :
       LET h == CASE k[1] = "wv" -> 0 [] k[2] = "vorbis" /\ k[1] = "ogg" -> 3
                  [] k[1] = "ogg" -> 2 [] OTHER -> 1
       IN /\ id3 => k[1] \in {"mp3", "flac"} /\ (k[1] = "flac" => named)
          /\ ~named => k[1] \in {"ape", "mp3", "wav"}
          /\ file = [cont |-> k[1], codec |-> k[2], units |-> h + IF short THEN P - 1 ELSE P, info |-> info,
                     id3 |-> id3, ext |-> IF named THEN k[1] ELSE "", cue |-> cue]
          /\ conv = NewLine(<<"file", "detect", "until", "ui">> \o (IF info THEN <<>> ELSE <<"out">>), None)
  /\ \E x \in Targets, until \in Untils :
       trk = NewTrack(x, IF IsPart THEN 0 ELSE until) /\ heard = <<Mark(x)>>
  /\ filt = NewFilters /\ asked = 0

Current == At(conv.ch, conv.cur)
Seen(f) == CallOf(conv, f, trk, None)

\* A filter's process() is called and its result acted on.
Acts(name, c) ==
  /\ conv.pc = "run" /\ Current = name /\ ~Passed(conv)
  /\ conv' = Turned(conv, c.add, c.r, c.out, None)
  /\ trk' = c.t /\ UNCHANGED <<file, asked>>

Keeps(name, c) == filt' = [filt EXCEPT ![name] = c.f]

\* A filter that returned PHI_OK is passed over.
PassedOver ==
  /\ conv.pc = "run" /\ Passed(conv)
  /\ conv' = Turned(conv, <<>>, "MORE", None, None)
  /\ UNCHANGED <<file, trk, filt, heard, asked>>

File == LET c == FrProcess(Seen(filt.file)) IN Acts("file", c) /\ Keeps("file", c) /\ UNCHANGED heard
Detect == Acts("detect", FdetcrOpen(Seen(<<>>))) /\ UNCHANGED <<filt, heard>>
Reader == LET c == ReaderProcess(Seen(filt.reader)) IN Acts("reader", c) /\ Keeps("reader", c) /\ UNCHANGED heard
Meta == LET s == Seen(filt.meta)
            c == IF file.codec = "opus" THEN OpusmetaRead(s) ELSE VorbismetaRead(s)
        IN Acts("meta", c) /\ Keeps("meta", c) /\ UNCHANGED heard
Flacogg == LET c == FlacoggInRead(Seen(filt.flacogg)) IN Acts("flacogg", c) /\ Keeps("flacogg", c) /\ UNCHANGED heard
Decoder == LET c == DecoderProcess(Seen(filt.dec)) IN Acts("dec", c) /\ Keeps("dec", c) /\ UNCHANGED heard
Cue == LET c == CuehookProcess(Seen(filt.cue)) IN Acts("cue", c) /\ Keeps("cue", c) /\ UNCHANGED heard
Until == LET c == UntilProcess(Seen(filt.until)) IN Acts("until", c) /\ Keeps("until", c) /\ UNCHANGED heard
Ui == LET c == UiProcess(Seen(filt.ui)) IN Acts("ui", c) /\ Keeps("ui", c) /\ UNCHANGED heard

\* The device takes the samples when the output is first called with them.
Out(wait) ==
  LET c == OutProcess(Seen(filt.out), wait)
      plays == conv.fwd /\ ~filt.out.busy /\ ~(trk.clear /\ trk.sreq) /\ ~trk.stop
  IN /\ Acts("out", c) /\ Keeps("out", c)
     /\ wait => ~filt.out.busy
     /\ heard' = IF plays THEN heard \o conv.din.s ELSE heard

\* The device has room again.
Woken ==
  /\ conv.pc = "async"
  /\ conv' = [conv EXCEPT !.pc = "run"]
  /\ UNCHANGED <<file, trk, filt, heard, asked>>

\* tuiplay_seek, gtrk_seek: the track runs on the worker that gets the
\* commands, so they come while it waits.
UserSeeks(x) ==
  /\ conv.pc = "async" /\ asked < MaxSeeks
  /\ conv' = [conv EXCEPT !.pc = "run"]
  /\ trk' = [trk EXCEPT !.sreq = TRUE, !.clear = TRUE]
  /\ filt' = [filt EXCEPT !.ui.seek = x]
  /\ asked' = asked + 1
  /\ heard' = Append(heard, Mark(x))
  /\ UNCHANGED file

\* track_stop.
UserStops ==
  /\ conv.pc = "async"
  /\ conv' = [conv EXCEPT !.pc = "run"]
  /\ trk' = [trk EXCEPT !.stop = TRUE]
  /\ UNCHANGED <<file, filt, heard, asked>>

ReadEnds == conv.pc = "end" /\ UNCHANGED readVars

ReadRuns ==
  File \/ Detect \/ Reader \/ Meta \/ Flacogg \/ Decoder \/ Cue \/ Until \/ Ui \/ PassedOver
    \/ \E wait \in BOOLEAN : Out(wait)

ReadNext == ReadRuns \/ Woken \/ UserStops \/ (\E x \in Targets : UserSeeks(x)) \/ ReadEnds

\* WF_readVars(ReadRuns \/ Woken), which is enabled until the track ends,
\* written without ENABLED: the worker goes on calling filters, and the
\* device goes on playing.
ReadFairness == []<>(conv.pc = "end") \/ []<><<ReadRuns \/ Woken>>_readVars

ReadSpec == ReadInit /\ [][ReadNext]_readVars /\ ReadFairness

-----------------------------------------------------------------------------
(* Properties.                                                             *)

Kind == <<file.cont, file.codec>>

\* Where a part of a file begins.
From == CdToSamples(file.cue[1])

\* The reader and the decoder of these find the very sample of a seek; with
\* Ogg and Vorbis only the seek a track begins with.  The first output of two
\* decoders is empty, and makes cuehook_process add the start of a part once
\* more.
Exact ==
  /\ IsPart => file.cont \notin {"ape", "wv"}
  /\ \/ Kind \in {<<"flac", "flac">>, <<"wav", "none">>, <<"ape", "ape">>, <<"wv", "wavpack">>,
                  <<"mp4", "aac">>, <<"mp4", "alac">>, <<"mpc", "mpc">>}
     \/ Kind = <<"ogg", "vorbis">> /\ asked = 0

\* No sample is lost or played twice between two seeks, at the borders of
\* packets and pages and where a seek interrupts the output.  Excepted: a
\* seek inside the current page of an Ogg Vorbis file, where vorbis_in_decode
\* keeps its position, and a part of a .caf, whose reader leaves seeks undone.
NoGap ==
  ~(Kind = <<"ogg", "vorbis">> /\ asked # 0) /\ ~(file.cont = "caf" /\ IsPart) =>
    \A i \in 1..(Len(heard) - 1) :
      heard[i] > 0 /\ heard[i + 1] > 0 => heard[i + 1] = heard[i] + 1

\* The first sample after a seek is the one asked for: the page or packet the
\* reader lands on, the encoder's delay and what the decoder skips add up.
SeekLands ==
  LET target(m) == From + ToSamples(-m - 1) + Delay + 1
  IN Exact => \A i \in 1..(Len(heard) - 1) :
       heard[i] < 0 /\ heard[i + 1] > 0 /\ target(heard[i]) <= P * S - Padding =>
         heard[i + 1] = target(heard[i])

\* audio.pos, which the interface shows, is the position of the samples that
\* reach the output, counted from the start of the part.  Excepted: what
\* aac_decode flushes at the end of the input, and the encoder's delay, which
\* mpeg_dec_process plays after a seek to 0.
PositionTrue ==
  LET kept == Exact \/ Kind \in {<<"mp3", "mpeg">>, <<"avi", "mpeg">>, <<"caf", "alac">>}
      reaches == conv.pc = "run" /\ Current = "out" /\ conv.fwd /\ conv.din.s # <<>>
      flush == file.codec = "aac" /\ conv.ch[1] # "file"
      at == conv.din.s[1] - 1 - Delay
  IN kept /\ reaches /\ ~flush /\ at >= 0 => trk.pos = Most(at - From, 0)

\* A track that is left alone plays every sample of its file, complete or
\* truncated, and nothing of the encoder's delay and padding; with -until or
\* as a track of a cue sheet it plays every sample of that part.  (The
\* positions of Opus and ADTS are too high for -until to be exact.)
HeardInFull ==
  LET to == CASE IsPart -> CdToSamples(file.cue[2])
              [] trk.until # 0 -> ToSamples(trk.until)
              [] OTHER -> P * S
      last == Least(Least(P * S - Padding, (file.units - Hdrs) * S), Delay + to)
  IN /\ conv.pc = "end" /\ ~conv.failed /\ ~trk.stop /\ ~file.info
     /\ heard[1] = Mark(0) /\ asked = 0 /\ (IsPart => Exact)
     /\ trk.until # 0 => Kind \notin {<<"ogg", "opus">>, <<"aac", "aac">>}
     => Tail(heard) = [i \in 1..(last - Delay - From) |-> Delay + From + i]

\* "Initial request to seek to .cue track audio position": a track of a cue
\* sheet begins where the sheet says, if the format's seeks are exact.
PartBegins ==
  Kind \in {<<"flac", "flac">>, <<"wav", "none">>, <<"ape", "ape">>, <<"wv", "wavpack">>, <<"mp4", "alac">>}
  /\ Len(heard) > 1 /\ heard[1] = Mark(0) /\ heard[2] > 0 => heard[2] = From + 1

\* The first filter of the chain never asks for more, which track_run takes
\* for an error: not at the end of the file, not after a seek.  Where it
\* does: a seek while only the output is left, a truncated .mpc, information
\* about ALAC and about Vorbis in .mkv (see the README).
EndsClean ==
  conv.pc = "end" /\ conv.failed =>
    \/ Detected # file.cont
    \/ conv.ch = <<"out">>
    \/ file.cont = "mpc" /\ file.units < Hdrs + P
    \/ file.info /\ (file.codec = "alac" \/ Kind = <<"mkv", "vorbis">>)

\* Every track ends: no filter and no seek makes the chain turn in a circle.
Ends == <>(conv.pc = "end")

\* Reader, decoder, cue-hook and until together: what is heard has no gap,
\* begins where a seek asked for, is where the position says, and is complete;
\* and no track ends in an error the file does not explain.
FileHeard == NoGap /\ SeekLands /\ PositionTrue /\ HeardInFull /\ EndsClean

=============================================================================
