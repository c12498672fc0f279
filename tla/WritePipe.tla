----------------------------- MODULE WritePipe ------------------------------
(***************************************************************************)
(* Converting, recording and analysing: the filters of afilter/ that       *)
(* change or convert audio, the encoders of acodec/ and what they use of   *)
(* acodec/alib3-bridge/, the writers of format/ and the output, behind a   *)
(* source that delivers decoded audio or, when streams are copied, packets.*)
(*                                                                         *)
(* Samples are numbered; doubling the sample rate makes 2n-1 and 2n of     *)
(* sample n.  Audio carries the format it really has, so that a filter     *)
(* that believes in another one is seen.  A written file is a sequence of  *)
(* units.  The libraries behind the writers and the encoders are external. *)
(***************************************************************************)
EXTENDS ChainOps, FiniteSets

LOCAL Sx == INSTANCE SequencesExt

CONSTANTS
  Totals,    \* lengths of the input, in samples
  Blocks,    \* samples the source delivers at once
  F,         \* samples of a frame of a codec
  PreSkip,   \* samples an Opus encoder puts in front
  PageCap,   \* packets of an Ogg page
  ConvCap,   \* samples of the buffer of conv.c
  SoxCap,    \* samples of the buffer of soxr.h
  DaFrame,   \* samples of the buffer of dynanorm.c
  DaHold     \* samples the normalizer holds back

WriteAssumptions ==
  /\ Totals \union Blocks \union {F, PageCap, ConvCap, SoxCap, DaFrame, DaHold} \subseteq Nat \ {0}
  /\ PreSkip \in 0..(F - 1)
  /\ ConvCap <= DaFrame

VARIABLES
  job,    \* what is converted into what: the source, phi_track_conf
  conv,   \* the conveyor
  trk,    \* phi_track: audio, oaudio, aconv, data_type, output
  filt,   \* the objects of the filters
  dest    \* [units, off]: what has been written, and the offset of the next unit

writeVars == <<job, conv, trk, filt, dest>>

None == [k |-> "none", s |-> <<>>]
Unset == [f |-> "", r |-> 0, ch |-> 0, il |-> FALSE]
Pcm(s, af) == [k |-> "pcm", s |-> s, af |-> af]
Packet(s) == [k |-> "pkt", s |-> s]
Empty(d) == d.k = "none" \/ (d.k \in {"pcm", "pkt"} /\ d.s = <<>>)

Drop(s, n) == SubSeq(s, n + 1, Len(s))
Take(s, n) == SubSeq(s, 1, n)
Least(a, b) == IF a < b THEN a ELSE b
Zeros(n) == [i \in 1..n |-> 0]

\* phi_af_update.
AfUpdate(dst, src) ==
  [dst EXCEPT !.f = IF src.f # "" THEN src.f ELSE @,
              !.r = IF src.r # 0 THEN src.r ELSE @,
              !.ch = IF src.ch # 0 THEN src.ch ELSE @]

-----------------------------------------------------------------------------
(* The source: a decoder, or a reader when streams are copied.             *)

Chunk == IF job.copy THEN F ELSE job.blk

\* What describes the stream goes before the packets.
Conf == job.type \in {"aac", "mp4", "OGG", "Opus"}

\* Nothing is left: the last data may have come with PHI_DONE or before it.
SrcProcess(c) ==
  LET at == c.f.at
      n == Least(Chunk, job.total - at)
      s == [i \in 1..n |-> at + i]
      ends == at + n = job.total
      page == (at + n) % (F * PageCap) = 0 \/ ends
      a == [c EXCEPT !.f.at = at + n, !.t.pos = at,
                     !.t.flush = page, !.t.gran = IF page THEN at + n ELSE @]
  IN CASE Conf /\ ~c.f.conf -> Ret([c EXCEPT !.f.conf = TRUE, !.t.flush = TRUE], "DATA", [k |-> "conf", s |-> <<>>])
       [] n = 0 -> Ret(c, "DONE", None)
       [] OTHER -> Ret(a, IF ends /\ job.tail THEN "DONE" ELSE "DATA",
                       IF job.copy THEN Packet(s) ELSE Pcm(s, job.af))

-----------------------------------------------------------------------------
(* Filters on decoded audio.                                               *)

\* gain_process; the format is the one of the time it is opened.
GainProcess(c) ==
  Ret([c EXCEPT !.f = IF @ = Unset THEN c.t.af ELSE @], IF c.first THEN "DONE" ELSE "OK", c.din)

\* rtpeak_process.
RtpeakProcess(c) ==
  Ret([c EXCEPT !.f = IF @ = Unset THEN c.t.af ELSE @], IF c.first THEN "DONE" ELSE "OK", c.din)

\* dynanorm_process: what is to be put out, and what is held.
Normalized(held, s) ==
  LET all == held \o s
      n == IF Len(all) > DaHold THEN Len(all) - DaHold ELSE 0
  IN [out |-> Take(all, n), held |-> Drop(all, n)]

\* danorm_f_process.  A conversion to its format is put before it, and the
\* data goes back to that.
DanormProcess(c) ==
  LET af == c.t.af
      want == [af EXCEPT !.f = "f64", !.il = FALSE]
      a == IF c.f.st # "data" THEN [c EXCEPT !.f.st = "data", !.f.af = af] ELSE c
      n == Least(Len(c.din.s), DaFrame)
      d == Normalized(a.f.held, Take(c.din.s, n))
      b == IF Empty(c.din) THEN a ELSE [a EXCEPT !.f.held = d.held]
      m == Least(Len(b.f.held), DaFrame)
  IN CASE c.f.st = "new" /\ af # want ->
            Ret([c EXCEPT !.f.st = "conv", !.prev = <<"conv1">>, !.t.ain = af, !.t.aout = want,
                          !.t.user.f = IF @ = "" THEN af.f ELSE @, !.t.af = want],
                "BACK", c.din)
       [] ~Empty(c.din) /\ d.out # <<>> -> Ret(b, "DATA", Pcm(d.out, b.f.af))
       [] ~c.first -> Ret(b, "MORE", None)
       [] OTHER -> Ret([b EXCEPT !.f.held = Drop(@, m)], IF m < DaFrame THEN "DONE" ELSE "DATA",
                       Pcm(Take(b.f.held, m), b.f.af))

\* autoconv_open, autoconv_process: what follows says which format it wants
\* before the first data is passed on.
AutoconvProcess(c) ==
  LET oaf == [AfUpdate(c.t.oaf, c.t.cf) EXCEPT !.il = c.t.cf.il]
      a == [c EXCEPT !.t.oaf = oaf]
  IN CASE c.f.st = "new" /\ (job.copy \/ c.t.type # "pcm") -> Ret([c EXCEPT !.t.oaf = c.t.af], "DONE", c.din)
       [] c.f.st = "new" ->
            Ret([c EXCEPT !.f = [st |-> "asks", in |-> c.din], !.t.oaf = AfUpdate(c.t.af, c.t.user),
                          !.t.cf.il = c.t.af.il], "DATA", None)
       [] c.t.af = oaf -> Ret(a, "DONE", c.f.in)
       [] OTHER -> Ret([a EXCEPT !.t.ain = c.t.af, !.t.aout = oaf, !.add = <<"conv2">>], "DONE", c.f.in)

\* pcm_convert with no data: can it do this?
PcmConvert(fo, fi) ==
  /\ fi.r = fo.r
  /\ fi.ch # fo.ch => fi.f \in {"i16", "i24", "i32", "f32"}
  /\ (IF fi.ch # fo.ch THEN "f32" ELSE fi.f) = "i32" => fo.f # "f64"

\* Mutant: the next filter is not told what it gets.
AconvPrepareUntold(c) ==
  LET fi == c.t.ain
      fo == c.t.aout
      direct == fi.ch = fo.ch /\ fi.f # "i24"
      mid == IF fi.r # fo.r THEN [fo EXCEPT !.f = "f32", !.r = fi.r] ELSE fo
  IN IF fi.r # fo.r /\ direct
     THEN Ret([c EXCEPT !.add = <<"soxr">>], "DONE", c.din)
     ELSE [c EXCEPT !.add = IF fi.r # fo.r THEN <<"soxr">> ELSE <<>>, !.f.st = "data", !.f.fi = fi, !.f.fo = mid,
                    !.r = IF PcmConvert(mid, fi) THEN "DATA" ELSE "ERR"]

\* aconv_prepare.
AconvPrepare(c) ==
  LET fi == c.t.ain
      fo == c.t.aout
      direct == fi.ch = fo.ch /\ fi.f # "i24"
      mid == IF fi.r # fo.r THEN [fo EXCEPT !.f = "f32", !.r = fi.r] ELSE fo
  IN IF fi.r # fo.r /\ direct
     THEN Ret([c EXCEPT !.add = <<"soxr">>], "DONE", c.din)
     ELSE [c EXCEPT !.add = IF fi.r # fo.r THEN <<"soxr">> ELSE <<>>, !.f.st = "data", !.f.fi = fi, !.f.fo = mid,
                    !.t.ain.f = IF fi.r # fo.r THEN "f32" ELSE @, !.t.ain.ch = IF fi.r # fo.r THEN fo.ch ELSE @,
                    !.r = IF PcmConvert(mid, fi) THEN "DATA" ELSE "ERR"]

\* aconv_process: the input is taken only on the way forward.
AconvProcess(c) ==
  LET p == IF c.f.st = "new" THEN AconvPrepare(c) ELSE [c EXCEPT !.r = "DATA"]
      a == IF c.fwd THEN [p EXCEPT !.f.in = c.din.s] ELSE p
      n == Least(Len(a.f.in), ConvCap)
  IN CASE p.r # "DATA" -> p
       [] n = 0 -> Ret(a, IF c.first THEN "DONE" ELSE "MORE", None)
       [] OTHER -> Ret([a EXCEPT !.f.in = Drop(@, n)], "DATA", Pcm(Take(a.f.in, n), a.f.fo))

\* ffsoxr_convert: the last sample is held back until the end.
Doubled(s) == [i \in 1..(2 * Len(s)) |-> 2 * s[(i + 1) \div 2] - (i % 2)]
Resampled(held, s, fin) ==
  LET all == held \o Doubled(Take(s, Least(Len(s), SoxCap \div 2)))
      n == IF s = <<>> /\ fin THEN Len(all) ELSE IF all = <<>> THEN 0 ELSE Len(all) - 1
  IN [out |-> Take(all, n), held |-> Drop(all, n)]

\* ffsoxr_create.
FfsoxrCreate(fi, fo) == fi.ch = fo.ch /\ {fi.f, fo.f} \subseteq {"i16", "i32", "f32"}

\* soxr_open, soxr_conv.
SoxrConv(c) ==
  LET a == IF c.f.st = "new" THEN [c EXCEPT !.f.st = "data", !.f.fi = c.t.ain, !.f.fo = c.t.aout] ELSE c
      d == Resampled(a.f.held, c.din.s, c.first)
  IN CASE ~FfsoxrCreate(a.f.fi, a.f.fo) -> Ret(a, "ERR", None)
       [] OTHER -> Ret([a EXCEPT !.f.held = d.held],
                       IF d.out = <<>> /\ c.first THEN "DONE" ELSE "OK", Pcm(d.out, a.f.fo))

\* peaks_process: the last filter of an analysis.
PeaksProcess(c) ==
  CASE c.f.st = "new" -> Ret([c EXCEPT !.f.st = "conv", !.t.cf.il = FALSE, !.t.cf.f = "i16"], "MORE", None)
    [] c.f.st = "conv" /\ (c.t.oaf.il \/ c.t.oaf.f # "i16") -> Ret(c, "ERR", None)
    [] OTHER -> Ret([c EXCEPT !.f.st = "data", !.f.got = @ \o c.din.s], IF c.first THEN "DONE" ELSE "OK", c.din)

-----------------------------------------------------------------------------
(* Encoders.  What a bridge returns is [l, out, e]: its code, the data and *)
(* the encoder; lib is what the library holds.                             *)

NewEncoder == [st |-> "new", pcm |-> <<>>, buf |-> <<>>, lib |-> <<>>, cap |-> F + 1, frsamps |-> 0, fin |-> FALSE,
               gran |-> 0, endpos |-> 0, hdr |-> 0, eof |-> FALSE, asserted |-> TRUE, af |-> Unset]

Code(l, out, e) == [l |-> l, out |-> out, e |-> e]

\* _flac_encode: libFLAC puts out a frame when it has one sample more; no
\* samples: all it has is put out.
LibFlac(lib, s) ==
  LET all == lib \o s
      n == CASE s = <<>> -> Len(lib) [] Len(all) > F -> F [] OTHER -> 0
  IN [frame |-> Take(all, n), lib |-> Drop(all, n)]

\* ffflac_encode.
FfflacEncode(e) ==
  LET k == Least(Len(e.pcm), e.cap - Len(e.buf))
      a == [e EXCEPT !.pcm = Drop(@, k), !.buf = @ \o Take(e.pcm, k)]
      p == LibFlac(a.lib, a.buf)
      q == IF p.frame = <<>> /\ e.fin THEN LibFlac(p.lib, <<>>) ELSE p
      last == p.frame = <<>> /\ e.fin
  IN CASE e.st = "done" -> Code("DONE", None, e)
       [] k = 0 /\ ~e.fin -> Code("MORE", None, [e EXCEPT !.pcm = <<>>])
       [] k # 0 /\ Len(a.buf) < e.cap /\ ~e.fin -> Code("MORE", None, a)
       [] OTHER -> Code("DATA", Packet(q.frame),
                        [a EXCEPT !.buf = <<>>, !.lib = q.lib, !.cap = F, !.frsamps = IF last THEN Len(q.frame) ELSE F,
                                  !.st = IF last THEN "done" ELSE @, !.asserted = @ /\ q.frame # <<>>])

\* ffflac_create.
FfflacCreate(af) == af.f \in {"i16", "i24"}

\* flac_enc_encode: the first and the last output are the stream's
\* information.
FlacEncEncode(c) ==
  LET can == FfflacCreate(c.t.oaf)
      a == [c EXCEPT !.t.type = "flac", !.f.af = c.t.oaf]
      b == IF c.fwd THEN [c EXCEPT !.f.pcm = c.din.s, !.f.fin = c.first] ELSE c
      d == FfflacEncode(b.f)
  IN CASE c.f.st \in {"new", "fmt"} /\ ~can ->
            IF c.f.st = "new"
            THEN Ret([c EXCEPT !.t.oaf.f = "i24", !.t.cf.il = FALSE, !.f.st = "fmt"], "MORE", None)
            ELSE Ret(c, "ERR", None)
       [] c.f.st = "new" /\ c.t.oaf.il -> Ret([a EXCEPT !.t.cf.il = FALSE, !.f.st = "il"], "MORE", None)
       [] c.f.st \in {"fmt", "il"} /\ c.t.oaf.il -> Ret(a, "ERR", None)
       [] c.f.st \in {"new", "fmt", "il"} ->
            Ret([b EXCEPT !.f.st = "data", !.t.type = "flac", !.f.af = c.t.oaf], "DATA", [k |-> "info", s |-> <<>>])
       [] d.l = "MORE" -> Ret([b EXCEPT !.f = d.e], "MORE", None)
       [] d.l = "DONE" -> Ret([b EXCEPT !.f = d.e], "DONE", [k |-> "info", s |-> <<>>])
       [] OTHER -> Ret([b EXCEPT !.f = d.e, !.t.frsamps = d.e.frsamps], "DATA", d.out)

\* fdkaac_encode: takes what makes a frame complete; no samples: puts out
\* what is left.
LibAac(lib, s) ==
  LET k == Least(Len(s), F - Len(lib))
      all == lib \o Take(s, k)
      out == (s = <<>> /\ lib # <<>>) \/ Len(all) = F
  IN [k |-> k, frame |-> IF out THEN all ELSE <<>>, lib |-> IF out THEN <<>> ELSE all]

\* Mutant: the frame that is not full is forgotten at the end.
FfaacEncodeDropped(e) ==
  LET p == LibAac(e.lib, e.pcm)
      a == [e EXCEPT !.pcm = Drop(@, p.k), !.lib = p.lib]
  IN CASE e.pcm = <<>> /\ ~e.fin -> Code("MORE", None, e)
       [] p.k # 0 /\ p.frame # <<>> -> Code("DATA", Packet(p.frame), a)
       [] ~e.fin -> Code("MORE", None, a)
       [] OTHER -> Code("DONE", None, a)

\* ffaac_encode.
FfaacEncode(e) ==
  LET p == LibAac(e.lib, e.pcm)
      a == [e EXCEPT !.pcm = Drop(@, p.k), !.lib = p.lib]
      q == LibAac(p.lib, <<>>)
  IN CASE e.pcm = <<>> /\ ~e.fin -> Code("MORE", None, e)
       [] p.frame # <<>> -> Code("DATA", Packet(p.frame), a)
       [] ~e.fin -> Code("MORE", None, a)
       [] p.k # 0 /\ q.frame # <<>> -> Code("DATA", Packet(q.frame), [a EXCEPT !.lib = q.lib])
       [] OTHER -> Code("DONE", None, a)

\* aacw_encode: the first output is the configuration.
AacwEncode(c) ==
  LET b == IF c.fwd THEN [c EXCEPT !.f.pcm = c.din.s, !.f.fin = c.first] ELSE c
      d == FfaacEncode(b.f)
  IN CASE c.f.st = "new" -> Ret([b EXCEPT !.f.st = "conv", !.t.cf.f = "i16", !.t.cf.il = TRUE], "MORE", None)
       [] c.f.st = "conv" /\ (c.t.oaf.f # "i16" \/ ~c.t.oaf.il) -> Ret(b, "ERR", None)
       [] c.f.st = "conv" ->
            Ret([b EXCEPT !.f.st = "data", !.t.type = "AAC", !.f.af = c.t.oaf, !.t.mp4frame = F], "DATA",
                [k |-> "conf", s |-> <<>>])
       [] OTHER -> Ret([b EXCEPT !.f = d.e], d.l, d.out)

\* ffopus_encode: two headers, then frames; the last one is filled up.
FfopusEncode(e) ==
  LET k == Least(Len(e.pcm), F - Len(e.buf))
      a == [e EXCEPT !.pcm = Drop(@, k), !.buf = @ \o Take(e.pcm, k)]
  IN CASE e.hdr < 2 -> Code("DATA", [k |-> "conf", s |-> <<>>],
                            [e EXCEPT !.hdr = @ + 1, !.buf = IF e.hdr = 1 THEN Zeros(PreSkip) ELSE @])
       [] e.eof -> Code("DONE", None, e)
       [] Len(a.buf) < F /\ ~e.fin -> Code("MORE", None, [a EXCEPT !.pcm = <<>>])
       [] OTHER -> Code("DATA", Packet(a.buf \o Zeros(F - Len(a.buf))),
                        [a EXCEPT !.buf = <<>>, !.gran = @ + Len(a.buf), !.eof = Len(a.buf) < F])

\* opus_enc_encode: audio.pos is where a packet begins.
OpusEncEncode(c) ==
  LET a == [c EXCEPT !.f.st = "data", !.f.af = IF c.f.st = "conv" THEN c.t.oaf ELSE @, !.t.type = "Opus",
                     !.f.fin = @ \/ c.first, !.f.pcm = IF c.fwd THEN c.din.s ELSE @]
      d == FfopusEncode(a.f)
  IN CASE c.f.st = "new" ->
            Ret([c EXCEPT !.f.st = "conv", !.t.cf = [f |-> "f32", r |-> 2, ch |-> c.t.oaf.ch, il |-> TRUE]], "MORE", None)
       [] c.f.st = "conv" /\ (c.t.oaf.f # "f32" \/ c.t.oaf.r # 2 \/ ~c.t.oaf.il) -> Ret(c, "ERR", None)
       [] d.l = "MORE" -> Ret([a EXCEPT !.f = d.e], "MORE", None)
       [] d.l = "DONE" -> Ret([a EXCEPT !.f = d.e, !.t.pos = d.e.gran], "DONE", None)
       [] OTHER -> Ret([a EXCEPT !.f = [d.e EXCEPT !.endpos = d.e.gran], !.t.pos = c.f.endpos], "DATA", d.out)

\* vorbis_encode: a packet when there is a sample more than it holds, or at
\* the end.
LibVorbis(lib, eof) ==
  LET n == CASE Len(lib) > F -> F [] eof -> Len(lib) [] OTHER -> 0
  IN [pkt |-> Take(lib, n), lib |-> Drop(lib, n), is |-> Len(lib) > F \/ eof, eos |-> eof /\ Len(lib) <= F]

\* ffvorbis_encode: three headers; samples are handed over when no packet is
\* ready.
FfvorbisEncode(e) ==
  LET p == LibVorbis(e.lib, e.eof)
      lib == IF p.is THEN e.lib ELSE e.lib \o e.pcm
      eof == e.eof \/ (e.fin /\ ~p.is /\ ~LibVorbis(lib, FALSE).is)
      q == LibVorbis(lib, eof)
  IN CASE e.hdr < 3 -> Code("DATA", [k |-> "conf", s |-> <<>>], [e EXCEPT !.hdr = @ + 1])
       [] ~q.is -> Code("MORE", None, [e EXCEPT !.pcm = <<>>, !.lib = lib])
       [] OTHER -> Code(IF q.eos THEN "DONE" ELSE "DATA", Packet(q.pkt),
                        [e EXCEPT !.pcm = <<>>, !.lib = q.lib, !.eof = eof, !.gran = @ + Len(q.pkt)])

\* vorbis_out_encode.
VorbisOutEncode(c) ==
  LET b == [c EXCEPT !.f.pcm = IF c.fwd THEN c.din.s ELSE @]
      a == [b EXCEPT !.f.st = "data", !.f.af = IF c.f.st = "conv" THEN c.t.oaf ELSE @, !.t.type = "Vorbis",
                     !.f.fin = @ \/ c.first]
      d == FfvorbisEncode(a.f)
  IN CASE c.f.st = "new" -> Ret([b EXCEPT !.f.st = "conv", !.t.cf.f = "f32", !.t.cf.il = FALSE], "MORE", None)
       [] c.f.st = "conv" /\ (c.t.oaf.f # "f32" \/ c.t.oaf.il) -> Ret(b, "ERR", None)
       [] c.f.st = "fin" -> Ret([b EXCEPT !.t.pos = c.f.endpos], "DONE", None)
       [] d.l = "MORE" -> Ret([a EXCEPT !.f = d.e], "MORE", None)
       [] OTHER -> Ret([a EXCEPT !.f = [d.e EXCEPT !.endpos = d.e.gran, !.st = IF d.l = "DONE" THEN "fin" ELSE @],
                                 !.t.pos = c.f.endpos], "DATA", d.out)

-----------------------------------------------------------------------------
(* Writers.                                                                *)

NewWriter == [st |-> "new", lib |-> "hdr", in |-> None, fin |-> FALSE, told |-> 0, n |-> 0, pkt |-> None, npkts |-> 0,
              page |-> <<>>]

\* Where the unit is that is written again at the end.
FixAt == IF job.ext \in {"mp3", "m4a"} THEN 1 ELSE 0

\* The library behind a writer: what it returns, the unit it puts out and
\* its next state.  The header is corrected at the end if it must be.
Lib(w, len) ==
  LET head(n) == [k |-> "head", n |-> n]
      wrong == CASE job.ext = "wav" -> w.told # w.n [] job.ext = "flac" -> w.told # 0 [] OTHER -> TRUE
  IN CASE w.lib = "hdr" /\ FixAt = 1 -> Code("DATA", [k |-> "id"], [w EXCEPT !.lib = "head"])
       [] w.lib \in {"hdr", "head"} -> Code("DATA", head(w.told), [w EXCEPT !.lib = "data"])
       [] w.lib = "data" /\ ~Empty(w.in) -> Code("DATA", w.in, [w EXCEPT !.in = None, !.n = @ + len])
       [] w.lib = "data" /\ ~w.fin -> Code("MORE", None, w)
       [] w.lib = "data" /\ job.ext = "m4a" -> Code("DATA", [k |-> "index", n |-> w.n], [w EXCEPT !.lib = "seek"])
       [] w.lib \in {"data", "seek"} /\ wrong -> Code("SEEK", None, [w EXCEPT !.lib = "fix"])
       [] w.lib = "fix" -> Code(IF job.ext = "flac" THEN "DONE" ELSE "DATA", head(w.n), [w EXCEPT !.lib = "end"])
       [] OTHER -> Code("DONE", None, w)

\* The loop of a writer: a seek of the output goes with the next data.
WriteLoop(c, len) ==
  LET a == Lib(c.f, len)
      b == Lib(a.e, len)
  IN CASE a.l = "SEEK" -> Ret([c EXCEPT !.f = b.e, !.t.oseek = FixAt], b.l, b.out)
       [] OTHER -> Ret([c EXCEPT !.f = a.e], a.l, a.out)

\* What is left of the input, at the rate of the output; 0: unknown.
TotalOut(t) == IF t.total = 0 THEN 0 ELSE ((t.total - t.pos) * t.oaf.r) \div t.af.r

Feed(c) == IF c.fwd THEN [c EXCEPT !.f.in = c.din, !.f.fin = c.first] ELSE c

\* wavw_open, wavw_process.
WavwProcess(c) ==
  LET a == IF c.f.st = "data" THEN c ELSE [c EXCEPT !.f.st = "data", !.f.told = TotalOut(c.t)]
      b == Feed(a)
  IN CASE c.f.st = "new" /\ c.t.type # "pcm" -> Ret(c, "ERR", None)
       [] c.f.st = "new" /\ ~c.t.oaf.il -> Ret([c EXCEPT !.f.st = "conv", !.t.cf.il = TRUE], "MORE", None)
       [] c.f.st = "conv" /\ ~c.t.oaf.il -> Ret(c, "ERR", None)
       [] Lib(b.f, 0).l = "SEEK" /\ c.t.cantseek -> Ret(b, "DONE", None)
       [] OTHER -> WriteLoop(b, Len(b.f.in.s))

\* mpeg_out_process: there is no encoder.
MpegOutProcess(c) ==
  LET a == [c EXCEPT !.f.st = "data", !.f.fin = @ \/ c.first, !.f.in = IF Empty(c.din) THEN @ ELSE c.din]
  IN IF c.f.st = "new" /\ c.t.type # "mpeg" THEN Ret(c, "ERR", None) ELSE WriteLoop(a, Len(a.f.in.s))

\* aac_adts_w_process: the configuration is left out.
AacAdtsWProcess(c) ==
  CASE c.f.st = "new" /\ c.t.type # "aac" -> Ret(c, "ERR", None)
    [] c.f.st = "new" -> Ret([c EXCEPT !.f.st = "data"], "MORE", None)
    [] Empty(c.din) /\ ~c.first -> Ret(c, "MORE", None)
    [] OTHER -> Ret(c, IF c.first THEN "DONE" ELSE "DATA", c.din)

\* flac_out_encode.
FlacOutEncode(c) ==
  LET a == IF c.f.st # "init" THEN c
           ELSE [c EXCEPT !.f.st = "data", !.din = None, !.f.told = IF c.t.cantseek THEN 0 ELSE TotalOut(c.t)]
  IN CASE c.f.st = "new" -> Ret([c EXCEPT !.f.st = "init", !.prev = <<"enc">>], "MORE", None)
       [] c.f.st = "init" /\ (c.t.type # "flac" \/ c.din.k # "info") -> Ret(c, "ERR", None)
       [] c.fwd /\ c.first /\ a.din.k # "info" -> Ret(c, "ERR", None)
       [] c.fwd /\ c.first -> WriteLoop([a EXCEPT !.f.in = None, !.f.fin = TRUE], 0)
       [] OTHER -> WriteLoop(Feed(a), c.t.frsamps)

\* mp4w_write.
Mp4wWrite(c) ==
  LET a == IF c.f.st = "data" THEN c ELSE [c EXCEPT !.f.st = "data", !.din = None]
      b == Feed(a)
  IN CASE c.f.st = "new" /\ c.t.type = "pcm" -> Ret([c EXCEPT !.f.st = "init", !.prev = <<"enc">>], "MORE", None)
       [] c.f.st = "new" /\ c.t.type \notin {"aac", "mp4"} -> Ret(c, "ERR", None)
       [] c.f.st \in {"new", "init"} /\ (c.t.mp4frame = 0 \/ c.t.oaf.f \in {"f32", "f64"}) -> Ret(c, "ERR", None)
       [] OTHER -> WriteLoop(b, IF b.f.in.k = "pkt" THEN Len(b.f.in.s) ELSE 0)

\* oggwrite_process: packets are collected until the page is full, must be
\* flushed or is the last.
LibOgg(w, pkt, endpos, flag) ==
  LET page(ps) == [k |-> "page", pk |-> ps, end |-> endpos, last |-> flag = "last"]
      all == IF Empty(pkt) THEN w.page ELSE Append(w.page, pkt)
      a == [w EXCEPT !.page = <<>>, !.npkts = IF Empty(pkt) THEN @ ELSE @ + 1]
  IN CASE Empty(pkt) /\ flag # "last" -> Code("MORE", None, w)
       [] Len(w.page) = PageCap -> Code("DATA", [page(w.page) EXCEPT !.end = w.n, !.last = FALSE], [w EXCEPT !.page = <<>>])
       [] flag = "last" -> Code("LASTOUT", page(all), a)
       [] flag = "flush" -> Code("DATA", page(all), a)
       [] OTHER -> Code("MORE", None, [a EXCEPT !.page = all, !.n = endpos])

\* ogg_w_encode: a packet is kept back until the next one tells where it
\* ends; copied pages are kept as they are.
OggWEncode(c) ==
  LET f == IF c.fwd THEN [c.f EXCEPT !.in = c.din] ELSE c.f
      a == [c EXCEPT !.f = [f EXCEPT !.st = IF c.t.type = "OGG" THEN "exact" ELSE "pkt",
                                     !.pkt = IF c.t.type = "OGG" THEN @ ELSE f.in],
                     !.prev = IF c.t.type = "pcm" THEN <<"enc">> ELSE <<>>]
      b == [c EXCEPT !.f = f]
      endpos == IF f.npkts = 0 THEN 0 ELSE c.t.pos
      last == c.first /\ Empty(f.in)
      d == LibOgg(f, f.pkt, endpos, CASE last -> "last" [] endpos = 0 -> "flush" [] OTHER -> "")
      w == IF d.l = "DATA" /\ d.e.npkts = f.npkts THEN d.e
           ELSE [d.e EXCEPT !.pkt = None, !.st = IF f.npkts = 0 /\ d.e.npkts = 1 /\ c.t.tags THEN "tags" ELSE @]
      kept == [w EXCEPT !.pkt = f.in]
      e == LibOgg(w, f.in, IF c.t.total # 0 /\ endpos < c.t.total THEN c.t.total ELSE endpos + 1, "last")
      t == LibOgg(f, [k |-> "conf", s |-> <<>>], 0, "flush")
      x == LibOgg(f, f.in, c.t.gran, CASE c.first -> "last" [] c.t.flush -> "flush" [] OTHER -> "")
  IN CASE c.f.st = "new" /\ c.t.type # "OGG" /\ ~c.first -> Ret(a, "MORE", None)
       [] c.t.type = "OGG" ->
            Ret([b EXCEPT !.f = [x.e EXCEPT !.st = "exact", !.in = None], !.t.flush = FALSE], x.l, x.out)
       [] c.f.st = "tags" -> Ret([b EXCEPT !.f = [t.e EXCEPT !.st = "pkt"]], t.l, t.out)
       [] d.l = "MORE" /\ c.first -> Ret([b EXCEPT !.f = e.e], e.l, e.out)
       [] d.l = "MORE" -> Ret([b EXCEPT !.f = kept], "MORE", None)
       [] OTHER -> Ret([b EXCEPT !.f = w], d.l, d.out)

\* phi_autow_process: the name's extension says which writer follows.
AutowProcess(c) ==
  IF job.ext = "" THEN Ret(c, "ERR", None) ELSE Ret([c EXCEPT !.add = <<"writer">>], "DONE", c.din)

WriterProcess(c) ==
  CASE job.ext = "wav" -> WavwProcess(c)
    [] job.ext = "mp3" -> MpegOutProcess(c)
    [] job.ext = "aac" -> AacAdtsWProcess(c)
    [] job.ext = "flac" -> FlacOutEncode(c)
    [] job.ext = "m4a" -> Mp4wWrite(c)
    [] job.ext \in {"ogg", "opus"} -> OggWEncode(c)

\* ogg_enc_mod; flac_out_encode and mp4w_write know their encoder.
EncoderProcess(c) ==
  CASE job.ext = "flac" -> FlacEncEncode(c)
    [] job.ext = "m4a" -> AacwEncode(c)
    [] job.ext = "opus" -> OpusEncEncode(c)
    [] job.ext = "ogg" -> VorbisOutEncode(c)

-----------------------------------------------------------------------------
(* The output.                                                             *)

Put(d, off) ==
  [units |-> SubSeq(dest.units, 1, off) \o <<d>> \o SubSeq(dest.units, off + 2, Len(dest.units)), off |-> off + 1]

\* fw_process, from the outside; its buffer is FileWrite's.
FwWrites(c) ==
  LET off == IF c.t.oseek # -1 THEN c.t.oseek ELSE dest.off
  IN IF Empty(c.din) THEN [dest EXCEPT !.off = off] ELSE Put(c.din, off)
FwProcess(c) == Ret([c EXCEPT !.t.oseek = -1], IF c.first THEN "DONE" ELSE "MORE", None)

\* stdout_open, stdout_write: what should be written somewhere else is an
\* error, but what should be written at the start is appended.
StdoutWrites(c) == IF c.t.oseek > 0 \/ Empty(c.din) THEN dest ELSE Put(c.din, dest.off)
StdoutWrite(c) ==
  LET a == [c EXCEPT !.t.cantseek = TRUE]
  IN CASE c.t.oseek > 0 -> Ret(a, "ERR", None)
       [] OTHER -> Ret(a, IF c.first THEN "DONE" ELSE "OK", c.din)

-----------------------------------------------------------------------------
(* The track.                                                              *)

NewConv == [st |-> "new", fi |-> Unset, fo |-> Unset, in |-> <<>>]
NewFilters ==
  [src |-> [at |-> 0, conf |-> FALSE], rtpeak |-> Unset, gain |-> Unset,
   danorm |-> [st |-> "new", af |-> Unset, held |-> <<>>], conv1 |-> NewConv, conv2 |-> NewConv,
   autoconv |-> [st |-> "new", in |-> None], soxr |-> [st |-> "new", fi |-> Unset, fo |-> Unset, held |-> <<>>],
   peaks |-> [st |-> "new", got |-> <<>>], enc |-> NewEncoder, writer |-> NewWriter]

\* audio.total is not known while recording; what the readers say of copied
\* packets.
NewTrack(j, user) ==
  [af |-> j.af, oaf |-> Unset, cf |-> Unset, ain |-> Unset, aout |-> Unset, user |-> user,
   type |-> IF j.copy THEN j.type ELSE "pcm", total |-> IF j.rec THEN 0 ELSE j.total, pos |-> 0, oseek |-> -1,
   cantseek |-> FALSE, frsamps |-> 0, mp4frame |-> IF j.copy THEN F ELSE 0, gran |-> 0, flush |-> FALSE,
   tags |-> j.copy /\ j.type = "Opus"]

\* cmd_rec, qe_play: the chains for recording, for converting and for
\* finding the peaks.
ChainOf(j) ==
  LET danorm == IF j.danorm THEN <<"danorm">> ELSE <<>>
  IN CASE j.ext = "peaks" -> <<"src", "autoconv", "peaks">>
       [] j.rec -> <<"src", "rtpeak">> \o danorm \o <<"gain", "autoconv", "autow", "out">>
       [] OTHER -> <<"src">> \o danorm \o <<"gain", "autoconv", "autow", "out">>

Fmt(f, r, ch, il) == [f |-> f, r |-> r, ch |-> ch, il |-> il]

\* What decoders deliver, and what the user asks for.
Sources == {Fmt("i16", 1, 2, TRUE), Fmt("i16", 2, 2, FALSE), Fmt("f32", 1, 2, FALSE), Fmt("i24", 1, 2, FALSE)}
Wishes == {Unset, [Unset EXCEPT !.f = "i24"], [Unset EXCEPT !.r = 2], [Unset EXCEPT !.ch = 1]}

Copies == {<<"mpeg", "mp3">>, <<"aac", "aac">>, <<"aac", "m4a">>, <<"mp4", "m4a">>, <<"OGG", "ogg">>, <<"Opus", "ogg">>,
           <<"mpeg", "wav">>, <<"mpeg", "m4a">>}

Job == [total : Totals, blk : Blocks, tail : BOOLEAN, af : Sources, copy : BOOLEAN, type : {"", "mpeg", "aac", "mp4", "OGG", "Opus"},
        ext : {"", "wav", "flac", "m4a", "opus", "ogg", "mp3", "aac", "peaks"}, rec : BOOLEAN, danorm : BOOLEAN,
        stdout : BOOLEAN]

WriteInit ==
  \E n \in Totals, blk \in Blocks, tail \in BOOLEAN, af \in Sources, user \in Wishes :
    /\ \/ \E ext \in {"", "wav", "flac", "m4a", "opus", "ogg", "mp3", "aac", "peaks"},
             mode \in {"", "rec", "danorm", "stdout"} :
            /\ mode # "" => user = Unset /\ ext # "peaks"
            /\ job = [total |-> n, blk |-> blk, tail |-> tail, af |-> af, copy |-> FALSE, type |-> "", ext |-> ext,
                      rec |-> mode = "rec", danorm |-> mode = "danorm", stdout |-> mode = "stdout"]
       \/ \E k \in Copies :
            /\ user = Unset /\ af = Fmt("i16", 1, 2, TRUE) /\ blk = F
            /\ job = [total |-> n, blk |-> blk, tail |-> tail, af |-> af, copy |-> TRUE, type |-> k[1], ext |-> k[2],
                      rec |-> FALSE, danorm |-> FALSE, stdout |-> FALSE]
    /\ conv = NewLine(ChainOf(job), None)
    /\ trk = NewTrack(job, user)
    /\ filt = NewFilters
    /\ dest = [units |-> <<>>, off |-> 0]

Current == At(conv.ch, conv.cur)
Seen(f) == CallOf(conv, f, trk, None)

\* A filter's process() is called and its result acted on.
Acts(name, c) ==
  /\ conv.pc = "run" /\ Current = name /\ ~Passed(conv)
  /\ conv' = Turned(AddedPrev(conv, c.prev), c.add, c.r, c.out, None)
  /\ trk' = c.t /\ UNCHANGED job

Keeps(name, c) == filt' = [filt EXCEPT ![name] = c.f] /\ UNCHANGED dest

\* A filter that returned PHI_OK is passed over.
PassedOver ==
  /\ conv.pc = "run" /\ Passed(conv)
  /\ conv' = Turned(conv, <<>>, "MORE", None, None)
  /\ UNCHANGED <<job, trk, filt, dest>>

Src == LET c == SrcProcess(Seen(filt.src)) IN Acts("src", c) /\ Keeps("src", c)
Rtpeak == LET c == RtpeakProcess(Seen(filt.rtpeak)) IN Acts("rtpeak", c) /\ Keeps("rtpeak", c)
Danorm == LET c == DanormProcess(Seen(filt.danorm)) IN Acts("danorm", c) /\ Keeps("danorm", c)
Conv(name) == LET c == AconvProcess(Seen(filt[name])) IN Acts(name, c) /\ Keeps(name, c)
Gain == LET c == GainProcess(Seen(filt.gain)) IN Acts("gain", c) /\ Keeps("gain", c)
Autoconv == LET c == AutoconvProcess(Seen(filt.autoconv)) IN Acts("autoconv", c) /\ Keeps("autoconv", c)
Soxr == LET c == SoxrConv(Seen(filt.soxr)) IN Acts("soxr", c) /\ Keeps("soxr", c)
Peaks == LET c == PeaksProcess(Seen(filt.peaks)) IN Acts("peaks", c) /\ Keeps("peaks", c)
Autow == Acts("autow", AutowProcess(Seen(<<>>))) /\ UNCHANGED <<filt, dest>>
Encoder == LET c == EncoderProcess(Seen(filt.enc)) IN Acts("enc", c) /\ Keeps("enc", c)
Writer == LET c == WriterProcess(Seen(filt.writer)) IN Acts("writer", c) /\ Keeps("writer", c)
Output ==
  LET c == Seen(<<>>)
  IN /\ Acts("out", IF job.stdout THEN StdoutWrite(c) ELSE FwProcess(c))
     /\ dest' = IF job.stdout THEN StdoutWrites(c) ELSE FwWrites(c)
     /\ UNCHANGED filt

WriteEnded == conv.pc = "end" /\ UNCHANGED writeVars

WriteRuns ==
  Src \/ Rtpeak \/ Danorm \/ Conv("conv1") \/ Conv("conv2") \/ Gain \/ Autoconv \/ Soxr \/ Peaks \/ Autow
    \/ Encoder \/ Writer \/ Output \/ PassedOver

WriteNext == WriteRuns \/ WriteEnded

WriteSpec == WriteInit /\ [][WriteNext]_writeVars

-----------------------------------------------------------------------------
(* Properties.                                                             *)

Finished == conv.pc = "end" /\ ~conv.failed

\* The samples of a unit, in order.
SamplesOf(u) ==
  CASE u.k \in {"pcm", "pkt"} -> u.s
    [] u.k = "page" -> Sx!FlattenSeq([i \in DOMAIN u.pk |-> u.pk[i].s])
    [] OTHER -> <<>>
Written == SelectSeq(Sx!FlattenSeq([i \in DOMAIN dest.units |-> SamplesOf(dest.units[i])]), LAMBDA x : x # 0)

AllOf(n) == [i \in 1..n |-> i]
Resampling == trk.oaf.r # job.af.r
Length == IF Resampling THEN 2 * job.total ELSE job.total

\* A finished file holds every sample of the source, once and in order: none
\* is left in the buffers of the converters, the encoder or the writer; an
\* analysis has seen every sample.  Excepted: the first block goes missing
\* before danorm_f_process, and what ffsoxr_convert does not take at once.
EncodedInFull ==
  Finished /\ ~job.danorm /\ (Resampling => job.blk <= SoxCap \div 2) =>
    AllOf(Length) = IF job.ext = "peaks" THEN filt.peaks.got ELSE Written

\* The header of a finished file, corrected or not, gives the number of
\* samples that follow, even if the source did not know it.  Excepted: the
\* header of a .flac is left alone if the number is not known at the start,
\* and the encoder miscounts the last frame where its assertion fails.
HeaderTrue ==
  Finished /\ ~job.stdout /\ (job.ext = "flac" => filt.writer.told # 0 /\ filt.enc.asserted) =>
    \A i \in DOMAIN dest.units : dest.units[i].k \in {"head", "index"} => dest.units[i].n = Len(Written)

\* The positions of Ogg pages grow, and the last one is that of the end of
\* the audio.
OggPositions ==
  LET pages == SelectSeq(dest.units, LAMBDA u : u.k = "page")
      added == IF job.ext = "opus" THEN PreSkip ELSE 0
  IN ~job.copy /\ ~job.danorm =>
       /\ \A i \in 1..(Len(pages) - 1) : pages[i].end <= pages[i + 1].end /\ ~pages[i].last
       /\ Finished /\ pages # <<>> =>
            pages[Len(pages)].last /\ pages[Len(pages)].end = Len(Written) + added

\* The format a filter takes its input to be in.
Believed ==
  LET f == filt[Current]
  IN CASE Current \in {"gain", "rtpeak"} -> IF f = Unset THEN trk.af ELSE f
       [] Current \in {"conv1", "conv2", "soxr"} -> IF f.st = "new" THEN trk.ain ELSE f.fi
       [] Current = "danorm" -> IF f.st = "data" THEN f.af ELSE trk.af
       [] Current = "enc" -> IF f.st \in {"data", "done", "fin"} THEN f.af ELSE trk.oaf
       [] OTHER -> trk.oaf

\* Audio is in the format the filter that gets it takes it to be in, while
\* the encoder, the filters that convert and the user settle on one.
\* Excepted: aconv_prepare does not tell soxr_conv of a change of layout.
LayoutAgrees ==
  conv.pc = "run" /\ conv.fwd /\ conv.din.k = "pcm" /\ conv.din.s # <<>>
  /\ Current \in {"gain", "rtpeak", "conv1", "conv2", "soxr", "danorm", "enc", "writer", "peaks"} =>
    \/ conv.din.af = Believed
    \/ Current = "soxr" /\ "conv2" \in Sx!ToSet(conv.ch) /\ conv.din.af = [Believed EXCEPT !.il = ~@]

\* "next module's input format": the same without that exception.
LayoutTold ==
  conv.pc = "run" /\ conv.fwd /\ conv.din.k = "pcm" /\ conv.din.s # <<>> /\ Current = "soxr" => conv.din.af = Believed

\* ffflac_encode asserts that a frame was made.
FlacFrameMade == filt.enc.asserted

\* A conversion fails only where it is not supported: no encoder for the
\* file, packets the file cannot hold, an output that must be sought, and what
\* soxr cannot convert.
FailsOnlyUnsupported ==
  conv.failed =>
    \/ job.ext \in {"", "mp3", "aac"} /\ ~job.copy
    \/ job.copy /\ <<job.type, job.ext>> \in {<<"mpeg", "wav">>, <<"mpeg", "m4a">>}
    \/ job.stdout /\ job.ext = "m4a"
    \/ Resampling /\ (job.danorm \/ trk.oaf.f = "i24")

\* Converters, encoder and writer together: a finished file has every sample,
\* and its header and the positions in it say so; a conversion fails only
\* where it is not supported.
FileComplete == EncodedInFull /\ HeaderTrue /\ OggPositions /\ FailsOnlyUnsupported

=============================================================================
