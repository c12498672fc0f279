----------------------------- MODULE PcmConvert -----------------------------
(***************************************************************************)
(* Samples: afilter/pcm.h, pcm_convert.h, pcm_gain.h, pcm_maxpeak.h and    *)
(* the conversions of acodec/alib3-bridge/flac.h.  A byte has Q bits;      *)
(* integers keep their width and wrap around.  A float is the numerator of *)
(* a fraction of One, which is half a step of the widest integer.          *)
(***************************************************************************)
EXTENDS Integers, Sequences, FiniteSets

LOCAL Fx == INSTANCE FiniteSetsExt

CONSTANTS
  Q,       \* bits of a byte
  Gains,   \* numerators of gains, over GainOne
  GainOne

PcmAssumptions == Q \in Nat \ {0} /\ GainOne \in Nat \ {0} /\ Gains \subseteq Nat

VARIABLES
  req,   \* [fi, fo, n, data]: what is asked for
  res    \* [r, out]: what came of it

pcmVars == <<req, res>>

Formats == {"8", "16", "24", "24_4", "32", "f32", "f64"}
Floats == {"f32", "f64"}

\* pcm_bits, as stored.
PcmBits(f) == CASE f = "8" -> Q [] f = "16" -> 2 * Q [] f = "24" -> 3 * Q [] OTHER -> 4 * Q

One == 2 ^ (4 * Q)
Top(f) == 2 ^ (PcmBits(f) - 1)

\* A cast to a signed integer of w bits; division of C.
Wrap(x, w) == ((x + 2 ^ (w - 1)) % 2 ^ w) - 2 ^ (w - 1)
Quo(a, b) == IF a >= 0 THEN a \div b ELSE -((-a) \div b)
Abs(x) == IF x < 0 THEN -x ELSE x

\* What a value of a format stands for, over One.
Real(f, x) == IF f \in Floats THEN x ELSE x * (One \div Top(f))

-----------------------------------------------------------------------------
(* pcm.h.                                                                  *)

\* int_ltoh24s: the sign is bit 23; ffint_le_cpu24_ptr has none.
IntLtoh24s(x) == Wrap(x, 3 * Q)
Unsigned24(x) == x % 2 ^ (3 * Q)

\* int_htol24.
IntHtol24(x) == Wrap(x, 3 * Q)

\* int_ftoi of num / den: to the nearest, a half to the even one.
IntFtoi(num, den) ==
  LET low == num \div den
      twice == 2 * (num - low * den)
  IN IF twice > den \/ (twice = den /\ low % 2 = 1) THEN low + 1 ELSE low

\* pcm_flt_8, pcm_flt_16le, pcm_flt_24, pcm_flt_32.
PcmFlt(f, x) ==
  CASE x * Top(f) < -(Top(f) * One) -> -Top(f)
    [] x * Top(f) > (Top(f) - 1) * One -> Top(f) - 1
    [] OTHER -> IntFtoi(x * Top(f), One)

\* pcm_8_flt, pcm_16le_flt, pcm_24_flt, pcm_32_flt.
FltOf(f, x) == x * (One \div Top(f))

\* pcm_limf.
PcmLimf(x) == CASE x > One -> One [] x < -One -> -One [] OTHER -> x

\* pcm_setni: the channels of interleaved data, as <<array, first>>.
PcmSetni(b, nch) == [c \in 0..(nch - 1) |-> <<b, c>>]

Chans(b, nch) == [c \in 0..(nch - 1) |-> <<b[c], 0>>]
Get(p, c, i, step) == p[c][1][p[c][2] + i * step]

-----------------------------------------------------------------------------
(* Mixing channels.                                                        *)

FL == 0
FC == 2
BL == 4
SL == 6

\* chan_mask, for the layouts that are supported.
ChanMask(n) == CASE n = 1 -> {FC} [] n = 2 -> {0, 1} [] n = 6 -> 0..5 [] n = 8 -> 0..7

\* chan_fill_gain_levels, in hundredths: what each channel of the input adds
\* to each of the output.  sqrt1_2 is 71.
ChanFillGainLevels(im, om) ==
  LET unused == im \ om
      fronts == {0, 1}
      pair(b) == {b, b + 1}
  IN [oc \in om |-> [ic \in im |->
       CASE oc = ic -> 100
         [] oc = FC /\ ic \in fronts /\ FL \in unused -> 71
         [] oc \in fronts /\ ic = FC /\ FC \in unused -> 71
         [] \E b \in {BL, SL} : b \in unused /\ FL \in om /\ oc \in fronts /\ ic = b + oc -> 71
         [] \E b \in {BL, SL} : b \in unused /\ FL \notin om /\ oc = FC /\ ic \in pair(b) -> 50
         [] OTHER -> 0]]

Rank(c, mask) == Cardinality({k \in mask : k < c})
SumOver(S, w) == Fx!MapThenSumSet(LAMBDA c : w[c], S)

\* _pcm_chan_mix: interleaved floats.  With 24-bit input the place of an
\* output channel is its number, and what has no place stays as it was.
PcmChanMix(fi, ochan, in, n, junk) ==
  LET im == ChanMask(fi.ch)
      om == ChanMask(ochan)
      level == ChanFillGainLevels(im, om)
      p == IF fi.il THEN PcmSetni(in, fi.ch) ELSE Chans(in, fi.ch)
      step == IF fi.il THEN fi.ch ELSE 1
      x(ic, i) == LET v == Get(p, Rank(ic, im), i, step) IN IF fi.f = "f32" THEN v ELSE FltOf(fi.f, v)
      at(oc) == IF fi.f = "24" THEN oc ELSE Rank(oc, om)
      mixed(oc, i) ==
        LET all == SumOver(im, level[oc])
        IN IF all = 0 THEN 0 ELSE PcmLimf(SumOver(im, [ic \in im |-> level[oc][ic] * x(ic, i)]) \div all)
  IN [k \in 0..(n * ochan - 1) |->
       IF \E oc \in om : at(oc) = k % ochan
       THEN mixed(CHOOSE oc \in om : at(oc) = k % ochan, k \div ochan) ELSE junk]

-----------------------------------------------------------------------------
(* Converting a sample: the cases of pcm_convert.                          *)

Int8To(f, x) == IF f = "16" THEN x * 2 ^ Q ELSE x

Int16To(f, x) ==
  CASE f = "8" -> Wrap(Quo(x, 2 ^ Q), Q)
    [] f = "16" -> x
    [] f = "24" -> IntHtol24(x * 2 ^ Q)
    [] f = "24_4" -> IntHtol24(x * 2 ^ Q) * 2 ^ Q
    [] f = "32" -> x * 2 ^ (2 * Q)
    [] OTHER -> FltOf("16", x)

\* Mutant: the sign gets lost.
Int24ToUnsigned(f, x) ==
  CASE f = "16" -> Wrap(Unsigned24(x) \div 2 ^ Q, 2 * Q)
    [] f = "24" -> x
    [] f = "24_4" -> x * 2 ^ Q
    [] f = "32" -> Wrap(Unsigned24(x) * 2 ^ Q, 4 * Q)
    [] OTHER -> FltOf("24", Unsigned24(x))

Int24To(f, x) ==
  CASE f = "16" -> Wrap(Unsigned24(x) \div 2 ^ Q, 2 * Q)
    [] f = "24" -> x
    [] f = "24_4" -> x * 2 ^ Q
    [] f = "32" -> Wrap(Unsigned24(x) * 2 ^ Q, 4 * Q)
    [] OTHER -> FltOf("24", IntLtoh24s(x))

Int32To(f, x) ==
  CASE f = "16" -> Wrap(x, 2 * Q)
    [] f = "24" -> IntHtol24(Quo(x, 2 ^ Q))
    [] f = "24_4" -> IntHtol24(Quo(x, 2 ^ Q)) * 2 ^ Q
    [] f = "32" -> x
    [] OTHER -> FltOf("32", x)

Flt32To(f, x) ==
  CASE f \in {"16", "24", "32"} -> PcmFlt(f, x)
    [] f = "24_4" -> PcmFlt("24", x) * 2 ^ Q
    [] OTHER -> x

Flt64To(f, x) == IF f \in {"16", "24", "32"} THEN PcmFlt(f, x) ELSE x

Cases ==
  [f \in Formats |->
    CASE f = "8" -> {"8", "16"}
      [] f = "16" -> Formats
      [] f = "24" -> Formats \ {"8"}
      [] f = "24_4" -> {}
      [] f = "32" -> Formats \ {"8", "f64"}
      [] f = "f32" -> Formats \ {"8"}
      [] f = "f64" -> Formats \ {"8", "24_4"}]

SampleTo(fi, fo, x) ==
  CASE fi = "8" -> Int8To(fo, x)
    [] fi = "16" -> Int16To(fo, x)
    [] fi = "24" -> Int24To(fo, x)
    [] fi = "24_4" -> x
    [] fi = "32" -> Int32To(fo, x)
    [] fi = "f32" -> Flt32To(fo, x)
    [] fi = "f64" -> Flt64To(fo, x)

-----------------------------------------------------------------------------
(* pcm_convert.                                                            *)

\* The input once its channels are those of the output: one of them is
\* picked, or they are mixed.  Interleaved data is b, other data p.
Source(fo, fi, in, n, junk) ==
  LET mix == PcmChanMix(fi, fo.ch, in, n, junk)
      none == [ok |-> FALSE]
      il(f, b) == [ok |-> TRUE, f |-> f, il |-> TRUE, step |-> 1, b |-> b]
      ni(f, p, step) == [ok |-> TRUE, f |-> f, il |-> FALSE, step |-> step, p |-> p]
  IN CASE fo.pick = 0 /\ fi.ch = fo.ch -> IF fi.il THEN il(fi.f, in) ELSE ni(fi.f, Chans(in, fi.ch), 1)
       [] fo.pick # 0 /\ fo.ch = 1 /\ fi.il -> ni(fi.f, [c \in {0} |-> <<in, fo.pick - 1>>], fi.ch)
       [] fo.pick # 0 /\ fo.ch = 1 -> ni(fi.f, [c \in {0} |-> <<in[fo.pick - 1], 0>>], 1)
       [] fi.f \notin {"16", "24", "32", "f32"} -> none
       [] fo.il -> il("f32", mix)
       [] OTHER -> ni("f32", PcmSetni(mix, fo.ch), fo.ch)

\* Data of the same format and layout is copied; mono has any layout.
Copied(s, fo) == s.f = fo.f /\ s.step = 1 /\ (s.il = fo.il \/ fo.ch = 1)

PcmConvert(fo, fi, in, n, junk) ==
  LET s == Source(fo, fi, in, n, junk)
      p == IF s.il THEN PcmSetni(s.b, fo.ch) ELSE s.p
      step == IF s.il THEN fo.ch ELSE s.step
      to(c, i) == LET x == Get(p, c, i, step) IN IF Copied(s, fo) THEN x ELSE SampleTo(s.f, fo.f, x)
      can == s.ok /\ (Copied(s, fo) \/ fo.f \in Cases[s.f])
  IN IF ~can THEN [r |-> -1, out |-> <<>>]
     ELSE [r |-> 0, out |-> IF fo.il THEN [k \in 0..(n * fo.ch - 1) |-> to(k % fo.ch, k \div fo.ch)]
                            ELSE [c \in 0..(fo.ch - 1) |-> [i \in 0..(n - 1) |-> to(c, i)]]]

\* Sample i of channel c.
Cell(f, d, c, i) == IF f.il THEN d[c + i * f.ch] ELSE d[c][i]

Build(f, n, x(_, _)) ==
  IF f.il THEN [k \in 0..(n * f.ch - 1) |-> x(k % f.ch, k \div f.ch)]
  ELSE [c \in 0..(f.ch - 1) |-> [i \in 0..(n - 1) |-> x(c, i)]]

\* pcm_gain.
PcmGain(fi, gain, in, n) ==
  LET louder(x) == IF fi.f \in Floats THEN (x * gain) \div GainOne
                   ELSE PcmFlt(fi.f, (FltOf(fi.f, x) * gain) \div GainOne)
  IN CASE gain = GainOne -> [r |-> 0, out |-> in]
       [] fi.f = "24_4" -> [r |-> -1, out |-> in]
       [] OTHER -> [r |-> 0, out |-> Build(fi, n, LAMBDA c, i : louder(Cell(fi, in, c, i)))]

\* pcm_maxpeak: over One; -1: this format is not supported.
PcmMaxpeak(fi, in, n) ==
  LET cells == {Abs(Cell(fi, in, c, i)) : c \in 0..(fi.ch - 1), i \in 0..(n - 1)}
  IN CASE fi.f = "f32" -> Fx!Max(cells)
       [] fi.f \in {"16", "24", "32"} -> FltOf(fi.f, Fx!Max(cells))
       [] OTHER -> -1

\* pcm_to32, pcm_from32: samples in the containers of libFLAC.
PcmTo32(f, x) == IF f = "24" THEN IntLtoh24s(x) ELSE x
PcmFrom32(f, x) == IF f = "24" THEN IntHtol24(x) ELSE Wrap(x, PcmBits(f))

-----------------------------------------------------------------------------
(* One call.                                                               *)

Range(f) ==
  CASE f \in Floats -> {k * (One \div 8) + d : k \in -10..10, d \in {-1, 0, 1}}
    [] f = "24_4" -> {x * 2 ^ Q : x \in (-Top("24"))..(Top("24") - 1)}
    [] OTHER -> (-Top(f))..(Top(f) - 1)

Af(f, ch, pick, il) == [f |-> f, ch |-> ch, pick |-> pick, il |-> il]
Channels == {1, 2, 6, 8}

\* Distinct samples, and the same one in every channel.
Ramp(f) == [c \in 0..7 |-> [i \in 0..1 |-> LET t == (c + 1) * (i + 1) IN IF f \in Floats THEN t * 4 ELSE t % Top(f)]]

Ask(op, fo, fi, n, data, junk, gain) ==
  req = [op |-> op, fo |-> fo, fi |-> fi, n |-> n, data |-> data, junk |-> junk, gain |-> gain]

PcmInit ==
  /\ res = [r |-> 1, out |-> <<>>]
  /\ \/ \E f, g \in Formats, a, b \in BOOLEAN : \E x \in Range(f) :
          Ask("convert", Af(g, 1, 0, b), Af(f, 1, 0, a), 1, Build(Af(f, 1, 0, a), 1, LAMBDA c, i : x), 0, GainOne)
     \/ \E f, g \in Formats, a, b \in BOOLEAN, m, k \in Channels, junk \in {0, One}, even \in BOOLEAN :
          LET fi == Af(f, m, 0, a)
              x(c, i) == IF even THEN Ramp(f)[0][i] ELSE Ramp(f)[c][i]
          IN Ask("convert", Af(g, k, 0, b), fi, 2, Build(fi, 2, x), junk, GainOne)
     \/ \E f, g \in Formats, a, b \in BOOLEAN, m \in Channels \ {1}, pick \in 1..2 :
          LET fi == Af(f, m, 0, a)
          IN Ask("convert", Af(g, 1, pick, b), fi, 2, Build(fi, 2, LAMBDA c, i : Ramp(f)[c][i]), 0, GainOne)
     \/ \E f \in Formats, a \in BOOLEAN, gain \in Gains : \E x \in Range(f) :
          LET fi == Af(f, 2, 0, a)
          IN Ask("gain", fi, fi, 1, Build(fi, 1, LAMBDA c, i : IF c = 1 THEN x ELSE 0), 0, gain)
     \/ \E f \in {"8", "16", "24"} : \E x \in Range(f) :
          Ask("flac", Af(f, 1, 0, FALSE), Af(f, 1, 0, FALSE), 1, <<x>>, 0, GainOne)

Converts ==
  /\ req.op = "convert" /\ res.r = 1
  /\ res' = PcmConvert(req.fo, req.fi, req.data, req.n, req.junk)
  /\ UNCHANGED req

Amplifies ==
  /\ req.op = "gain" /\ res.r = 1
  /\ res' = PcmGain(req.fi, req.gain, req.data, req.n)
  /\ UNCHANGED req

PassesFlac ==
  /\ req.op = "flac" /\ res.r = 1
  /\ res' = [r |-> 0, out |-> <<PcmFrom32(req.fi.f, PcmTo32(req.fi.f, req.data[1]))>>]
  /\ UNCHANGED req

PcmNext == Converts \/ Amplifies \/ PassesFlac \/ (res.r # 1 /\ UNCHANGED pcmVars)

PcmSpec == PcmInit /\ [][PcmNext]_pcmVars

-----------------------------------------------------------------------------
(* Properties.                                                             *)

Done == res.r = 0
Step(f) == CASE f \in Floats -> 1 [] f = "24_4" -> One \div Top("24") [] OTHER -> One \div Top(f)
Coarser == IF Step(req.fi.f) > Step(req.fo.f) THEN Step(req.fi.f) ELSE Step(req.fo.f)
Clipped(x, f) == LET hi == One - Step(f) IN IF f \in Floats THEN x ELSE CASE x > hi -> hi [] x < -One -> -One [] OTHER -> x

\* Whatever the formats and the layouts, sample i of channel c becomes sample
\* i of channel c with the same value, up to a step of the coarser format; a
\* picked channel is the one asked for; the detour of the FLAC encoder changes
\* nothing.  Excepted: 32 to 16 bits, where the upper half is cut off.
ValuesKept ==
  /\ Done /\ req.op = "convert" /\ (req.fi.ch = req.fo.ch \/ req.fo.pick # 0) /\ <<req.fi.f, req.fo.f>> # <<"32", "16">> =>
       \A c \in 0..(req.fo.ch - 1), i \in 0..(req.n - 1) :
         LET x == Real(req.fi.f, Cell(req.fi, req.data, IF req.fo.pick = 0 THEN c ELSE req.fo.pick - 1, i))
             y == Real(req.fo.f, Cell(req.fo, res.out, c, i))
         IN Abs(y - Clipped(x, req.fo.f)) < Coarser
  /\ Done /\ req.op = "flac" => res.out = req.data

\* Mixing equal channels gives that value on every channel of the output that
\* gets any, whatever the layouts: the levels add up to one, and left stays
\* left.  Excepted: 24-bit input to mono.
MixKeepsLevel ==
  LET x(c, i) == Real(req.fi.f, Cell(req.fi, req.data, c, i))
      y(c, i) == Real(req.fo.f, Cell(req.fo, res.out, c, i))
      im == ChanMask(req.fi.ch)
      om == ChanMask(req.fo.ch)
      fed(oc) == oc \in im \/ om = {FC} \/ (oc \in {0, 1} /\ FC \in im \ om)
  IN Done /\ req.op = "convert" /\ req.fi.ch # req.fo.ch /\ req.fo.pick = 0 /\ ~(req.fi.f = "24" /\ req.fo.ch = 1)
     /\ <<req.fi.f, req.fo.f>> # <<"32", "16">> =>
       \A i \in 0..(req.n - 1) :
         /\ (\A c \in 0..(req.fi.ch - 1) : x(c, i) = x(0, i)) =>
              \A oc \in om : fed(oc) => Abs(y(Rank(oc, om), i) - x(0, i)) < Coarser + 1
         /\ req.fo.ch = 2 /\ req.fi.ch > 2 /\ (\A l \in {0, BL, SL} : l < req.fi.ch => x(l, i) <= x(l + 1, i)) =>
              y(0, i) <= y(1, i)

\* Amplifying never turns a sample round: the peak that pcm_maxpeak finds
\* afterwards is the gain times the peak before, or full scale.
PeakFollowsGain ==
  LET peak(d) == PcmMaxpeak(req.fi, d, req.n)
      want == (peak(req.data) * req.gain) \div GainOne
      full == IF req.fi.f \in Floats \/ want < One THEN want ELSE One
  IN Done /\ req.op = "gain" =>
       /\ peak(req.data) # -1 => Abs(peak(res.out) - full) <= Step(req.fi.f)
       /\ \A c \in 0..1 : Cell(req.fi, req.data, c, 0) * Cell(req.fi, res.out, c, 0) >= 0

\* "Convert PCM samples": the same for 32 to 16 bits.
Narrowed ==
  Done /\ req.op = "convert" /\ req.fi.ch = req.fo.ch =>
    \A c \in 0..(req.fo.ch - 1), i \in 0..(req.n - 1) :
      Abs(Real(req.fo.f, Cell(req.fo, res.out, c, i)) - Clipped(Real(req.fi.f, Cell(req.fi, req.data, c, i)), req.fo.f)) < Coarser

\* pcm_convert, pcm_gain and the FLAC encoder's detour: values keep their
\* level, their channel and their place.
SamplesKept == ValuesKept /\ MixKeepsLevel /\ PeakFollowsGain

=============================================================================
