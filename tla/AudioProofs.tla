---------------------------- MODULE AudioProofs -----------------------------
(***************************************************************************)
(* Proofs about Playback and Capture for buffers of any size and any       *)
(* number of tracks, commands and faults.                                  *)
(***************************************************************************)
EXTENDS Playback, Capture, SequenceTheorems, TLAPS

-----------------------------------------------------------------------------
(* Unit numbers.                                                           *)

Units == 0..(Mod - 1)

\* The number k places after number a.
Up(a, k) == IF a + k < Mod THEN a + k ELSE (a + k) - Mod

\* Counting up from a unit number is the sum modulo the numbers in use.
LEMMA UpIsMod ==
  ASSUME CaptAssumptions, NEW a \in Units, NEW k \in 0..Mod
  PROVE  (a + k) % Mod = Up(a, k)
<1>1. /\ Mod \in Nat /\ Mod > 1 /\ a \in Int /\ k \in Int
      /\ a + k \in Nat /\ a + k < Mod + Mod
  BY DEF Units, Mod, CaptAssumptions
<1>2. \A m, x \in Nat : m > 1 /\ x < m + m => x % m = IF x < m THEN x ELSE x - m
  OBVIOUS
<1> DEFINE r == (a + k) % Mod
<1>3. r = IF a + k < Mod THEN a + k ELSE (a + k) - Mod
  BY <1>1, <1>2
<1> HIDE DEF r
<1>4. r = Up(a, k)
  BY <1>1, <1>3 DEF Up
<1> QED BY <1>4, Zenon DEF r

\* Counting up gives a unit number, and one more is one step further.
LEMMA UpOnce ==
  ASSUME CaptAssumptions, NEW a \in Units, NEW k \in 0..Mod
  PROVE  Up(a, k) \in Units /\ (k < Mod => Up(Up(a, k), 1) = Up(a, k + 1))
BY DEF Up, Units, Mod, CaptAssumptions

\* Different units count up to different ones.
LEMMA UpIsInjective ==
  ASSUME CaptAssumptions, NEW a \in Units, NEW b \in Units, NEW k \in 0..Mod,
         Up(a, k) = Up(b, k)
  PROVE  a = b
BY DEF Up, Units, Mod, CaptAssumptions

\* Counting up by nothing.
LEMMA UpNone ==
  ASSUME CaptAssumptions, NEW a \in Units
  PROVE  Up(a, 0) = a /\ Mod \in Nat /\ 0 \in Units
BY DEF Up, Units, Mod, CaptAssumptions

-----------------------------------------------------------------------------
(* Audio input.                                                            *)

DevType == [on : BOOLEAN, q : Seq(Units), next : Units, lost : BOOLEAN, ev : BOOLEAN]
CapType == [pc : {"open", "run", "store", "async", "fin", "closed"},
            st : {"NONE", "SIGNALLED", "PROCESSING", "WAITING"}, tmr : BOOLEAN,
            retried : BOOLEAN, recon : BOOLEAN, stop : BOOLEAN, paused : BOOLEAN,
            fails : Nat, cmds : Nat]

CaptTypes ==
  /\ dev \in DevType /\ cap \in CapType
  /\ sink \in [next : Units, torn : BOOLEAN, inPause : BOOLEAN]

\* The device holds the units before the next one, in order; unless one was
\* lost, the chain expects the first of them.
InStep ==
  cap.pc # "closed" =>
    /\ Len(dev.q) <= CaptCap
    /\ \A i \in 1..Len(dev.q) : Up(dev.q[i], Len(dev.q) - i + 1) = dev.next
    /\ ~dev.lost => Up(sink.next, Len(dev.q)) = dev.next

\* Before it is opened and after it was stopped the device is off, and nothing
\* is going to call the filter's object before it is there and once it is not.
OffInTime ==
  /\ cap.pc \in {"open", "fin", "closed"} => ~dev.on
  /\ cap.pc \in {"open", "closed"} => ~cap.tmr /\ ~dev.ev

\* The inductive invariant of audio input.
CaptInv == CaptTypes /\ InStep /\ OffInTime /\ RecordsInOrder

\* A step that takes nothing from the device and brings nothing to it.
LEMMA InStepKept ==
  ASSUME CaptInv, cap.pc # "closed",
         dev'.q = dev.q, dev'.next = dev.next, dev'.lost = dev.lost, sink' = sink
  PROVE  InStep' /\ RecordsInOrder'
BY DEF CaptInv, InStep, RecordsInOrder

\* audio_in_read: all the device has is what the chain expects.
LEMMA ReadUnitsStep ==
  ASSUME CaptAssumptions, CaptInv, ReadUnits
  PROVE  CaptInv'
<1> DEFINE us == dev.q
           l == Len(us)
<1>1. /\ cap.pc = "run" /\ us # <<>> /\ dev' = [dev EXCEPT !.q = <<>>, !.lost = FALSE]
      /\ sink' = TuiRecProcess(us) /\ cap' = [cap EXCEPT !.st = "PROCESSING"]
  BY DEF ReadUnits
<1>2. CaptTypes /\ OffInTime
  BY DEF CaptInv
<1>3. us \in Seq(Units) /\ dev.next \in Units /\ sink.next \in Units /\ ~sink.torn
  BY <1>2 DEF CaptTypes, DevType, CaptInv, RecordsInOrder
<1>4. l \in 1..CaptCap /\ Head(us) = us[1] /\ us[1] \in Units
  <2>1. l <= CaptCap /\ l \in Nat
    BY <1>1, <1>3 DEF CaptInv, InStep
  <2>2. l # 0
    BY <1>1, <1>3
  <2>3. us[1] \in Units /\ Head(us) = us[1]
    BY <1>1, <1>3
  <2>4. CaptCap \in Nat
    BY DEF CaptAssumptions
  <2> QED BY <2>1, <2>2, <2>3, <2>4
<1>5. l \in 0..Mod /\ 1 \in 1..l /\ l - 1 + 1 = l
  BY <1>4 DEF Mod, CaptAssumptions
<1>6. Up(us[1], l) = dev.next
  <2>1. \A i \in 1..l : Up(us[i], l - i + 1) = dev.next
    BY <1>1 DEF CaptInv, InStep
  <2> QED BY <1>5, <2>1
<1>7. ~dev.lost => us[1] = sink.next
  <2>1. ~dev.lost => Up(sink.next, l) = dev.next
    BY <1>1 DEF CaptInv, InStep
  <2> QED BY <1>3, <1>4, <1>5, <1>6, <2>1, UpIsInjective
<1> HIDE DEF l, us
<1>8. /\ sink'.next = (Head(us) + Len(us)) % Mod
      /\ sink'.torn = (sink.torn \/ (~dev.lost /\ Head(us) # sink.next))
      /\ sink'.inPause = (sink.inPause \/ cap.paused)
      /\ sink' = [next |-> sink'.next, torn |-> sink'.torn, inPause |-> sink'.inPause]
  BY <1>1 DEF TuiRecProcess
<1>9. sink'.next = dev.next
  <2>1. (us[1] + l) % Mod = Up(us[1], l)
    BY <1>4, <1>5, UpIsMod
  <2> QED BY <1>4, <1>6, <1>8, <2>1, Zenon DEF l
<1>10. sink'.torn = FALSE
  BY <1>3, <1>4, <1>7, <1>8
<1>11. /\ dev'.q = <<>> /\ dev'.next = dev.next /\ dev'.lost = FALSE /\ dev'.on = dev.on
       /\ dev'.ev = dev.ev
       /\ dev' \in DevType
  <2>1. <<>> \in Seq(Units)
    BY EmptySeq
  <2> QED BY <1>1, <1>2, <2>1 DEF CaptTypes, DevType
<1>12. /\ cap'.pc = "run"
       /\ cap' \in CapType
  BY <1>1, <1>2 DEF CaptTypes, CapType
<1>13. sink' \in [next : Units, torn : BOOLEAN, inPause : BOOLEAN]
  BY <1>2, <1>3, <1>8, <1>9, <1>10 DEF CaptTypes
<1>14. InStep'
  <2>1. Up(sink'.next, 0) = dev'.next /\ Len(dev'.q) = 0
    BY <1>3, <1>9, <1>11, UpNone
  <2>2. CaptCap \in Nat
    BY DEF CaptAssumptions
  <2> QED BY <2>1, <2>2 DEF InStep, Up
<1> QED BY <1>10, <1>11, <1>12, <1>13, <1>14
        DEF CaptInv, CaptTypes, OffInTime, RecordsInOrder

\* The device: the unit is put behind the others, the oldest one may be lost.
LEMMA CapturesStep ==
  ASSUME CaptAssumptions, CaptInv, DeviceCaptures
  PROVE  CaptInv'
<1> DEFINE full == Len(dev.q) = CaptCap
           us == IF full THEN Tail(dev.q) ELSE dev.q
           l == Len(dev.q)
           nx == dev.next
           d == [dev EXCEPT !.q = Append(us, nx), !.next = (nx + 1) % Mod,
                            !.lost = @ \/ full, !.ev = drv = "aaudio"]
<1>1. dev.on /\ dev' = d /\ UNCHANGED <<cap, sink>>
  BY DEF DeviceCaptures
<1>2. CaptTypes /\ OffInTime /\ RecordsInOrder
  BY DEF CaptInv
<1>3. dev.q \in Seq(Units) /\ nx \in Units /\ sink.next \in Units /\ cap.pc # "closed"
  BY <1>1, <1>2 DEF CaptTypes, DevType, OffInTime
<1>4. /\ l \in Nat /\ l <= CaptCap /\ CaptCap \in Nat /\ CaptCap > 0 /\ Mod = CaptCap + 2
  BY <1>3 DEF CaptInv, InStep, CaptAssumptions, Mod
<1>5. \A i \in 1..l : Up(dev.q[i], l - i + 1) = nx
  BY <1>3 DEF CaptInv, InStep
<1>6. ~dev.lost => Up(sink.next, l) = nx
  BY <1>3 DEF CaptInv, InStep
<1>7. (nx + 1) % Mod = Up(nx, 1) /\ Up(nx, 1) \in Units
  <2>1. 1 \in 0..Mod
    BY <1>4
  <2> QED BY <1>3, <2>1, UpIsMod, UpOnce
<1>8. /\ us \in Seq(Units) /\ Len(us) = IF full THEN l - 1 ELSE l
      /\ \A i \in 1..Len(us) : us[i] = IF full THEN dev.q[i + 1] ELSE dev.q[i]
  <2>1. CASE full
    <3>1. dev.q # <<>>
      BY <1>4, <2>1
    <3> QED BY <1>3, <2>1, <3>1
  <2>2. CASE ~full
    BY <1>3, <2>2
  <2> QED BY <2>1, <2>2
<1> HIDE DEF us
<1> DEFINE m == Len(us)
           a == Append(us, nx)
<1>9. /\ a \in Seq(Units) /\ Len(a) = m + 1 /\ a[m + 1] = nx
      /\ \A i \in 1..m : a[i] = us[i]
  BY <1>3, <1>8
<1>10. /\ dev'.q = a /\ dev'.next = (nx + 1) % Mod /\ dev'.lost = (dev.lost \/ full)
       /\ dev'.on = TRUE
  BY <1>1, <1>2 DEF CaptTypes, DevType
<1>11. dev'.next = Up(nx, 1)
  BY <1>7, <1>10, Zenon
<1> HIDE DEF a
<1>12. dev' \in DevType
  <2>1. dev'.next \in Units /\ a \in Seq(Units)
    BY <1>7, <1>9, <1>11
  <2>2. dev' = [dev EXCEPT !.q = a, !.next = dev'.next, !.lost = dev.lost \/ full,
                           !.ev = drv = "aaudio"]
    BY <1>1, <1>10, Zenon DEF a
  <2> QED BY <1>2, <2>1, <2>2 DEF CaptTypes, DevType
<1>13. ASSUME NEW i \in 1..(m + 1)
       PROVE  Up(a[i], (m + 1) - i + 1) = Up(nx, 1)
  <2>0. m \in Nat /\ m <= l /\ (full => m = l - 1) /\ (~full => m = l)
    BY <1>4, <1>8
  <2>1. CASE i = m + 1
    <3>1. a[i] = nx /\ (m + 1) - i + 1 = 1
      BY <1>9, <2>0, <2>1
    <3> QED BY <3>1
  <2>2. CASE i # m + 1
    <3> DEFINE j == IF full THEN i + 1 ELSE i
               k == l - j + 1
    <3>1. i \in 1..m /\ j \in 1..l /\ (m + 1) - i + 1 = k + 1 /\ k \in 0..Mod /\ k < Mod
      <4>1. CASE full
        BY <1>4, <2>0, <2>2, <4>1
      <4>2. CASE ~full
        BY <1>4, <2>0, <2>2, <4>2
      <4> QED BY <4>1, <4>2
    <3>2. a[i] = dev.q[j]
      BY <1>8, <1>9, <3>1
    <3>3. dev.q[j] \in Units /\ Up(dev.q[j], k) = nx
      BY <1>3, <1>5, <3>1, ElementOfSeq
    <3> HIDE DEF j, k
    <3>4. Up(Up(dev.q[j], k), 1) = Up(dev.q[j], k + 1)
      BY <3>1, <3>3, UpOnce
    <3> QED BY <3>1, <3>2, <3>3, <3>4
  <2> QED BY <2>1, <2>2
<1>14. ASSUME ~dev'.lost
       PROVE  Up(sink.next, m + 1) = Up(nx, 1)
  <2>1. ~dev.lost /\ ~full
    BY <1>10, <1>14
  <2>2. m = l /\ l \in 0..Mod /\ l < Mod
    BY <1>4, <1>8, <2>1
  <2> QED BY <1>3, <1>6, <2>1, <2>2, UpOnce
<1>15. InStep'
  <2>1. m + 1 <= CaptCap
    BY <1>4, <1>8
  <2>2. Len(dev'.q) = m + 1
    BY <1>9, <1>10
  <2> HIDE DEF m, d, full
  <2> QED BY <1>1, <1>10, <1>11, <1>13, <1>14, <2>1, <2>2 DEF InStep, Up
<1>16. OffInTime'
  <2>1. cap.pc \notin {"open", "fin", "closed"}
    BY <1>1, <1>2 DEF OffInTime
  <2> QED BY <1>1, <2>1 DEF OffInTime
<1> QED BY <1>1, <1>2, <1>12, <1>15, <1>16 DEF CaptInv, CaptTypes, RecordsInOrder

\* The filter opens, waits, is stopped, fails or is closed; the user stops or
\* pauses; a callback comes: the units stay as they are.
LEMMA CaptQuietStep ==
  ASSUME CaptAssumptions, CaptInv,
         \/ RefusesFormat \/ OpenFails \/ PulseReconnects
         \/ AlsarOpen \/ PulsrOpen \/ WasapiInOpen \/ JackInOpen \/ DsndInOpen \/ AaiOpen
         \/ ReadNothing \/ StoreWaiting \/ ReadStops \/ ReadFails \/ TrackRuns
         \/ TimerTick \/ DeviceEvent \/ StopCapture \/ TuiRecPauseResume
  PROVE  CaptInv'
<1>1. CaptTypes /\ OffInTime
  BY DEF CaptInv
<1>0. Failing \in CapType /\ Failing.pc = cap.pc /\ Failing.tmr = cap.tmr
  <2>1. cap \in CapType
    BY <1>1 DEF CaptTypes
  <2>2. cap.fails + 1 \in Nat
    BY <2>1 DEF CapType
  <2> QED BY <2>1, <2>2 DEF Failing, CapType
<1>2. CASE RefusesFormat \/ OpenFails \/ PulseReconnects
  <2>1. cap.pc = "open" /\ UNCHANGED <<dev, sink>>
    BY <1>2 DEF RefusesFormat, OpenFails, PulseReconnects
  <2>2. cap' \in CapType /\ cap'.pc \in {"open", "closed"} /\ cap'.tmr = cap.tmr
    <3>1. CASE cap' = [Failing EXCEPT !.pc = "closed"]
      BY <1>0, <3>1 DEF CapType
    <3>2. CASE cap' = [Failing EXCEPT !.retried = TRUE]
      BY <1>0, <2>1, <3>2 DEF CapType
    <3>3. CASE cap' = [Failing EXCEPT !.recon = TRUE, !.retried = FALSE]
      BY <1>0, <2>1, <3>3 DEF CapType
    <3> QED BY <1>2, <3>1, <3>2, <3>3 DEF RefusesFormat, OpenFails, PulseReconnects
  <2>3. CaptTypes' /\ OffInTime'
    BY <1>1, <2>1, <2>2 DEF CaptTypes, OffInTime
  <2> QED BY <2>1, <2>3, InStepKept DEF CaptInv
<1>3. CASE AlsarOpen \/ PulsrOpen \/ WasapiInOpen \/ JackInOpen \/ DsndInOpen \/ AaiOpen
  <2>1. PICK tmr \in BOOLEAN : AudioInOpen(tmr)
    BY <1>3 DEF AlsarOpen, PulsrOpen, WasapiInOpen, JackInOpen, DsndInOpen, AaiOpen
  <2>2. cap.pc = "open" /\ sink' = sink
    BY <2>1 DEF AudioInOpen
  <2>3. dev' \in DevType /\ dev'.q = dev.q /\ dev'.next = dev.next /\ dev'.lost = dev.lost
    BY <1>1, <2>1 DEF AudioInOpen, CaptTypes, DevType
  <2>4. cap' \in CapType /\ cap'.pc = "run"
    BY <1>1, <2>1 DEF AudioInOpen, CaptTypes, CapType
  <2>5. CaptTypes' /\ OffInTime'
    BY <1>1, <2>2, <2>3, <2>4 DEF CaptTypes, OffInTime
  <2> QED BY <2>2, <2>3, <2>5, InStepKept DEF CaptInv
<1>4. CASE ReadNothing \/ StoreWaiting \/ TrackRuns \/ TimerTick \/ StopCapture \/ TuiRecPauseResume
  <2>1. cap.pc \in {"run", "store", "async"} /\ UNCHANGED <<dev, sink>>
    BY <1>4 DEF ReadNothing, StoreWaiting, TrackRuns, TimerTick, OnCapt, StopCapture,
                TuiRecPauseResume, CaptCommand
  <2>2. cap' \in CapType /\ cap'.pc \in {"run", "store", "async"}
    <3>0. cap \in CapType
      BY <1>1 DEF CaptTypes
    <3>1. CASE ReadNothing \/ StoreWaiting \/ TrackRuns
      BY <3>0, <3>1 DEF ReadNothing, StoreWaiting, TrackRuns, CapType
    <3>2. CASE TimerTick
      BY <3>0, <3>2 DEF TimerTick, OnCapt, CapType
    <3>3. cap.cmds + 1 \in Nat /\ cap.paused \in BOOLEAN
      BY <3>0 DEF CapType
    <3>4. CASE StopCapture
      BY <2>1, <3>0, <3>3, <3>4 DEF StopCapture, CapType
    <3>5. CASE TuiRecPauseResume
      BY <2>1, <3>0, <3>3, <3>5 DEF TuiRecPauseResume, CapType
    <3> QED BY <1>4, <3>1, <3>2, <3>4, <3>5
  <2>3. CaptTypes' /\ OffInTime'
    BY <1>1, <2>1, <2>2 DEF CaptTypes, OffInTime
  <2> QED BY <2>1, <2>3, InStepKept DEF CaptInv
<1>5. CASE ReadStops \/ ReadFails
  <2>1. cap.pc = "run" /\ sink' = sink
    BY <1>5 DEF ReadStops, ReadFails
  <2>2. /\ dev' \in DevType /\ dev'.q = dev.q /\ dev'.next = dev.next
        /\ dev'.lost = dev.lost /\ dev'.on = FALSE
    BY <1>1, <1>5 DEF ReadStops, ReadFails, CaptTypes, DevType
  <2>3. cap' \in CapType /\ cap'.pc = "fin"
    <3>0. cap \in CapType
      BY <1>1 DEF CaptTypes
    <3> QED BY <1>0, <1>5, <3>0 DEF ReadStops, ReadFails, CapType
  <2>4. CaptTypes' /\ OffInTime'
    BY <1>1, <2>1, <2>2, <2>3 DEF CaptTypes, OffInTime
  <2> QED BY <2>1, <2>2, <2>4, InStepKept DEF CaptInv
<1>6. CASE DeviceEvent
  <2>1. cap.pc \notin {"open", "closed"} /\ sink' = sink
    BY <1>6 DEF DeviceEvent, OnCapt
  <2>2. /\ dev' \in DevType /\ dev'.q = dev.q /\ dev'.next = dev.next
        /\ dev'.lost = dev.lost /\ dev'.on = dev.on
    BY <1>1, <1>6 DEF DeviceEvent, CaptTypes, DevType
  <2>3. cap' \in CapType /\ cap'.pc = cap.pc
    BY <1>1, <1>6 DEF DeviceEvent, OnCapt, CaptTypes, CapType
  <2>4. CaptTypes' /\ OffInTime'
    BY <1>1, <2>1, <2>2, <2>3 DEF CaptTypes, OffInTime
  <2> QED BY <2>1, <2>2, <2>4, InStepKept DEF CaptInv
<1> QED BY <1>2, <1>3, <1>4, <1>5, <1>6

\* audio_in_close: what the device still had is given up with it.
LEMMA CaptClosesStep ==
  ASSUME CaptInv, CaptCloses
  PROVE  CaptInv'
<1>1. CaptTypes /\ OffInTime /\ RecordsInOrder /\ cap.pc = "fin" /\ sink' = sink
  BY DEF CaptInv, CaptCloses
<1>2. cap' \in CapType /\ cap'.pc = "closed" /\ cap'.tmr = FALSE
  BY <1>1 DEF CaptCloses, CaptTypes, CapType
<1>3. dev' \in DevType /\ dev'.on = dev.on /\ dev'.ev = FALSE
  <2>1. <<>> \in Seq(Units)
    BY EmptySeq
  <2> QED BY <1>1, <2>1 DEF CaptCloses, CaptTypes, DevType
<1> QED BY <1>1, <1>2, <1>3 DEF CaptInv, CaptTypes, InStep, OffInTime, RecordsInOrder

\* The invariant of audio input (audio_in_open, audio_in_read, audio_oncapt and
\* audio_in_close with the drivers' functions).
THEOREM CaptInvariant ==
  ASSUME CaptAssumptions
  PROVE  CaptSpec => []CaptInv
<1>1. CaptInit => CaptInv
  <2> SUFFICES ASSUME CaptInit PROVE CaptInv
    OBVIOUS
  <2>0. 0 \in Units /\ CaptCap \in Nat
    BY DEF CaptAssumptions, Units, Mod
  <2>1. <<>> \in Seq(Units) /\ Up(0, 0) = 0 /\ Len(<<>>) = 0
    BY <2>0, UpNone, EmptySeq
  <2>2. dev \in DevType /\ dev.q = <<>> /\ dev.next = 0 /\ ~dev.on /\ ~dev.ev
    BY <2>0, <2>1 DEF CaptInit, DevType
  <2>3. cap \in CapType /\ ~cap.tmr
    BY DEF CaptInit, CapType
  <2>4. sink \in [next : Units, torn : BOOLEAN, inPause : BOOLEAN] /\ ~sink.torn
        /\ sink.next = 0
    BY <2>0, <2>1 DEF CaptInit
  <2>5. InStep
    BY <2>0, <2>1, <2>2, <2>4 DEF InStep
  <2> QED BY <2>2, <2>3, <2>4, <2>5 DEF CaptInv, CaptTypes, OffInTime, RecordsInOrder
<1>2. CaptInv /\ [CaptNext]_captVars => CaptInv'
  <2> SUFFICES ASSUME CaptInv, [CaptNext]_captVars PROVE CaptInv'
    OBVIOUS
  <2>1. CASE ReadUnits
    BY <2>1, ReadUnitsStep
  <2>2. CASE DeviceCaptures
    BY <2>2, CapturesStep
  <2>3. CASE CaptCloses
    BY <2>3, CaptClosesStep
  <2>4. CASE CaptRest \/ UNCHANGED captVars
    BY <2>4 DEF CaptRest, captVars, CaptInv, CaptTypes, InStep, OffInTime, RecordsInOrder, Up
  <2>5. CASE \/ RefusesFormat \/ OpenFails \/ PulseReconnects
             \/ AlsarOpen \/ PulsrOpen \/ WasapiInOpen \/ JackInOpen \/ DsndInOpen \/ AaiOpen
             \/ ReadNothing \/ StoreWaiting \/ ReadStops \/ ReadFails \/ TrackRuns
             \/ TimerTick \/ DeviceEvent \/ StopCapture \/ TuiRecPauseResume
    BY <2>5, CaptQuietStep
  <2> QED BY <2>1, <2>2, <2>3, <2>4, <2>5 DEF CaptNext, CaptRun
<1> QED BY <1>1, <1>2, PTL DEF CaptSpec

\* audio_in_read hands on every unit once and in order, apart from the ones the
\* device has dropped, and neither the timer nor the device's thread calls
\* audio_oncapt for an object that was freed.
THEOREM RecordingIsRight ==
  ASSUME CaptAssumptions
  PROVE  CaptSpec => []RecordsRight
<1>1. CaptInv => RecordsRight
  BY DEF CaptInv, OffInTime, RecordsRight, CallbackOwnerLive, CaptTypes, CapType, DevType
<1> QED BY <1>1, CaptInvariant, PTL

-----------------------------------------------------------------------------
(* Audio output.                                                           *)

Afs == [f : Formats \union {None}, il : BOOLEAN]
PlayUnits == [gen : Nat, af : Afs]
Queues == {q \in Seq(PlayUnits) : Len(q) <= Cap}
BufType == [live : BOOLEAN, fmt : Formats \union {None}, q : Queues, on : BOOLEAN]
EnvType == [drv : {"alsa", "pulse", "wasapi", "dsound"}, ui : {"tui", "gui"},
            src : {"file", "net"}, sup : SUBSET Formats]
ModType == [out : Nat, fmt : Formats \union {None}, used : Nat,
            tmr : {None, "play", "close"},
            fmts : SUBSET [bad : Formats \union {None}, good : Formats \union {None}]]
CntType == [trk : Nat, cmd : Nat, fail : Nat, conv : BOOLEAN]
TrkType ==
  [pc : {"src", "ui", "ac", "out", "async", "fin"}, id : Nat \ {0}, fwd : BOOLEAN,
   din : Seq(PlayUnits), left : Int, gone : SUBSET {"src", "ui", "ac"}, af : Afs,
   stop : BOOLEAN, st : {"TRY", "OPEN", "FEEDING", "WAITING", "SIGNALLED"}, stream : Nat,
   err : BOOLEAN, recon : BOOLEAN, ctx : BOOLEAN, ac : {0, 1}, hold : Seq(PlayUnits),
   conv : BOOLEAN, oaf : Afs, caf : Afs, pause : BOOLEAN, clear : BOOLEAN,
   sreq : BOOLEAN, seek : BOOLEAN, useek : BOOLEAN, paused : BOOLEAN, gen : Nat,
   rgen : Nat, open : BOOLEAN, loud : BOOLEAN]

PlayTypes ==
  /\ env \in EnvType /\ mod \in ModType /\ bufs \in Seq(BufType) /\ task \in BOOLEAN
  /\ cnt \in CntType /\ trk \in TrkType \union {NoTrack}

Shared == env.drv # "dsound"
Running == trk.pc \notin {"none", "fin"}
IsOpen == trk.st \notin OpenStates

\* The buffer and the timer of module m with buffers bs: the timer that calls
\* an output is set exactly while the buffer has a user, which is track i (0 if
\* there is none).
ModuleOwns(m, bs, i) ==
  IF Shared
  THEN /\ m.out # 0 => m.out \in 1..Len(bs) /\ bs[m.out].live /\ bs[m.out].fmt = m.fmt
       /\ m.used # 0 <=> m.tmr = "play"
       /\ m.used # 0 => m.out # 0 /\ m.used = i
       /\ m.tmr = "close" => m.out # 0
  ELSE m.out = 0 /\ m.used = 0 /\ m.tmr # "close" /\ (m.tmr = "play" => i # 0)

\* What the buffers hold is in their format.
QueuesAgree(bs) ==
  \A b \in 1..Len(bs) : \A i \in 1..Len(bs[b].q) : bs[b].q[i].af = Af(bs[b].fmt, TRUE)

\* A buffer that nobody uses and nobody is going to close is about to be opened.
LooseBuffer ==
  env.drv \in {"alsa", "pulse"} /\ mod.out # 0 /\ mod.tmr = None =>
    cnt.conv \/ (trk.pc \in {"ac", "out"} /\ trk.st = "OPEN")

\* Where the negotiation of the format with auto-conv stands.
Negotiation ==
  /\ trk.st = "TRY" => /\ "ac" \notin trk.gone /\ ~trk.ctx /\ mod.tmr # "play"
                       /\ trk.caf.f = None /\ (trk.ac = 1 <=> trk.pc = "out")
  /\ trk.ac = 0 => trk.st = "TRY"
  /\ trk.st = "OPEN" => \/ trk.pc = "ac" /\ trk.caf.il /\ "ac" \notin trk.gone
                        \/ trk.pc = "out" /\ trk.oaf.il /\ "ac" \in trk.gone
  /\ "ac" \notin trk.gone /\ trk.ac = 1 /\ trk.st # "OPEN" =>
       trk.caf.f = None /\ trk.caf.il = trk.oaf.il
  /\ trk.pc = "ac" => "ac" \notin trk.gone
  /\ trk.pc \in {"out", "async"} /\ "ac" \notin trk.gone => trk.din = <<>>
  /\ trk.conv = (trk.oaf # trk.af)
  /\ \A i \in 1..Len(trk.din) : trk.din[i].af = trk.af
  /\ \A i \in 1..Len(trk.hold) : trk.hold[i].af = trk.af

\* An open output has its buffer, in the format it converts to, and the timer.
OutputOpen ==
  IsOpen =>
    /\ trk.ctx /\ mod.tmr = "play" /\ Live(trk.stream)
    /\ trk.oaf = Af(bufs[trk.stream].fmt, TRUE)
    /\ Shared => trk.stream = mod.out

\* A track that waits is open; a pause that was not taken up is on its way.
Waits ==
  /\ trk.pc = "async" => IsOpen
  /\ trk.pause => trk.paused
  /\ trk.pc = "async" /\ trk.pause => task
  /\ trk.ctx => trk.stream \in 1..Len(bufs)

\* The inductive invariant of audio output.
PlayInv ==
  /\ PlayTypes /\ ModuleOwns(mod, bufs, trk.id) /\ QueuesAgree(bufs) /\ LooseBuffer
  /\ Running => Negotiation /\ OutputOpen /\ Waits
  /\ WaitingIsWoken

\* The fields of a track that its output goes by.
SameFormats(t, u) ==
  /\ t.id = u.id /\ t.af = u.af /\ t.ac = u.ac /\ t.hold = u.hold
  /\ t.conv = u.conv /\ t.oaf = u.oaf
SameStream(t, u) == t.st = u.st /\ t.stream = u.stream /\ t.ctx = u.ctx /\ t.caf = u.caf
SamePause(t, u) == t.pause = u.pause /\ t.paused = u.paused
SameWish(t, u) ==
  /\ t.stop = u.stop /\ t.loud = u.loud /\ t.clear = u.clear /\ t.sreq = u.sreq
  /\ t.seek = u.seek /\ t.useek = u.useek /\ t.gen = u.gen /\ t.rgen = u.rgen

\* Going back in the chain.
LEMMA BackFrom ==
  ASSUME NEW t \in TrkType, NEW f \in {"ui", "out"}
  PROVE  /\ Back(t, f) \in TrkType
         /\ SameFormats(Back(t, f), t) /\ SameStream(Back(t, f), t)
         /\ SamePause(Back(t, f), t) /\ SameWish(Back(t, f), t) /\ Back(t, f).gone = t.gone
         /\ \/ Back(t, f).pc = "fin" /\ Back(t, f).din = t.din
            \/ Back(t, f).pc \in {"src", "ui", "ac"} /\ Back(t, f).din = <<>>
         /\ f = "ui" => Back(t, f).pc \in {"src", "fin"}
         /\ f = "out" /\ "ac" \notin t.gone => Back(t, f).pc = "ac"
         /\ f = "out" /\ "ac" \in t.gone /\ ("ui" \in t.gone => "src" \in t.gone) =>
              Back(t, f).pc \in {"ui", "fin"}
         /\ Back(t, f).pc = "ac" => "ac" \notin t.gone
<1> DEFINE up == CASE f = "ui" -> {"src"} [] f = "ac" -> {"src", "ui"}
                   [] f = "out" -> {"src", "ui", "ac"}
           left == up \ t.gone
           to == IF "ac" \in left THEN "ac" ELSE IF "ui" \in left THEN "ui" ELSE "src"
<1>1. up = IF f = "ui" THEN {"src"} ELSE {"src", "ui", "ac"}
  OBVIOUS
<1>2. /\ f = "ui" => (left = {} \/ to = "src")
      /\ f = "out" /\ "ac" \notin t.gone => left # {} /\ to = "ac"
      /\ f = "out" /\ "ac" \in t.gone /\ ("ui" \in t.gone => "src" \in t.gone) =>
           left = {} \/ to = "ui"
      /\ to \in {"src", "ui", "ac"}
      /\ to = "ac" => "ac" \notin t.gone
  BY <1>1
<1>3. Back(t, f) = IF left = {} THEN [t EXCEPT !.pc = "fin"]
                   ELSE [t EXCEPT !.fwd = FALSE, !.din = <<>>, !.pc = to]
  BY DEF Back
<1> HIDE DEF left, to
<1>4. CASE left = {}
  <2>1. Back(t, f) = [t EXCEPT !.pc = "fin"]
    BY <1>3, <1>4
  <2> DEFINE u == [t EXCEPT !.pc = "fin"]
  <2>2. /\ u \in TrkType /\ SameFormats(u, t) /\ SameStream(u, t) /\ SamePause(u, t)
        /\ SameWish(u, t)
        /\ u.gone = t.gone /\ u.pc = "fin" /\ u.din = t.din
    BY DEF TrkType, SameFormats, SameStream, SamePause, SameWish
  <2>3. Back(t, f) = u
    BY <2>1
  <2> HIDE DEF u
  <2> QED BY <1>2, <1>4, <2>2, <2>3
<1>5. CASE left # {}
  <2>1. Back(t, f) = [t EXCEPT !.fwd = FALSE, !.din = <<>>, !.pc = to]
    BY <1>3, <1>5
  <2>2. <<>> \in Seq(PlayUnits)
    BY EmptySeq
  <2> DEFINE u == [t EXCEPT !.fwd = FALSE, !.din = <<>>, !.pc = to]
  <2>3. /\ u \in TrkType /\ SameFormats(u, t) /\ SameStream(u, t) /\ SamePause(u, t)
        /\ SameWish(u, t)
        /\ u.gone = t.gone /\ u.pc = to /\ u.din = <<>>
    BY <1>2, <2>2 DEF TrkType, SameFormats, SameStream, SamePause, SameWish
  <2>4. Back(t, f) = u
    BY <2>1
  <2> HIDE DEF u
  <2> QED BY <1>2, <1>5, <2>3, <2>4
<1> QED BY <1>4, <1>5

\* Going on in the chain.
LEMMA OnFrom ==
  ASSUME NEW t \in TrkType
  PROVE  /\ On(t) \in TrkType
         /\ SameFormats(On(t), t) /\ SameStream(On(t), t) /\ SamePause(On(t), t)
         /\ SameWish(On(t), t)
         /\ On(t).gone = t.gone /\ On(t).din = t.din
         /\ On(t).pc = IF "ac" \in t.gone THEN "out" ELSE "ac"
BY DEF On, TrkType, SameFormats, SameStream, SamePause, SameWish

\* An empty buffer is within its capacity.
LEMMA EmptyQueue ==
  <<>> \in Queues /\ Len(<<>>) = 0
<1>1. <<>> \in Seq(PlayUnits) /\ Len(<<>>) = 0
  BY EmptySeq
<1>2. 0 <= Cap
  BY PlayAssumptions
<1> QED BY <1>1, <1>2 DEF Queues

\* A step that frees no buffer and leaves good ones good.
Kept(bs, cs) ==
  /\ bs \in Seq(BufType) /\ cs \in Seq(BufType) /\ QueuesAgree(cs) /\ Len(cs) >= Len(bs)
  /\ \A b \in 1..Len(bs) : cs[b].fmt = bs[b].fmt /\ (bs[b].live => cs[b].live)

GoodBuf(r) == r \in BufType /\ \A i \in 1..Len(r.q) : r.q[i].af = Af(r.fmt, TRUE)

\* Buffers cs are bs but for buffer b, which is r.
Changed(bs, b, r, cs) ==
  /\ cs \in Seq(BufType) /\ Len(cs) = Len(bs) /\ QueuesAgree(cs)
  /\ cs[b] = r /\ \A c \in 1..Len(bs) : c # b => cs[c] = bs[c]

\* One buffer of several changes.
LEMMA OneBuffer ==
  ASSUME NEW bs \in Seq(BufType), QueuesAgree(bs), NEW b \in 1..Len(bs), NEW r, GoodBuf(r)
  PROVE  Changed(bs, b, r, [bs EXCEPT ![b] = r])
<1> DEFINE cs == [bs EXCEPT ![b] = r]
<1>0. r \in BufType /\ \A i \in 1..Len(r.q) : r.q[i].af = Af(r.fmt, TRUE)
  BY DEF GoodBuf
<1>1. cs \in Seq(BufType) /\ Len(cs) = Len(bs)
  BY <1>0
<1>2. cs[b] = r /\ \A c \in 1..Len(bs) : c # b => cs[c] = bs[c]
  BY <1>0
<1> HIDE DEF cs
<1>3. ASSUME NEW c \in 1..Len(cs)
      PROVE  \A i \in 1..Len(cs[c].q) : cs[c].q[i].af = Af(cs[c].fmt, TRUE)
  <2>1. CASE c = b
    BY <1>0, <1>2, <2>1
  <2>2. CASE c # b
    <3>1. cs[c] = bs[c] /\ c \in 1..Len(bs)
      BY <1>1, <1>2, <2>2
    <3> QED BY <3>1 DEF QueuesAgree
  <2> QED BY <2>1, <2>2
<1>4. QueuesAgree(cs)
  BY <1>3 DEF QueuesAgree
<1> QED BY <1>1, <1>2, <1>4 DEF cs, Changed

\* The buffer stays live and in its format.
LEMMA OneBufferKept ==
  ASSUME NEW bs \in Seq(BufType), QueuesAgree(bs), NEW b \in 1..Len(bs), NEW r, GoodBuf(r),
         r.fmt = bs[b].fmt, r.live = bs[b].live
  PROVE  Kept(bs, [bs EXCEPT ![b] = r])
<1> DEFINE cs == [bs EXCEPT ![b] = r]
<1>1. /\ cs \in Seq(BufType) /\ Len(cs) = Len(bs) /\ QueuesAgree(cs)
      /\ cs[b] = r /\ \A c \in 1..Len(bs) : c # b => cs[c] = bs[c]
  BY OneBuffer DEF Changed
<1> HIDE DEF cs
<1>2. \A c \in 1..Len(bs) : cs[c].fmt = bs[c].fmt /\ (bs[c].live => cs[c].live)
  BY <1>1
<1>3. Len(cs) >= Len(bs)
  BY <1>1
<1> QED BY <1>1, <1>2, <1>3 DEF Kept, cs

\* Good buffers that are left alone stay good.
LEMMA NothingChanged ==
  ASSUME bufs \in Seq(BufType), QueuesAgree(bufs)
  PROVE  Kept(bufs, bufs)
BY DEF Kept

\* stop() and clear() of the device.
LEMMA StopOrClear ==
  ASSUME bufs \in Seq(BufType), QueuesAgree(bufs), NEW b \in 1..Len(bufs)
  PROVE  Kept(bufs, StopBuf(b)) /\ Kept(bufs, ClearBuf(b))
<1> DEFINE s == [bufs[b] EXCEPT !.on = FALSE]
           c == [bufs[b] EXCEPT !.on = FALSE, !.q = <<>>]
<1>1. bufs[b] \in BufType /\ <<>> \in Queues /\ Len(<<>>) = 0
  BY ElementOfSeq, EmptyQueue
<1>2. s \in BufType /\ s.fmt = bufs[b].fmt /\ s.live = bufs[b].live /\ s.q = bufs[b].q
  BY <1>1 DEF BufType
<1>3. c \in BufType /\ c.fmt = bufs[b].fmt /\ c.live = bufs[b].live /\ c.q = <<>>
  BY <1>1 DEF BufType
<1>4. StopBuf(b) = [bufs EXCEPT ![b] = s] /\ ClearBuf(b) = [bufs EXCEPT ![b] = c]
  BY DEF StopBuf, ClearBuf, SetBuf, Buf
<1> HIDE DEF s, c
<1>5. \A i \in 1..Len(s.q) : s.q[i].af = Af(s.fmt, TRUE)
  BY <1>2 DEF QueuesAgree
<1>6. \A i \in 1..Len(c.q) : c.q[i].af = Af(c.fmt, TRUE)
  BY <1>1, <1>3
<1>7. Kept(bufs, [bufs EXCEPT ![b] = s])
  BY <1>2, <1>5, OneBufferKept DEF GoodBuf
<1>8. Kept(bufs, [bufs EXCEPT ![b] = c])
  BY <1>3, <1>6, OneBufferKept DEF GoodBuf
<1> QED BY <1>4, <1>7, <1>8

\* A unit is played.
LEMMA PlaysKept ==
  ASSUME bufs \in Seq(BufType), QueuesAgree(bufs), NEW b \in 1..Len(bufs), DevicePlays(b)
  PROVE  Kept(bufs, bufs')
<1> DEFINE u == bufs[b].q
           r == [bufs[b] EXCEPT !.q = Tail(u)]
<1>1. bufs[b] \in BufType /\ u # <<>> /\ bufs' = [bufs EXCEPT ![b] = r]
  BY ElementOfSeq DEF DevicePlays, SetBuf, Buf
<1>2. u \in Seq(PlayUnits) /\ Len(u) <= Cap
  BY <1>1 DEF BufType, Queues
<1>3. /\ Tail(u) \in Seq(PlayUnits) /\ Len(Tail(u)) = Len(u) - 1 /\ Len(u) \in Nat
      /\ \A i \in 1..(Len(u) - 1) : Tail(u)[i] = u[i + 1]
  BY <1>1, <1>2
<1>4. Tail(u) \in Queues
  <2>1. Len(u) - 1 <= Cap
    BY <1>2, <1>3, PlayAssumptions
  <2> QED BY <1>3, <2>1 DEF Queues
<1>5. r \in BufType /\ r.fmt = bufs[b].fmt /\ r.live = bufs[b].live /\ r.q = Tail(u)
  BY <1>1, <1>4 DEF BufType
<1> HIDE DEF r
<1>6. \A i \in 1..Len(r.q) : r.q[i].af = Af(r.fmt, TRUE)
  <2>1. \A i \in 1..Len(u) : u[i].af = Af(bufs[b].fmt, TRUE)
    BY DEF QueuesAgree
  <2>2. \A i \in 1..(Len(u) - 1) : i + 1 \in 1..Len(u)
    BY <1>3
  <2>3. \A i \in 1..(Len(u) - 1) : Tail(u)[i].af = Af(bufs[b].fmt, TRUE)
    BY <1>3, <2>1, <2>2
  <2>4. Len(r.q) = Len(u) - 1
    BY <1>3, <1>5
  <2> QED BY <1>5, <2>3, <2>4
<1>7. Kept(bufs, [bufs EXCEPT ![b] = r])
  BY <1>5, <1>6, OneBufferKept DEF GoodBuf
<1> QED BY <1>1, <1>7

\* free(): the other buffers stay as they are.
LEMMA FreeOthers ==
  ASSUME bufs \in Seq(BufType), QueuesAgree(bufs), NEW b \in Nat
  PROVE  /\ FreeBuf(b) \in Seq(BufType) /\ QueuesAgree(FreeBuf(b))
         /\ Len(FreeBuf(b)) = Len(bufs)
         /\ \A c \in 1..Len(bufs) : c # b => FreeBuf(b)[c] = bufs[c]
<1>1. CASE Live(b)
  <2> DEFINE r == [bufs[b] EXCEPT !.live = FALSE, !.q = <<>>, !.on = FALSE]
  <2>1. b \in 1..Len(bufs) /\ FreeBuf(b) = [bufs EXCEPT ![b] = r]
    BY <1>1 DEF Live, FreeBuf, SetBuf, Buf
  <2>2. bufs[b] \in BufType /\ <<>> \in Queues /\ Len(<<>>) = 0
    BY <2>1, ElementOfSeq, EmptyQueue
  <2>3. r \in BufType /\ r.q = <<>>
    BY <2>2 DEF BufType
  <2> HIDE DEF r
  <2>4. \A i \in 1..Len(r.q) : r.q[i].af = Af(r.fmt, TRUE)
    BY <2>2, <2>3
  <2>5. Changed(bufs, b, r, [bufs EXCEPT ![b] = r])
    BY <2>1, <2>3, <2>4, OneBuffer DEF GoodBuf
  <2> QED BY <2>1, <2>5 DEF Changed
<1>2. CASE ~Live(b)
  BY <1>2 DEF FreeBuf
<1> QED BY <1>1, <1>2

\* The seeks before which the units of a buffer were read.
GensOf(us) == {us[i].gen : i \in 1..Len(us)}

\* Nothing was added to the buffers and none was started.
Drained(bs, cs) ==
  \A b \in 1..Len(bs) : GensOf(cs[b].q) \subseteq GensOf(bs[b].q) /\ (cs[b].on => bs[b].on)

\* One buffer is drained and the others are left alone.
LEMMA OneDrained ==
  ASSUME NEW bs, NEW b, NEW r, NEW cs, Changed(bs, b, r, cs),
         GensOf(r.q) \subseteq GensOf(bs[b].q), r.on => bs[b].on
  PROVE  Drained(bs, cs)
<1>1. cs[b] = r /\ \A c \in 1..Len(bs) : c # b => cs[c] = bs[c]
  BY DEF Changed
<1>2. ASSUME NEW c \in 1..Len(bs)
      PROVE  GensOf(cs[c].q) \subseteq GensOf(bs[c].q) /\ (cs[c].on => bs[c].on)
  <2>1. CASE c = b
    BY <1>1, <2>1
  <2>2. CASE c # b
    BY <1>1, <2>2
  <2> QED BY <2>1, <2>2
<1> QED BY <1>2 DEF Drained

\* What stop() and clear() leave in the buffer.
LEMMA StoppedOrCleared ==
  ASSUME bufs \in Seq(BufType), QueuesAgree(bufs), NEW b \in 1..Len(bufs)
  PROVE  /\ Drained(bufs, StopBuf(b)) /\ ~StopBuf(b)[b].on
         /\ Drained(bufs, ClearBuf(b)) /\ ~ClearBuf(b)[b].on /\ ClearBuf(b)[b].q = <<>>
<1> DEFINE s == [bufs[b] EXCEPT !.on = FALSE]
           c == [bufs[b] EXCEPT !.on = FALSE, !.q = <<>>]
<1>1. bufs[b] \in BufType /\ <<>> \in Queues /\ Len(<<>>) = 0
  BY ElementOfSeq, EmptyQueue
<1>2. s \in BufType /\ s.fmt = bufs[b].fmt /\ s.q = bufs[b].q /\ s.on = FALSE
  BY <1>1 DEF BufType
<1>3. c \in BufType /\ c.q = <<>> /\ c.on = FALSE
  BY <1>1 DEF BufType
<1>4. StopBuf(b) = [bufs EXCEPT ![b] = s] /\ ClearBuf(b) = [bufs EXCEPT ![b] = c]
  BY DEF StopBuf, ClearBuf, SetBuf, Buf
<1> HIDE DEF s, c
<1>5. GoodBuf(s)
  BY <1>2 DEF GoodBuf, QueuesAgree
<1>6. GoodBuf(c) /\ GensOf(c.q) = {}
  BY <1>1, <1>3 DEF GoodBuf, GensOf
<1>7. Changed(bufs, b, s, StopBuf(b)) /\ Changed(bufs, b, c, ClearBuf(b))
  <2>1. Changed(bufs, b, s, [bufs EXCEPT ![b] = s])
    BY <1>5, OneBuffer
  <2>2. Changed(bufs, b, c, [bufs EXCEPT ![b] = c])
    BY <1>6, OneBuffer
  <2> QED BY <1>4, <2>1, <2>2
<1>8. Drained(bufs, StopBuf(b)) /\ Drained(bufs, ClearBuf(b))
  BY <1>2, <1>3, <1>6, <1>7, OneDrained
<1> QED BY <1>2, <1>3, <1>7, <1>8 DEF Changed

\* A unit is played, or a buffer is freed: nothing is added.
LEMMA PlayedOrFreed ==
  ASSUME bufs \in Seq(BufType), QueuesAgree(bufs)
  PROVE  /\ \A b \in 1..Len(bufs) : DevicePlays(b) => Drained(bufs, bufs')
         /\ \A b \in Nat : Drained(bufs, FreeBuf(b))
         /\ Drained(bufs, bufs)
<1>1. Drained(bufs, bufs)
  BY DEF Drained
<1>2. ASSUME NEW b \in 1..Len(bufs), DevicePlays(b)
      PROVE  Drained(bufs, bufs')
  <2> DEFINE u == bufs[b].q
             r == [bufs[b] EXCEPT !.q = Tail(u)]
  <2>1. bufs[b] \in BufType /\ u # <<>> /\ bufs' = [bufs EXCEPT ![b] = r]
    BY <1>2, ElementOfSeq DEF DevicePlays, SetBuf, Buf
  <2>2. u \in Seq(PlayUnits)
    BY <2>1 DEF BufType, Queues
  <2>3. /\ Len(Tail(u)) = Len(u) - 1 /\ Len(u) \in Nat
        /\ \A i \in 1..(Len(u) - 1) : Tail(u)[i] = u[i + 1]
    BY <2>1, <2>2
  <2>4. r.q = Tail(u) /\ r.on = bufs[b].on
    BY <2>1 DEF BufType
  <2> HIDE DEF r, u
  <2>5. bufs'[b] = r /\ \A c \in 1..Len(bufs) : c # b => bufs'[c] = bufs[c]
    BY <2>1
  <2>6. GensOf(r.q) \subseteq GensOf(u)
    <3>1. \A i \in 1..Len(Tail(u)) : i + 1 \in 1..Len(u) /\ Tail(u)[i] = u[i + 1]
      BY <2>3
    <3> QED BY <2>4, <3>1 DEF GensOf
  <2>7. ASSUME NEW c \in 1..Len(bufs)
        PROVE  GensOf(bufs'[c].q) \subseteq GensOf(bufs[c].q) /\ (bufs'[c].on => bufs[c].on)
    <3>1. CASE c = b
      BY <2>4, <2>5, <2>6, <3>1 DEF u
    <3>2. CASE c # b
      BY <2>5, <3>2
    <3> QED BY <3>1, <3>2
  <2> QED BY <2>7 DEF Drained
<1>3. ASSUME NEW b \in Nat
      PROVE  Drained(bufs, FreeBuf(b))
  <2>1. CASE Live(b)
    <3> DEFINE r == [bufs[b] EXCEPT !.live = FALSE, !.q = <<>>, !.on = FALSE]
    <3>1. b \in 1..Len(bufs) /\ FreeBuf(b) = [bufs EXCEPT ![b] = r]
      BY <2>1 DEF Live, FreeBuf, SetBuf, Buf
    <3>2. bufs[b] \in BufType /\ <<>> \in Queues /\ Len(<<>>) = 0
      BY <3>1, ElementOfSeq, EmptyQueue
    <3>3. r \in BufType /\ r.q = <<>> /\ r.on = FALSE
      BY <3>2 DEF BufType
    <3> HIDE DEF r
    <3>4. GoodBuf(r) /\ GensOf(r.q) = {}
      BY <3>2, <3>3 DEF GoodBuf, GensOf
    <3>5. Changed(bufs, b, r, FreeBuf(b))
      BY <3>1, <3>4, OneBuffer
    <3> QED BY <3>3, <3>4, <3>5, OneDrained
  <2>2. CASE ~Live(b)
    BY <1>1, <2>2 DEF FreeBuf
  <2> QED BY <2>1, <2>2
<1> QED BY <1>1, <1>2, <1>3

\* The owner of the shared buffer keeps it.
LEMMA OwnerKept ==
  ASSUME NEW m, NEW bs, NEW cs, NEW i, ModuleOwns(m, bs, i), Kept(bs, cs)
  PROVE  ModuleOwns(m, cs, i)
<1>1. Len(bs) \in Nat /\ Len(cs) \in Nat /\ Len(cs) >= Len(bs)
  BY DEF Kept
<1>2. \A b \in 1..Len(bs) : b \in 1..Len(cs)
  BY <1>1
<1> QED BY <1>2 DEF ModuleOwns, Kept

-----------------------------------------------------------------------------
(* Steps that leave the module and its buffers to their owner.             *)

\* While a track plays, its record is complete.
LEMMA IsATrack ==
  ASSUME PlayTypes, trk.pc # "none"
  PROVE  trk \in TrkType
BY DEF PlayTypes, NoTrack

Quiet ==
  /\ env' = env /\ mod' = mod /\ Kept(bufs, bufs') /\ trk \in TrkType /\ trk' \in TrkType
  /\ trk'.id = trk.id /\ cnt' \in CntType /\ task' \in BOOLEAN

\* Such a step keeps the types, the owner of the buffer and the formats.
LEMMA QuietKeeps ==
  ASSUME PlayInv, Quiet
  PROVE  PlayTypes' /\ ModuleOwns(mod, bufs, trk.id)' /\ QueuesAgree(bufs)'
<1>1. PlayTypes /\ ModuleOwns(mod, bufs, trk.id)
  BY DEF PlayInv
<1>2. ModuleOwns(mod, bufs', trk.id)
  BY <1>1, OwnerKept DEF Quiet
<1>3. ModuleOwns(mod, bufs, trk.id)'
  BY <1>2 DEF Quiet, ModuleOwns, Shared
<1>4. bufs' \in Seq(BufType) /\ QueuesAgree(bufs')
  BY DEF Quiet, Kept
<1>5. QueuesAgree(bufs)'
  BY <1>4 DEF QueuesAgree, Af
<1>6. PlayTypes'
  BY <1>1, <1>4 DEF PlayTypes, Quiet
<1> QED BY <1>3, <1>5, <1>6

\* An output that is open stays open.
LEMMA OutputKept ==
  ASSUME PlayInv, Quiet, Running, trk'.oaf = trk.oaf,
         trk'.stream = trk.stream, trk'.ctx = trk.ctx, IsOpen' => IsOpen
  PROVE  OutputOpen' /\ (trk'.ctx => trk'.stream \in 1..Len(bufs'))
<1>1. OutputOpen /\ (trk.ctx => trk.stream \in 1..Len(bufs))
  BY DEF PlayInv, Waits
<1>2. Kept(bufs, bufs') /\ mod' = mod /\ env' = env
  BY DEF Quiet
<1>3. Len(bufs) \in Nat /\ Len(bufs') \in Nat /\ Len(bufs') >= Len(bufs)
  BY <1>2 DEF Kept
<1>4. \A b \in 1..Len(bufs) : b \in 1..Len(bufs')
  BY <1>3
<1>5. trk'.ctx => trk'.stream \in 1..Len(bufs')
  BY <1>1, <1>4
<1>6. ASSUME IsOpen'
      PROVE  OutputOpen'
  <2>1. /\ trk.ctx /\ mod.tmr = "play" /\ Live(trk.stream)
        /\ trk.oaf = Af(bufs[trk.stream].fmt, TRUE) /\ (Shared => trk.stream = mod.out)
    BY <1>1, <1>6 DEF OutputOpen
  <2>2. trk.stream \in 1..Len(bufs) /\ bufs[trk.stream].live
    BY <2>1 DEF Live
  <2>3. bufs'[trk.stream].live /\ bufs'[trk.stream].fmt = bufs[trk.stream].fmt
    BY <1>2, <2>2 DEF Kept
  <2>4. trk.stream \in 1..Len(bufs')
    BY <1>4, <2>2
  <2> QED BY <1>2, <2>1, <2>3, <2>4 DEF OutputOpen, Live, Af, Shared
<1> QED BY <1>5, <1>6 DEF OutputOpen

\* The fields that a command leaves alone.
SameChain(t, u) ==
  /\ SameFormats(t, u) /\ t.pc = u.pc /\ t.gone = u.gone /\ t.din = u.din
  /\ t.stream = u.stream /\ t.ctx = u.ctx /\ t.caf = u.caf

\* Commands and timers find the track waiting: at most they mark its output.
LEMMA CommandKeeps ==
  ASSUME PlayInv, Quiet, trk.pc \in {"async", "src"}, SameChain(trk', trk),
         cnt'.conv = cnt.conv,
         trk'.st = trk.st \/ (IsOpen /\ trk'.st = "SIGNALLED")
  PROVE  /\ PlayTypes' /\ ModuleOwns(mod, bufs, trk.id)' /\ QueuesAgree(bufs)'
         /\ LooseBuffer' /\ Negotiation' /\ OutputOpen'
         /\ (trk'.ctx => trk'.stream \in 1..Len(bufs')) /\ trk'.pc \in {"async", "src"}
<1>1. Running /\ Negotiation /\ Waits /\ LooseBuffer
  BY DEF PlayInv, Running
<1>2. trk.st # "OPEN"
  BY <1>1 DEF Negotiation
<1>3. /\ SameFormats(trk', trk) /\ trk'.pc = trk.pc /\ trk'.gone = trk.gone
      /\ trk'.din = trk.din /\ trk'.stream = trk.stream /\ trk'.ctx = trk.ctx
      /\ trk'.caf = trk.caf /\ mod' = mod /\ env' = env
  BY DEF SameChain, Quiet
<1>4. Negotiation'
  <2>1. CASE trk'.st = trk.st
    BY <1>1, <1>3, <2>1 DEF Negotiation, SameFormats
  <2>2. CASE IsOpen /\ trk'.st = "SIGNALLED"
    <3>1. trk.st \notin {"TRY", "OPEN"}
      BY <2>2 DEF IsOpen, OpenStates
    <3> QED BY <1>1, <1>3, <2>2, <3>1 DEF Negotiation, SameFormats
  <2> QED BY <2>1, <2>2
<1>5. LooseBuffer'
  BY <1>1, <1>2, <1>3 DEF LooseBuffer
<1>6. IsOpen' => IsOpen
  BY DEF IsOpen, OpenStates
<1>7. OutputOpen' /\ (trk'.ctx => trk'.stream \in 1..Len(bufs'))
  BY <1>1, <1>3, <1>6, OutputKept DEF SameFormats
<1> QED BY <1>3, <1>4, <1>5, <1>7, QuietKeeps

\* The device plays, or nothing happens.
LEMMA DeviceStep ==
  ASSUME PlayInv, UNCHANGED <<env, mod, trk, task, cnt>>, Kept(bufs, bufs')
  PROVE  PlayInv'
<1>1. PlayTypes /\ LooseBuffer /\ ModuleOwns(mod, bufs, trk.id) /\ WaitingIsWoken
  BY DEF PlayInv
<1>2. CASE trk.pc = "none" \/ trk.pc = "fin"
  <2>1. ModuleOwns(mod, bufs', trk.id)
    BY <1>1, OwnerKept
  <2>2. ModuleOwns(mod, bufs, trk.id)'
    BY <2>1 DEF ModuleOwns, Shared
  <2>3. bufs' \in Seq(BufType) /\ QueuesAgree(bufs)'
    BY DEF Kept, QueuesAgree, Af
  <2>4. PlayTypes'
    BY <1>1, <2>3 DEF PlayTypes
  <2>5. LooseBuffer' /\ ~Running' /\ WaitingIsWoken'
    BY <1>1, <1>2 DEF LooseBuffer, Running, WaitingIsWoken
  <2> QED BY <2>2, <2>3, <2>4, <2>5 DEF PlayInv
<1>3. CASE trk.pc # "none" /\ trk.pc # "fin"
  <2>1. trk \in TrkType
    BY <1>1, <1>3, IsATrack
  <2>2. Quiet
    BY <1>1, <2>1 DEF Quiet, PlayTypes
  <2>3. PlayTypes' /\ ModuleOwns(mod, bufs, trk.id)' /\ QueuesAgree(bufs)'
    BY <2>2, QuietKeeps
  <2>4. Running /\ Negotiation /\ Waits
    BY <1>3 DEF Running, PlayInv
  <2>5. IsOpen' => IsOpen
    BY DEF IsOpen
  <2>6. OutputOpen' /\ (trk'.ctx => trk'.stream \in 1..Len(bufs'))
    BY <2>2, <2>4, <2>5, OutputKept
  <2>7. Negotiation' /\ LooseBuffer' /\ WaitingIsWoken'
    BY <1>1, <2>4 DEF Negotiation, LooseBuffer, WaitingIsWoken
  <2>8. Waits'
    BY <2>4, <2>6 DEF Waits, IsOpen
  <2> QED BY <2>3, <2>6, <2>7, <2>8 DEF PlayInv
<1> QED BY <1>2, <1>3

\* The timer of the module calls audio_out_onplay.
LEMMA TickStep ==
  ASSUME PlayInv, Tick
  PROVE  PlayInv'
<1>1. /\ mod.tmr = "play" /\ trk.pc \in {"async", "src"} /\ UNCHANGED <<env, mod, bufs, cnt>>
      /\ trk' = [trk EXCEPT !.st = "SIGNALLED"]
      /\ task' = (task \/ trk.st = "WAITING")
  BY DEF Tick, Idle, OnPlay, WakesOnPlay
<1>2. PlayTypes /\ Running /\ Negotiation /\ Waits /\ QueuesAgree(bufs) /\ WaitingIsWoken
  BY <1>1 DEF PlayInv, Running
<1>3. trk \in TrkType
  BY <1>1, <1>2, IsATrack
<1>4. /\ trk' \in TrkType /\ SameChain(trk', trk) /\ trk'.st = "SIGNALLED"
      /\ SamePause(trk', trk)
  BY <1>1, <1>3 DEF TrkType, SameChain, SameFormats, SamePause
<1>5. IsOpen
  BY <1>1, <1>2 DEF Negotiation, IsOpen, OpenStates
<1>6. Quiet
  <2>1. Kept(bufs, bufs')
    BY <1>1, <1>2, NothingChanged DEF PlayTypes
  <2>2. cnt' \in CntType /\ task' \in BOOLEAN
    BY <1>1, <1>2 DEF PlayTypes
  <2> QED BY <1>1, <1>3, <1>4, <2>1, <2>2 DEF Quiet, SameChain, SameFormats
<1>7. /\ PlayTypes' /\ ModuleOwns(mod, bufs, trk.id)' /\ QueuesAgree(bufs)'
      /\ LooseBuffer' /\ Negotiation' /\ OutputOpen'
      /\ (trk'.ctx => trk'.stream \in 1..Len(bufs')) /\ trk'.pc \in {"async", "src"}
  BY <1>1, <1>4, <1>5, <1>6, CommandKeeps
<1>8. Waits'
  BY <1>1, <1>2, <1>4, <1>7 DEF Waits, IsOpen, OpenStates, SamePause, SameChain
<1>9. WaitingIsWoken'
  BY <1>1, <1>2, <1>4 DEF WaitingIsWoken, SameChain, SamePause
<1> QED BY <1>7, <1>8, <1>9 DEF PlayInv

\* The close timer frees a buffer that no track uses.
LEMMA CloseTickStep ==
  ASSUME PlayInv, CloseTick
  PROVE  PlayInv'
<1>1. /\ mod.tmr = "close" /\ bufs' = FreeBuf(mod.out)
      /\ mod' = [mod EXCEPT !.out = 0, !.tmr = None] /\ UNCHANGED <<env, trk, task, cnt>>
  BY DEF CloseTick
<1>2. /\ PlayTypes /\ ModuleOwns(mod, bufs, trk.id) /\ QueuesAgree(bufs)
      /\ (Running => Negotiation /\ OutputOpen /\ Waits) /\ WaitingIsWoken
  BY DEF PlayInv
<1>3. mod \in ModType /\ mod.out \in Nat /\ bufs \in Seq(BufType)
  BY <1>2 DEF PlayTypes, ModType
<1>4. mod' \in ModType /\ mod'.out = 0 /\ mod'.tmr = None /\ mod'.used = mod.used
  BY <1>1, <1>3 DEF ModType
<1>5. /\ bufs' \in Seq(BufType) /\ QueuesAgree(bufs') /\ Len(bufs') = Len(bufs)
  BY <1>1, <1>2, <1>3, FreeOthers
<1>6. Shared /\ mod.used = 0
  BY <1>1, <1>2 DEF ModuleOwns
<1>7. ModuleOwns(mod, bufs, trk.id)'
  BY <1>1, <1>4, <1>6 DEF ModuleOwns, Shared, None
<1>8. QueuesAgree(bufs)' /\ PlayTypes' /\ LooseBuffer'
  BY <1>1, <1>2, <1>4, <1>5 DEF QueuesAgree, Af, PlayTypes, LooseBuffer
<1>9. ASSUME Running
      PROVE  ~IsOpen /\ trk.pc # "async" /\ Negotiation' /\ OutputOpen' /\ Waits'
  <2>1. Negotiation /\ OutputOpen /\ Waits
    BY <1>2, <1>9
  <2>2. ~IsOpen
    BY <1>1, <2>1 DEF OutputOpen
  <2>3. trk.pc # "async"
    BY <2>1, <2>2 DEF Waits
  <2>4. Negotiation'
    BY <1>1, <1>4, <2>1 DEF Negotiation, None
  <2> QED BY <1>1, <1>5, <2>1, <2>2, <2>3, <2>4 DEF OutputOpen, Waits, IsOpen
<1>10. trk.pc # "async"
  BY <1>9 DEF Running
<1>11. WaitingIsWoken'
  BY <1>1, <1>10 DEF WaitingIsWoken
<1> QED BY <1>1, <1>7, <1>8, <1>9, <1>11 DEF PlayInv, Running

\* track_run.
LEMMA RunTaskStep ==
  ASSUME PlayInv, RunTask
  PROVE  PlayInv'
<1>1. /\ trk.pc \in {"async", "src"} /\ UNCHANGED <<env, mod, bufs, cnt>> /\ task' = FALSE
      /\ trk' = CASE trk.pc = "async" -> [trk EXCEPT !.pc = "out"]
                  [] trk.pc = "src" /\ trk.stop -> [trk EXCEPT !.pc = "fin"]
                  [] OTHER -> trk
  BY DEF RunTask, Idle
<1>2. PlayTypes /\ Running /\ Negotiation /\ Waits /\ QueuesAgree(bufs) /\ LooseBuffer
  BY <1>1 DEF PlayInv, Running
<1>3. trk \in TrkType
  BY <1>1, <1>2, IsATrack
<1>4. Kept(bufs, bufs') /\ cnt' \in CntType /\ task' \in BOOLEAN
  BY <1>1, <1>2, NothingChanged DEF PlayTypes
<1>5. CASE trk.pc = "async"
  <2>1. /\ trk' \in TrkType /\ SameFormats(trk', trk) /\ SameStream(trk', trk)
        /\ SamePause(trk', trk) /\ trk'.pc = "out" /\ trk'.gone = trk.gone
        /\ trk'.din = trk.din
    BY <1>1, <1>3, <1>5 DEF TrkType, SameFormats, SameStream, SamePause
  <2>2. Quiet
    BY <1>1, <1>3, <1>4, <2>1 DEF Quiet, SameFormats
  <2>3. IsOpen /\ IsOpen'
    BY <1>2, <1>5, <2>1 DEF Waits, IsOpen, SameStream
  <2>4. OutputOpen' /\ (trk'.ctx => trk'.stream \in 1..Len(bufs'))
    BY <1>2, <2>1, <2>2, <2>3, OutputKept DEF SameFormats, SameStream
  <2>5. Negotiation'
    BY <1>2, <1>5, <2>1, <2>3
       DEF Negotiation, SameFormats, SameStream, IsOpen, OpenStates
  <2>6. LooseBuffer' /\ Waits' /\ WaitingIsWoken'
    BY <1>1, <1>2, <1>5, <2>1, <2>4 DEF LooseBuffer, Waits, WaitingIsWoken, SamePause
  <2> QED BY <2>2, <2>4, <2>5, <2>6, QuietKeeps DEF PlayInv
<1>6. CASE trk.pc = "src" /\ trk.stop
  <2>1. trk' \in TrkType /\ trk'.pc = "fin" /\ trk'.id = trk.id
    BY <1>1, <1>3, <1>6 DEF TrkType
  <2>2. Quiet
    BY <1>1, <1>3, <1>4, <2>1 DEF Quiet
  <2>3. LooseBuffer' /\ ~Running' /\ WaitingIsWoken'
    BY <1>1, <1>2, <1>6, <2>1 DEF LooseBuffer, Running, WaitingIsWoken
  <2> QED BY <2>2, <2>3, QuietKeeps DEF PlayInv
<1>7. CASE trk.pc = "src" /\ ~trk.stop
  <2>1. trk' = trk
    BY <1>1, <1>7
  <2>2. Quiet
    BY <1>1, <1>3, <1>4, <2>1 DEF Quiet
  <2>3. Negotiation' /\ LooseBuffer' /\ WaitingIsWoken'
    BY <1>1, <1>2, <1>7, <2>1 DEF Negotiation, LooseBuffer, WaitingIsWoken
  <2>4. OutputOpen' /\ (trk'.ctx => trk'.stream \in 1..Len(bufs'))
    BY <1>2, <2>1, <2>2, OutputKept DEF IsOpen
  <2>5. Waits'
    BY <1>2, <1>7, <2>1, <2>4 DEF Waits
  <2> QED BY <2>2, <2>3, <2>4, <2>5, QuietKeeps DEF PlayInv
<1> QED BY <1>1, <1>5, <1>6, <1>7

\* What a command of the user leaves: the track stays where it is.
Commanded ==
  /\ trk' \in TrkType /\ SameChain(trk', trk) /\ Kept(bufs, bufs')
  /\ trk'.st = trk.st \/ (IsOpen /\ trk'.st = "SIGNALLED")
  /\ task' \in BOOLEAN /\ (task => task')

\* A command keeps the invariant if a pause that it leaves untaken is on its way.
LEMMA CommandedStep ==
  ASSUME PlayInv, Command, Commanded, trk'.pause => trk'.paused,
         trk.pc = "async" /\ ~task' =>
           ~trk'.pause /\ (trk'.paused \/ (trk'.st = "WAITING" /\ mod.tmr = "play"))
  PROVE  PlayInv'
<1>1. /\ trk.pc \in {"async", "src"} /\ UNCHANGED <<env, mod>>
      /\ cnt' = [cnt EXCEPT !.cmd = @ + 1]
  BY DEF Command
<1>2. PlayTypes /\ Running /\ Waits
  BY <1>1 DEF PlayInv, Running
<1>3. trk \in TrkType
  BY <1>1, <1>2, IsATrack
<1>4. cnt' \in CntType /\ cnt'.conv = cnt.conv
  <2>1. cnt \in CntType
    BY <1>2 DEF PlayTypes
  <2>2. cnt.cmd + 1 \in Nat
    BY <2>1 DEF CntType
  <2> QED BY <1>1, <2>1, <2>2 DEF CntType
<1>5. Quiet
  BY <1>1, <1>3, <1>4 DEF Quiet, Commanded, SameChain, SameFormats
<1>6. /\ PlayTypes' /\ ModuleOwns(mod, bufs, trk.id)' /\ QueuesAgree(bufs)'
      /\ LooseBuffer' /\ Negotiation' /\ OutputOpen'
      /\ (trk'.ctx => trk'.stream \in 1..Len(bufs')) /\ trk'.pc \in {"async", "src"}
  BY <1>1, <1>4, <1>5, CommandKeeps DEF Commanded
<1>7. Waits'
  <2>1. trk.pc = "async" => IsOpen'
    BY <1>2 DEF Waits, Commanded, IsOpen, OpenStates
  <2> QED BY <1>6, <2>1 DEF Waits, Commanded, SameChain
<1>8. WaitingIsWoken'
  BY <1>1 DEF WaitingIsWoken, Commanded, SameChain
<1> QED BY <1>6, <1>7, <1>8 DEF PlayInv

\* audio_stop.
LEMMA AdevStopped ==
  ASSUME PlayInv, Command
  PROVE  /\ AdevStop(trk) \in TrkType /\ SameChain(AdevStop(trk), trk)
         /\ SamePause(AdevStop(trk), trk) /\ SameWish(AdevStop(trk), trk) /\ Kept(bufs, AdevStops) /\ trk \in TrkType
         /\ AdevStop(trk).st = trk.st \/ (IsOpen /\ AdevStop(trk).st = "SIGNALLED")
         /\ trk.pc = "async" => trk.ctx
<1>1. trk.pc \in {"async", "src"}
  BY DEF Command
<1>2. PlayTypes /\ Running /\ Negotiation /\ OutputOpen /\ Waits /\ QueuesAgree(bufs)
  BY <1>1 DEF PlayInv, Running
<1>3. trk \in TrkType
  BY <1>1, <1>2, IsATrack
<1>4. trk.ctx => IsOpen
  BY <1>1, <1>2 DEF Negotiation, IsOpen, OpenStates
<1>5. trk.pc = "async" => trk.ctx
  BY <1>2 DEF Waits, OutputOpen
<1>6. Kept(bufs, AdevStops)
  <2>1. bufs \in Seq(BufType)
    BY <1>2 DEF PlayTypes
  <2>2. CASE trk.ctx
    <3>1. trk.stream \in 1..Len(bufs)
      BY <1>2, <2>2 DEF Waits
    <3> QED BY <1>2, <2>1, <2>2, <3>1, StopOrClear DEF AdevStops
  <2>3. CASE ~trk.ctx
    BY <1>2, <2>1, <2>3, NothingChanged DEF AdevStops
  <2> QED BY <2>2, <2>3
<1>7. CASE trk.ctx
  <2>1. AdevStop(trk) = [trk EXCEPT !.st = "SIGNALLED"]
    BY <1>7 DEF AdevStop, OnPlay
  <2> DEFINE u == [trk EXCEPT !.st = "SIGNALLED"]
  <2>2. /\ u \in TrkType /\ SameChain(u, trk) /\ SamePause(u, trk) /\ u.st = "SIGNALLED"
        /\ SameWish(u, trk)
    BY <1>3 DEF TrkType, SameChain, SameFormats, SamePause, SameWish
  <2>3. AdevStop(trk) = u
    BY <2>1
  <2> HIDE DEF u
  <2> QED BY <1>3, <1>4, <1>5, <1>6, <1>7, <2>2, <2>3
<1>8. CASE ~trk.ctx
  <2>1. AdevStop(trk) = trk
    BY <1>8 DEF AdevStop
  <2>2. SameChain(trk, trk) /\ SamePause(trk, trk) /\ SameWish(trk, trk)
    BY DEF SameChain, SameFormats, SamePause, SameWish
  <2> QED BY <1>3, <1>5, <1>6, <2>1, <2>2
<1> QED BY <1>7, <1>8

\* tuiplay_seek, gtrk_seek.
LEMMA SeekStep ==
  ASSUME PlayInv, NEW wakes \in BOOLEAN, SeekTo(wakes)
  PROVE  PlayInv'
<1> DEFINE t == AdevStop(trk)
<1>1. /\ Command /\ bufs' = AdevStops /\ task' = (task \/ AdevWakes \/ wakes)
      /\ trk' = [t EXCEPT !.useek = TRUE, !.sreq = TRUE, !.clear = TRUE,
                          !.gen = @ + 1, !.loud = @ \/ wakes]
  BY DEF SeekTo
<1>2. /\ t \in TrkType /\ SameChain(t, trk) /\ SamePause(t, trk) /\ Kept(bufs, AdevStops)
      /\ trk \in TrkType /\ (t.st = trk.st \/ (IsOpen /\ t.st = "SIGNALLED"))
      /\ (trk.pc = "async" => trk.ctx)
  BY <1>1, AdevStopped
<1> HIDE DEF t
<1>3. /\ trk' \in TrkType /\ SameChain(trk', t) /\ SamePause(trk', t) /\ trk'.st = t.st
  <2>1. t.gen + 1 \in Nat /\ (t.loud \/ wakes) \in BOOLEAN
    BY <1>2 DEF TrkType
  <2>2. trk' \in TrkType
    <3> DEFINE x == t.gen + 1
               y == t.loud \/ wakes
    <3>1. t \in TrkType
      BY <1>2
    <3>2. trk' = [t EXCEPT !.useek = TRUE, !.sreq = TRUE, !.clear = TRUE,
                           !.gen = x, !.loud = y]
      BY <1>1
    <3>3. x \in Nat /\ y \in BOOLEAN
      BY <2>1
    <3> HIDE DEF x, y
    <3> QED BY <3>1, <3>2, <3>3 DEF TrkType
  <2> QED BY <1>1, <1>2, <2>2 DEF TrkType, SameChain, SameFormats, SamePause
<1>4. SameChain(trk', trk) /\ SamePause(trk', trk)
  BY <1>2, <1>3 DEF SameChain, SameFormats, SamePause
<1>5. /\ trk.pc \in {"async", "src"} /\ Waits /\ WaitingIsWoken /\ task \in BOOLEAN
  BY <1>1 DEF Command, PlayInv, Running, PlayTypes
<1>6. Commanded
  BY <1>1, <1>2, <1>3, <1>4, <1>5 DEF Commanded, AdevWakes, WakesOnPlay
<1>7. trk'.pause => trk'.paused
  BY <1>4, <1>5 DEF Waits, SamePause
<1>8. ASSUME trk.pc = "async", ~task'
      PROVE  ~trk'.pause /\ trk'.paused
  <2>1. ~task /\ trk.ctx /\ trk.st # "WAITING"
    BY <1>1, <1>2, <1>8 DEF AdevWakes, WakesOnPlay
  <2> QED BY <1>4, <1>5, <1>8, <2>1 DEF Waits, WaitingIsWoken, SamePause
<1> QED BY <1>1, <1>6, <1>7, <1>8, CommandedStep

\* tuiplay_pause_resume, gtrk_play_pause.
LEMMA PauseStep ==
  ASSUME PlayInv, PauseOrResume
  PROVE  PlayInv'
<1> DEFINE t == AdevStop(trk)
<1>1. Command
  BY DEF PauseOrResume
<1>2. /\ t \in TrkType /\ SameChain(t, trk) /\ SamePause(t, trk) /\ Kept(bufs, AdevStops)
      /\ trk \in TrkType /\ (t.st = trk.st \/ (IsOpen /\ t.st = "SIGNALLED"))
      /\ (trk.pc = "async" => trk.ctx)
  BY <1>1, AdevStopped
<1>3. /\ trk.pc \in {"async", "src"} /\ Waits /\ WaitingIsWoken /\ task \in BOOLEAN
      /\ QueuesAgree(bufs) /\ bufs \in Seq(BufType)
  BY <1>1 DEF Command, PlayInv, Running, PlayTypes
<1>4. CASE trk.paused
  <2>1. /\ trk' = [trk EXCEPT !.paused = FALSE, !.pause = FALSE]
        /\ task' = (task \/ ~trk.pause) /\ bufs' = bufs
    BY <1>4 DEF PauseOrResume
  <2>2. trk' \in TrkType /\ SameChain(trk', trk) /\ trk'.st = trk.st /\ trk'.pause = FALSE
    <3>0. trk \in TrkType
      BY <1>2
    <3>1. trk' \in TrkType
      BY <2>1, <3>0 DEF TrkType
    <3> QED BY <1>2, <2>1, <3>1 DEF TrkType, SameChain, SameFormats
  <2>3. Kept(bufs, bufs')
    BY <1>3, <2>1, NothingChanged
  <2>4. Commanded
    BY <1>3, <2>1, <2>2, <2>3 DEF Commanded
  <2>5. trk.pc = "async" => task'
    BY <1>3, <2>1 DEF Waits
  <2> QED BY <1>1, <2>2, <2>4, <2>5, CommandedStep
<1>5. CASE ~trk.paused
  <2>1. /\ trk' = [t EXCEPT !.paused = TRUE, !.pause = TRUE, !.loud = ~trk.ctx]
        /\ bufs' = AdevStops /\ task' = (task \/ AdevWakes)
    BY <1>5 DEF PauseOrResume
  <2> HIDE DEF t
  <2>2. /\ trk' \in TrkType /\ SameChain(trk', t) /\ trk'.st = t.st /\ trk'.paused = TRUE
    <3>1. (~trk.ctx) \in BOOLEAN
      OBVIOUS
    <3>0. t \in TrkType
      BY <1>2
    <3>2. trk' \in TrkType
      <4> DEFINE y == ~trk.ctx
      <4>1. trk' = [t EXCEPT !.paused = TRUE, !.pause = TRUE, !.loud = y] /\ y \in BOOLEAN
        BY <2>1, <3>1
      <4> HIDE DEF y
      <4> QED BY <3>0, <4>1 DEF TrkType
    <3> QED BY <1>2, <2>1, <3>2 DEF TrkType, SameChain, SameFormats
  <2>3. SameChain(trk', trk)
    BY <1>2, <2>2 DEF SameChain, SameFormats
  <2>4. Commanded
    BY <1>2, <1>3, <2>1, <2>2, <2>3 DEF Commanded, AdevWakes, WakesOnPlay
  <2>5. trk.pc = "async" => task'
    BY <1>2, <1>3, <1>5, <2>1 DEF WaitingIsWoken, AdevWakes, WakesOnPlay
  <2> QED BY <1>1, <2>2, <2>4, <2>5, CommandedStep
<1> QED BY <1>4, <1>5

\* The queue stops the track.
LEMMA StopStep ==
  ASSUME PlayInv, StopTrack
  PROVE  PlayInv'
<1>1. /\ Command /\ trk' = [trk EXCEPT !.stop = TRUE] /\ task' = TRUE /\ bufs' = bufs
  BY DEF StopTrack
<1>2. trk \in TrkType
  BY <1>1, AdevStopped
<1>3. /\ Waits /\ QueuesAgree(bufs) /\ bufs \in Seq(BufType)
  BY <1>1 DEF Command, PlayInv, Running, PlayTypes
<1>4. trk' \in TrkType /\ SameChain(trk', trk) /\ trk'.st = trk.st /\ SamePause(trk', trk)
  BY <1>1, <1>2 DEF TrkType, SameChain, SameFormats, SamePause
<1>5. Commanded
  BY <1>1, <1>3, <1>4, NothingChanged DEF Commanded
<1>6. trk'.pause => trk'.paused
  BY <1>3, <1>4 DEF Waits, SamePause
<1> QED BY <1>1, <1>5, <1>6, CommandedStep

-----------------------------------------------------------------------------
(* The chain before the output.                                            *)

\* The queue starts a track.
LEMMA StartStep ==
  ASSUME PlayInv, NEW f \in Formats, NEW il \in BOOLEAN, StartTrack(f, il)
  PROVE  PlayInv'
<1> DEFINE a == Af(f, il)
           i == cnt.trk + 1
           l == Blocks + 1
<1>1. /\ trk.pc = "none" /\ task' = FALSE /\ UNCHANGED <<env, mod, bufs>>
      /\ cnt' = [cnt EXCEPT !.trk = @ + 1]
      /\ trk' = [pc |-> "src", id |-> i, fwd |-> TRUE, din |-> <<>>,
                 left |-> l, gone |-> {}, af |-> a, stop |-> FALSE, st |-> "TRY",
                 stream |-> 0, err |-> FALSE, recon |-> FALSE, ctx |-> FALSE, ac |-> 0,
                 hold |-> <<>>, conv |-> FALSE, oaf |-> a, caf |-> Af(None, FALSE),
                 pause |-> FALSE, clear |-> FALSE, sreq |-> FALSE, seek |-> FALSE,
                 useek |-> FALSE, paused |-> FALSE, gen |-> 0, rgen |-> 0,
                 open |-> FALSE, loud |-> FALSE]
  BY DEF StartTrack
<1>2. /\ PlayTypes /\ ModuleOwns(mod, bufs, trk.id) /\ QueuesAgree(bufs) /\ LooseBuffer
  BY DEF PlayInv
<1>3. trk.id = 0
  BY <1>1, <1>2 DEF PlayTypes, NoTrack, TrkType
<1>4. a \in Afs /\ Af(None, FALSE) \in Afs /\ Af(None, FALSE).f = None
  BY DEF Af, Afs
<1>5. <<>> \in Seq(PlayUnits) /\ Len(<<>>) = 0
  BY EmptySeq
<1>6. cnt' \in CntType /\ cnt'.conv = cnt.conv /\ i \in Nat \ {0} /\ l \in Int
  <2>1. cnt \in CntType
    BY <1>2 DEF PlayTypes
  <2>2. cnt.trk + 1 \in Nat \ {0} /\ l \in Int
    BY <2>1, PlayAssumptions DEF CntType
  <2> QED BY <1>1, <2>1, <2>2 DEF CntType
<1> HIDE DEF a, i, l
<1>7. trk' \in TrkType
  <2>1. {} \in SUBSET {"src", "ui", "ac"} /\ 0 \in Nat
    OBVIOUS
  <2> QED BY <1>1, <1>4, <1>5, <1>6, <2>1 DEF TrkType
<1>8. /\ trk'.pc = "src" /\ trk'.id = i /\ trk'.din = <<>> /\ trk'.gone = {}
      /\ trk'.af = a /\ trk'.st = "TRY" /\ trk'.ctx = FALSE /\ trk'.ac = 0
      /\ trk'.hold = <<>> /\ trk'.conv = FALSE /\ trk'.oaf = a
      /\ trk'.caf.f = None /\ trk'.pause = FALSE
  BY <1>1, <1>4
<1>9. mod.used = 0 /\ mod.tmr # "play"
  <2>1. mod.used \in Nat
    BY <1>2 DEF PlayTypes, ModType
  <2> QED BY <1>2, <1>3, <2>1 DEF ModuleOwns
<1>10. ModuleOwns(mod, bufs, trk.id)'
  BY <1>1, <1>2, <1>9 DEF ModuleOwns, Shared
<1>11. PlayTypes' /\ QueuesAgree(bufs)'
  BY <1>1, <1>2, <1>6, <1>7 DEF PlayTypes, QueuesAgree, Af
<1>12. LooseBuffer' /\ WaitingIsWoken'
  BY <1>1, <1>2, <1>6, <1>8 DEF LooseBuffer, WaitingIsWoken
<1>13. Negotiation'
  <2>1. trk'.conv = (trk'.oaf # trk'.af)
    BY <1>8
  <2>2. /\ \A j \in 1..Len(trk'.din) : trk'.din[j].af = trk'.af
        /\ \A j \in 1..Len(trk'.hold) : trk'.hold[j].af = trk'.af
    BY <1>5, <1>8
  <2>3. mod'.tmr # "play"
    BY <1>1, <1>9
  <2> QED BY <1>8, <2>1, <2>2, <2>3 DEF Negotiation
<1>14. OutputOpen' /\ Waits'
  BY <1>8 DEF OutputOpen, Waits, IsOpen, OpenStates
<1> QED BY <1>10, <1>11, <1>12, <1>13, <1>14 DEF PlayInv

\* What moves in the chain before the output, which is left alone.
LEMMA ChainStep ==
  ASSUME PlayInv, Running, Quiet, SameFormats(trk', trk), SameStream(trk', trk),
         SamePause(trk', trk), cnt'.conv = cnt.conv,
         trk.pc \in {"src", "ui"}, trk'.pc # "async",
         "ac" \in trk'.gone <=> "ac" \in trk.gone,
         trk'.pc = "out" => "ac" \in trk.gone, trk'.pc = "ac" => "ac" \notin trk.gone,
         \A i \in 1..Len(trk'.din) : trk'.din[i].af = trk.af
  PROVE  PlayInv'
<1>1. Negotiation /\ Waits /\ LooseBuffer
  BY DEF PlayInv
<1>2. trk.st # "OPEN" /\ (trk.st = "TRY" => trk.ac = 0 /\ "ac" \notin trk.gone)
  <2>1. trk.ac \in {0, 1}
    BY DEF Quiet, TrkType
  <2> QED BY <1>1, <2>1 DEF Negotiation
<1>3. /\ PlayTypes' /\ ModuleOwns(mod, bufs, trk.id)' /\ QueuesAgree(bufs)'
  BY QuietKeeps
<1>4. IsOpen' => IsOpen
  BY DEF IsOpen, SameStream
<1>5. OutputOpen' /\ (trk'.ctx => trk'.stream \in 1..Len(bufs'))
  BY <1>4, OutputKept DEF SameStream, SameFormats
<1>6. LooseBuffer' /\ WaitingIsWoken'
  BY <1>1, <1>2 DEF LooseBuffer, WaitingIsWoken, Quiet, SameStream
<1>7. Waits'
  BY <1>1, <1>5 DEF Waits, SamePause
<1>8. Negotiation'
  <2>1. mod' = mod
    BY DEF Quiet
  <2> QED BY <1>1, <1>2, <2>1 DEF Negotiation, SameFormats, SameStream
<1> QED BY <1>3, <1>5, <1>6, <1>7, <1>8 DEF PlayInv

\* The source hands on a block in the format of the track.
LEMMA SourceStep ==
  ASSUME PlayInv, Source
  PROVE  PlayInv'
<1> DEFINE seeks == trk.sreq /\ trk.seek /\ env.src = "file"
           g == IF seeks THEN trk.gen ELSE trk.rgen
           left == IF seeks THEN Blocks ELSE trk.left
           u == [gen |-> g, af |-> trk.af]
           d == IF left > Blocks THEN <<>> ELSE <<u, u>>
           go == IF left = 1 THEN trk.gone \union {"src"} ELSE trk.gone
           sr == trk.sreq /\ ~seeks
           l == left - 1
<1>1. /\ trk.pc = "src" /\ task' = FALSE /\ UNCHANGED <<env, mod, bufs, cnt>>
      /\ trk' = [trk EXCEPT !.pc = "ui", !.fwd = TRUE, !.rgen = g, !.sreq = sr,
                            !.din = d, !.left = l, !.gone = go]
  BY DEF Source
<1>2. PlayTypes /\ QueuesAgree(bufs) /\ Running /\ bufs \in Seq(BufType) /\ cnt \in CntType
  BY <1>1 DEF PlayInv, Running, PlayTypes
<1>3. trk \in TrkType
  BY <1>1, <1>2, IsATrack
<1>4. g \in Nat /\ trk.af \in Afs /\ trk.gone \in SUBSET {"src", "ui", "ac"}
  BY <1>3 DEF TrkType
<1>5. u \in PlayUnits /\ u.af = trk.af
  BY <1>4 DEF PlayUnits
<1>6. go \in SUBSET {"src", "ui", "ac"} /\ ("ac" \in go <=> "ac" \in trk.gone)
  BY <1>4
<1> HIDE DEF u, g, go
<1>7. d \in Seq(PlayUnits) /\ \A i \in 1..Len(d) : d[i].af = trk.af
  <2>1. CASE left > Blocks
    <3>1. d = <<>> /\ <<>> \in Seq(PlayUnits) /\ Len(<<>>) = 0
      BY <2>1, EmptySeq
    <3> HIDE DEF d
    <3> QED BY <3>1
  <2>2. CASE ~(left > Blocks)
    <3>1. d = <<u, u>>
      BY <2>2
    <3> HIDE DEF d
    <3>2. d \in Seq(PlayUnits) /\ Len(d) = 2 /\ d[1] = u /\ d[2] = u
      BY <1>5, <3>1
    <3> QED BY <1>5, <3>2
  <2> QED BY <2>1, <2>2
<1> HIDE DEF d
<1>8. sr \in BOOLEAN
  OBVIOUS
<1>9. l \in Int
  <2>1. left \in Int
    BY <1>3, PlayAssumptions DEF TrkType
  <2> QED BY <2>1
<1> HIDE DEF sr, l
<1>10. trk' \in TrkType
  BY <1>1, <1>3, <1>4, <1>6, <1>7, <1>8, <1>9 DEF TrkType
<1>11. /\ trk'.pc = "ui" /\ trk'.din = d /\ trk'.gone = go /\ SameFormats(trk', trk)
       /\ SameStream(trk', trk) /\ SamePause(trk', trk)
  BY <1>1, <1>3 DEF TrkType, SameFormats, SameStream, SamePause
<1>12. Quiet
  BY <1>1, <1>2, <1>3, <1>10, <1>11, NothingChanged DEF Quiet, SameFormats
<1> QED BY <1>1, <1>2, <1>6, <1>7, <1>11, <1>12, ChainStep

\* tuiplay_process, gtrk_process.
LEMMA UiStep ==
  ASSUME PlayInv, trk.pc = "ui", UiProcess
  PROVE  PlayInv'
<1>1. PlayTypes /\ QueuesAgree(bufs) /\ Running /\ bufs \in Seq(BufType) /\ cnt \in CntType
  BY DEF PlayInv, Running, PlayTypes
<1>2. trk \in TrkType /\ UNCHANGED <<env, mod, bufs, task, cnt>>
  BY <1>1, IsATrack DEF UiProcess
<1>3. Negotiation /\ \A i \in 1..Len(trk.din) : trk.din[i].af = trk.af
  BY <1>1 DEF PlayInv, Negotiation
<1>4. ASSUME NEW t \in TrkType, SameFormats(t, trk), SameStream(t, trk), SamePause(t, trk),
             t.din = trk.din, t.pc = "ui",
             "ac" \in t.gone <=> "ac" \in trk.gone,
             trk' = Back(t, "ui") \/ trk' = On(t)
      PROVE  PlayInv'
  <2>1. /\ trk' \in TrkType /\ SameFormats(trk', t) /\ SameStream(trk', t)
        /\ SamePause(trk', t) /\ trk'.gone = t.gone
        /\ trk'.pc # "async" /\ (trk'.pc = "out" => "ac" \in t.gone)
        /\ (trk'.pc = "ac" => "ac" \notin t.gone)
        /\ (trk'.din = t.din \/ trk'.din = <<>>)
    <3>1. CASE trk' = Back(t, "ui")
      BY <1>4, <3>1, BackFrom
    <3>2. CASE trk' = On(t)
      BY <1>4, <3>2, OnFrom
    <3> QED BY <1>4, <3>1, <3>2
  <2>2. SameFormats(trk', trk) /\ SameStream(trk', trk) /\ SamePause(trk', trk)
    BY <1>4, <2>1 DEF SameFormats, SameStream, SamePause
  <2>3. \A i \in 1..Len(trk'.din) : trk'.din[i].af = trk.af
    <3>1. Len(<<>>) = 0
      OBVIOUS
    <3>2. CASE trk'.din = <<>>
      BY <3>1, <3>2
    <3>3. CASE trk'.din = trk.din
      BY <1>3, <3>3
    <3> QED BY <1>4, <2>1, <3>2, <3>3
  <2>4. Quiet
    BY <1>1, <1>2, <2>1, <2>2, NothingChanged DEF Quiet, SameFormats, PlayTypes
  <2> QED BY <1>1, <1>2, <1>4, <2>1, <2>2, <2>3, <2>4, ChainStep
<1>5. CASE trk.useek
  <2> DEFINE t == [trk EXCEPT !.seek = TRUE, !.useek = FALSE]
  <2>1. trk' = Back(t, "ui")
    BY <1>5 DEF UiProcess
  <2>2. /\ t \in TrkType /\ SameFormats(t, trk) /\ SameStream(t, trk)
        /\ SamePause(t, trk) /\ t.din = trk.din /\ t.pc = "ui" /\ t.gone = trk.gone
    BY <1>2 DEF TrkType, SameFormats, SameStream, SamePause
  <2> HIDE DEF t
  <2> QED BY <1>4, <2>1, <2>2
<1>6. CASE ~trk.useek /\ "src" \notin trk.gone /\ (~trk.fwd \/ trk.din = <<>>)
  <2> DEFINE t == [trk EXCEPT !.open = TRUE]
  <2>1. trk' = Back(t, "ui")
    BY <1>6 DEF UiProcess
  <2>2. /\ t \in TrkType /\ SameFormats(t, trk) /\ SameStream(t, trk)
        /\ SamePause(t, trk) /\ t.din = trk.din /\ t.pc = "ui" /\ t.gone = trk.gone
    BY <1>2 DEF TrkType, SameFormats, SameStream, SamePause
  <2> HIDE DEF t
  <2> QED BY <1>4, <2>1, <2>2
<1>7. CASE ~trk.useek /\ ~("src" \notin trk.gone /\ (~trk.fwd \/ trk.din = <<>>))
  <2> DEFINE se == trk.seek /\ trk.sreq
             go == IF "src" \in trk.gone THEN trk.gone \union {"ui"} ELSE trk.gone
             t == [trk EXCEPT !.open = TRUE, !.seek = se, !.gone = go]
  <2>1. trk' = On(t)
    BY <1>7 DEF UiProcess
  <2>2. se \in BOOLEAN
    OBVIOUS
  <2>3. go \in SUBSET {"src", "ui", "ac"} /\ ("ac" \in go <=> "ac" \in trk.gone)
    <3>1. trk.gone \in SUBSET {"src", "ui", "ac"}
      BY <1>2 DEF TrkType
    <3> QED BY <3>1
  <2> HIDE DEF se, go
  <2>4. /\ t \in TrkType /\ SameFormats(t, trk) /\ SameStream(t, trk)
        /\ SamePause(t, trk) /\ t.din = trk.din /\ t.pc = "ui" /\ t.gone = go
    BY <1>2, <2>2, <2>3 DEF TrkType, SameFormats, SameStream, SamePause
  <2> HIDE DEF t
  <2> QED BY <1>4, <2>1, <2>3, <2>4
<1> QED BY <1>5, <1>6, <1>7

\* autoconv_process.
LEMMA AutoConvStep ==
  ASSUME PlayInv, AutoConv
  PROVE  PlayInv'
<1>1. trk.pc = "ac" /\ UNCHANGED <<env, mod, bufs, task>>
  BY DEF AutoConv
<1>2. /\ PlayTypes /\ QueuesAgree(bufs) /\ Running /\ bufs \in Seq(BufType)
      /\ cnt \in CntType /\ Negotiation /\ Waits /\ OutputOpen /\ LooseBuffer
  BY <1>1 DEF PlayInv, Running, PlayTypes
<1>3. trk \in TrkType
  BY <1>1, <1>2, IsATrack
<1>4. Kept(bufs, bufs') /\ task' \in BOOLEAN
  BY <1>1, <1>2, NothingChanged DEF PlayTypes
<1>5. /\ trk.af \in Afs /\ trk.oaf \in Afs /\ trk.caf \in Afs /\ trk.ac \in {0, 1}
      /\ trk.din \in Seq(PlayUnits) /\ trk.hold \in Seq(PlayUnits)
      /\ trk.gone \in SUBSET {"src", "ui", "ac"}
  BY <1>3 DEF TrkType
<1>6. CASE trk.ac = 0
  <2> DEFINE c == [trk.caf EXCEPT !.il = trk.oaf.il]
  <2>1. /\ trk' = [trk EXCEPT !.ac = 1, !.hold = trk.din, !.din = <<>>, !.pc = "out",
                              !.fwd = TRUE, !.caf = c]
        /\ cnt' = cnt
    BY <1>6 DEF AutoConv
  <2>2. c \in Afs /\ c.f = trk.caf.f /\ c.il = trk.oaf.il
    BY <1>5 DEF Afs
  <2> HIDE DEF c
  <2>3. <<>> \in Seq(PlayUnits) /\ Len(<<>>) = 0
    BY EmptySeq
  <2>4. trk' \in TrkType
    BY <1>3, <1>5, <2>1, <2>2, <2>3 DEF TrkType
  <2>5. /\ trk'.pc = "out" /\ trk'.ac = 1 /\ trk'.hold = trk.din /\ trk'.din = <<>>
        /\ trk'.caf = c /\ trk'.gone = trk.gone /\ trk'.st = trk.st
        /\ trk'.stream = trk.stream /\ trk'.ctx = trk.ctx /\ SamePause(trk', trk)
        /\ trk'.id = trk.id /\ trk'.af = trk.af /\ trk'.conv = trk.conv
        /\ trk'.oaf = trk.oaf
    BY <1>3, <2>1 DEF TrkType, SamePause
  <2>6. Quiet
    BY <1>1, <1>2, <1>3, <1>4, <2>1, <2>4, <2>5 DEF Quiet
  <2>7. trk.st = "TRY"
    BY <1>2, <1>6 DEF Negotiation
  <2>8. OutputOpen' /\ (trk'.ctx => trk'.stream \in 1..Len(bufs'))
    BY <1>2, <2>5, <2>6, OutputKept DEF IsOpen
  <2>9. Negotiation'
    <3>1. mod' = mod
      BY <1>1
    <3>2. \A i \in 1..Len(trk'.din) : trk'.din[i].af = trk'.af
      BY <2>3, <2>5
    <3>3. \A i \in 1..Len(trk'.hold) : trk'.hold[i].af = trk'.af
      BY <1>2, <2>5 DEF Negotiation
    <3> QED BY <1>2, <2>2, <2>5, <2>7, <3>1, <3>2, <3>3 DEF Negotiation
  <2>10. Waits' /\ WaitingIsWoken' /\ LooseBuffer'
    BY <1>1, <1>2, <2>1, <2>5, <2>7, <2>8
       DEF Waits, WaitingIsWoken, LooseBuffer, SamePause
  <2> QED BY <2>6, <2>8, <2>9, <2>10, QuietKeeps DEF PlayInv
<1>7. CASE trk.ac = 1
  <2> DEFINE o == Af(IF trk.caf.f = None THEN trk.oaf.f ELSE trk.caf.f, trk.caf.il)
             cv == o # trk.af
             go == trk.gone \union {"ac"}
             t == [trk EXCEPT !.oaf = o, !.conv = cv, !.gone = go]
  <2>1. \/ /\ trk' = [t EXCEPT !.pc = "out", !.fwd = TRUE, !.hold = <<>>, !.din = trk.hold]
           /\ cnt' = cnt
        \/ /\ trk' = [t EXCEPT !.pc = "fin"]
           /\ cnt' = [cnt EXCEPT !.fail = @ + 1, !.conv = TRUE]
    BY <1>7 DEF AutoConv
  <2>2. o \in Afs /\ o.il = trk.caf.il /\ (trk.caf.f = None => o.f = trk.oaf.f)
    BY <1>5 DEF Afs, Af
  <2>3. trk.caf.f = None /\ trk.caf.il = trk.oaf.il => o = trk.oaf
    BY <1>5, <2>2 DEF Afs
  <2>4. go \in SUBSET {"src", "ui", "ac"} /\ "ac" \in go /\ cv \in BOOLEAN
    BY <1>5
  <2>5. cv = (o # trk.af)
    OBVIOUS
  <2> HIDE DEF o, cv, go
  <2>6. t \in TrkType
    BY <1>3, <2>2, <2>4 DEF TrkType
  <2>7. /\ t.oaf = o /\ t.conv = cv /\ t.gone = go /\ t.id = trk.id /\ t.af = trk.af
        /\ t.ac = trk.ac /\ t.st = trk.st /\ t.stream = trk.stream /\ t.ctx = trk.ctx
        /\ t.caf = trk.caf /\ t.pause = trk.pause /\ t.paused = trk.paused
    BY <1>3 DEF TrkType
  <2> HIDE DEF t
  <2>8. <<>> \in Seq(PlayUnits) /\ Len(<<>>) = 0
    BY EmptySeq
  <2>9. CASE trk' = [t EXCEPT !.pc = "fin"] /\ cnt' = [cnt EXCEPT !.fail = @ + 1, !.conv = TRUE]
    <3>1. trk' \in TrkType /\ trk'.pc = "fin" /\ trk'.id = trk.id
      BY <2>6, <2>7, <2>9 DEF TrkType
    <3>2. cnt' \in CntType /\ cnt'.conv = TRUE
      <4>1. cnt.fail + 1 \in Nat
        BY <1>2 DEF CntType
      <4> QED BY <1>2, <2>9, <4>1 DEF CntType
    <3>3. Quiet
      BY <1>1, <1>3, <1>4, <3>1, <3>2 DEF Quiet
    <3>4. LooseBuffer' /\ ~Running' /\ WaitingIsWoken'
      BY <3>1, <3>2 DEF LooseBuffer, Running, WaitingIsWoken
    <3> QED BY <3>3, <3>4, QuietKeeps DEF PlayInv
  <2>10. CASE /\ trk' = [t EXCEPT !.pc = "out", !.fwd = TRUE, !.hold = <<>>, !.din = trk.hold]
              /\ cnt' = cnt
    <3>1. trk' \in TrkType
      BY <1>5, <2>6, <2>8, <2>10 DEF TrkType
    <3>2. /\ trk'.pc = "out" /\ trk'.hold = <<>> /\ trk'.din = trk.hold /\ trk'.oaf = o
          /\ trk'.conv = cv /\ trk'.gone = go /\ trk'.id = trk.id /\ trk'.af = trk.af
          /\ trk'.ac = 1 /\ trk'.st = trk.st /\ trk'.stream = trk.stream
          /\ trk'.ctx = trk.ctx /\ trk'.caf = trk.caf /\ SamePause(trk', trk)
      BY <1>7, <2>6, <2>7, <2>10 DEF TrkType, SamePause
    <3>3. Quiet
      BY <1>1, <1>2, <1>3, <1>4, <2>10, <3>1, <3>2 DEF Quiet
    <3>4. trk.st # "TRY" /\ (trk.st = "OPEN" => trk.caf.il)
      BY <1>1, <1>2, <1>7 DEF Negotiation
    <3>5. "ac" \notin trk.gone
      BY <1>1, <1>2 DEF Negotiation
    <3>6. IsOpen => o = trk.oaf
      BY <1>1, <1>2, <1>7, <2>3, <3>5 DEF Negotiation, IsOpen, OpenStates
    <3>7. OutputOpen' /\ (trk'.ctx => trk'.stream \in 1..Len(bufs'))
      <4>1. CASE IsOpen
        BY <1>2, <3>2, <3>3, <3>6, <4>1, OutputKept
      <4>2. CASE ~IsOpen
        BY <1>1, <1>2, <3>2, <4>2 DEF OutputOpen, IsOpen, Waits
      <4> QED BY <4>1, <4>2
    <3>8. Negotiation'
      <4>1. \A i \in 1..Len(trk'.din) : trk'.din[i].af = trk'.af
        BY <1>2, <3>2 DEF Negotiation
      <4>2. \A i \in 1..Len(trk'.hold) : trk'.hold[i].af = trk'.af
        BY <2>8, <3>2
      <4>3. trk'.conv = (trk'.oaf # trk'.af)
        BY <2>5, <3>2
      <4>4. trk.st = "OPEN" => o.il
        BY <2>2, <3>4
      <4> QED BY <2>4, <3>2, <3>4, <4>1, <4>2, <4>3, <4>4 DEF Negotiation
    <3>9. Waits' /\ WaitingIsWoken' /\ LooseBuffer'
      BY <1>1, <1>2, <2>10, <3>2, <3>7
         DEF Waits, WaitingIsWoken, LooseBuffer, SamePause
    <3> QED BY <3>3, <3>7, <3>8, <3>9, QuietKeeps DEF PlayInv
  <2> QED BY <2>1, <2>9, <2>10
<1> QED BY <1>5, <1>6, <1>7

-----------------------------------------------------------------------------
(* Opening the output.                                                     *)

\* The fields of the track that the create functions leave alone.
SameOutput(t, u) ==
  /\ SameFormats(t, u) /\ SamePause(t, u) /\ SameWish(t, u)
  /\ t.pc = u.pc /\ t.gone = u.gone /\ t.din = u.din

\* What audio_out_open leaves, called with track t and buffers bs.
OutOpened(o, t, try, bs) ==
  /\ o.t \in TrkType /\ SameOutput(o.t, t) /\ o.bs \in Seq(BufType) /\ QueuesAgree(o.bs)
  /\ \/ /\ o.r = "OK" /\ o.t.st = "FEEDING" /\ o.t.ctx = t.ctx /\ o.t.caf = t.caf
        /\ o.t.stream \in 1..Len(o.bs) /\ o.bs[o.t.stream].live
        /\ o.bs[o.t.stream].fmt = t.oaf.f /\ o.bs[o.t.stream].q = <<>>
     \/ o.r = "EFORMAT" /\ try /\ o.t.ctx = t.ctx /\ o.t.st = t.st
     \/ o.r \in {"ERR", "ECONNECTION"} /\ o.t = t

\* audio_out_open.
LEMMA AudioOutOpens ==
  ASSUME env \in EnvType, NEW t \in TrkType, NEW try \in BOOLEAN, NEW bs \in Seq(BufType),
         QueuesAgree(bs), NEW o \in AudioOutOpen(t, try, bs)
  PROVE  OutOpened(o, t, try, bs)
<1> DEFINE b == [live |-> TRUE, fmt |-> t.oaf.f, q |-> <<>>, on |-> FALSE]
<1>1. \/ o.r \in {"ERR", "ECONNECTION"} /\ o.t = t /\ o.bs = bs
      \/ /\ o.r = "OK" /\ o.bs = Append(bs, b)
         /\ o.t = [t EXCEPT !.stream = Len(bs) + 1, !.st = "FEEDING"]
      \/ /\ o.r = "EFORMAT" /\ try /\ o.bs = bs
         /\ \E g \in env.sup : o.t = [t EXCEPT !.caf.f = g]
  BY DEF AudioOutOpen
<1>2. SameOutput(t, t)
  BY DEF SameOutput, SameFormats, SamePause, SameWish
<1>3. CASE o.r \in {"ERR", "ECONNECTION"} /\ o.t = t /\ o.bs = bs
  BY <1>2, <1>3 DEF OutOpened
<1>4. CASE /\ o.r = "OK" /\ o.bs = Append(bs, b)
           /\ o.t = [t EXCEPT !.stream = Len(bs) + 1, !.st = "FEEDING"]
  <2> DEFINE n == Len(bs) + 1
  <2>1. t.oaf \in Afs
    BY DEF TrkType
  <2>2. <<>> \in Queues /\ Len(<<>>) = 0
    BY EmptyQueue
  <2>3. b \in BufType /\ b.live = TRUE /\ b.fmt = t.oaf.f /\ b.q = <<>>
    BY <2>1, <2>2 DEF BufType, Afs
  <2> HIDE DEF b
  <2>4. /\ o.bs \in Seq(BufType) /\ Len(o.bs) = n /\ o.bs[n] = b /\ n \in Nat
        /\ \A c \in 1..Len(bs) : o.bs[c] = bs[c]
    BY <1>4, <2>3
  <2>5. n \in 1..Len(o.bs) /\ \A c \in 1..n : c = n \/ c \in 1..Len(bs)
    BY <2>4
  <2>6. o.t = [t EXCEPT !.stream = n, !.st = "FEEDING"]
    BY <1>4
  <2> HIDE DEF n
  <2>7. o.t \in TrkType
    <3>1. n \in Nat
      BY <2>4
    <3>2. [t EXCEPT !.stream = n, !.st = "FEEDING"] \in TrkType
      BY <3>1 DEF TrkType
    <3> QED BY <2>6, <3>2
  <2>8. /\ SameOutput(o.t, t) /\ o.t.st = "FEEDING" /\ o.t.stream = n
        /\ o.t.ctx = t.ctx /\ o.t.caf = t.caf
    BY <2>6 DEF TrkType, SameOutput, SameFormats, SamePause, SameWish
  <2>9. QueuesAgree(o.bs)
    <3>1. \A i \in 1..Len(b.q) : b.q[i].af = Af(b.fmt, TRUE)
      BY <2>2, <2>3
    <3>2. ASSUME NEW c \in 1..Len(o.bs)
          PROVE  \A i \in 1..Len(o.bs[c].q) : o.bs[c].q[i].af = Af(o.bs[c].fmt, TRUE)
      <4>1. CASE c = n
        BY <2>4, <3>1, <4>1
      <4>2. CASE c # n
        <5>1. c \in 1..Len(bs) /\ o.bs[c] = bs[c]
          BY <2>4, <2>5, <4>2
        <5> QED BY <5>1 DEF QueuesAgree
      <4> QED BY <4>1, <4>2
    <3> QED BY <3>2 DEF QueuesAgree
  <2> QED BY <1>4, <2>3, <2>4, <2>5, <2>7, <2>8, <2>9 DEF OutOpened
<1>5. CASE /\ o.r = "EFORMAT" /\ try /\ o.bs = bs
           /\ \E g \in env.sup : o.t = [t EXCEPT !.caf.f = g]
  <2>1. PICK g \in env.sup : o.t = [t EXCEPT !.caf.f = g]
    BY <1>5
  <2> DEFINE c == [t.caf EXCEPT !.f = g]
  <2>2. g \in Formats
    BY DEF EnvType
  <2>3. c \in Afs
    BY <2>2 DEF TrkType, Afs
  <2>4. o.t = [t EXCEPT !.caf = c]
    BY <2>1
  <2> HIDE DEF c
  <2>5. o.t \in TrkType
    <3>1. [t EXCEPT !.caf = c] \in TrkType
      BY <2>3 DEF TrkType
    <3> QED BY <2>4, <3>1
  <2>6. SameOutput(o.t, t) /\ o.t.ctx = t.ctx /\ o.t.st = t.st
    BY <2>4 DEF TrkType, SameOutput, SameFormats, SamePause, SameWish
  <2> QED BY <1>5, <2>5, <2>6 DEF OutOpened
<1> QED BY <1>1, <1>3, <1>4, <1>5

\* What the create functions of the drivers promise.
OpenGood(c) ==
  /\ c.n \in Nat /\ c.m \in ModType /\ c.t \in TrkType /\ SameOutput(c.t, trk)
  /\ c.bs \in Seq(BufType) /\ QueuesAgree(c.bs) /\ ModuleOwns(c.m, c.bs, trk.id)
  /\ \/ c.r = "ERR" /\ c.m.out = 0
     \/ c.r = "MORE" /\ trk.st = "TRY" /\ c.t.st = "TRY" /\ c.t.ctx = trk.ctx
     \/ /\ c.r = "DONE" /\ c.t.ctx /\ c.m.tmr = "play" /\ c.t.caf = trk.caf
        /\ c.t.stream \in 1..Len(c.bs) /\ c.bs[c.t.stream].live
        /\ c.bs[c.t.stream].fmt = trk.oaf.f /\ (Shared => c.t.stream = c.m.out)
        /\ c.bs[c.t.stream].q = <<>> /\ (trk.st = "TRY" => c.t.st # "OPEN")

\* The module, its buffers and the track once the shared buffer was given up.
Released == IF mod.out # 0 THEN [Taken(mod) EXCEPT !.out = 0] ELSE mod
Informed == IF mod.out # 0 THEN Told(trk) ELSE trk

\* The output is about to be opened.
Unopened ==
  /\ PlayInv /\ Opening /\ trk \in TrkType /\ env \in EnvType /\ mod \in ModType
  /\ bufs \in Seq(BufType) /\ QueuesAgree(bufs) /\ ModuleOwns(mod, bufs, trk.id)
  /\ Negotiation /\ Waits

\* What audio_out_open needs to know.
LEMMA AtOpening ==
  ASSUME PlayInv, Opening
  PROVE  Unopened
<1>1. trk.pc = "out"
  BY DEF Opening
<1>2. PlayTypes /\ Running /\ Negotiation /\ Waits
  BY <1>1 DEF PlayInv, Running
<1>3. trk \in TrkType
  BY <1>1, <1>2, IsATrack
<1> QED BY <1>2, <1>3 DEF Unopened, PlayInv, PlayTypes

\* The timer of a buffer is stopped and its user is told and forgotten.
LEMMA TakenOver ==
  ASSUME Unopened
  PROVE  /\ Taken(mod) \in ModType /\ Taken(mod).tmr = None /\ Taken(mod).used = 0
         /\ Taken(mod).out = mod.out /\ Taken(mod).fmt = mod.fmt
         /\ Told(trk) \in TrkType /\ SameOutput(Told(trk), trk)
         /\ Told(trk).ctx = trk.ctx /\ Told(trk).caf = trk.caf
         /\ trk.st = "TRY" /\ Shared => Told(trk) = trk
<1>1. mod \in ModType /\ trk \in TrkType
  BY DEF Unopened
<1>2. [mod EXCEPT !.tmr = None, !.used = 0] \in ModType
  BY <1>1 DEF ModType
<1>3. /\ Taken(mod).tmr = None /\ Taken(mod).used = 0
      /\ Taken(mod).out = mod.out /\ Taken(mod).fmt = mod.fmt
  BY <1>1 DEF Taken, ModType
<1>4. [trk EXCEPT !.st = "SIGNALLED"] \in TrkType
  BY <1>1 DEF TrkType
<1>5. Told(trk) = trk \/ Told(trk) = [trk EXCEPT !.st = "SIGNALLED"]
  BY DEF Told, OnPlay
<1>6. /\ Told(trk) \in TrkType /\ SameOutput(Told(trk), trk)
      /\ Told(trk).ctx = trk.ctx /\ Told(trk).caf = trk.caf
  <2>1. CASE Told(trk) = trk
    BY <1>1, <2>1 DEF SameOutput, SameFormats, SamePause, SameWish
  <2>2. CASE Told(trk) = [trk EXCEPT !.st = "SIGNALLED"]
    <3> DEFINE u == [trk EXCEPT !.st = "SIGNALLED"]
    <3>1. SameOutput(u, trk) /\ u.ctx = trk.ctx /\ u.caf = trk.caf
      BY <1>1 DEF TrkType, SameOutput, SameFormats, SamePause, SameWish
    <3> QED BY <1>4, <2>2, <3>1
  <2> QED BY <1>5, <2>1, <2>2
<1>7. ASSUME trk.st = "TRY", Shared
      PROVE  Told(trk) = trk
  <2>1. mod.tmr # "play" /\ mod.used \in Nat /\ trk.id \in Nat \ {0}
    BY <1>1, <1>7 DEF Unopened, Negotiation, ModType, TrkType
  <2>2. mod.used = 0
    BY <1>7, <2>1 DEF Unopened, ModuleOwns
  <2> QED BY <2>1, <2>2 DEF Told
<1> QED BY <1>2, <1>3, <1>6, <1>7 DEF Taken

\* The shared buffer is given up before another one is opened.
LEMMA GivenUp ==
  ASSUME Unopened, Shared
  PROVE  /\ Released \in ModType /\ Released.out = 0 /\ Released.used = 0
         /\ Released.tmr = None
         /\ Informed \in TrkType /\ SameOutput(Informed, trk)
         /\ Informed.ctx = trk.ctx /\ Informed.caf = trk.caf
         /\ trk.st = "TRY" => Informed = trk
         /\ FreeBuf(mod.out) \in Seq(BufType) /\ QueuesAgree(FreeBuf(mod.out))
<1>1. mod \in ModType /\ mod.out \in Nat /\ mod.used \in Nat /\ trk \in TrkType
      /\ mod.tmr \in {None, "play", "close"}
  BY DEF Unopened, ModType
<1>2. FreeBuf(mod.out) \in Seq(BufType) /\ QueuesAgree(FreeBuf(mod.out))
  BY <1>1, FreeOthers DEF Unopened
<1>3. CASE mod.out # 0
  <2> DEFINE m == Taken(mod)
  <2>1. m \in ModType /\ m.tmr = None /\ m.used = 0
    BY TakenOver
  <2>2. Released = [m EXCEPT !.out = 0]
    BY <1>3 DEF Released
  <2> HIDE DEF m
  <2>3. Released \in ModType /\ Released.out = 0 /\ Released.used = 0 /\ Released.tmr = None
    BY <2>1, <2>2 DEF ModType
  <2> QED BY <1>2, <1>3, <2>3, TakenOver DEF Informed
<1>4. CASE mod.out = 0
  <2>1. Released = mod /\ Informed = trk
    BY <1>4 DEF Released, Informed
  <2>2. mod.used = 0 /\ mod.tmr = None
    BY <1>1, <1>4 DEF Unopened, ModuleOwns
  <2>3. SameOutput(trk, trk)
    BY DEF SameOutput, SameFormats, SamePause, SameWish
  <2> QED BY <1>1, <1>2, <1>4, <2>1, <2>2, <2>3
<1> QED BY <1>3, <1>4

\* A track takes a buffer over.
LEMMA FinGood ==
  ASSUME Unopened, Shared, NEW t \in TrkType, SameOutput(t, trk), NEW m \in ModType,
         NEW bs \in Seq(BufType), QueuesAgree(bs), t.caf = trk.caf,
         trk.st = "TRY" => t.st # "OPEN", m.out = t.stream, m.fmt = trk.oaf.f,
         t.stream \in 1..Len(bs), bs[t.stream].live, bs[t.stream].fmt = trk.oaf.f,
         bs[t.stream].q = <<>>
  PROVE  OpenGood(Fin(t, m, bs, 0))
<1> DEFINE u == [t EXCEPT !.ctx = TRUE]
           k == [m EXCEPT !.used = t.id, !.tmr = "play"]
           c == Fin(t, m, bs, 0)
<1>1. c = [r |-> "DONE", t |-> u, m |-> k, bs |-> bs, n |-> 0]
  BY DEF Fin, Created
<1>2. u \in TrkType
  BY DEF TrkType
<1>3. /\ SameOutput(u, t) /\ u.ctx = TRUE /\ u.caf = t.caf /\ u.stream = t.stream
      /\ u.st = t.st
  BY DEF TrkType, SameOutput, SameFormats, SamePause, SameWish
<1>4. t.id \in Nat /\ t.id # 0 /\ t.id = trk.id
  BY DEF TrkType, SameOutput, SameFormats
<1>5. k \in ModType /\ k.out = m.out /\ k.fmt = m.fmt /\ k.used = t.id /\ k.tmr = "play"
  BY <1>4 DEF ModType
<1> HIDE DEF u, k, c
<1>6. c.r = "DONE" /\ c.t = u /\ c.m = k /\ c.bs = bs /\ c.n = 0
  BY <1>1
<1>7. SameOutput(u, trk)
  BY <1>3 DEF SameOutput, SameFormats, SamePause, SameWish
<1>8. ModuleOwns(k, bs, trk.id)
  <2>1. t.stream # 0
    OBVIOUS
  <2> QED BY <1>4, <1>5, <2>1 DEF ModuleOwns
<1>9. OpenGood(c)
  BY <1>6, <1>2, <1>3, <1>5, <1>7, <1>8 DEF OpenGood
<1> QED BY <1>9 DEF c

\* A new buffer becomes the shared one.
LEMMA OpenedGood ==
  ASSUME Unopened, Shared, NEW o, NEW t, NEW try, NEW bs, OutOpened(o, t, try, bs), o.r = "OK",
         SameOutput(t, trk), t.caf = trk.caf
  PROVE  OpenGood(Opened(o.t, Released, o.bs, 0))
<1> DEFINE m == [Released EXCEPT !.out = o.t.stream, !.fmt = o.t.oaf.f]
           u == o.t
<1>1. /\ u \in TrkType /\ SameOutput(u, t) /\ o.bs \in Seq(BufType) /\ QueuesAgree(o.bs)
      /\ u.st = "FEEDING" /\ u.caf = t.caf
      /\ u.stream \in 1..Len(o.bs) /\ o.bs[u.stream].live /\ o.bs[u.stream].fmt = t.oaf.f
      /\ o.bs[u.stream].q = <<>>
  BY DEF OutOpened
<1>2. u.oaf = t.oaf /\ t.oaf = trk.oaf /\ SameOutput(u, trk)
  BY <1>1 DEF SameOutput, SameFormats, SamePause, SameWish
<1>3. Released \in ModType
  BY GivenUp
<1>4. u.oaf.f \in Formats \union {None} /\ u.stream \in Nat
  BY <1>1 DEF TrkType, Afs
<1>5. m = [Released EXCEPT !.out = u.stream, !.fmt = u.oaf.f]
  OBVIOUS
<1>6. Opened(o.t, Released, o.bs, 0) = Fin(u, m, o.bs, 0)
  BY DEF Opened
<1> HIDE DEF m, u
<1>7. m \in ModType /\ m.out = u.stream /\ m.fmt = u.oaf.f
  BY <1>3, <1>4, <1>5 DEF ModType
<1>8. OpenGood(Fin(u, m, o.bs, 0))
  BY <1>1, <1>2, <1>7, FinGood
<1> QED BY <1>6, <1>8

\* No buffer is open after a failure, or when another format is asked for.
LEMMA NotOpenedGood ==
  ASSUME Unopened, NEW r, NEW t \in TrkType, SameOutput(t, trk), NEW m \in ModType,
         NEW bs \in Seq(BufType), QueuesAgree(bs), NEW n \in Nat, ModuleOwns(m, bs, trk.id),
         \/ r = "ERR" /\ m.out = 0
         \/ r = "MORE" /\ trk.st = "TRY" /\ t.st = "TRY" /\ t.ctx = trk.ctx
  PROVE  OpenGood(Created(r, t, m, bs, n))
<1> DEFINE c == Created(r, t, m, bs, n)
<1>1. c.r = r /\ c.t = t /\ c.m = m /\ c.bs = bs /\ c.n = n
  BY DEF Created
<1> HIDE DEF c
<1>2. OpenGood(c)
  BY <1>1 DEF OpenGood
<1> QED BY <1>2 DEF c

\* The buffer of the module suits the track: it is cleared and used again.
LEMMA ReusedGood ==
  ASSUME Unopened, Shared, mod.out # 0, SameFormat(trk)
  PROVE  OpenGood(Reused(trk))
<1> DEFINE t == Told(trk)
           u == [t EXCEPT !.stream = mod.out]
           m == Taken(mod)
           bs == ClearBuf(mod.out)
<1>1. /\ trk \in TrkType /\ mod \in ModType /\ bufs \in Seq(BufType) /\ QueuesAgree(bufs)
      /\ ModuleOwns(mod, bufs, trk.id)
  BY DEF Unopened
<1>2. /\ t \in TrkType /\ SameOutput(t, trk) /\ t.caf = trk.caf
      /\ (trk.st = "TRY" => t.st # "OPEN")
      /\ m \in ModType /\ m.out = mod.out /\ m.fmt = mod.fmt
  BY TakenOver
<1>3. mod.out \in 1..Len(bufs) /\ bufs[mod.out].live /\ bufs[mod.out].fmt = mod.fmt
  BY <1>1 DEF ModuleOwns
<1>4. Kept(bufs, bs) /\ bs[mod.out].q = <<>>
  BY <1>1, <1>3, StopOrClear, StoppedOrCleared
<1>5. mod.fmt = trk.oaf.f
  BY DEF SameFormat
<1>6. Reused(trk) = Fin(u, m, bs, 0)
  BY DEF Reused
<1> HIDE DEF t, m, bs
<1>7. /\ bs \in Seq(BufType) /\ QueuesAgree(bs) /\ mod.out \in 1..Len(bs)
      /\ bs[mod.out].live /\ bs[mod.out].fmt = trk.oaf.f /\ bs[mod.out].q = <<>>
  <2>1. Len(bufs) \in Nat /\ Len(bs) \in Nat /\ Len(bs) >= Len(bufs)
    BY <1>4 DEF Kept
  <2>2. mod.out \in 1..Len(bs)
    BY <1>3, <2>1
  <2> QED BY <1>3, <1>4, <1>5, <2>2 DEF Kept
<1>8. u \in TrkType
  <2>1. mod.out \in Nat
    BY <1>1 DEF ModType
  <2> QED BY <1>2, <2>1 DEF TrkType
<1>9. SameOutput(u, t) /\ u.caf = t.caf /\ u.st = t.st /\ u.stream = mod.out
  BY <1>2 DEF TrkType, SameOutput, SameFormats, SamePause, SameWish
<1> HIDE DEF u
<1>10. SameOutput(u, trk)
  BY <1>2, <1>9 DEF SameOutput, SameFormats, SamePause, SameWish
<1>11. OpenGood(Fin(u, m, bs, 0))
  BY <1>2, <1>5, <1>7, <1>8, <1>9, <1>10, FinGood
<1> QED BY <1>6, <1>11

\* alsa_create, wasapi_create.
LEMMA CreateKnowingGood ==
  ASSUME Unopened, Shared, NEW err \in BOOLEAN, NEW c \in CreateKnowing(trk, TryOpen, err)
  PROVE  OpenGood(c)
<1>1. /\ trk \in TrkType /\ mod \in ModType /\ bufs \in Seq(BufType) /\ QueuesAgree(bufs)
      /\ env \in EnvType /\ ModuleOwns(mod, bufs, trk.id) /\ TryOpen \in BOOLEAN
      /\ (TryOpen => trk.st = "TRY")
  BY DEF Unopened, TryOpen
<1>2. CASE mod.out # 0 /\ SameFormat(trk)
  <2>1. c = Reused(trk)
    BY <1>2 DEF CreateKnowing
  <2> QED BY <1>2, <2>1, ReusedGood
<1>3. CASE /\ mod.out # 0 /\ ~SameFormat(trk) /\ TryOpen
           /\ [bad |-> trk.oaf.f, good |-> mod.fmt] \in mod.fmts
  <2> DEFINE t == Told(trk)
             g == [t.caf EXCEPT !.f = mod.fmt]
             u == [t EXCEPT !.caf = g]
             m == Taken(mod)
  <2>1. c = Created("MORE", u, m, bufs, 0)
    BY <1>3 DEF CreateKnowing
  <2>2. /\ t \in TrkType /\ SameOutput(t, trk) /\ t.ctx = trk.ctx /\ t.st = "TRY"
        /\ m \in ModType /\ m.tmr = None /\ m.used = 0 /\ m.out = mod.out /\ m.fmt = mod.fmt
    BY <1>1, <1>3, TakenOver
  <2> HIDE DEF t, m
  <2>3. g \in Afs
    BY <1>1, <2>2 DEF TrkType, Afs, ModType
  <2> HIDE DEF g
  <2>4. u \in TrkType
    <3>1. t \in TrkType
      BY <2>2
    <3> QED BY <2>3, <3>1 DEF TrkType
  <2>5. SameOutput(u, t) /\ u.ctx = t.ctx /\ u.st = t.st
    BY <2>2 DEF TrkType, SameOutput, SameFormats, SamePause, SameWish
  <2> HIDE DEF u
  <2>6. SameOutput(u, trk)
    BY <2>2, <2>5 DEF SameOutput, SameFormats, SamePause, SameWish
  <2>7. ModuleOwns(m, bufs, trk.id)
    BY <1>1, <2>2 DEF ModuleOwns, None
  <2>8. OpenGood(Created("MORE", u, m, bufs, 0))
    BY <1>1, <1>3, <2>2, <2>4, <2>5, <2>6, <2>7, NotOpenedGood
  <2> QED BY <2>1, <2>8
<1>4. CASE /\ ~(mod.out # 0 /\ SameFormat(trk))
           /\ ~(mod.out # 0 /\ TryOpen /\ [bad |-> trk.oaf.f, good |-> mod.fmt] \in mod.fmts)
  <2> DEFINE bs == FreeBuf(mod.out)
             m == Released
             t == Informed
  <2>1. PICK o \in AudioOutOpen(t, TryOpen, bs) :
          c = CASE o.r = "OK" -> Opened(o.t, m, o.bs, 0)
                [] o.r = "EFORMAT" ->
                     Created("MORE", o.t, [m EXCEPT !.fmts = Remember(@, trk.oaf.f, o.t.caf.f)],
                             o.bs, 0)
                [] OTHER -> Created("ERR", [o.t EXCEPT !.err = err], m, o.bs, 1)
    BY <1>4 DEF CreateKnowing, Released, Informed
  <2>2. /\ m \in ModType /\ m.out = 0 /\ m.used = 0 /\ m.tmr = None
        /\ t \in TrkType /\ SameOutput(t, trk) /\ t.ctx = trk.ctx /\ t.caf = trk.caf
        /\ (trk.st = "TRY" => t = trk) /\ bs \in Seq(BufType) /\ QueuesAgree(bs)
    BY GivenUp
  <2> HIDE DEF bs, t
  <2>3. OutOpened(o, t, TryOpen, bs)
    BY <1>1, <2>2, AudioOutOpens
  <2>4. o.t \in TrkType /\ SameOutput(o.t, t) /\ o.bs \in Seq(BufType) /\ QueuesAgree(o.bs)
    BY <2>3 DEF OutOpened
  <2>5. SameOutput(o.t, trk)
    BY <2>2, <2>4 DEF SameOutput, SameFormats, SamePause, SameWish
  <2>6. CASE o.r = "OK"
    <3>1. c = Opened(o.t, Released, o.bs, 0)
      BY <2>1, <2>6
    <3> QED BY <2>2, <2>3, <2>6, <3>1, OpenedGood
  <2>7. CASE o.r = "EFORMAT"
    <3> DEFINE fs == Remember(m.fmts, trk.oaf.f, o.t.caf.f)
               k == [m EXCEPT !.fmts = fs]
    <3>1. c = Created("MORE", o.t, k, o.bs, 0)
      BY <2>1, <2>7
    <3>2. fs \in SUBSET [bad : Formats \union {None}, good : Formats \union {None}]
      <4>1. m.fmts \in SUBSET [bad : Formats \union {None}, good : Formats \union {None}]
        BY <2>2 DEF ModType
      <4>2. trk.oaf.f \in Formats \union {None} /\ o.t.caf.f \in Formats \union {None}
        BY <1>1, <2>4 DEF TrkType, Afs
      <4> HIDE DEF m
      <4> QED BY <4>1, <4>2 DEF Remember, KnownGood
    <3> HIDE DEF m, fs
    <3>3. k \in ModType /\ k.out = 0 /\ k.used = 0 /\ k.tmr = None
      BY <2>2, <3>2 DEF ModType
    <3> HIDE DEF k
    <3>4. ModuleOwns(k, o.bs, trk.id)
      BY <3>3 DEF ModuleOwns, None
    <3>5. TryOpen /\ o.t.ctx = t.ctx /\ o.t.st = t.st
      BY <2>3, <2>7 DEF OutOpened
    <3>6. trk.st = "TRY" /\ o.t.st = "TRY" /\ o.t.ctx = trk.ctx
      BY <1>1, <2>2, <3>5
    <3>7. OpenGood(Created("MORE", o.t, k, o.bs, 0))
      BY <2>4, <2>5, <3>3, <3>4, <3>6, NotOpenedGood
    <3> QED BY <3>1, <3>7
  <2>8. CASE o.r \notin {"OK", "EFORMAT"}
    <3> DEFINE u == [o.t EXCEPT !.err = err]
    <3>1. c = Created("ERR", u, m, o.bs, 1)
      BY <2>1, <2>8
    <3>2. u \in TrkType
      BY <2>4 DEF TrkType
    <3>3. SameOutput(u, o.t)
      BY <2>4 DEF TrkType, SameOutput, SameFormats, SamePause, SameWish
    <3> HIDE DEF u, m
    <3>4. SameOutput(u, trk)
      BY <2>5, <3>3 DEF SameOutput, SameFormats, SamePause, SameWish
    <3>5. ModuleOwns(m, o.bs, trk.id)
      BY <2>2 DEF ModuleOwns, None
    <3>6. OpenGood(Created("ERR", u, m, o.bs, 1))
      BY <2>2, <2>4, <3>2, <3>4, <3>5, NotOpenedGood
    <3> QED BY <3>1, <3>6
  <2> QED BY <2>6, <2>7, <2>8
<1> QED BY <1>2, <1>3, <1>4

\* pulse_create.
LEMMA PulseCreateGood ==
  ASSUME Unopened, Shared, NEW c \in PulseCreate(trk, TryOpen)
  PROVE  OpenGood(c)
<1>1. /\ env \in EnvType /\ TryOpen \in BOOLEAN /\ (TryOpen => trk.st = "TRY")
  BY DEF Unopened, TryOpen
<1>2. CASE mod.out # 0 /\ SameFormat(trk)
  <2>1. c = Reused(trk)
    BY <1>2 DEF PulseCreate
  <2> QED BY <1>2, <2>1, ReusedGood
<1>3. CASE ~(mod.out # 0 /\ SameFormat(trk))
  <2> DEFINE bs == FreeBuf(mod.out)
             m == Released
             t == Informed
             u == [t EXCEPT !.recon = TRUE]
             e == [t EXCEPT !.err = TRUE]
             fail == Created("ERR", e, m, bs, 1)
             After(o) == CASE o.r = "OK" -> {Opened(o.t, m, o.bs, 0)}
                           [] o.r = "EFORMAT" -> {Created("MORE", o.t, m, o.bs, 0)}
                           [] OTHER -> {fail}
  <2>1. \/ c = fail
        \/ \E o \in AudioOutOpen(t, TryOpen, bs) : c \in After(o)
        \/ \E o \in AudioOutOpen(u, TryOpen, bs) : c \in After(o)
    <3> DEFINE S == AudioOutOpen(t, TryOpen, bs)
               R == AudioOutOpen(u, TryOpen, bs)
    <3>1. c \in UNION {IF o.r = "ECONNECTION" /\ ~t.recon
                        THEN {fail} \union UNION {After(p) : p \in R}
                        ELSE After(o) : o \in S}
      BY <1>3 DEF PulseCreate, Released, Informed
    <3> HIDE DEF S, R, After, fail, t
    <3>2. PICK o \in S : c \in IF o.r = "ECONNECTION" /\ ~t.recon
                               THEN {fail} \union UNION {After(p) : p \in R}
                               ELSE After(o)
      BY <3>1
    <3>3. c = fail \/ (\E p \in R : c \in After(p)) \/ c \in After(o)
      BY <3>2
    <3> QED BY <3>3 DEF S, R
  <2>2. /\ m \in ModType /\ m.out = 0 /\ m.used = 0 /\ m.tmr = None
        /\ t \in TrkType /\ SameOutput(t, trk) /\ t.ctx = trk.ctx /\ t.caf = trk.caf
        /\ (trk.st = "TRY" => t = trk) /\ bs \in Seq(BufType) /\ QueuesAgree(bs)
    BY GivenUp
  <2> HIDE DEF bs, t
  <2>3. u \in TrkType /\ e \in TrkType
    <3>1. t \in TrkType
      BY <2>2
    <3> QED BY <3>1 DEF TrkType
  <2>4. SameOutput(u, t) /\ u.ctx = t.ctx /\ u.caf = t.caf /\ u.st = t.st /\ SameOutput(e, t)
    BY <2>2 DEF TrkType, SameOutput, SameFormats, SamePause, SameWish
  <2> HIDE DEF u, e
  <2>5. SameOutput(u, trk) /\ SameOutput(e, trk)
    BY <2>2, <2>4 DEF SameOutput, SameFormats, SamePause, SameWish
  <2>6. \A b : ModuleOwns(m, b, trk.id)
    BY <2>2 DEF ModuleOwns, None
  <2>7. OpenGood(fail)
    BY <2>2, <2>3, <2>5, <2>6, NotOpenedGood
  <2> HIDE DEF fail
  <2>8. ASSUME NEW v \in TrkType, SameOutput(v, trk), v.ctx = trk.ctx, v.caf = trk.caf,
               trk.st = "TRY" => v.st = "TRY",
               NEW o \in AudioOutOpen(v, TryOpen, bs), c \in After(o)
        PROVE  OpenGood(c)
    <3>1. OutOpened(o, v, TryOpen, bs)
      BY <1>1, <2>2, AudioOutOpens
    <3>2. o.t \in TrkType /\ SameOutput(o.t, v) /\ o.bs \in Seq(BufType) /\ QueuesAgree(o.bs)
      BY <3>1 DEF OutOpened
    <3>3. SameOutput(o.t, trk)
      BY <2>8, <3>2 DEF SameOutput, SameFormats, SamePause, SameWish
    <3>4. CASE o.r = "OK"
      <4>1. c = Opened(o.t, Released, o.bs, 0)
        BY <2>8, <3>4
      <4> QED BY <2>8, <3>1, <3>4, <4>1, OpenedGood
    <3>5. CASE o.r = "EFORMAT"
      <4>1. c = Created("MORE", o.t, m, o.bs, 0)
        BY <2>8, <3>5
      <4>2. trk.st = "TRY" /\ o.t.st = "TRY" /\ o.t.ctx = trk.ctx
        BY <1>1, <2>8, <3>1, <3>5 DEF OutOpened
      <4>3. OpenGood(Created("MORE", o.t, m, o.bs, 0))
        BY <2>2, <2>6, <3>2, <3>3, <4>2, NotOpenedGood
      <4> QED BY <4>1, <4>3
    <3>6. CASE o.r \notin {"OK", "EFORMAT"}
      BY <2>7, <2>8, <3>6
    <3> QED BY <3>4, <3>5, <3>6
  <2> HIDE DEF After
  <2>9. CASE \E o \in AudioOutOpen(t, TryOpen, bs) : c \in After(o)
    BY <2>2, <2>8, <2>9
  <2>10. CASE \E o \in AudioOutOpen(u, TryOpen, bs) : c \in After(o)
    BY <2>2, <2>3, <2>4, <2>5, <2>8, <2>10
  <2> QED BY <2>1, <2>7, <2>9, <2>10
<1> QED BY <1>2, <1>3

\* dsnd_create.
LEMMA DsndCreateGood ==
  ASSUME Unopened, ~Shared, NEW c \in DsndCreate(trk, TryOpen)
  PROVE  OpenGood(c)
<1>1. /\ trk \in TrkType /\ mod \in ModType /\ bufs \in Seq(BufType) /\ QueuesAgree(bufs)
      /\ env \in EnvType /\ ModuleOwns(mod, bufs, trk.id) /\ TryOpen \in BOOLEAN
      /\ (TryOpen => trk.st = "TRY")
  BY DEF Unopened, TryOpen
<1>2. PICK o \in AudioOutOpen(trk, TryOpen, bufs) :
        c = CASE o.r = "OK" -> Created("DONE", [o.t EXCEPT !.ctx = TRUE],
                                       [mod EXCEPT !.tmr = "play"], o.bs, 0)
              [] o.r = "EFORMAT" -> Created("MORE", o.t, mod, o.bs, 0)
              [] OTHER -> Created("ERR", o.t, mod, o.bs, 1)
  BY DEF DsndCreate
<1>3. OutOpened(o, trk, TryOpen, bufs)
  BY <1>1, AudioOutOpens
<1>4. o.t \in TrkType /\ SameOutput(o.t, trk) /\ o.bs \in Seq(BufType) /\ QueuesAgree(o.bs)
  BY <1>3 DEF OutOpened
<1>5. mod.out = 0 /\ mod.used = 0 /\ mod.tmr # "close" /\ trk.id # 0
  BY <1>1 DEF ModuleOwns, TrkType
<1>6. \A b : ModuleOwns(mod, b, trk.id)
  BY <1>5 DEF ModuleOwns
<1>7. CASE o.r = "OK"
  <2> DEFINE u == [o.t EXCEPT !.ctx = TRUE]
             m == [mod EXCEPT !.tmr = "play"]
  <2>1. c = [r |-> "DONE", t |-> u, m |-> m, bs |-> o.bs, n |-> 0]
    BY <1>2, <1>7 DEF Created
  <2>2. u \in TrkType
    BY <1>4 DEF TrkType
  <2>3. /\ SameOutput(u, o.t) /\ u.ctx = TRUE /\ u.caf = o.t.caf /\ u.st = o.t.st
        /\ u.stream = o.t.stream
    BY <1>4 DEF TrkType, SameOutput, SameFormats, SamePause, SameWish
  <2>4. m \in ModType /\ m.tmr = "play" /\ m.out = mod.out /\ m.used = mod.used
    BY <1>1 DEF ModType
  <2> HIDE DEF u, m
  <2>5. c.r = "DONE" /\ c.t = u /\ c.m = m /\ c.bs = o.bs /\ c.n = 0
    BY <2>1
  <2>6. SameOutput(u, trk)
    BY <1>4, <2>3 DEF SameOutput, SameFormats, SamePause, SameWish
  <2>7. ModuleOwns(m, o.bs, trk.id)
    BY <1>5, <2>4 DEF ModuleOwns
  <2>8. /\ o.t.st = "FEEDING" /\ o.t.caf = trk.caf /\ o.t.stream \in 1..Len(o.bs)
        /\ o.bs[o.t.stream].live /\ o.bs[o.t.stream].fmt = trk.oaf.f
        /\ o.bs[o.t.stream].q = <<>>
    BY <1>3, <1>7 DEF OutOpened
  <2> QED BY <1>4, <2>2, <2>3, <2>4, <2>5, <2>6, <2>7, <2>8 DEF OpenGood
<1>8. CASE o.r = "EFORMAT"
  <2>1. c = Created("MORE", o.t, mod, o.bs, 0)
    BY <1>2, <1>8
  <2>2. trk.st = "TRY" /\ o.t.st = "TRY" /\ o.t.ctx = trk.ctx
    BY <1>1, <1>3, <1>8 DEF OutOpened
  <2>3. OpenGood(Created("MORE", o.t, mod, o.bs, 0))
    BY <1>1, <1>4, <1>6, <2>2, NotOpenedGood
  <2> QED BY <2>1, <2>3
<1>9. CASE o.r \notin {"OK", "EFORMAT"}
  <2>1. c = Created("ERR", o.t, mod, o.bs, 1)
    BY <1>2, <1>9
  <2>2. OpenGood(Created("ERR", o.t, mod, o.bs, 1))
    BY <1>1, <1>4, <1>5, <1>6, NotOpenedGood
  <2> QED BY <2>1, <2>2
<1> QED BY <1>7, <1>8, <1>9

\* A fault is counted.
LEMMA FaultCounted ==
  ASSUME cnt \in CntType, NEW n \in Nat, Fault(n)
  PROVE  cnt' \in CntType /\ cnt'.conv = cnt.conv
<1> DEFINE k == Min2(cnt.fail + n, MaxFails)
<1>1. cnt' = [cnt EXCEPT !.fail = k]
  BY DEF Fault
<1>2. k \in Nat
  BY PlayAssumptions DEF Min2, CntType
<1> HIDE DEF k
<1> QED BY <1>1, <1>2 DEF CntType

\* The first calls of the write functions.
LEMMA OpenStep ==
  ASSUME Unopened, NEW c, OpenGood(c), OpenOutput(c)
  PROVE  PlayInv'
<1>1. /\ trk \in TrkType /\ env \in EnvType /\ Negotiation /\ Waits /\ PlayTypes
      /\ trk.pc = "out" /\ trk.st \in {"TRY", "OPEN"}
  BY DEF Unopened, PlayInv, Opening, OpenStates
<1>2. mod' = c.m /\ bufs' = c.bs /\ Fault(c.n) /\ env' = env /\ task' = task
  BY DEF OpenOutput
<1>3. /\ c.n \in Nat /\ c.m \in ModType /\ c.t \in TrkType /\ SameOutput(c.t, trk)
      /\ c.bs \in Seq(BufType) /\ QueuesAgree(c.bs) /\ ModuleOwns(c.m, c.bs, trk.id)
  BY DEF OpenGood
<1>4. cnt' \in CntType /\ cnt'.conv = cnt.conv
  BY <1>1, <1>2, <1>3, FaultCounted DEF PlayTypes
<1>5. QueuesAgree(bufs)' /\ (trk'.id = trk.id => ModuleOwns(mod, bufs, trk.id)')
  BY <1>2, <1>3 DEF QueuesAgree, Af, ModuleOwns, Shared
<1>6. trk' \in TrkType => PlayTypes'
  BY <1>1, <1>2, <1>3, <1>4 DEF PlayTypes
<1>7. /\ c.t.pc = "out" /\ c.t.id = trk.id /\ c.t.oaf = trk.oaf /\ c.t.gone = trk.gone
      /\ c.t.din = trk.din /\ c.t.ac = trk.ac /\ c.t.hold = trk.hold /\ c.t.af = trk.af
      /\ c.t.conv = trk.conv /\ c.t.pause = trk.pause /\ c.t.paused = trk.paused
  BY <1>1, <1>3 DEF SameOutput, SameFormats, SamePause, SameWish
<1>8. /\ trk.ac # 0
      /\ trk.st = "OPEN" => trk.oaf.il /\ "ac" \in trk.gone
      /\ trk.st = "TRY" => "ac" \notin trk.gone /\ ~trk.ctx
  BY <1>1 DEF Negotiation
<1>9. CASE c.r = "ERR"
  <2>1. trk' = [c.t EXCEPT !.pc = "fin"]
    BY <1>9 DEF OpenOutput
  <2>2. [c.t EXCEPT !.pc = "fin"] \in TrkType
    BY <1>3 DEF TrkType
  <2>3. trk' \in TrkType /\ trk'.pc = "fin" /\ trk'.id = trk.id
    <3>1. trk' \in TrkType
      BY <2>1, <2>2
    <3>2. trk'.pc = "fin" /\ trk'.id = c.t.id
      BY <1>3, <2>1 DEF TrkType
    <3> QED BY <1>7, <3>1, <3>2
  <2>4. mod'.out = 0
    BY <1>2, <1>9 DEF OpenGood
  <2>5. LooseBuffer' /\ ~Running' /\ WaitingIsWoken'
    BY <2>3, <2>4 DEF LooseBuffer, Running, WaitingIsWoken
  <2> QED BY <1>5, <1>6, <2>3, <2>5 DEF PlayInv
<1>10. CASE c.r = "DONE" /\ c.t.oaf.il
  <2>1. trk' = [c.t EXCEPT !.st = "WAITING"]
    BY <1>10 DEF OpenOutput
  <2>2. [c.t EXCEPT !.st = "WAITING"] \in TrkType
    BY <1>3 DEF TrkType
  <2>3. trk' \in TrkType
    BY <2>1, <2>2
  <2>4. /\ SameOutput(trk', c.t) /\ trk'.st = "WAITING" /\ trk'.stream = c.t.stream
        /\ trk'.ctx = c.t.ctx /\ trk'.caf = c.t.caf
    BY <1>3, <2>1 DEF TrkType, SameOutput, SameFormats, SamePause, SameWish
  <2>5. SameOutput(trk', trk)
    BY <1>3, <2>4 DEF SameOutput, SameFormats, SamePause, SameWish
  <2>6. /\ c.t.ctx /\ c.m.tmr = "play" /\ c.t.caf = trk.caf
        /\ c.t.stream \in 1..Len(c.bs) /\ c.bs[c.t.stream].live
        /\ c.bs[c.t.stream].fmt = trk.oaf.f /\ (Shared => c.t.stream = c.m.out)
    BY <1>10 DEF OpenGood
  <2>7. trk.oaf = Af(trk.oaf.f, TRUE)
    <3>1. trk.oaf \in Afs /\ trk.oaf.il = TRUE
      BY <1>1, <1>7, <1>10 DEF TrkType, Afs
    <3> QED BY <3>1 DEF Afs, Af
  <2>8. OutputOpen'
    BY <1>2, <2>4, <2>5, <2>6, <2>7
       DEF OutputOpen, Live, Shared, Af, SameOutput, SameFormats
  <2>9. Negotiation'
    <3>1. "ac" \notin trk.gone => trk.caf.f = None /\ trk.caf.il = trk.oaf.il
      BY <1>1, <1>8 DEF Negotiation, TrkType
    <3>2. trk'.pc = "out"
      BY <1>1, <2>5 DEF SameOutput
    <3> QED BY <1>1, <1>8, <2>4, <2>5, <2>6, <3>1, <3>2 DEF Negotiation, SameOutput, SameFormats
  <2>10. Waits' /\ WaitingIsWoken' /\ LooseBuffer'
    BY <1>1, <1>2, <2>4, <2>5, <2>6
       DEF Waits, WaitingIsWoken, LooseBuffer, SameOutput, SamePause, IsOpen, OpenStates, None
  <2> QED BY <1>5, <1>6, <2>3, <2>5, <2>8, <2>9, <2>10 DEF PlayInv, SameOutput, SameFormats
<1>11. CASE c.r # "ERR" /\ ~(c.r = "DONE" /\ c.t.oaf.il)
  <2> DEFINE f == [c.t.caf EXCEPT !.il = TRUE]
             asks == [c.t EXCEPT !.caf = f, !.st = "OPEN"]
  <2>1. trk.st = "TRY" /\ c.t.st # "OPEN"
    BY <1>1, <1>7, <1>8, <1>11 DEF OpenGood
  <2>2. trk' = Back(asks, "out")
    BY <1>11, <2>1 DEF OpenOutput
  <2>3. f \in Afs /\ f.il = TRUE
    BY <1>3 DEF TrkType, Afs
  <2> HIDE DEF f
  <2>4. asks \in TrkType
    <3>1. c.t \in TrkType
      BY <1>3
    <3> QED BY <2>3, <3>1 DEF TrkType
  <2>5. /\ SameOutput(asks, c.t) /\ asks.st = "OPEN" /\ asks.caf = f
        /\ asks.stream = c.t.stream /\ asks.ctx = c.t.ctx
    BY <1>3 DEF TrkType, SameOutput, SameFormats, SamePause, SameWish
  <2> HIDE DEF asks
  <2>6. /\ trk' \in TrkType /\ SameFormats(trk', asks) /\ SameStream(trk', asks)
        /\ SamePause(trk', asks) /\ trk'.gone = asks.gone /\ trk'.pc = "ac"
        /\ trk'.din = <<>>
    <3>1. "ac" \notin asks.gone
      BY <1>7, <1>8, <2>1, <2>5 DEF SameOutput
    <3> QED BY <2>2, <2>4, <3>1, BackFrom
  <2>7. /\ SameFormats(trk', trk) /\ SamePause(trk', trk) /\ trk'.gone = trk.gone
    BY <1>3, <2>5, <2>6 DEF SameOutput, SameFormats, SamePause, SameWish
  <2>8. trk'.st = "OPEN" /\ trk'.caf = f /\ trk'.stream = c.t.stream /\ trk'.ctx = c.t.ctx
    BY <2>5, <2>6 DEF SameStream
  <2>9. Negotiation'
    <3>1. \A j \in 1..Len(trk'.din) : trk'.din[j].af = trk'.af
      <4>1. Len(<<>>) = 0
        OBVIOUS
      <4> QED BY <2>6, <4>1
    <3> QED BY <1>1, <1>8, <2>1, <2>3, <2>6, <2>7, <2>8, <3>1 DEF Negotiation, SameFormats
  <2>10. OutputOpen' /\ WaitingIsWoken' /\ LooseBuffer'
    BY <2>6, <2>8 DEF OutputOpen, IsOpen, OpenStates, WaitingIsWoken, LooseBuffer
  <2>11. c.t.ctx => c.t.stream \in 1..Len(c.bs)
    BY <1>8, <1>11, <2>1 DEF OpenGood
  <2>12. Waits'
    BY <1>1, <1>2, <2>6, <2>7, <2>8, <2>11 DEF Waits, SamePause
  <2> QED BY <1>5, <1>6, <2>6, <2>7, <2>9, <2>10, <2>12 DEF PlayInv, SameFormats
<1> QED BY <1>9, <1>10, <1>11

-----------------------------------------------------------------------------
(* Writing to an open output.                                              *)

\* The output is open.
OutputReady ==
  /\ PlayInv /\ Writing /\ trk \in TrkType /\ PlayTypes /\ Running /\ IsOpen
  /\ bufs \in Seq(BufType) /\ QueuesAgree(bufs) /\ Negotiation /\ OutputOpen /\ Waits

\* What audio_out_write finds.
LEMMA AtWriting ==
  ASSUME PlayInv, Writing
  PROVE  OutputReady
<1>1. trk.pc = "out"
  BY DEF Writing
<1>2. PlayTypes /\ Running /\ Negotiation /\ OutputOpen /\ Waits
  BY <1>1 DEF PlayInv, Running
<1>3. trk \in TrkType
  BY <1>1, <1>2, IsATrack
<1> QED BY <1>2, <1>3 DEF OutputReady, PlayInv, PlayTypes, Writing, IsOpen

\* Whatever the conversion filter does, a unit that is written is in the
\* format of the output.
LEMMA ConvertedUnits ==
  ASSUME trk \in TrkType, Negotiation
  PROVE  /\ Converted(trk, trk.din) \in Seq(PlayUnits)
         /\ Len(Converted(trk, trk.din)) = Len(trk.din)
         /\ \A i \in 1..Len(trk.din) : /\ Converted(trk, trk.din)[i].af = trk.oaf
                                      /\ Converted(trk, trk.din)[i].gen = trk.din[i].gen
<1> DEFINE d == trk.din
           n == Len(d)
           E(i) == IF trk.conv THEN [d[i] EXCEPT !.af = trk.oaf] ELSE d[i]
           us == [i \in 1..n |-> E(i)]
<1>1. d \in Seq(PlayUnits) /\ trk.oaf \in Afs
  BY DEF TrkType
<1>2. n \in Nat /\ DOMAIN d = 1..n /\ \A i \in 1..n : d[i] \in PlayUnits
  BY <1>1, LenProperties, ElementOfSeq
<1>3. Converted(trk, d) = us
  BY <1>2 DEF Converted
<1>4. (trk.oaf = trk.af \/ trk.conv) /\ \A i \in 1..n : d[i].af = trk.af
  BY DEF Negotiation
<1> HIDE DEF d, n
<1>5. ASSUME NEW i \in 1..n
      PROVE  E(i) \in PlayUnits /\ E(i).af = trk.oaf /\ E(i).gen = d[i].gen
  <2>1. d[i] \in PlayUnits /\ d[i].af = trk.af
    BY <1>2, <1>4
  <2> QED BY <1>1, <1>4, <2>1 DEF PlayUnits
<1> HIDE DEF E
<1>6. us \in [1..n -> PlayUnits] /\ DOMAIN us = 1..n /\ \A i \in 1..n : us[i] = E(i)
  BY <1>5
<1> HIDE DEF us
<1>7. us \in Seq(PlayUnits)
  BY <1>2, <1>6, SeqDef
<1>8. Len(us) = n
  BY <1>2, <1>6, <1>7
<1>9. \A i \in 1..n : us[i].af = trk.oaf /\ us[i].gen = d[i].gen
  BY <1>5, <1>6
<1>10. /\ us \in Seq(PlayUnits) /\ Len(us) = Len(d)
       /\ \A i \in 1..Len(d) : us[i].af = trk.oaf /\ us[i].gen = d[i].gen
  BY <1>7, <1>8, <1>9 DEF n
<1> QED BY <1>3, <1>10 DEF d

\* write() of the device: what fits is taken in order, the rest is kept.
LEMMA FilledGood ==
  ASSUME OutputReady
  PROVE  LET f == Filled(trk, trk.stream)
         IN /\ Kept(bufs, f.bs) /\ f.rest \in Seq(PlayUnits)
            /\ \A i \in 1..Len(f.rest) : f.rest[i].af = trk.af
            /\ trk.din = <<>> => f.rest = <<>>
            /\ GensOf(f.rest) \subseteq GensOf(trk.din)
            /\ GensOf(f.bs[trk.stream].q)
                 \subseteq GensOf(bufs[trk.stream].q) \union GensOf(trk.din)
<1> DEFINE d == trk.din
           us == Converted(trk, d)
           b == trk.stream
           q == bufs[b].q
           n == Min2(Len(us), Cap - Len(q))
           a == SubSeq(us, 1, n)
           g == bufs[b].on \/ n < Len(us)
           r == [bufs[b] EXCEPT !.q = q \o a, !.on = g]
           rest == SubSeq(d, n + 1, Len(d))
           f == Filled(trk, b)
<1>1. f = [bs |-> [bufs EXCEPT ![b] = r], rest |-> rest]
  BY DEF Filled, SetBuf, Buf
<1>2. /\ trk \in TrkType /\ Negotiation /\ bufs \in Seq(BufType) /\ QueuesAgree(bufs)
      /\ d \in Seq(PlayUnits) /\ \A i \in 1..Len(d) : d[i].af = trk.af
  BY DEF OutputReady, Negotiation, TrkType
<1>3. b \in 1..Len(bufs) /\ trk.oaf = Af(bufs[b].fmt, TRUE)
  BY DEF OutputReady, OutputOpen, Live
<1>4. bufs[b] \in BufType
  BY <1>2, <1>3, ElementOfSeq
<1>5. q \in Seq(PlayUnits) /\ Len(q) <= Cap /\ Len(q) \in Nat
  BY <1>4 DEF BufType, Queues
<1>6. /\ us \in Seq(PlayUnits) /\ Len(us) = Len(d)
      /\ \A i \in 1..Len(d) : us[i].af = trk.oaf /\ us[i].gen = d[i].gen
  BY <1>2, ConvertedUnits
<1>7. Len(d) \in Nat
  BY <1>2
<1> HIDE DEF d, us, q
<1>8. n \in 0..Len(d) /\ Len(q) + n <= Cap
  BY <1>5, <1>6, <1>7, PlayAssumptions DEF Min2
<1>9. g \in BOOLEAN
  OBVIOUS
<1> HIDE DEF n, g
<1>10. /\ a \in Seq(PlayUnits) /\ Len(a) = n /\ \A i \in 1..n : a[i] = us[i]
  <2>1. \A i \in 1..n : us[i] \in PlayUnits
    BY <1>6, <1>7, <1>8, ElementOfSeq
  <2>2. n \in Nat
    BY <1>7, <1>8
  <2>3. /\ a \in Seq(PlayUnits) /\ Len(a) = (IF 1 <= n THEN n - 1 + 1 ELSE 0)
        /\ \A i \in 1..(n - 1 + 1) : a[i] = us[1 + i - 1]
    BY <2>1, <2>2, SubSeqProperties
  <2> QED BY <2>2, <2>3
<1>11. /\ rest \in Seq(PlayUnits) /\ Len(rest) = Len(d) - n
       /\ \A i \in 1..(Len(d) - n) : rest[i] = d[n + i]
  <2>1. \A i \in (n + 1)..Len(d) : d[i] \in PlayUnits
    BY <1>2, <1>7, <1>8, ElementOfSeq
  <2>2. n \in Nat /\ n + 1 \in Int /\ Len(d) \in Int
    BY <1>7, <1>8
  <2>3. /\ rest \in Seq(PlayUnits)
        /\ Len(rest) = (IF n + 1 <= Len(d) THEN Len(d) - (n + 1) + 1 ELSE 0)
        /\ \A i \in 1..(Len(d) - (n + 1) + 1) : rest[i] = d[(n + 1) + i - 1]
    BY <2>1, <2>2, SubSeqProperties
  <2> QED BY <1>7, <1>8, <2>2, <2>3
<1> HIDE DEF a, rest
<1>12. (\A i \in 1..Len(rest) : rest[i].af = trk.af) /\ GensOf(rest) \subseteq GensOf(d)
  <2>1. \A i \in 1..Len(rest) : n + i \in 1..Len(d) /\ rest[i] = d[n + i]
    BY <1>7, <1>8, <1>11
  <2> QED BY <1>2, <2>1 DEF GensOf
<1>13. d = <<>> => rest = <<>>
  <2>1. ASSUME d = <<>> PROVE rest = <<>>
    <3>1. Len(d) = 0 /\ Len(rest) = 0
      BY <1>7, <1>8, <1>11, <2>1
    <3> QED BY <1>11, <3>1, EmptySeq
  <2> QED BY <2>1
<1>14. /\ q \o a \in Queues /\ \A i \in 1..Len(q \o a) : (q \o a)[i].af = trk.oaf
       /\ GensOf(q \o a) \subseteq GensOf(q) \union GensOf(d)
  <2>1. /\ q \o a \in Seq(PlayUnits) /\ Len(q \o a) = Len(q) + n
        /\ \A i \in 1..(Len(q) + n) :
             (q \o a)[i] = IF i <= Len(q) THEN q[i] ELSE a[i - Len(q)]
    BY <1>5, <1>10, ConcatProperties
  <2>2. \A i \in 1..Len(q) : q[i].af = trk.oaf
    BY <1>2, <1>3 DEF QueuesAgree, q
  <2>3. n \in Nat
    BY <1>7, <1>8
  <2>4. ASSUME NEW i \in 1..(Len(q) + n)
        PROVE  /\ (q \o a)[i].af = trk.oaf
               /\ (q \o a)[i].gen \in GensOf(q) \union GensOf(d)
    <3>1. CASE i <= Len(q)
      <4>1. i \in 1..Len(q) /\ (q \o a)[i] = q[i]
        BY <1>5, <2>1, <2>3, <3>1
      <4> QED BY <2>2, <4>1 DEF GensOf
    <3>2. CASE ~(i <= Len(q))
      <4>1. i - Len(q) \in 1..n /\ (q \o a)[i] = a[i - Len(q)]
        BY <1>5, <2>1, <2>3, <3>2
      <4>2. i - Len(q) \in 1..Len(d)
        BY <1>7, <1>8, <4>1
      <4>3. a[i - Len(q)] = us[i - Len(q)]
        BY <1>10, <4>1
      <4> QED BY <1>6, <4>1, <4>2, <4>3 DEF GensOf
    <3> QED BY <3>1, <3>2
  <2>5. GensOf(q \o a) \subseteq GensOf(q) \union GensOf(d)
    BY <2>1, <2>4 DEF GensOf
  <2> QED BY <1>8, <2>1, <2>4, <2>5 DEF Queues
<1> DEFINE x == q \o a
<1>15. r = [bufs[b] EXCEPT !.q = x, !.on = g]
  OBVIOUS
<1>16. /\ x \in Queues /\ \A i \in 1..Len(x) : x[i].af = trk.oaf
       /\ GensOf(x) \subseteq GensOf(q) \union GensOf(d)
  BY <1>14
<1> HIDE DEF x, r
<1>17. r \in BufType /\ r.fmt = bufs[b].fmt /\ r.live = bufs[b].live /\ r.q = x
  BY <1>4, <1>9, <1>15, <1>16 DEF BufType
<1>18. GoodBuf(r)
  BY <1>3, <1>16, <1>17 DEF GoodBuf
<1>19. Kept(bufs, [bufs EXCEPT ![b] = r])
  BY <1>2, <1>3, <1>17, <1>18, OneBufferKept
<1> HIDE DEF f
<1>20. f.bs = [bufs EXCEPT ![b] = r] /\ f.rest = rest
  BY <1>1
<1>21. f.bs[b].q = x
  BY <1>2, <1>3, <1>17, <1>20
<1> QED BY <1>11, <1>12, <1>13, <1>16, <1>19, <1>20, <1>21 DEF f, d, q

\* start() of the device.
LEMMA TurnedOn ==
  ASSUME NEW bs, NEW cs, Kept(bs, cs), NEW b \in 1..Len(bs)
  PROVE  Kept(bs, [cs EXCEPT ![b].on = TRUE])
<1> DEFINE r == [cs[b] EXCEPT !.on = TRUE]
<1>1. /\ bs \in Seq(BufType) /\ cs \in Seq(BufType) /\ QueuesAgree(cs) /\ Len(cs) >= Len(bs)
      /\ \A c \in 1..Len(bs) : cs[c].fmt = bs[c].fmt /\ (bs[c].live => cs[c].live)
  BY DEF Kept
<1>2. Len(bs) \in Nat /\ Len(cs) \in Nat
  BY <1>1
<1>3. b \in 1..Len(cs)
  BY <1>1, <1>2
<1>4. cs[b] \in BufType
  BY <1>1, <1>3, ElementOfSeq
<1>5. r \in BufType /\ r.fmt = cs[b].fmt /\ r.live = cs[b].live /\ r.q = cs[b].q
  BY <1>4 DEF BufType
<1>6. [cs EXCEPT ![b].on = TRUE] = [cs EXCEPT ![b] = r]
  BY <1>1, <1>3
<1> HIDE DEF r
<1>7. GoodBuf(r)
  BY <1>1, <1>3, <1>5 DEF GoodBuf, QueuesAgree
<1> DEFINE ds == [cs EXCEPT ![b] = r]
<1>8. Kept(cs, ds)
  BY <1>1, <1>3, <1>5, <1>7, OneBufferKept
<1> HIDE DEF ds
<1>9. /\ ds \in Seq(BufType) /\ QueuesAgree(ds) /\ Len(ds) >= Len(cs)
      /\ \A c \in 1..Len(cs) : ds[c].fmt = cs[c].fmt /\ (cs[c].live => ds[c].live)
  BY <1>8 DEF Kept
<1>10. Len(ds) \in Nat /\ \A c \in 1..Len(bs) : c \in 1..Len(cs)
  BY <1>1, <1>2, <1>9
<1>11. Len(ds) >= Len(bs)
  BY <1>1, <1>2, <1>9, <1>10
<1>12. \A c \in 1..Len(bs) : ds[c].fmt = bs[c].fmt /\ (bs[c].live => ds[c].live)
  BY <1>1, <1>9, <1>10
<1>13. Kept(bs, ds)
  BY <1>1, <1>9, <1>11, <1>12 DEF Kept
<1> QED BY <1>6, <1>13 DEF ds

\* What audio_out_write promises.
WriteGood(o) ==
  /\ o.n \in Nat /\ o.t \in TrkType /\ Kept(bufs, o.bs) /\ SameFormats(o.t, trk)
  /\ o.t.stream = trk.stream /\ o.t.ctx = trk.ctx /\ o.t.caf = trk.caf
  /\ o.t.gone = trk.gone /\ o.t.pc = "out" /\ o.t.paused = trk.paused
  /\ o.t.st \notin OpenStates /\ (o.t.pause => trk.pause)
  /\ \A i \in 1..Len(o.t.din) : o.t.din[i].af = trk.af
  /\ trk.din = <<>> => o.t.din = <<>>
  /\ o.r = "ASYNC" => ~o.t.pause /\ (o.t.paused \/ o.t.st = "WAITING")
  /\ o.r \in {"ERR", "OFFLINE"} => trk.din # <<>>

\* A result with track t, which is trk but for its pause, its state and its data.
LEMMA OutcomeGood ==
  ASSUME OutputReady, NEW r, NEW t \in TrkType, NEW bs, NEW n \in Nat, Kept(bufs, bs),
         SameFormats(t, trk), t.stream = trk.stream, t.ctx = trk.ctx, t.caf = trk.caf,
         t.gone = trk.gone, t.pc = trk.pc, t.paused = trk.paused,
         t.st \notin OpenStates, t.pause => trk.pause,
         \A i \in 1..Len(t.din) : t.din[i].af = trk.af,
         trk.din = <<>> => t.din = <<>>,
         r = "ASYNC" => ~t.pause /\ (t.paused \/ t.st = "WAITING"),
         r \in {"ERR", "OFFLINE"} => trk.din # <<>>
  PROVE  WriteGood(Outcome(r, t, bs, n))
<1> DEFINE o == Outcome(r, t, bs, n)
<1>1. o.r = r /\ o.t = t /\ o.bs = bs /\ o.n = n
  BY DEF Outcome
<1>2. trk.pc = "out"
  BY DEF OutputReady, Writing
<1> HIDE DEF o
<1>3. WriteGood(o)
  BY <1>1, <1>2 DEF WriteGood
<1> QED BY <1>3 DEF o

\* audio_out_write.
LEMMA WritesGood ==
  ASSUME OutputReady, NEW o \in Write(trk, trk.stream)
  PROVE  WriteGood(o)
<1> DEFINE b == trk.stream
<1>1. /\ trk \in TrkType /\ bufs \in Seq(BufType) /\ QueuesAgree(bufs) /\ trk.st \notin OpenStates
      /\ (trk.pause => trk.paused) /\ \A i \in 1..Len(trk.din) : trk.din[i].af = trk.af
  BY DEF OutputReady, IsOpen, Waits, Negotiation
<1>2. b \in 1..Len(bufs)
  BY DEF OutputReady, OutputOpen, Live
<1>3. Kept(bufs, bufs) /\ Kept(bufs, StopBuf(b)) /\ Kept(bufs, ClearBuf(b))
  BY <1>1, <1>2, NothingChanged, StopOrClear
<1>4. SameFormats(trk, trk)
  BY DEF SameFormats
<1> HIDE DEF b
<1>5. CASE trk.stop
  <2>1. o = Outcome("FIN", trk, bufs, 0)
    BY <1>5 DEF Write
  <2>2. WriteGood(Outcome("FIN", trk, bufs, 0))
    BY <1>1, <1>3, <1>4, OutcomeGood
  <2> QED BY <2>1, <2>2
<1>6. CASE ~trk.stop /\ trk.clear
  <2> DEFINE t == [trk EXCEPT !.clear = FALSE]
             c == IF trk.sreq THEN "MORE" ELSE "AGAIN"
  <2>1. o = Outcome(c, t, ClearBuf(b), 0)
    BY <1>6 DEF Write, Cleared, b
  <2>2. t \in TrkType
    BY <1>1 DEF TrkType
  <2>3. /\ SameFormats(t, trk) /\ t.stream = trk.stream /\ t.ctx = trk.ctx
        /\ t.caf = trk.caf /\ t.gone = trk.gone /\ t.pc = trk.pc /\ t.paused = trk.paused
        /\ t.st = trk.st /\ t.pause = trk.pause /\ t.din = trk.din
    BY <1>1 DEF TrkType, SameFormats
  <2>4. c \in {"MORE", "AGAIN"}
    OBVIOUS
  <2> HIDE DEF t, c
  <2>5. WriteGood(Outcome(c, t, ClearBuf(b), 0))
    BY <1>1, <1>3, <2>2, <2>3, <2>4, OutcomeGood
  <2> QED BY <2>1, <2>5
<1>7. CASE ~trk.stop /\ ~trk.clear /\ trk.pause
  <2> DEFINE t == [trk EXCEPT !.pause = FALSE]
  <2>1. o = Outcome("ASYNC", t, StopBuf(b), 0)
    BY <1>7 DEF Write, Paused, b
  <2>2. t \in TrkType
    BY <1>1 DEF TrkType
  <2>3. /\ SameFormats(t, trk) /\ t.stream = trk.stream /\ t.ctx = trk.ctx
        /\ t.caf = trk.caf /\ t.gone = trk.gone /\ t.pc = trk.pc /\ t.paused = trk.paused
        /\ t.st = trk.st /\ t.pause = FALSE /\ t.din = trk.din
    BY <1>1 DEF TrkType, SameFormats
  <2> HIDE DEF t
  <2>4. WriteGood(Outcome("ASYNC", t, StopBuf(b), 0))
    BY <1>1, <1>3, <1>7, <2>2, <2>3, OutcomeGood
  <2> QED BY <2>1, <2>4
<1>8. CASE ~trk.stop /\ ~trk.clear /\ ~trk.pause
  <2>1. \/ o = Fed(trk, b)
        \/ trk.din # <<>> /\ \E e \in {"ERR", "OFFLINE"} :
             o = Outcome(e, [trk EXCEPT !.err = TRUE], bufs, 1)
    BY <1>8 DEF Write, b
  <2>2. CASE o = Fed(trk, b)
    <3> DEFINE f == Filled(trk, b)
    <3>1. /\ Kept(bufs, f.bs) /\ f.rest \in Seq(PlayUnits)
          /\ (\A i \in 1..Len(f.rest) : f.rest[i].af = trk.af)
          /\ (trk.din = <<>> => f.rest = <<>>)
      BY FilledGood DEF b
    <3> DEFINE w == [trk EXCEPT !.din = f.rest, !.st = "WAITING"]
               e == [trk EXCEPT !.din = <<>>]
               m == [trk EXCEPT !.din = <<>>, !.st = "FEEDING"]
               on == [f.bs EXCEPT ![b].on = TRUE]
    <3>2. \/ o = Outcome("ASYNC", w, f.bs, 0)
          \/ o = Outcome("DONE", e, f.bs, 0)
          \/ o = Outcome("ASYNC", w, on, 0)
          \/ o = Outcome("MORE", m, f.bs, 0)
      BY <2>2 DEF Fed
    <3> HIDE DEF f
    <3>3. Kept(bufs, on)
      BY <1>2, <3>1, TurnedOn
    <3>4. <<>> \in Seq(PlayUnits) /\ Len(<<>>) = 0
      BY EmptySeq
    <3>5. w \in TrkType /\ e \in TrkType /\ m \in TrkType
      <4>1. w \in TrkType
        BY <1>1, <3>1 DEF TrkType
      <4>2. e \in TrkType
        BY <1>1, <3>4 DEF TrkType
      <4>3. m \in TrkType
        BY <1>1, <3>4 DEF TrkType
      <4> QED BY <4>1, <4>2, <4>3
    <3>6. /\ SameFormats(w, trk) /\ w.stream = trk.stream /\ w.ctx = trk.ctx
          /\ w.caf = trk.caf /\ w.gone = trk.gone /\ w.pc = trk.pc /\ w.paused = trk.paused
          /\ w.st = "WAITING" /\ w.pause = trk.pause /\ w.din = f.rest
      BY <1>1 DEF TrkType, SameFormats
    <3>7. /\ SameFormats(e, trk) /\ e.stream = trk.stream /\ e.ctx = trk.ctx
          /\ e.caf = trk.caf /\ e.gone = trk.gone /\ e.pc = trk.pc /\ e.paused = trk.paused
          /\ e.st = trk.st /\ e.pause = trk.pause /\ e.din = <<>>
      BY <1>1 DEF TrkType, SameFormats
    <3>8. /\ SameFormats(m, trk) /\ m.stream = trk.stream /\ m.ctx = trk.ctx
          /\ m.caf = trk.caf /\ m.gone = trk.gone /\ m.pc = trk.pc /\ m.paused = trk.paused
          /\ m.st = "FEEDING" /\ m.pause = trk.pause /\ m.din = <<>>
      BY <1>1 DEF TrkType, SameFormats
    <3> HIDE DEF w, e, m, on
    <3>9. "WAITING" \notin OpenStates /\ "FEEDING" \notin OpenStates
      BY DEF OpenStates
    <3>10. ASSUME NEW bs, Kept(bufs, bs)
           PROVE  WriteGood(Outcome("ASYNC", w, bs, 0))
      BY <1>8, <3>1, <3>5, <3>6, <3>9, <3>10, OutcomeGood
    <3>11. WriteGood(Outcome("DONE", e, f.bs, 0))
      BY <1>1, <3>1, <3>4, <3>5, <3>7, OutcomeGood
    <3>12. WriteGood(Outcome("MORE", m, f.bs, 0))
      BY <3>1, <3>4, <3>5, <3>8, <3>9, OutcomeGood
    <3> QED BY <3>1, <3>2, <3>3, <3>10, <3>11, <3>12
  <2>3. CASE trk.din # <<>> /\ \E e \in {"ERR", "OFFLINE"} :
               o = Outcome(e, [trk EXCEPT !.err = TRUE], bufs, 1)
    <3> DEFINE t == [trk EXCEPT !.err = TRUE]
    <3>1. PICK e \in {"ERR", "OFFLINE"} : o = Outcome(e, t, bufs, 1)
      BY <2>3
    <3>2. t \in TrkType
      BY <1>1 DEF TrkType
    <3>3. /\ SameFormats(t, trk) /\ t.stream = trk.stream /\ t.ctx = trk.ctx
          /\ t.caf = trk.caf /\ t.gone = trk.gone /\ t.pc = trk.pc /\ t.paused = trk.paused
          /\ t.st = trk.st /\ t.pause = trk.pause /\ t.din = trk.din
      BY <1>1 DEF TrkType, SameFormats
    <3> HIDE DEF t
    <3>4. WriteGood(Outcome(e, t, bufs, 1))
      BY <1>1, <1>3, <2>3, <3>2, <3>3, OutcomeGood
    <3> QED BY <3>1, <3>4
  <2> QED BY <2>1, <2>2, <2>3
<1> QED BY <1>5, <1>6, <1>7, <1>8

\* What the write functions do with an open output.
LEMMA WriteStep ==
  ASSUME OutputReady, NEW o, WriteGood(o), WriteOutput(o)
  PROVE  PlayInv'
<1>1. /\ PlayInv /\ trk \in TrkType /\ PlayTypes /\ Running /\ IsOpen /\ Negotiation
      /\ OutputOpen /\ Waits /\ trk.pc = "out"
  BY DEF OutputReady, Writing
<1>2. /\ Fault(o.n) /\ bufs' = o.bs /\ trk' = Returned(o) /\ UNCHANGED <<env, mod, task>>
  BY DEF WriteOutput
<1>3. /\ o.n \in Nat /\ o.t \in TrkType /\ Kept(bufs, o.bs) /\ SameFormats(o.t, trk)
      /\ o.t.stream = trk.stream /\ o.t.ctx = trk.ctx /\ o.t.caf = trk.caf
      /\ o.t.gone = trk.gone /\ o.t.pc = "out" /\ o.t.paused = trk.paused
      /\ o.t.st \notin OpenStates /\ (o.t.pause => trk.pause)
      /\ (\A i \in 1..Len(o.t.din) : o.t.din[i].af = trk.af)
      /\ (trk.din = <<>> => o.t.din = <<>>)
      /\ (o.r = "ASYNC" => ~o.t.pause /\ (o.t.paused \/ o.t.st = "WAITING"))
  BY DEF WriteGood
<1>4. cnt' \in CntType /\ cnt'.conv = cnt.conv
  BY <1>1, <1>2, <1>3, FaultCounted DEF PlayTypes
<1>5. mod.tmr = "play" /\ trk.st # "TRY" /\ trk.ac # 0
  BY <1>1 DEF OutputOpen, IsOpen, OpenStates, Negotiation
<1>6. ASSUME trk' \in TrkType, trk'.id = o.t.id
      PROVE  Quiet
  BY <1>1, <1>2, <1>3, <1>4, <1>6 DEF Quiet, SameFormats, PlayTypes
<1>7. ASSUME trk' \in TrkType, SameFormats(trk', o.t), SameStream(trk', o.t),
             trk'.pause = o.t.pause, trk'.paused = o.t.paused, trk'.gone = o.t.gone,
             trk'.din = o.t.din \/ trk'.din = <<>>,
             trk'.pc = "async" => o.r = "ASYNC",
             trk'.pc = "ac" => "ac" \notin o.t.gone
      PROVE  PlayInv'
  <2>1. Quiet
    BY <1>6, <1>7 DEF SameFormats
  <2>2. SameFormats(trk', trk) /\ trk'.stream = trk.stream /\ trk'.ctx = trk.ctx
        /\ trk'.caf = trk.caf /\ trk'.gone = trk.gone /\ trk'.paused = trk.paused
        /\ trk'.st \notin OpenStates /\ (trk'.pause => trk.pause)
    BY <1>3, <1>7 DEF SameFormats, SameStream
  <2>3. OutputOpen' /\ (trk'.ctx => trk'.stream \in 1..Len(bufs'))
    BY <1>1, <2>1, <2>2, OutputKept DEF SameFormats
  <2>4. /\ \A i \in 1..Len(trk'.din) : trk'.din[i].af = trk.af
        /\ trk.din = <<>> => trk'.din = <<>>
    <3>1. CASE trk'.din = o.t.din
      BY <1>3, <3>1
    <3>2. CASE trk'.din = <<>>
      <4>1. Len(<<>>) = 0
        OBVIOUS
      <4> QED BY <3>2, <4>1
    <3> QED BY <1>7, <3>1, <3>2
  <2>5. trk'.st # "TRY" /\ trk'.st # "OPEN" /\ trk.st # "OPEN"
    BY <1>1, <2>2 DEF OpenStates, IsOpen
  <2>6. Negotiation'
    BY <1>1, <1>2, <1>5, <1>7, <2>2, <2>4, <2>5 DEF Negotiation, SameFormats
  <2>7. WaitingIsWoken'
    BY <1>2, <1>3, <1>5, <1>7 DEF WaitingIsWoken, SameStream
  <2>8. Waits'
    BY <1>1, <1>3, <1>7, <2>2, <2>3 DEF Waits, IsOpen
  <2>9. LooseBuffer'
    BY <1>2, <1>5 DEF LooseBuffer, None
  <2> QED BY <1>1, <2>1, <2>3, <2>6, <2>7, <2>8, <2>9, QuietKeeps DEF PlayInv
<1>8. CASE o.r = "MORE"
  <2>1. trk' = Back(o.t, "out")
    BY <1>2, <1>8 DEF Returned
  <2>2. /\ trk' \in TrkType /\ SameFormats(trk', o.t) /\ SameStream(trk', o.t)
        /\ SamePause(trk', o.t) /\ trk'.gone = o.t.gone /\ trk'.pc # "async"
        /\ (trk'.din = o.t.din \/ trk'.din = <<>>)
        /\ (trk'.pc = "ac" => "ac" \notin o.t.gone)
    BY <1>3, <2>1, BackFrom
  <2> QED BY <1>7, <2>2 DEF SamePause
<1>9. CASE o.r = "ASYNC"
  <2>1. trk' = [o.t EXCEPT !.pc = "async"]
    BY <1>2, <1>9 DEF Returned
  <2>2. [o.t EXCEPT !.pc = "async"] \in TrkType
    BY <1>3 DEF TrkType
  <2>3. /\ SameFormats(trk', o.t) /\ SameStream(trk', o.t) /\ SamePause(trk', o.t)
        /\ trk'.gone = o.t.gone /\ trk'.din = o.t.din /\ trk'.pc = "async"
    BY <1>3, <2>1 DEF TrkType, SameFormats, SameStream, SamePause
  <2> QED BY <1>7, <1>9, <2>1, <2>2, <2>3 DEF SamePause
<1>10. CASE o.r = "AGAIN"
  <2>1. trk' = o.t
    BY <1>2, <1>10 DEF Returned
  <2> QED BY <1>3, <1>7, <2>1 DEF SameFormats, SameStream
<1>11. CASE o.r \notin {"MORE", "ASYNC", "AGAIN"}
  <2>1. trk' = [o.t EXCEPT !.pc = "fin"]
    BY <1>2, <1>11 DEF Returned
  <2>2. [o.t EXCEPT !.pc = "fin"] \in TrkType
    BY <1>3 DEF TrkType
  <2>3. trk'.pc = "fin" /\ trk'.id = o.t.id
    BY <1>3, <2>1 DEF TrkType
  <2>4. Quiet
    BY <1>6, <2>1, <2>2, <2>3
  <2>5. LooseBuffer' /\ ~Running' /\ WaitingIsWoken'
    BY <1>2, <1>5, <2>3 DEF LooseBuffer, Running, WaitingIsWoken, None
  <2> QED BY <1>1, <2>4, <2>5, QuietKeeps DEF PlayInv
<1> QED BY <1>8, <1>9, <1>10, <1>11

\* wasapi_write after an error: the buffer is gone, and after the loss of the
\* device the output is opened again in the format it has been given.
LEMMA DropStep ==
  ASSUME OutputReady, Shared, NEW o, WriteGood(o), o.r \in {"ERR", "OFFLINE"}, Fault(o.n),
         bufs' = FreeBuf(mod.out), mod' = [mod EXCEPT !.out = 0, !.tmr = None, !.used = 0],
         trk' = IF o.r = "OFFLINE" THEN Reopens(o.t) ELSE Returned(o),
         UNCHANGED <<env, task>>
  PROVE  PlayInv'
<1>1. /\ PlayInv /\ trk \in TrkType /\ PlayTypes /\ Running /\ IsOpen /\ Negotiation
      /\ OutputOpen /\ Waits /\ trk.pc = "out" /\ QueuesAgree(bufs)
  BY DEF OutputReady, Writing
<1>2. mod \in ModType /\ mod.out \in Nat /\ bufs \in Seq(BufType)
  BY <1>1 DEF PlayTypes, ModType
<1>3. /\ o.n \in Nat /\ o.t \in TrkType /\ SameFormats(o.t, trk)
      /\ o.t.stream = trk.stream /\ o.t.ctx = trk.ctx /\ o.t.caf = trk.caf
      /\ o.t.gone = trk.gone /\ o.t.pc = "out" /\ o.t.paused = trk.paused
      /\ (o.t.pause => trk.pause)
      /\ (\A i \in 1..Len(o.t.din) : o.t.din[i].af = trk.af) /\ trk.din # <<>>
  BY DEF WriteGood
<1>4. mod' \in ModType /\ mod'.out = 0 /\ mod'.used = 0 /\ mod'.tmr = None
  BY <1>2 DEF ModType
<1>5. bufs' \in Seq(BufType) /\ QueuesAgree(bufs') /\ Len(bufs') = Len(bufs)
  BY <1>1, <1>2, FreeOthers
<1>6. cnt' \in CntType
  BY <1>1, <1>3, FaultCounted DEF PlayTypes
<1>7. ModuleOwns(mod, bufs, trk.id)' /\ QueuesAgree(bufs)' /\ LooseBuffer'
  BY <1>4, <1>5 DEF ModuleOwns, Shared, None, QueuesAgree, Af, LooseBuffer
<1>8. trk' \in TrkType => PlayTypes'
  BY <1>1, <1>4, <1>5, <1>6 DEF PlayTypes
<1>9. CASE o.r = "ERR"
  <2>1. trk' = [o.t EXCEPT !.pc = "fin"]
    BY <1>9 DEF Returned
  <2>2. [o.t EXCEPT !.pc = "fin"] \in TrkType
    BY <1>3 DEF TrkType
  <2>3. trk'.pc = "fin"
    BY <1>3, <2>1 DEF TrkType
  <2> QED BY <1>7, <1>8, <2>1, <2>2, <2>3 DEF PlayInv, Running, WaitingIsWoken
<1>10. CASE o.r = "OFFLINE"
  <2>1. trk' = [o.t EXCEPT !.st = "OPEN"]
    BY <1>10 DEF Reopens
  <2>2. [o.t EXCEPT !.st = "OPEN"] \in TrkType
    BY <1>3 DEF TrkType
  <2>3. /\ SameFormats(trk', o.t) /\ SamePause(trk', o.t) /\ trk'.gone = o.t.gone
        /\ trk'.din = o.t.din /\ trk'.pc = o.t.pc /\ trk'.st = "OPEN"
        /\ trk'.stream = o.t.stream /\ trk'.ctx = o.t.ctx /\ trk'.caf = o.t.caf
    BY <1>3, <2>1 DEF TrkType, SameFormats, SamePause
  <2>4. /\ SameFormats(trk', trk) /\ trk'.gone = trk.gone /\ trk'.pc = "out"
        /\ trk'.stream = trk.stream /\ trk'.ctx = trk.ctx /\ trk'.paused = trk.paused
        /\ (trk'.pause => trk.pause) /\ (\A i \in 1..Len(trk'.din) : trk'.din[i].af = trk.af)
    BY <1>3, <2>3 DEF SameFormats, SamePause
  <2>5. "ac" \in trk.gone /\ trk.oaf.il /\ trk.ac # 0
    <3>1. trk.oaf = Af(bufs[trk.stream].fmt, TRUE)
      BY <1>1 DEF OutputOpen
    <3>2. trk.oaf.il
      BY <3>1 DEF Af
    <3> QED BY <1>1, <1>3, <3>2 DEF Negotiation, IsOpen, OpenStates
  <2>6. Negotiation'
    BY <1>1, <2>3, <2>4, <2>5 DEF Negotiation, SameFormats
  <2>7. OutputOpen' /\ WaitingIsWoken'
    BY <2>3, <2>4 DEF OutputOpen, IsOpen, OpenStates, WaitingIsWoken
  <2>8. Waits'
    BY <1>1, <1>5, <2>4 DEF Waits
  <2> QED BY <1>7, <1>8, <2>1, <2>2, <2>6, <2>7, <2>8 DEF PlayInv
<1> QED BY <1>9, <1>10

\* alsa_write, pulse_write, dsnd_write, wasapi_write.
LEMMA OutputStep ==
  ASSUME PlayInv, AlsaWrite \/ PulseWrite \/ DsndWrite \/ WasapiWrite
  PROVE  PlayInv'
<1>1. ASSUME Opening, NEW c, OpenOutput(c),
             Unopened => OpenGood(c)
      PROVE  PlayInv'
  BY <1>1, AtOpening, OpenStep
<1>2. ASSUME Writing, NEW o \in Write(trk, trk.stream), WriteOutput(o)
      PROVE  PlayInv'
  BY <1>2, AtWriting, WritesGood, WriteStep
<1>3. CASE AlsaWrite
  <2>1. Shared
    BY <1>3 DEF AlsaWrite, Shared
  <2>2. CASE Opening /\ \E c \in AlsaCreate(trk, TryOpen) : OpenOutput(c)
    BY <1>1, <2>1, <2>2, CreateKnowingGood DEF AlsaCreate
  <2> QED BY <1>2, <1>3, <2>2 DEF AlsaWrite
<1>4. CASE PulseWrite
  <2>1. Shared
    BY <1>4 DEF PulseWrite, Shared
  <2>2. CASE Opening /\ \E c \in PulseCreate(trk, TryOpen) : OpenOutput(c)
    BY <1>1, <2>1, <2>2, PulseCreateGood
  <2> QED BY <1>2, <1>4, <2>2 DEF PulseWrite
<1>5. CASE DsndWrite
  <2>1. ~Shared
    BY <1>5 DEF DsndWrite, Shared
  <2>2. CASE Opening /\ \E c \in DsndCreate(trk, TryOpen) : OpenOutput(c)
    BY <1>1, <2>1, <2>2, DsndCreateGood
  <2> QED BY <1>2, <1>5, <2>2 DEF DsndWrite
<1>6. CASE WasapiWrite
  <2>1. Shared
    BY <1>6 DEF WasapiWrite, Shared
  <2>2. CASE Opening /\ \E c \in WasapiCreate(trk, TryOpen) : OpenOutput(c)
    BY <1>1, <2>1, <2>2, CreateKnowingGood DEF WasapiCreate
  <2>3. ASSUME Writing, NEW o \in Write(trk, trk.stream), o.r \in {"ERR", "OFFLINE"},
               Fault(o.n), bufs' = FreeBuf(mod.out),
               mod' = [mod EXCEPT !.out = 0, !.tmr = None, !.used = 0],
               trk' = IF o.r = "OFFLINE" THEN Reopens(o.t) ELSE Returned(o),
               UNCHANGED <<env, task>>
        PROVE  PlayInv'
    BY <2>1, <2>3, AtWriting, WritesGood, DropStep
  <2> QED BY <1>2, <1>6, <2>2, <2>3 DEF WasapiWrite
<1> QED BY <1>3, <1>4, <1>5, <1>6

-----------------------------------------------------------------------------
(* Closing the output.                                                     *)

\* The track is gone; what is left of its buffer belongs to nobody.
LEMMA TrackGone ==
  ASSUME PlayTypes, trk' = NoTrack, task' = FALSE, UNCHANGED <<env, cnt>>, mod' \in ModType,
         bufs' \in Seq(BufType), QueuesAgree(bufs'), ModuleOwns(mod', bufs', 0),
         env.drv \in {"alsa", "pulse"} /\ mod'.out # 0 /\ mod'.tmr = None => cnt.conv
  PROVE  PlayInv'
<1>1. PlayTypes' /\ trk'.pc = "none" /\ trk'.id = 0
  BY DEF PlayTypes, NoTrack
<1>2. ModuleOwns(mod, bufs, trk.id)'
  BY <1>1 DEF ModuleOwns, Shared
<1>3. QueuesAgree(bufs)'
  BY DEF QueuesAgree, Af
<1>4. LooseBuffer' /\ WaitingIsWoken' /\ ~Running'
  BY <1>1 DEF LooseBuffer, WaitingIsWoken, Running
<1> QED BY <1>1, <1>2, <1>3, <1>4 DEF PlayInv

\* alsa_close, pulse_close, wasapi_close, dsnd_close.
LEMMA CloseStep ==
  ASSUME PlayInv, AlsaClose \/ PulseClose \/ WasapiClose \/ DsndClose
  PROVE  PlayInv'
<1>1. /\ trk.pc = "fin" /\ trk' = NoTrack /\ task' = FALSE /\ UNCHANGED <<env, cnt>>
  BY DEF AlsaClose, PulseClose, WasapiClose, DsndClose, Closes
<1>2. /\ PlayTypes /\ ModuleOwns(mod, bufs, trk.id) /\ QueuesAgree(bufs) /\ LooseBuffer
  BY DEF PlayInv
<1>3. trk \in TrkType /\ trk.id # 0 /\ trk.stream \in Nat
  <2>1. trk \in TrkType
    BY <1>1, <1>2, IsATrack
  <2> QED BY <2>1 DEF TrkType
<1>4. mod \in ModType /\ mod.out \in Nat /\ mod.used \in Nat /\ bufs \in Seq(BufType)
  BY <1>2 DEF PlayTypes, ModType
<1>5. ASSUME Shared, DropBuffer
      PROVE  PlayInv'
  <2> DEFINE k == IF Mine THEN 0 ELSE mod.used
  <2>1. k = 0
    BY <1>2, <1>4, <1>5 DEF ModuleOwns, Mine
  <2>2. bufs' = FreeBuf(mod.out) /\ mod' = [mod EXCEPT !.out = 0, !.tmr = None, !.used = k]
    BY <1>5 DEF DropBuffer
  <2> HIDE DEF k
  <2>3. mod' \in ModType /\ mod'.out = 0 /\ mod'.tmr = None /\ mod'.used = 0
    BY <1>4, <2>1, <2>2 DEF ModType
  <2>4. bufs' \in Seq(BufType) /\ QueuesAgree(bufs')
    BY <1>2, <1>4, <2>2, FreeOthers
  <2>5. ModuleOwns(mod', bufs', 0)
    BY <2>3 DEF ModuleOwns, None
  <2> QED BY <1>1, <1>2, <2>3, <2>4, <2>5, TrackGone
<1>6. ASSUME Shared, NEW tmr \in {None, "close"}, KeepBuffer(tmr),
             tmr = "close" \/ env.drv \notin {"alsa", "pulse"}
      PROVE  PlayInv'
  <2>1. CASE Mine
    <3>1. mod.used # 0 /\ mod.out # 0
      BY <1>2, <1>3, <1>6, <2>1 DEF ModuleOwns, Mine
    <3>2. mod.out \in 1..Len(bufs) /\ bufs[mod.out].live /\ bufs[mod.out].fmt = mod.fmt
      BY <1>2, <1>6, <3>1 DEF ModuleOwns
    <3>3. bufs' = StopBuf(mod.out) /\ mod' = [mod EXCEPT !.used = 0, !.tmr = tmr]
      BY <1>6, <2>1 DEF KeepBuffer
    <3>4. /\ mod' \in ModType /\ mod'.used = 0 /\ mod'.tmr = tmr /\ mod'.out = mod.out
          /\ mod'.fmt = mod.fmt
      BY <1>4, <1>6, <3>3 DEF ModType
    <3>5. Kept(bufs, bufs')
      BY <1>2, <1>4, <3>2, <3>3, StopOrClear
    <3>6. bufs' \in Seq(BufType) /\ QueuesAgree(bufs') /\ mod.out \in 1..Len(bufs')
          /\ bufs'[mod.out].live /\ bufs'[mod.out].fmt = mod.fmt
      <4>1. Len(bufs) \in Nat /\ Len(bufs') \in Nat /\ Len(bufs') >= Len(bufs)
        BY <3>5 DEF Kept
      <4>2. mod.out \in 1..Len(bufs')
        BY <3>2, <4>1
      <4> QED BY <3>2, <3>5, <4>2 DEF Kept
    <3>7. ModuleOwns(mod', bufs', 0)
      BY <1>6, <3>1, <3>4, <3>6 DEF ModuleOwns, None
    <3>8. mod'.tmr = None => env.drv \notin {"alsa", "pulse"}
      BY <1>6, <3>4 DEF None
    <3> QED BY <1>1, <1>2, <3>4, <3>6, <3>7, <3>8, TrackGone
  <2>2. CASE ~Mine
    <3>1. bufs' = bufs /\ mod' = mod
      BY <1>6, <2>2 DEF KeepBuffer
    <3>2. mod.used = 0
      BY <1>2, <1>6, <2>2 DEF ModuleOwns, Mine
    <3>3. ModuleOwns(mod', bufs', 0)
      BY <1>2, <1>6, <3>1, <3>2 DEF ModuleOwns
    <3>4. env.drv \in {"alsa", "pulse"} /\ mod.out # 0 /\ mod.tmr = None => cnt.conv
      BY <1>1, <1>2 DEF LooseBuffer
    <3> QED BY <1>1, <1>2, <1>4, <3>1, <3>3, <3>4, TrackGone
  <2> QED BY <2>1, <2>2
<1>7. CASE AlsaClose \/ PulseClose
  <2>1. Shared /\ (DropBuffer \/ KeepBuffer("close"))
    BY <1>7 DEF AlsaClose, PulseClose, Closes, Shared
  <2> QED BY <1>5, <1>6, <2>1
<1>8. CASE WasapiClose
  <2> DEFINE tmr == IF trk.stop THEN "close" ELSE None
  <2>1. env.drv = "wasapi" /\ KeepBuffer(tmr) /\ tmr \in {None, "close"}
    BY <1>8 DEF WasapiClose, Closes
  <2>2. Shared /\ env.drv \notin {"alsa", "pulse"}
    BY <2>1 DEF Shared
  <2> HIDE DEF tmr
  <2> QED BY <1>6, <2>1, <2>2
<1>9. CASE DsndClose
  <2>1. ~Shared /\ env.drv \notin {"alsa", "pulse"}
    BY <1>9 DEF DsndClose, Closes, Shared
  <2>2. bufs' = FreeBuf(trk.stream) /\ mod' = [mod EXCEPT !.tmr = None]
    BY <1>9 DEF DsndClose
  <2>3. mod' \in ModType /\ mod'.tmr = None /\ mod'.out = mod.out /\ mod'.used = mod.used
    BY <1>4, <2>2 DEF ModType
  <2>4. bufs' \in Seq(BufType) /\ QueuesAgree(bufs')
    BY <1>2, <1>3, <1>4, <2>2, FreeOthers
  <2>5. ModuleOwns(mod', bufs', 0)
    BY <1>2, <2>1, <2>3 DEF ModuleOwns, None
  <2> QED BY <1>1, <1>2, <2>1, <2>3, <2>4, <2>5, TrackGone
<1> QED BY <1>7, <1>8, <1>9

-----------------------------------------------------------------------------
(* The theorems of audio output.                                           *)

\* The invariant of audio output holds in every reachable state: whatever
\* driver, interface, source and formats, whatever the user presses and
\* whatever fails.
THEOREM PlayInvariant ==
  Spec => []PlayInv
<1>1. Init => PlayInv
  <2> SUFFICES ASSUME Init PROVE PlayInv
    OBVIOUS
  <2>1. env \in EnvType /\ bufs = <<>> /\ trk = NoTrack /\ task = FALSE
    BY DEF Init, EnvType
  <2>2. mod = [out |-> 0, fmt |-> None, used |-> 0, tmr |-> None, fmts |-> {}]
    BY DEF Init
  <2>3. cnt = [trk |-> 0, cmd |-> 0, fail |-> 0, conv |-> FALSE]
    BY DEF Init
  <2>4. mod \in ModType /\ mod.out = 0 /\ mod.used = 0 /\ mod.tmr = None
    BY <2>2 DEF ModType
  <2>5. cnt \in CntType
    BY <2>3 DEF CntType
  <2>6. <<>> \in Seq(BufType) /\ Len(<<>>) = 0
    BY EmptySeq
  <2>7. PlayTypes
    BY <2>1, <2>4, <2>5, <2>6 DEF PlayTypes
  <2>8. trk.pc = "none" /\ trk.id = 0
    BY <2>1 DEF NoTrack
  <2>9. ModuleOwns(mod, bufs, trk.id) /\ QueuesAgree(bufs)
    BY <2>1, <2>4, <2>6 DEF ModuleOwns, QueuesAgree, None
  <2>10. LooseBuffer /\ ~Running /\ WaitingIsWoken
    BY <2>4, <2>8 DEF LooseBuffer, Running, WaitingIsWoken
  <2> QED BY <2>7, <2>9, <2>10 DEF PlayInv
<1>2. PlayInv /\ [Next]_vars => PlayInv'
  <2> SUFFICES ASSUME PlayInv, [Next]_vars PROVE PlayInv'
    OBVIOUS
  <2>1. bufs \in Seq(BufType) /\ QueuesAgree(bufs)
    BY DEF PlayInv, PlayTypes
  <2>2. CASE \E f \in Formats, il \in BOOLEAN : StartTrack(f, il)
    BY <2>2, StartStep
  <2>3. CASE Source
    BY <2>3, SourceStep
  <2>4. CASE TuiPlayProcess \/ GtrkProcess
    BY <2>4, UiStep DEF TuiPlayProcess, GtrkProcess
  <2>5. CASE AutoConv
    BY <2>5, AutoConvStep
  <2>6. CASE AlsaWrite \/ PulseWrite \/ DsndWrite \/ WasapiWrite
    BY <2>6, OutputStep
  <2>7. CASE AlsaClose \/ PulseClose \/ WasapiClose \/ DsndClose
    BY <2>7, CloseStep
  <2>8. CASE Tick
    BY <2>8, TickStep
  <2>9. CASE CloseTick
    BY <2>9, CloseTickStep
  <2>10. CASE RunTask
    BY <2>10, RunTaskStep
  <2>11. CASE TuiPlaySeek \/ GtrkSeek
    BY <2>11, SeekStep DEF TuiPlaySeek, GtrkSeek
  <2>12. CASE TuiPlayPauseResume \/ GtrkPlayPause
    BY <2>12, PauseStep DEF TuiPlayPauseResume, GtrkPlayPause
  <2>13. CASE StopTrack
    BY <2>13, StopStep
  <2>14. ASSUME NEW b \in 1..Len(bufs), DevicePlays(b)
         PROVE  PlayInv'
    <3>1. Kept(bufs, bufs')
      BY <2>1, <2>14, PlaysKept
    <3>2. UNCHANGED <<env, mod, trk, task, cnt>>
      BY <2>14 DEF DevicePlays
    <3> QED BY <3>1, <3>2, DeviceStep
  <2>15. CASE UNCHANGED vars
    <3>1. UNCHANGED <<env, mod, trk, task, cnt>> /\ bufs' = bufs
      BY <2>15 DEF vars
    <3>2. Kept(bufs, bufs')
      BY <2>1, <3>1, NothingChanged
    <3> QED BY <3>1, <3>2, DeviceStep
  <2>16. CASE Rest
    BY <2>15, <2>16 DEF Rest
  <2> QED BY <2>2, <2>3, <2>4, <2>5, <2>6, <2>7, <2>8, <2>9, <2>10, <2>11, <2>12, <2>13,
             <2>14, <2>15, <2>16 DEF Next, Run
<1> QED BY <1>1, <1>2, PTL DEF Spec

\* The buffer and the timer that adev modules share belong to one track at a
\* time, which is alive and whose format the buffer has; one of alsa or pulse
\* that nobody uses has its close timer running, unless a conversion that was
\* asked for could not be had (audio-play.h and the drivers that use it).
THEOREM BufferHasOneOwner ==
  Spec => []BufferOwned
<1>1. PlayInv => BufferOwned
  <2> SUFFICES ASSUME PlayInv PROVE BufferOwned
    OBVIOUS
  <2>1. /\ PlayTypes /\ ModuleOwns(mod, bufs, trk.id) /\ QueuesAgree(bufs) /\ LooseBuffer
        /\ (Running => Negotiation /\ OutputOpen)
    BY DEF PlayInv
  <2>2. mod.tmr \in {None, "play", "close"} /\ mod.used \in Nat
    BY <2>1 DEF PlayTypes, ModType
  <2>3. trk.pc = "none" => trk.id = 0
    BY <2>1 DEF PlayTypes, NoTrack, TrkType
  <2>4. StreamLive
    BY <2>1 DEF StreamLive, Running, Negotiation, OutputOpen, IsOpen, OpenStates
  <2>5. TimerOwnerLive
    BY <2>1, <2>2, <2>3 DEF TimerOwnerLive, ModuleOwns, Shared, Mine, Live
  <2>6. FormatAgrees
    BY <2>1 DEF FormatAgrees, QueuesAgree
  <2>7. IdleBufferCloses
    <3>1. ASSUME env.drv \in {"alsa", "pulse"}, trk.pc = "none", mod.out # 0
          PROVE  mod.tmr = "close" \/ cnt.conv
      <4>1. Shared
        BY <3>1 DEF Shared
      <4>2. mod.tmr # "play"
        BY <2>1, <2>2, <2>3, <3>1, <4>1 DEF ModuleOwns
      <4> QED BY <2>1, <2>2, <3>1, <4>2 DEF LooseBuffer
    <3> QED BY <3>1 DEF IdleBufferCloses
  <2> QED BY <2>4, <2>5, <2>6, <2>7 DEF BufferOwned
<1> QED BY <1>1, PlayInvariant, PTL

\* An output that waits is woken: its timer runs while its state asks for it,
\* its task is queued, or the user has paused it (audio_out_onplay).
THEOREM OutputIsWoken ==
  Spec => []WaitingIsWoken
<1>1. PlayInv => WaitingIsWoken
  BY DEF PlayInv
<1> QED BY <1>1, PlayInvariant, PTL

-----------------------------------------------------------------------------
(* What the user has asked for.                                            *)

\* A wake that is queued does not survive the start of a run.
NoTaskInRun == trk.pc \in {"ui", "ac", "out"} => ~task

\* A pause that was noted is taken up by the output, which waits with its
\* buffer stopped until a resume or a stop wakes it.
SilentWhilePaused ==
  trk.paused /\ ~trk.loud =>
    /\ trk.st = "SIGNALLED"
    /\ \/ trk.pause
       \/ trk.pc = "async" /\ ~bufs[trk.stream].on /\ (task => trk.stop)
       \/ trk.pc = "out" /\ trk.stop

\* A seek that was noted waits for the output to clear its buffer.
ClearPending ==
  trk.clear => /\ trk.sreq /\ trk.useek /\ trk.pc \in {"async", "out"} /\ "ac" \in trk.gone
               /\ IsOpen

\* The device was filled since the last seek that it has seen.
DeviceFresh == ~trk.clear /\ trk.ctx => GensOf(bufs[trk.stream].q) \subseteq {trk.gen}

\* The chain holds nothing from before the last seek that it has seen; a seek
\* that it has not seen is on its way to the source.
ChainFresh ==
  /\ trk.pc = "async" \/ trk.pause => "ac" \in trk.gone
  /\ "ui" \in trk.gone => "src" \in trk.gone
  /\ ~trk.clear /\ ~trk.sreq => trk.rgen = trk.gen /\ GensOf(trk.din) \subseteq {trk.gen}
  /\ ~trk.clear /\ trk.sreq => \/ trk.pc = "ui" /\ trk.useek
                               \/ trk.pc = "src" /\ trk.seek /\ ~trk.useek
  /\ "ac" \notin trk.gone => GensOf(trk.hold) \subseteq {trk.gen}

\* The inductive invariant of pauses and seeks.
AskInv ==
  /\ NoTaskInRun
  /\ Running => /\ SilentWhilePaused
                /\ env.src = "file" => ClearPending /\ DeviceFresh /\ ChainFresh

\* A track that has ended is asked for nothing.
LEMMA EndedAsksNothing ==
  ASSUME trk'.pc \in {"none", "fin"}
  PROVE  AskInv'
BY DEF AskInv, NoTaskInRun, Running

\* Nothing is held by an empty sequence.
LEMMA EmptyGens ==
  GensOf(<<>>) = {}
BY DEF GensOf

\* What a running track can rely on.
LEMMA AskedOf ==
  ASSUME PlayInv, AskInv, Running
  PROVE  /\ trk \in TrkType /\ bufs \in Seq(BufType) /\ QueuesAgree(bufs)
         /\ Negotiation /\ OutputOpen /\ Waits /\ NoTaskInRun /\ SilentWhilePaused
         /\ env.src = "file" => ClearPending /\ DeviceFresh /\ ChainFresh
         /\ trk.ctx => trk.stream \in 1..Len(bufs)
         /\ trk.pc = "async" => trk.ctx
<1>1. PlayTypes /\ QueuesAgree(bufs) /\ Negotiation /\ OutputOpen /\ Waits
  BY DEF PlayInv
<1>2. trk \in TrkType
  BY <1>1, IsATrack DEF Running
<1> QED BY <1>1, <1>2 DEF AskInv, PlayTypes, Waits, OutputOpen

\* The device plays, or a buffer that no track uses is closed.
LEMMA AskDrained ==
  ASSUME PlayInv, AskInv, UNCHANGED <<env, trk, task>>, Drained(bufs, bufs')
  PROVE  AskInv'
<1>1. CASE ~Running
  BY <1>1, EndedAsksNothing DEF Running
<1>2. CASE Running
  <2>1. /\ NoTaskInRun /\ SilentWhilePaused
        /\ (env.src = "file" => ClearPending /\ DeviceFresh /\ ChainFresh)
        /\ (trk.ctx => trk.stream \in 1..Len(bufs)) /\ (trk.pc = "async" => trk.ctx)
    BY <1>2, AskedOf
  <2>2. trk.ctx => /\ GensOf(bufs'[trk.stream].q) \subseteq GensOf(bufs[trk.stream].q)
                   /\ (bufs'[trk.stream].on => bufs[trk.stream].on)
    BY <2>1 DEF Drained
  <2>3. SilentWhilePaused'
    BY <2>1, <2>2 DEF SilentWhilePaused
  <2>4. env.src = "file" => ClearPending' /\ DeviceFresh' /\ ChainFresh'
    BY <2>1, <2>2 DEF ClearPending, DeviceFresh, ChainFresh, IsOpen
  <2> QED BY <2>1, <2>3, <2>4 DEF AskInv, NoTaskInRun, Running
<1> QED BY <1>1, <1>2

\* The timer finds a paused output marked already.
LEMMA AskTick ==
  ASSUME PlayInv, AskInv, Tick
  PROVE  AskInv'
<1>1. /\ trk.pc \in {"async", "src"} /\ UNCHANGED <<env, mod, bufs, cnt>>
      /\ trk' = [trk EXCEPT !.st = "SIGNALLED"]
      /\ task' = (task \/ trk.st = "WAITING")
  BY DEF Tick, Idle, OnPlay, WakesOnPlay
<1>2. Running
  BY <1>1 DEF Running
<1>3. /\ trk \in TrkType /\ SilentWhilePaused
      /\ (env.src = "file" => ClearPending /\ DeviceFresh /\ ChainFresh)
  BY <1>2, AskedOf
<1>4. /\ trk'.st = "SIGNALLED" /\ SameWish(trk', trk) /\ SamePause(trk', trk)
      /\ trk'.pc = trk.pc /\ trk'.stream = trk.stream /\ trk'.ctx = trk.ctx
      /\ trk'.gone = trk.gone /\ trk'.din = trk.din /\ trk'.hold = trk.hold
  BY <1>1, <1>3 DEF TrkType, SameWish, SamePause
<1>5. SilentWhilePaused'
  BY <1>1, <1>3, <1>4 DEF SilentWhilePaused, SameWish, SamePause
<1>6. env.src = "file" => ClearPending' /\ DeviceFresh' /\ ChainFresh'
  BY <1>1, <1>3, <1>4
     DEF ClearPending, DeviceFresh, ChainFresh, SameWish, SamePause, IsOpen, OpenStates
<1> QED BY <1>1, <1>4, <1>5, <1>6 DEF AskInv, NoTaskInRun

\* A paused track is woken by a pause that was not taken up, or by a stop.
LEMMA AskRunTask ==
  ASSUME PlayInv, AskInv, RunTask
  PROVE  AskInv'
<1>1. /\ trk.pc \in {"async", "src"} /\ task /\ UNCHANGED <<env, mod, bufs, cnt>> /\ task' = FALSE
      /\ trk' = CASE trk.pc = "async" -> [trk EXCEPT !.pc = "out"]
                  [] trk.pc = "src" /\ trk.stop -> [trk EXCEPT !.pc = "fin"]
                  [] OTHER -> trk
  BY DEF RunTask, Idle
<1>2. Running
  BY <1>1 DEF Running
<1>3. /\ trk \in TrkType /\ SilentWhilePaused /\ Waits
      /\ (env.src = "file" => ClearPending /\ DeviceFresh /\ ChainFresh)
  BY <1>2, AskedOf
<1>4. CASE trk.pc = "async"
  <2>1. /\ trk'.pc = "out" /\ SameWish(trk', trk) /\ SamePause(trk', trk)
        /\ SameStream(trk', trk) /\ trk'.gone = trk.gone /\ trk'.din = trk.din
        /\ trk'.hold = trk.hold
    BY <1>1, <1>3, <1>4 DEF TrkType, SameWish, SamePause, SameStream
  <2>2. SilentWhilePaused'
    BY <1>1, <1>3, <1>4, <2>1 DEF SilentWhilePaused, SameWish, SamePause, SameStream
  <2>3. env.src = "file" => ClearPending' /\ DeviceFresh' /\ ChainFresh'
    BY <1>1, <1>3, <1>4, <2>1
       DEF ClearPending, DeviceFresh, ChainFresh, SameWish, SamePause, SameStream, IsOpen
  <2> QED BY <1>1, <2>2, <2>3 DEF AskInv, NoTaskInRun
<1>5. CASE trk.pc = "src" /\ trk.stop
  <2>1. trk'.pc = "fin"
    BY <1>1, <1>3, <1>5 DEF TrkType
  <2> QED BY <2>1, EndedAsksNothing
<1>6. CASE trk.pc = "src" /\ ~trk.stop
  <2>1. trk' = trk
    BY <1>1, <1>6
  <2>2. SilentWhilePaused'
    BY <1>1, <1>3, <1>6, <2>1 DEF SilentWhilePaused
  <2>3. env.src = "file" => ClearPending' /\ DeviceFresh' /\ ChainFresh'
    BY <1>1, <1>3, <2>1 DEF ClearPending, DeviceFresh, ChainFresh, IsOpen
  <2> QED BY <1>1, <2>2, <2>3 DEF AskInv, NoTaskInRun
<1> QED BY <1>1, <1>4, <1>5, <1>6

\* The queue starts a track.
LEMMA AskStart ==
  ASSUME NEW f \in Formats, NEW il \in BOOLEAN, StartTrack(f, il)
  PROVE  AskInv'
<1>1. /\ trk'.pc = "src" /\ trk'.paused = FALSE /\ trk'.clear = FALSE /\ trk'.ctx = FALSE
      /\ trk'.pause = FALSE /\ trk'.gone = {} /\ trk'.sreq = FALSE /\ trk'.rgen = trk'.gen
      /\ trk'.din = <<>> /\ trk'.hold = <<>>
  BY DEF StartTrack
<1>2. NoTaskInRun' /\ SilentWhilePaused' /\ ClearPending' /\ DeviceFresh'
  BY <1>1 DEF NoTaskInRun, SilentWhilePaused, ClearPending, DeviceFresh
<1>3. ChainFresh'
  BY <1>1, EmptyGens DEF ChainFresh
<1> QED BY <1>2, <1>3 DEF AskInv

\* The source hands on what it reads after the seek it has honoured.
LEMMA AskSource ==
  ASSUME PlayInv, AskInv, Source
  PROVE  AskInv'
<1> DEFINE seeks == trk.sreq /\ trk.seek /\ env.src = "file"
           g == IF seeks THEN trk.gen ELSE trk.rgen
           left == IF seeks THEN Blocks ELSE trk.left
           u == [gen |-> g, af |-> trk.af]
           d == IF left > Blocks THEN <<>> ELSE <<u, u>>
           go == IF left = 1 THEN trk.gone \union {"src"} ELSE trk.gone
           sr == trk.sreq /\ ~seeks
           l == left - 1
<1>1. /\ trk.pc = "src" /\ task' = FALSE /\ UNCHANGED <<env, mod, bufs, cnt>>
      /\ trk' = [trk EXCEPT !.pc = "ui", !.fwd = TRUE, !.rgen = g, !.sreq = sr,
                            !.din = d, !.left = l, !.gone = go]
  BY DEF Source
<1>2. Running
  BY <1>1 DEF Running
<1>3. /\ trk \in TrkType /\ SilentWhilePaused
      /\ (env.src = "file" => ClearPending /\ DeviceFresh /\ ChainFresh)
  BY <1>2, AskedOf
<1>4. /\ ("ac" \in go <=> "ac" \in trk.gone) /\ ("ui" \in go <=> "ui" \in trk.gone)
      /\ ("src" \in trk.gone => "src" \in go)
  OBVIOUS
<1>5. GensOf(d) \subseteq {g}
  <2> HIDE DEF g
  <2>1. u.gen = g
    OBVIOUS
  <2> HIDE DEF u
  <2>2. CASE left > Blocks
    <3>1. d = <<>>
      BY <2>2
    <3> QED BY <3>1, EmptyGens
  <2>3. CASE ~(left > Blocks)
    <3>1. d = <<u, u>>
      BY <2>3
    <3> HIDE DEF d
    <3>2. Len(d) = 2 /\ d[1] = u /\ d[2] = u
      BY <3>1
    <3> QED BY <2>1, <3>2 DEF GensOf
  <2> QED BY <2>2, <2>3
<1> HIDE DEF d, go, l
<1>6. /\ trk'.pc = "ui" /\ trk'.rgen = g /\ trk'.sreq = sr /\ trk'.din = d /\ trk'.gone = go
      /\ SamePause(trk', trk) /\ SameStream(trk', trk) /\ trk'.hold = trk.hold
      /\ trk'.stop = trk.stop /\ trk'.loud = trk.loud /\ trk'.clear = trk.clear
      /\ trk'.seek = trk.seek /\ trk'.useek = trk.useek /\ trk'.gen = trk.gen
  BY <1>1, <1>3 DEF TrkType, SamePause, SameStream
<1>7. SilentWhilePaused'
  BY <1>1, <1>3, <1>6 DEF SilentWhilePaused, SamePause, SameStream
<1>8. ASSUME env.src = "file"
      PROVE  ClearPending' /\ DeviceFresh' /\ ChainFresh'
  <2>1. ~trk.clear /\ (trk.sreq => trk.seek /\ ~trk.useek)
    BY <1>1, <1>3, <1>8 DEF ClearPending, ChainFresh
  <2>2. sr = FALSE /\ g = trk.gen
    BY <1>3, <1>8, <2>1 DEF ChainFresh
  <2>3. ClearPending' /\ DeviceFresh'
    BY <1>1, <1>3, <1>6, <1>8, <2>1 DEF ClearPending, DeviceFresh, SameStream
  <2>4. ChainFresh'
    BY <1>1, <1>3, <1>4, <1>5, <1>6, <1>8, <2>1, <2>2 DEF ChainFresh, SamePause
  <2> QED BY <2>3, <2>4
<1> QED BY <1>1, <1>6, <1>7, <1>8 DEF AskInv, NoTaskInRun

\* The interface filter passes a seek on to the source.
LEMMA AskUi ==
  ASSUME PlayInv, AskInv, trk.pc = "ui", UiProcess
  PROVE  AskInv'
<1>1. Running
  BY DEF Running
<1>2. /\ trk \in TrkType /\ SilentWhilePaused /\ NoTaskInRun
      /\ (env.src = "file" => ClearPending /\ DeviceFresh /\ ChainFresh)
  BY <1>1, AskedOf
<1>3. UNCHANGED <<env, mod, bufs, task, cnt>>
  BY DEF UiProcess
<1>4. ASSUME NEW t \in TrkType, SamePause(t, trk), SameStream(t, trk), t.hold = trk.hold,
             t.din = trk.din, t.stop = trk.stop, t.loud = trk.loud, t.clear = trk.clear,
             t.gen = trk.gen, t.rgen = trk.rgen, t.sreq = trk.sreq,
             t.gone = trk.gone \/ ("src" \in trk.gone /\ t.gone = trk.gone \union {"ui"}),
             \/ trk' = Back(t, "ui") /\ (trk.useek => t.seek /\ ~t.useek)
             \/ trk' = On(t) /\ ~trk.useek
      PROVE  AskInv'
  <2>1. /\ SameFormats(trk', t) /\ SamePause(trk', t) /\ SameStream(trk', t)
        /\ SameWish(trk', t) /\ trk'.gone = t.gone /\ trk'.pc # "async"
        /\ (trk'.din = t.din \/ trk'.din = <<>>)
        /\ (trk.useek => trk'.pc \in {"src", "fin"} /\ t.seek /\ ~t.useek)
    <3>1. CASE trk' = Back(t, "ui") /\ (trk.useek => t.seek /\ ~t.useek)
      BY <3>1, BackFrom
    <3>2. CASE trk' = On(t) /\ ~trk.useek
      BY <3>2, OnFrom
    <3> QED BY <1>4, <3>1, <3>2
  <2>2. /\ SamePause(trk', trk) /\ SameStream(trk', trk) /\ trk'.hold = trk.hold
        /\ trk'.stop = trk.stop /\ trk'.loud = trk.loud /\ trk'.clear = trk.clear
        /\ trk'.gen = trk.gen /\ trk'.rgen = trk.rgen /\ trk'.sreq = trk.sreq
        /\ (trk.useek => trk'.pc \in {"src", "fin"} /\ trk'.seek /\ ~trk'.useek)
    BY <1>4, <2>1 DEF SamePause, SameStream, SameFormats, SameWish
  <2>3. SilentWhilePaused'
    BY <1>2, <2>2 DEF SilentWhilePaused, SamePause, SameStream
  <2>4. ASSUME env.src = "file", trk'.pc # "fin"
        PROVE  ClearPending' /\ DeviceFresh' /\ ChainFresh'
    <3>1. ~trk.clear /\ (trk.sreq => trk.useek)
      BY <1>2, <2>4 DEF ClearPending, ChainFresh
    <3>2. ClearPending' /\ DeviceFresh'
      BY <1>2, <1>3, <2>2, <2>4, <3>1 DEF ClearPending, DeviceFresh, SameStream
    <3>3. GensOf(trk'.din) \subseteq GensOf(trk.din)
      BY <1>4, <2>1, EmptyGens
    <3>4. /\ "ac" \in trk'.gone <=> "ac" \in trk.gone
          /\ "ui" \in trk'.gone => "src" \in trk'.gone
      BY <1>2, <1>4, <2>1, <2>4 DEF ChainFresh
    <3>5. ChainFresh'
      BY <1>2, <2>1, <2>2, <2>4, <3>1, <3>3, <3>4 DEF ChainFresh, SamePause
    <3> QED BY <3>2, <3>5
  <2>5. NoTaskInRun'
    BY <1>2, <1>3 DEF NoTaskInRun
  <2> QED BY <1>3, <2>3, <2>4, <2>5 DEF AskInv, Running
<1>5. CASE trk.useek
  <2> DEFINE t == [trk EXCEPT !.seek = TRUE, !.useek = FALSE]
  <2>1. trk' = Back(t, "ui")
    BY <1>5 DEF UiProcess
  <2>2. t \in TrkType
    BY <1>2 DEF TrkType
  <2>3. /\ SamePause(t, trk) /\ SameStream(t, trk) /\ t.hold = trk.hold
        /\ t.din = trk.din /\ t.stop = trk.stop /\ t.loud = trk.loud /\ t.clear = trk.clear
        /\ t.gen = trk.gen /\ t.rgen = trk.rgen /\ t.sreq = trk.sreq /\ t.gone = trk.gone
        /\ t.seek = TRUE /\ t.useek = FALSE
    BY <1>2 DEF TrkType, SamePause, SameStream
  <2> HIDE DEF t
  <2> QED BY <1>4, <2>1, <2>2, <2>3
<1>6. CASE ~trk.useek /\ "src" \notin trk.gone /\ (~trk.fwd \/ trk.din = <<>>)
  <2> DEFINE t == [trk EXCEPT !.open = TRUE]
  <2>1. trk' = Back(t, "ui")
    BY <1>6 DEF UiProcess
  <2>2. t \in TrkType
    BY <1>2 DEF TrkType
  <2>3. /\ SamePause(t, trk) /\ SameStream(t, trk) /\ t.hold = trk.hold
        /\ t.din = trk.din /\ t.stop = trk.stop /\ t.loud = trk.loud /\ t.clear = trk.clear
        /\ t.gen = trk.gen /\ t.rgen = trk.rgen /\ t.sreq = trk.sreq /\ t.gone = trk.gone
    BY <1>2 DEF TrkType, SamePause, SameStream
  <2> HIDE DEF t
  <2> QED BY <1>4, <1>6, <2>1, <2>2, <2>3
<1>7. CASE ~trk.useek /\ ~("src" \notin trk.gone /\ (~trk.fwd \/ trk.din = <<>>))
  <2> DEFINE se == trk.seek /\ trk.sreq
             go == IF "src" \in trk.gone THEN trk.gone \union {"ui"} ELSE trk.gone
             t == [trk EXCEPT !.open = TRUE, !.seek = se, !.gone = go]
  <2>1. trk' = On(t)
    BY <1>7 DEF UiProcess
  <2>2. se \in BOOLEAN
    OBVIOUS
  <2>3. /\ go \in SUBSET {"src", "ui", "ac"}
        /\ go = trk.gone \/ ("src" \in trk.gone /\ go = trk.gone \union {"ui"})
    <3>1. trk.gone \in SUBSET {"src", "ui", "ac"}
      BY <1>2 DEF TrkType
    <3> QED BY <3>1
  <2> HIDE DEF se, go
  <2>4. t \in TrkType
    BY <1>2, <2>2, <2>3 DEF TrkType
  <2>5. /\ SamePause(t, trk) /\ SameStream(t, trk) /\ t.hold = trk.hold
        /\ t.din = trk.din /\ t.stop = trk.stop /\ t.loud = trk.loud /\ t.clear = trk.clear
        /\ t.gen = trk.gen /\ t.rgen = trk.rgen /\ t.sreq = trk.sreq /\ t.gone = go
    BY <1>2 DEF TrkType, SamePause, SameStream
  <2> HIDE DEF t
  <2> QED BY <1>4, <1>7, <2>1, <2>3, <2>4, <2>5
<1> QED BY <1>5, <1>6, <1>7

\* auto-conv keeps the first block while the output is negotiated with.
LEMMA AskAutoConv ==
  ASSUME PlayInv, AskInv, AutoConv
  PROVE  AskInv'
<1>1. trk.pc = "ac" /\ UNCHANGED <<env, mod, bufs, task>>
  BY DEF AutoConv
<1>2. Running
  BY <1>1 DEF Running
<1>3. /\ trk \in TrkType /\ SilentWhilePaused /\ NoTaskInRun /\ Negotiation
      /\ (env.src = "file" => ClearPending /\ DeviceFresh /\ ChainFresh)
  BY <1>2, AskedOf
<1>4. "ac" \notin trk.gone /\ trk.ac \in {0, 1}
  BY <1>1, <1>3 DEF Negotiation, TrkType
<1>5. ASSUME SameWish(trk', trk), SamePause(trk', trk), trk'.st = trk.st,
             trk'.stream = trk.stream, trk'.ctx = trk.ctx, trk'.pc = "out",
             \/ trk'.gone = trk.gone /\ trk'.hold = trk.din /\ trk'.din = <<>>
             \/ trk'.gone = trk.gone \union {"ac"} /\ trk'.din = trk.hold
      PROVE  AskInv'
  <2>1. SilentWhilePaused'
    BY <1>1, <1>3, <1>5 DEF SilentWhilePaused, SameWish, SamePause
  <2>2. ASSUME env.src = "file"
        PROVE  ClearPending' /\ DeviceFresh' /\ ChainFresh'
    <3>1. ~trk.clear /\ ~trk.sreq
      BY <1>1, <1>3, <2>2 DEF ClearPending, ChainFresh
    <3>2. ClearPending' /\ DeviceFresh'
      BY <1>1, <1>3, <1>5, <2>2, <3>1 DEF ClearPending, DeviceFresh, SameWish
    <3>3. GensOf(trk.din) \subseteq {trk.gen} /\ GensOf(trk.hold) \subseteq {trk.gen}
      BY <1>3, <1>4, <2>2, <3>1 DEF ChainFresh
    <3>4. /\ GensOf(trk'.din) \subseteq {trk.gen}
          /\ "ac" \notin trk'.gone => GensOf(trk'.hold) \subseteq {trk.gen}
      BY <1>5, <3>3, EmptyGens
    <3>5. ChainFresh'
      BY <1>3, <1>5, <2>2, <3>1, <3>4 DEF ChainFresh, SameWish, SamePause
    <3> QED BY <3>2, <3>5
  <2> QED BY <1>1, <1>3, <1>5, <2>1, <2>2 DEF AskInv, NoTaskInRun
<1>6. CASE trk.ac = 0
  <2> DEFINE c == [trk.caf EXCEPT !.il = trk.oaf.il]
  <2>1. trk' = [trk EXCEPT !.ac = 1, !.hold = trk.din, !.din = <<>>, !.pc = "out",
                           !.fwd = TRUE, !.caf = c]
    BY <1>6 DEF AutoConv
  <2> HIDE DEF c
  <2>2. /\ SameWish(trk', trk) /\ SamePause(trk', trk) /\ trk'.st = trk.st
        /\ trk'.stream = trk.stream /\ trk'.ctx = trk.ctx /\ trk'.pc = "out"
        /\ trk'.gone = trk.gone /\ trk'.hold = trk.din /\ trk'.din = <<>>
    BY <1>3, <2>1 DEF TrkType, SameWish, SamePause
  <2> QED BY <1>5, <2>2
<1>7. CASE trk.ac = 1
  <2> DEFINE o == Af(IF trk.caf.f = None THEN trk.oaf.f ELSE trk.caf.f, trk.caf.il)
             cv == o # trk.af
             go == trk.gone \union {"ac"}
             t == [trk EXCEPT !.oaf = o, !.conv = cv, !.gone = go]
  <2>1. \/ trk' = [t EXCEPT !.pc = "out", !.fwd = TRUE, !.hold = <<>>, !.din = trk.hold]
        \/ trk' = [t EXCEPT !.pc = "fin"]
    BY <1>7 DEF AutoConv
  <2> HIDE DEF o, cv
  <2>2. CASE trk' = [t EXCEPT !.pc = "fin"]
    <3>1. trk'.pc = "fin"
      BY <1>3, <2>2 DEF TrkType
    <3> QED BY <3>1, EndedAsksNothing
  <2>3. CASE trk' = [t EXCEPT !.pc = "out", !.fwd = TRUE, !.hold = <<>>, !.din = trk.hold]
    <3>1. /\ SameWish(trk', trk) /\ SamePause(trk', trk) /\ trk'.st = trk.st
          /\ trk'.stream = trk.stream /\ trk'.ctx = trk.ctx /\ trk'.pc = "out"
          /\ trk'.gone = go /\ trk'.din = trk.hold
      BY <1>3, <2>3 DEF TrkType, SameWish, SamePause
    <3> QED BY <1>5, <3>1
  <2> QED BY <2>1, <2>2, <2>3
<1> QED BY <1>4, <1>6, <1>7

\* audio_stop marks the output and stops its buffer.
LEMMA AdevDrained ==
  ASSUME PlayInv, Command, trk.ctx
  PROVE  AdevStop(trk).st = "SIGNALLED" /\ Drained(bufs, AdevStops)
<1>1. Running
  BY DEF Command, Running
<1>2. /\ trk \in TrkType /\ bufs \in Seq(BufType) /\ QueuesAgree(bufs)
      /\ trk.stream \in 1..Len(bufs)
  BY <1>1, IsATrack DEF PlayInv, PlayTypes, Waits, Running
<1>3. AdevStops = StopBuf(trk.stream) /\ AdevStop(trk) = [trk EXCEPT !.st = "SIGNALLED"]
  BY DEF AdevStops, AdevStop, OnPlay
<1> QED BY <1>2, <1>3, StoppedOrCleared DEF TrkType

\* tuiplay_seek, gtrk_seek: the output clears its buffer before it goes on.
LEMMA AskSeek ==
  ASSUME PlayInv, AskInv, NEW wakes \in BOOLEAN, SeekTo(wakes)
  PROVE  AskInv'
<1> DEFINE t == AdevStop(trk)
<1>1. /\ Command /\ bufs' = AdevStops /\ task' = (task \/ AdevWakes \/ wakes)
      /\ trk' = [t EXCEPT !.useek = TRUE, !.sreq = TRUE, !.clear = TRUE,
                          !.gen = @ + 1, !.loud = @ \/ wakes]
  BY DEF SeekTo
<1>2. /\ trk.pc \in {"async", "src"} /\ env' = env
      /\ (env.src = "file" => trk.pc = "async")
  BY <1>1 DEF Command, Idle
<1>3. Running
  BY <1>2 DEF Running
<1>4. /\ trk \in TrkType /\ SilentWhilePaused /\ Waits
      /\ (env.src = "file" => ClearPending /\ DeviceFresh /\ ChainFresh)
      /\ (trk.ctx => trk.stream \in 1..Len(bufs)) /\ (trk.pc = "async" => trk.ctx)
  BY <1>3, AskedOf
<1>5. /\ t \in TrkType /\ SameChain(t, trk) /\ SamePause(t, trk) /\ SameWish(t, trk)
      /\ (t.st = trk.st \/ t.st = "SIGNALLED")
  BY <1>1, AdevStopped
<1>6. trk.ctx => t.st = "SIGNALLED" /\ Drained(bufs, bufs')
  BY <1>1, <1>4, AdevDrained
<1> HIDE DEF t
<1>7. /\ trk'.useek = TRUE /\ trk'.sreq = TRUE /\ trk'.clear = TRUE
      /\ trk'.loud = (t.loud \/ wakes) /\ trk'.st = t.st /\ trk'.stop = t.stop
      /\ SamePause(trk', t) /\ trk'.pc = t.pc /\ trk'.gone = t.gone
      /\ trk'.stream = t.stream
  BY <1>1, <1>5 DEF TrkType, SamePause
<1>8. /\ trk'.loud = (trk.loud \/ wakes) /\ trk'.stop = trk.stop /\ SamePause(trk', trk)
      /\ trk'.pc = trk.pc /\ trk'.gone = trk.gone /\ trk'.stream = trk.stream
  BY <1>5, <1>7 DEF SameChain, SamePause, SameWish
<1>9. SilentWhilePaused'
  <2>1. ASSUME trk.paused, ~trk.loud, ~wakes
        PROVE  /\ trk'.st = "SIGNALLED"
               /\ trk.pause \/ (trk.pc = "async" /\ ~bufs'[trk.stream].on /\ (task' => trk.stop))
    <3>1. trk.st = "SIGNALLED" /\ trk'.st = "SIGNALLED" /\ (task' => task)
      BY <1>1, <1>4, <1>5, <1>7, <2>1 DEF SilentWhilePaused, AdevWakes, WakesOnPlay
    <3>2. CASE trk.pause
      BY <3>1, <3>2
    <3>3. CASE ~trk.pause
      <4>1. trk.pc = "async" /\ ~bufs[trk.stream].on /\ (task => trk.stop)
        BY <1>2, <1>4, <2>1, <3>3 DEF SilentWhilePaused
      <4>2. ~bufs'[trk.stream].on
        BY <1>4, <1>6, <4>1 DEF Drained
      <4> QED BY <3>1, <4>1, <4>2
    <3> QED BY <3>2, <3>3
  <2> QED BY <1>8, <2>1 DEF SilentWhilePaused, SamePause
<1>10. ASSUME env.src = "file"
       PROVE  ClearPending' /\ DeviceFresh' /\ ChainFresh'
  <2>1. trk.pc = "async" /\ "ac" \in trk.gone /\ trk'.st = "SIGNALLED"
        /\ ("ui" \in trk.gone => "src" \in trk.gone)
    BY <1>2, <1>4, <1>6, <1>7, <1>10 DEF ChainFresh
  <2> QED BY <1>7, <1>8, <2>1 DEF ClearPending, DeviceFresh, ChainFresh, IsOpen, OpenStates
<1> QED BY <1>2, <1>8, <1>9, <1>10 DEF AskInv, NoTaskInRun

\* tuiplay_pause_resume, gtrk_play_pause.
LEMMA AskPause ==
  ASSUME PlayInv, AskInv, PauseOrResume
  PROVE  AskInv'
<1> DEFINE t == AdevStop(trk)
<1>1. Command
  BY DEF PauseOrResume
<1>2. /\ trk.pc \in {"async", "src"} /\ env' = env
      /\ (env.src = "file" => trk.pc = "async")
  BY <1>1 DEF Command, Idle
<1>3. Running
  BY <1>2 DEF Running
<1>4. /\ trk \in TrkType /\ SilentWhilePaused
      /\ (env.src = "file" => ClearPending /\ DeviceFresh /\ ChainFresh)
      /\ (trk.ctx => trk.stream \in 1..Len(bufs)) /\ (trk.pc = "async" => trk.ctx)
  BY <1>3, AskedOf
<1>5. CASE trk.paused
  <2>1. /\ trk' = [trk EXCEPT !.paused = FALSE, !.pause = FALSE] /\ bufs' = bufs
    BY <1>5 DEF PauseOrResume
  <2>2. /\ trk'.paused = FALSE /\ trk'.pause = FALSE /\ SameWish(trk', trk)
        /\ SameChain(trk', trk) /\ trk'.st = trk.st
    BY <1>4, <2>1 DEF TrkType, SameWish, SameChain, SameFormats
  <2>3. env.src = "file" => ClearPending' /\ DeviceFresh' /\ ChainFresh'
    BY <1>2, <1>4, <2>1, <2>2
       DEF ClearPending, DeviceFresh, ChainFresh, SameWish, SameChain, SameFormats, IsOpen
  <2> QED BY <1>2, <2>2, <2>3 DEF AskInv, NoTaskInRun, SilentWhilePaused, SameChain
<1>6. CASE ~trk.paused
  <2>1. /\ trk' = [t EXCEPT !.paused = TRUE, !.pause = TRUE, !.loud = ~trk.ctx]
        /\ bufs' = AdevStops
    BY <1>6 DEF PauseOrResume
  <2>2. /\ t \in TrkType /\ SameChain(t, trk) /\ SameWish(t, trk)
        /\ (t.st = trk.st \/ t.st = "SIGNALLED")
    BY <1>1, AdevStopped
  <2>3. trk.ctx => t.st = "SIGNALLED" /\ Drained(bufs, bufs')
    BY <1>4, <2>1, AdevDrained, <1>1
  <2> HIDE DEF t
  <2>4. /\ trk'.paused = TRUE /\ trk'.pause = TRUE /\ trk'.loud = ~trk.ctx /\ trk'.st = t.st
        /\ SameChain(trk', t) /\ trk'.clear = t.clear /\ trk'.sreq = t.sreq
        /\ trk'.seek = t.seek /\ trk'.useek = t.useek /\ trk'.gen = t.gen /\ trk'.rgen = t.rgen
    BY <2>1, <2>2 DEF TrkType, SameChain, SameFormats
  <2>5. /\ SameChain(trk', trk) /\ trk'.clear = trk.clear /\ trk'.sreq = trk.sreq
        /\ trk'.seek = trk.seek /\ trk'.useek = trk.useek /\ trk'.gen = trk.gen
        /\ trk'.rgen = trk.rgen
    BY <2>2, <2>4 DEF SameChain, SameFormats, SameWish
  <2>6. SilentWhilePaused'
    BY <2>3, <2>4 DEF SilentWhilePaused
  <2>7. ASSUME env.src = "file"
        PROVE  ClearPending' /\ DeviceFresh' /\ ChainFresh'
    <3>1. /\ trk.ctx /\ "ac" \in trk.gone /\ trk'.st = "SIGNALLED" /\ trk'.pc = "async"
          /\ GensOf(bufs'[trk.stream].q) \subseteq GensOf(bufs[trk.stream].q)
      BY <1>2, <1>4, <2>3, <2>4, <2>5, <2>7 DEF ChainFresh, Drained, SameChain
    <3> QED BY <1>4, <2>5, <2>7, <3>1
            DEF ClearPending, DeviceFresh, ChainFresh, SameChain, SameFormats, IsOpen, OpenStates
  <2> QED BY <1>2, <2>5, <2>6, <2>7 DEF AskInv, NoTaskInRun, SameChain
<1> QED BY <1>5, <1>6

\* The queue stops the track.
LEMMA AskStop ==
  ASSUME PlayInv, AskInv, StopTrack
  PROVE  AskInv'
<1>1. /\ Command /\ trk' = [trk EXCEPT !.stop = TRUE] /\ task' = TRUE /\ bufs' = bufs
  BY DEF StopTrack
<1>2. trk.pc \in {"async", "src"} /\ env' = env
  BY <1>1 DEF Command
<1>3. Running
  BY <1>2 DEF Running
<1>4. /\ trk \in TrkType /\ SilentWhilePaused
      /\ (env.src = "file" => ClearPending /\ DeviceFresh /\ ChainFresh)
  BY <1>3, AskedOf
<1>5. /\ trk'.stop = TRUE /\ SamePause(trk', trk) /\ SameChain(trk', trk) /\ trk'.st = trk.st
      /\ trk'.clear = trk.clear /\ trk'.sreq = trk.sreq /\ trk'.seek = trk.seek
      /\ trk'.useek = trk.useek /\ trk'.gen = trk.gen /\ trk'.rgen = trk.rgen
      /\ trk'.loud = trk.loud
  BY <1>1, <1>4 DEF TrkType, SamePause, SameChain, SameFormats
<1>6. SilentWhilePaused'
  BY <1>1, <1>2, <1>4, <1>5 DEF SilentWhilePaused, SamePause, SameChain
<1>7. env.src = "file" => ClearPending' /\ DeviceFresh' /\ ChainFresh'
  BY <1>1, <1>2, <1>4, <1>5
     DEF ClearPending, DeviceFresh, ChainFresh, SamePause, SameChain, SameFormats, IsOpen
<1> QED BY <1>2, <1>5, <1>6, <1>7 DEF AskInv, NoTaskInRun, SameChain

\* The first calls of the write functions: a buffer starts empty.
LEMMA AskOpen ==
  ASSUME Unopened, AskInv, NEW c, OpenGood(c), OpenOutput(c)
  PROVE  AskInv'
<1>1. /\ PlayInv /\ trk.pc = "out" /\ trk.st \in {"TRY", "OPEN"}
  BY DEF Unopened, Opening, OpenStates
<1>2. Running
  BY <1>1 DEF Running
<1>3. /\ trk \in TrkType /\ SilentWhilePaused /\ NoTaskInRun /\ Negotiation
      /\ (env.src = "file" => ClearPending /\ DeviceFresh /\ ChainFresh)
  BY <1>1, <1>2, AskedOf
<1>4. bufs' = c.bs /\ env' = env /\ task' = task
  BY DEF OpenOutput
<1>5. c.t \in TrkType /\ SameOutput(c.t, trk)
  BY DEF OpenGood
<1>6. /\ ~(trk.paused /\ ~trk.loud)
      /\ env.src = "file" => ~trk.clear /\ ~trk.sreq
  BY <1>1, <1>3 DEF SilentWhilePaused, ClearPending, ChainFresh, IsOpen, OpenStates
<1>7. ASSUME SameWish(trk', trk), SamePause(trk', trk), trk'.gone = trk.gone,
             trk'.pc # "async",
             trk'.din = trk.din \/ trk'.din = <<>>, trk'.hold = trk.hold,
             trk'.ctx => c.bs[trk'.stream].q = <<>>
      PROVE  AskInv'
  <2>1. SilentWhilePaused' /\ NoTaskInRun'
    BY <1>1, <1>3, <1>4, <1>6, <1>7 DEF SilentWhilePaused, NoTaskInRun, SameWish, SamePause
  <2>2. ASSUME env.src = "file"
        PROVE  ClearPending' /\ DeviceFresh' /\ ChainFresh'
    <3>1. ClearPending'
      BY <1>6, <1>7, <2>2 DEF ClearPending, SameWish
    <3>2. DeviceFresh'
      BY <1>4, <1>7, EmptyGens DEF DeviceFresh
    <3>3. GensOf(trk'.din) \subseteq GensOf(trk.din)
      BY <1>7, EmptyGens
    <3>4. ChainFresh'
      BY <1>1, <1>3, <1>6, <1>7, <2>2, <3>3 DEF ChainFresh, SameWish, SamePause
    <3> QED BY <3>1, <3>2, <3>4
  <2> QED BY <1>4, <2>1, <2>2 DEF AskInv
<1>8. CASE c.r = "ERR"
  <2>1. trk' = [c.t EXCEPT !.pc = "fin"]
    BY <1>8 DEF OpenOutput
  <2>2. trk'.pc = "fin"
    BY <1>5, <2>1 DEF TrkType
  <2> QED BY <2>2, EndedAsksNothing
<1>9. CASE c.r = "DONE" /\ c.t.oaf.il
  <2>1. trk' = [c.t EXCEPT !.st = "WAITING"]
    BY <1>9 DEF OpenOutput
  <2>2. SameOutput(trk', c.t) /\ trk'.stream = c.t.stream
    BY <1>5, <2>1 DEF TrkType, SameOutput, SameFormats, SamePause, SameWish
  <2>3. SameOutput(trk', trk)
    BY <1>5, <2>2 DEF SameOutput, SameFormats, SamePause, SameWish
  <2>4. c.bs[c.t.stream].q = <<>>
    BY <1>9 DEF OpenGood
  <2> QED BY <1>1, <1>7, <2>2, <2>3, <2>4 DEF SameOutput, SameFormats
<1>10. CASE c.r # "ERR" /\ ~(c.r = "DONE" /\ c.t.oaf.il)
  <2> DEFINE f == [c.t.caf EXCEPT !.il = TRUE]
             asks == [c.t EXCEPT !.caf = f, !.st = "OPEN"]
  <2>1. trk' = [c.t EXCEPT !.pc = "fin"] \/ trk' = Back(asks, "out")
    BY <1>10 DEF OpenOutput
  <2>2. CASE trk' = [c.t EXCEPT !.pc = "fin"]
    <3>1. trk'.pc = "fin"
      BY <1>5, <2>2 DEF TrkType
    <3> QED BY <3>1, EndedAsksNothing
  <2>3. CASE trk' = Back(asks, "out")
    <3>1. f \in Afs
      BY <1>5 DEF TrkType, Afs
    <3> HIDE DEF f
    <3>2. asks \in TrkType
      <4>1. c.t \in TrkType
        BY <1>5
      <4> QED BY <3>1, <4>1 DEF TrkType
    <3>3. SameOutput(asks, c.t) /\ asks.stream = c.t.stream /\ asks.ctx = c.t.ctx
      BY <1>5 DEF TrkType, SameOutput, SameFormats, SamePause, SameWish
    <3> HIDE DEF asks
    <3>4. SameOutput(asks, trk)
      BY <1>5, <3>3 DEF SameOutput, SameFormats, SamePause, SameWish
    <3>5. /\ SameFormats(trk', asks) /\ SameStream(trk', asks) /\ SamePause(trk', asks)
          /\ SameWish(trk', asks) /\ trk'.gone = asks.gone /\ trk'.pc # "async"
          /\ (trk'.din = asks.din \/ trk'.din = <<>>)
      BY <2>3, <3>2, BackFrom
    <3>6. trk'.ctx => c.bs[trk'.stream].q = <<>>
      <4>1. c.r = "DONE" => c.bs[c.t.stream].q = <<>>
        BY DEF OpenGood
      <4>2. c.r # "DONE" => ~c.t.ctx
        BY <1>3, <1>10 DEF OpenGood, Negotiation
      <4> QED BY <3>3, <3>5, <4>1, <4>2 DEF SameStream
    <3>7. /\ SameWish(trk', trk) /\ SamePause(trk', trk) /\ trk'.gone = trk.gone
          /\ (trk'.din = trk.din \/ trk'.din = <<>>) /\ trk'.hold = trk.hold
      BY <3>4, <3>5 DEF SameOutput, SameFormats, SamePause, SameWish
    <3> QED BY <1>7, <3>5, <3>6, <3>7
  <2> QED BY <2>1, <2>2, <2>3
<1> QED BY <1>8, <1>9, <1>10

\* What a call of audio_out_write does with what was asked for.
WriteAsked(o) ==
  \/ trk.stop /\ o.r = "FIN"
  \/ /\ ~trk.stop /\ trk.clear /\ o.r = IF trk.sreq THEN "MORE" ELSE "AGAIN"
     /\ o.t = [trk EXCEPT !.clear = FALSE] /\ o.bs = ClearBuf(trk.stream)
  \/ /\ ~trk.stop /\ ~trk.clear /\ trk.pause /\ o.r = "ASYNC"
     /\ o.t = [trk EXCEPT !.pause = FALSE] /\ o.bs = StopBuf(trk.stream)
  \/ /\ ~trk.stop /\ ~trk.clear /\ ~trk.pause
     /\ SameWish(o.t, trk) /\ SamePause(o.t, trk)
     /\ GensOf(o.t.din) \subseteq GensOf(trk.din)
     /\ GensOf(o.bs[trk.stream].q)
          \subseteq GensOf(bufs[trk.stream].q) \union GensOf(trk.din)
     /\ o.r = "ASYNC" => "ac" \in trk.gone

\* A result with track t that goes on with what was asked for.
LEMMA GoesOn ==
  ASSUME ~trk.stop, ~trk.clear, ~trk.pause, NEW r, NEW t, NEW bs, NEW n,
         SameWish(t, trk), SamePause(t, trk), GensOf(t.din) \subseteq GensOf(trk.din),
         GensOf(bs[trk.stream].q)
           \subseteq GensOf(bufs[trk.stream].q) \union GensOf(trk.din),
         r = "ASYNC" => "ac" \in trk.gone
  PROVE  WriteAsked(Outcome(r, t, bs, n))
<1> DEFINE o == Outcome(r, t, bs, n)
<1>1. o.r = r /\ o.t = t /\ o.bs = bs
  BY DEF Outcome
<1> HIDE DEF o
<1>2. WriteAsked(o)
  BY <1>1 DEF WriteAsked
<1> QED BY <1>2 DEF o

\* audio_out_write.
LEMMA WritesAsked ==
  ASSUME OutputReady, NEW o \in Write(trk, trk.stream)
  PROVE  WriteAsked(o)
<1> DEFINE b == trk.stream
<1>1. /\ trk \in TrkType /\ bufs \in Seq(BufType) /\ QueuesAgree(bufs)
      /\ ("ac" \notin trk.gone => trk.din = <<>>)
  BY DEF OutputReady, Writing, Negotiation
<1>2. b \in 1..Len(bufs)
  BY DEF OutputReady, OutputOpen, Live
<1> HIDE DEF b
<1>3. CASE trk.stop
  <2>1. o = Outcome("FIN", trk, bufs, 0)
    BY <1>3 DEF Write
  <2> QED BY <1>3, <2>1 DEF WriteAsked, Outcome
<1>4. CASE ~trk.stop /\ trk.clear
  <2>1. o = Outcome(IF trk.sreq THEN "MORE" ELSE "AGAIN", [trk EXCEPT !.clear = FALSE],
                    ClearBuf(b), 0)
    BY <1>4 DEF Write, Cleared, b
  <2>2. /\ o.r = (IF trk.sreq THEN "MORE" ELSE "AGAIN") /\ o.t = [trk EXCEPT !.clear = FALSE]
        /\ o.bs = ClearBuf(b)
    BY <2>1 DEF Outcome
  <2> QED BY <1>4, <2>2 DEF WriteAsked, b
<1>5. CASE ~trk.stop /\ ~trk.clear /\ trk.pause
  <2>1. o = Outcome("ASYNC", [trk EXCEPT !.pause = FALSE], StopBuf(b), 0)
    BY <1>5 DEF Write, Paused, b
  <2>2. o.r = "ASYNC" /\ o.t = [trk EXCEPT !.pause = FALSE] /\ o.bs = StopBuf(b)
    BY <2>1 DEF Outcome
  <2> QED BY <1>5, <2>2 DEF WriteAsked, b
<1>6. CASE ~trk.stop /\ ~trk.clear /\ ~trk.pause
  <2>1. \/ o = Fed(trk, b)
        \/ \E e \in {"ERR", "OFFLINE"} : o = Outcome(e, [trk EXCEPT !.err = TRUE], bufs, 1)
    BY <1>6 DEF Write, b
  <2>2. CASE o = Fed(trk, b)
    <3> DEFINE f == Filled(trk, b)
               w == [trk EXCEPT !.din = f.rest, !.st = "WAITING"]
               e == [trk EXCEPT !.din = <<>>]
               m == [trk EXCEPT !.din = <<>>, !.st = "FEEDING"]
               on == [f.bs EXCEPT ![b].on = TRUE]
    <3>1. /\ Kept(bufs, f.bs) /\ (trk.din = <<>> => f.rest = <<>>)
          /\ GensOf(f.rest) \subseteq GensOf(trk.din)
          /\ GensOf(f.bs[b].q) \subseteq GensOf(bufs[b].q) \union GensOf(trk.din)
      BY FilledGood DEF b
    <3>2. \/ f.rest # <<>> /\ o = Outcome("ASYNC", w, f.bs, 0)
          \/ o = Outcome("DONE", e, f.bs, 0)
          \/ First /\ o = Outcome("ASYNC", w, on, 0)
          \/ o = Outcome("MORE", m, f.bs, 0)
      BY <2>2 DEF Fed
    <3> HIDE DEF f
    <3>3. on[b].q = f.bs[b].q
      <4>1. f.bs \in Seq(BufType) /\ bufs \in Seq(BufType) /\ Len(f.bs) >= Len(bufs)
        BY <3>1 DEF Kept
      <4>2. b \in 1..Len(f.bs)
        BY <1>2, <4>1
      <4>3. f.bs[b] \in BufType
        BY <4>1, <4>2, ElementOfSeq
      <4>4. on[b] = [f.bs[b] EXCEPT !.on = TRUE]
        BY <4>1, <4>2
      <4> HIDE DEF on
      <4> QED BY <4>3, <4>4 DEF BufType
    <3>4. SameWish(w, trk) /\ SamePause(w, trk) /\ w.din = f.rest
      BY <1>1 DEF TrkType, SameWish, SamePause
    <3>5. SameWish(e, trk) /\ SamePause(e, trk) /\ e.din = <<>>
      BY <1>1 DEF TrkType, SameWish, SamePause
    <3>6. SameWish(m, trk) /\ SamePause(m, trk) /\ m.din = <<>>
      BY <1>1 DEF TrkType, SameWish, SamePause
    <3> HIDE DEF w, e, m, on
    <3>7. CASE \/ f.rest # <<>> /\ o = Outcome("ASYNC", w, f.bs, 0)
               \/ First /\ o = Outcome("ASYNC", w, on, 0)
      <4>1. "ac" \in trk.gone
        BY <1>1, <3>1, <3>7 DEF First
      <4>2. WriteAsked(Outcome("ASYNC", w, f.bs, 0))
        BY <1>6, <3>1, <3>4, <4>1, GoesOn DEF b
      <4>3. WriteAsked(Outcome("ASYNC", w, on, 0))
        BY <1>6, <3>1, <3>3, <3>4, <4>1, GoesOn DEF b
      <4> QED BY <3>7, <4>2, <4>3
    <3>8. WriteAsked(Outcome("DONE", e, f.bs, 0))
      BY <1>6, <3>1, <3>5, EmptyGens, GoesOn DEF b
    <3>9. WriteAsked(Outcome("MORE", m, f.bs, 0))
      BY <1>6, <3>1, <3>6, EmptyGens, GoesOn DEF b
    <3> QED BY <3>2, <3>7, <3>8, <3>9
  <2>3. CASE \E e \in {"ERR", "OFFLINE"} : o = Outcome(e, [trk EXCEPT !.err = TRUE], bufs, 1)
    <3> DEFINE t == [trk EXCEPT !.err = TRUE]
    <3>1. PICK e \in {"ERR", "OFFLINE"} : o = Outcome(e, t, bufs, 1)
      BY <2>3
    <3>2. SameWish(t, trk) /\ SamePause(t, trk) /\ t.din = trk.din
      BY <1>1 DEF TrkType, SameWish, SamePause
    <3> HIDE DEF t
    <3>3. WriteAsked(Outcome(e, t, bufs, 1))
      BY <1>6, <3>2, GoesOn
    <3> QED BY <3>1, <3>3
  <2> QED BY <2>1, <2>2, <2>3
<1> QED BY <1>3, <1>4, <1>5, <1>6

\* What a call of the write functions leaves, unless it ends the track: in a
\* run (r is not ASYNC) or waiting.
LEMMA AskWritten ==
  ASSUME OutputReady, AskInv, NEW o, WriteGood(o), WriteAsked(o), ~trk.stop,
         env' = env, task' = task,
         SameWish(trk', o.t), SamePause(trk', o.t), trk'.stream = o.t.stream,
         trk'.ctx = o.t.ctx, trk'.gone = o.t.gone, trk'.hold = o.t.hold,
         trk'.st = o.t.st \/ (~trk.clear /\ ~trk.pause),
         trk'.din = o.t.din \/ trk'.din = <<>>,
         trk'.pc = "async" <=> o.r = "ASYNC",
         trk.clear /\ trk.sreq /\ "ac" \in trk.gone /\ ("ui" \in trk.gone => "src" \in trk.gone)
           => trk'.pc \in {"ui", "fin"},
         Drained(o.bs, bufs')
  PROVE  AskInv'
<1>1. Running /\ PlayInv /\ trk.pc = "out"
  BY DEF OutputReady, Writing
<1>2. /\ trk \in TrkType /\ SilentWhilePaused /\ NoTaskInRun /\ Waits
      /\ (env.src = "file" => ClearPending /\ DeviceFresh /\ ChainFresh)
      /\ bufs \in Seq(BufType) /\ QueuesAgree(bufs) /\ OutputOpen
  BY <1>1, AskedOf
<1>3. /\ Kept(bufs, o.bs) /\ SameFormats(o.t, trk) /\ o.t.stream = trk.stream
      /\ o.t.ctx = trk.ctx /\ o.t.gone = trk.gone /\ o.t.paused = trk.paused
  BY DEF WriteGood
<1>4. trk.stream \in 1..Len(bufs) /\ trk.stream \in 1..Len(o.bs)
  <2>1. trk.stream \in 1..Len(bufs)
    BY DEF OutputReady, OutputOpen, Live
  <2>2. Len(bufs) \in Nat /\ Len(o.bs) \in Nat /\ Len(o.bs) >= Len(bufs)
    BY <1>3 DEF Kept
  <2> QED BY <2>1, <2>2
<1> DEFINE q == bufs'[trk.stream].q
<1>5. GensOf(q) \subseteq GensOf(o.bs[trk.stream].q)
      /\ (bufs'[trk.stream].on => o.bs[trk.stream].on)
  BY <1>4 DEF Drained
<1>6. /\ trk'.stream = trk.stream /\ trk'.ctx = trk.ctx /\ trk'.gone = trk.gone
      /\ trk'.hold = trk.hold /\ trk'.paused = trk.paused /\ ~task'
  BY <1>1, <1>2, <1>3 DEF SameFormats, SamePause, NoTaskInRun
<1> HIDE DEF q
<1>7. NoTaskInRun'
  BY <1>6 DEF NoTaskInRun
<1>8. CASE trk.clear
  <2>1. /\ o.r = (IF trk.sreq THEN "MORE" ELSE "AGAIN")
        /\ o.t = [trk EXCEPT !.clear = FALSE] /\ o.bs = ClearBuf(trk.stream)
    BY <1>8 DEF WriteAsked
  <2>2. /\ o.t.clear = FALSE /\ o.t.pause = trk.pause /\ o.t.loud = trk.loud
        /\ o.t.st = trk.st /\ o.t.sreq = trk.sreq /\ o.t.useek = trk.useek /\ o.t.gen = trk.gen
    BY <1>2, <2>1 DEF TrkType
  <2>3. /\ trk'.clear = FALSE /\ trk'.pause = trk.pause /\ trk'.loud = trk.loud
        /\ trk'.st = trk.st /\ trk'.sreq = trk.sreq /\ trk'.useek = trk.useek
        /\ trk'.gen = trk.gen
    BY <1>8, <2>2 DEF SameWish, SamePause
  <2>4. SilentWhilePaused'
    BY <1>1, <1>2, <1>6, <2>3 DEF SilentWhilePaused
  <2>5. GensOf(q) = {}
    <3>1. ClearBuf(trk.stream)[trk.stream].q = <<>>
      BY <1>2, <1>4, StoppedOrCleared
    <3> QED BY <1>5, <2>1, <3>1, EmptyGens
  <2>6. ASSUME env.src = "file", trk'.pc # "fin"
        PROVE  ClearPending' /\ DeviceFresh' /\ ChainFresh'
    <3>1. trk.sreq /\ trk.useek /\ "ac" \in trk.gone
      BY <1>2, <1>8, <2>6 DEF ClearPending
    <3>2. "ui" \in trk.gone => "src" \in trk.gone
      BY <1>2, <2>6 DEF ChainFresh
    <3>3. ClearPending' /\ DeviceFresh'
      BY <1>6, <2>3, <2>5 DEF ClearPending, DeviceFresh, q
    <3>4. ChainFresh'
      BY <1>6, <1>8, <2>3, <2>6, <3>1, <3>2 DEF ChainFresh
    <3> QED BY <3>3, <3>4
  <2> QED BY <1>7, <2>4, <2>6 DEF AskInv, Running
<1>9. CASE ~trk.clear /\ trk.pause
  <2>1. /\ o.r = "ASYNC" /\ o.t = [trk EXCEPT !.pause = FALSE] /\ o.bs = StopBuf(trk.stream)
    BY <1>9 DEF WriteAsked
  <2>2. SameWish(o.t, trk) /\ o.t.st = trk.st /\ o.t.pause = FALSE /\ o.t.din = trk.din
    BY <1>2, <2>1 DEF TrkType, SameWish
  <2>3. SameWish(trk', trk) /\ trk'.st = trk.st /\ trk'.pause = FALSE /\ trk'.pc = "async"
    BY <1>9, <2>1, <2>2 DEF SameWish, SamePause
  <2>4. /\ Drained(bufs, o.bs) /\ ~o.bs[trk.stream].on
    BY <1>2, <1>4, <2>1, StoppedOrCleared
  <2>5. SilentWhilePaused'
    BY <1>2, <1>5, <1>6, <2>3, <2>4 DEF SilentWhilePaused, SameWish
  <2>6. GensOf(q) \subseteq GensOf(bufs[trk.stream].q)
    BY <1>4, <1>5, <2>4 DEF Drained
  <2>7. GensOf(trk'.din) \subseteq GensOf(trk.din)
    BY <2>2, EmptyGens
  <2>8. ASSUME env.src = "file"
        PROVE  ClearPending' /\ DeviceFresh' /\ ChainFresh'
    <3>1. ~trk.sreq /\ "ac" \in trk.gone
      BY <1>1, <1>2, <1>9, <2>8 DEF ChainFresh
    <3>2. ClearPending' /\ DeviceFresh'
      BY <1>2, <1>6, <1>9, <2>3, <2>6, <2>8 DEF ClearPending, DeviceFresh, SameWish, q
    <3>3. ChainFresh'
      BY <1>2, <1>6, <1>9, <2>3, <2>7, <2>8, <3>1 DEF ChainFresh, SameWish
    <3> QED BY <3>2, <3>3
  <2> QED BY <1>7, <2>5, <2>8 DEF AskInv
<1>10. CASE ~trk.clear /\ ~trk.pause
  <2>1. /\ SameWish(o.t, trk) /\ SamePause(o.t, trk)
        /\ GensOf(o.t.din) \subseteq GensOf(trk.din)
        /\ GensOf(o.bs[trk.stream].q)
             \subseteq GensOf(bufs[trk.stream].q) \union GensOf(trk.din)
        /\ (o.r = "ASYNC" => "ac" \in trk.gone)
    BY <1>10 DEF WriteAsked
  <2>2. SameWish(trk', trk) /\ SamePause(trk', trk)
    BY <2>1 DEF SameWish, SamePause
  <2>3. ~(trk.paused /\ ~trk.loud)
    BY <1>1, <1>2, <1>10 DEF SilentWhilePaused
  <2>4. SilentWhilePaused'
    BY <2>2, <2>3 DEF SilentWhilePaused, SameWish, SamePause
  <2>5. ASSUME env.src = "file"
        PROVE  ClearPending' /\ DeviceFresh' /\ ChainFresh'
    <3>1. ~trk.sreq
      BY <1>1, <1>2, <1>10, <2>5 DEF ChainFresh
    <3>2. GensOf(trk.din) \subseteq {trk.gen}
      BY <1>2, <1>10, <2>5, <3>1 DEF ChainFresh
    <3>3. GensOf(trk'.din) \subseteq {trk.gen}
      BY <2>1, <3>2, EmptyGens
    <3>4. ClearPending'
      BY <1>10, <2>2 DEF ClearPending, SameWish
    <3>5. DeviceFresh'
      BY <1>2, <1>5, <1>6, <1>10, <2>1, <2>2, <2>5, <3>2 DEF DeviceFresh, SameWish, q
    <3>6. ChainFresh'
      BY <1>2, <1>6, <1>10, <2>1, <2>2, <2>5, <3>1, <3>3 DEF ChainFresh, SameWish, SamePause
    <3> QED BY <3>4, <3>5, <3>6
  <2> QED BY <1>7, <2>4, <2>5 DEF AskInv
<1> QED BY <1>8, <1>9, <1>10

\* The write functions with an open output.
LEMMA AskWrite ==
  ASSUME OutputReady, AskInv, NEW o, WriteGood(o), WriteAsked(o), WriteOutput(o)
  PROVE  AskInv'
<1>1. /\ bufs' = o.bs /\ trk' = Returned(o) /\ UNCHANGED <<env, mod, task>>
  BY DEF WriteOutput
<1>2. /\ o.t \in TrkType /\ Kept(bufs, o.bs) /\ SameFormats(o.t, trk) /\ o.t.gone = trk.gone
      /\ o.t.pc = "out"
  BY DEF WriteGood
<1>3. Drained(o.bs, bufs')
  BY <1>1 DEF Drained
<1>4. trk.stop => o.r = "FIN"
  BY DEF WriteAsked
<1>5. CASE o.r = "MORE"
  <2>1. trk' = Back(o.t, "out")
    BY <1>1, <1>5 DEF Returned
  <2>2. /\ SameFormats(trk', o.t) /\ SameStream(trk', o.t) /\ SamePause(trk', o.t)
        /\ SameWish(trk', o.t) /\ trk'.gone = o.t.gone /\ trk'.pc # "async"
        /\ (trk'.din = o.t.din \/ trk'.din = <<>>)
        /\ ("ac" \in o.t.gone /\ ("ui" \in o.t.gone => "src" \in o.t.gone) =>
              trk'.pc \in {"ui", "fin"})
    BY <1>2, <2>1, BackFrom
  <2> QED BY <1>1, <1>2, <1>3, <1>4, <1>5, <2>2, AskWritten DEF SameFormats, SameStream
<1>6. CASE o.r = "ASYNC"
  <2>1. trk' = [o.t EXCEPT !.pc = "async"]
    BY <1>1, <1>6 DEF Returned
  <2>2. /\ SameFormats(trk', o.t) /\ SameStream(trk', o.t) /\ SamePause(trk', o.t)
        /\ SameWish(trk', o.t) /\ trk'.gone = o.t.gone /\ trk'.pc = "async"
        /\ trk'.din = o.t.din
    BY <1>2, <2>1 DEF TrkType, SameFormats, SameStream, SamePause, SameWish
  <2>3. ~trk.clear
    BY <1>6 DEF WriteAsked
  <2> QED BY <1>1, <1>2, <1>3, <1>4, <1>6, <2>2, <2>3, AskWritten DEF SameFormats, SameStream
<1>7. CASE o.r = "AGAIN"
  <2>1. trk' = o.t
    BY <1>1, <1>7 DEF Returned
  <2>2. SamePause(o.t, o.t) /\ SameWish(o.t, o.t)
    BY DEF SamePause, SameWish
  <2>3. ~(trk.clear /\ trk.sreq)
    BY <1>7 DEF WriteAsked
  <2> QED BY <1>1, <1>2, <1>3, <1>4, <1>7, <2>1, <2>2, <2>3, AskWritten
<1>8. CASE o.r \notin {"MORE", "ASYNC", "AGAIN"}
  <2>1. trk' = [o.t EXCEPT !.pc = "fin"]
    BY <1>1, <1>8 DEF Returned
  <2>2. trk'.pc = "fin"
    BY <1>2, <2>1 DEF TrkType
  <2> QED BY <2>2, EndedAsksNothing
<1> QED BY <1>5, <1>6, <1>7, <1>8

\* wasapi_write after an error.
LEMMA AskDrop ==
  ASSUME OutputReady, AskInv, NEW o \in Write(trk, trk.stream), WriteGood(o), WriteAsked(o),
         o.r \in {"ERR", "OFFLINE"}, bufs' = FreeBuf(mod.out),
         trk' = IF o.r = "OFFLINE" THEN Reopens(o.t) ELSE Returned(o),
         UNCHANGED <<env, task>>
  PROVE  AskInv'
<1>1. o.t \in TrkType /\ o.t.pc = "out"
  BY DEF WriteGood
<1>2. ~trk.stop /\ ~trk.clear /\ ~trk.pause
  BY DEF WriteAsked
<1>3. o.bs = bufs
  <2>1. o = Fed(trk, trk.stream) \/ o.bs = bufs
    BY <1>2 DEF Write, Outcome
  <2>2. Fed(trk, trk.stream).r \in {"ASYNC", "DONE", "MORE"}
    BY DEF Fed, Outcome
  <2> QED BY <2>1, <2>2
<1>4. Drained(o.bs, bufs')
  <2>1. mod.out \in Nat /\ bufs \in Seq(BufType) /\ QueuesAgree(bufs)
    BY DEF OutputReady, PlayTypes, ModType
  <2> QED BY <1>3, <2>1, PlayedOrFreed
<1>5. CASE o.r = "ERR"
  <2>1. trk' = [o.t EXCEPT !.pc = "fin"]
    BY <1>5 DEF Returned
  <2>2. trk'.pc = "fin"
    BY <1>1, <2>1 DEF TrkType
  <2> QED BY <2>2, EndedAsksNothing
<1>6. CASE o.r = "OFFLINE"
  <2>1. trk' = [o.t EXCEPT !.st = "OPEN"]
    BY <1>6 DEF Reopens
  <2>2. /\ SamePause(trk', o.t) /\ SameWish(trk', o.t) /\ trk'.gone = o.t.gone
        /\ trk'.din = o.t.din /\ trk'.hold = o.t.hold /\ trk'.pc = "out"
        /\ trk'.stream = o.t.stream /\ trk'.ctx = o.t.ctx
    BY <1>1, <2>1 DEF TrkType, SamePause, SameWish
  <2> QED BY <1>2, <1>4, <1>6, <2>2, AskWritten
<1> QED BY <1>5, <1>6

\* alsa_write, pulse_write, dsnd_write, wasapi_write.
LEMMA AskOutput ==
  ASSUME PlayInv, AskInv, AlsaWrite \/ PulseWrite \/ DsndWrite \/ WasapiWrite
  PROVE  AskInv'
<1>1. ASSUME Opening, NEW c, OpenOutput(c),
             Unopened => OpenGood(c)
      PROVE  AskInv'
  BY <1>1, AtOpening, AskOpen
<1>2. ASSUME Writing, NEW o \in Write(trk, trk.stream), WriteOutput(o)
      PROVE  AskInv'
  BY <1>2, AtWriting, WritesGood, WritesAsked, AskWrite
<1>3. CASE AlsaWrite
  <2>1. Shared
    BY <1>3 DEF AlsaWrite, Shared
  <2>2. CASE Opening /\ \E c \in AlsaCreate(trk, TryOpen) : OpenOutput(c)
    BY <1>1, <2>1, <2>2, CreateKnowingGood DEF AlsaCreate
  <2> QED BY <1>2, <1>3, <2>2 DEF AlsaWrite
<1>4. CASE PulseWrite
  <2>1. Shared
    BY <1>4 DEF PulseWrite, Shared
  <2>2. CASE Opening /\ \E c \in PulseCreate(trk, TryOpen) : OpenOutput(c)
    BY <1>1, <2>1, <2>2, PulseCreateGood
  <2> QED BY <1>2, <1>4, <2>2 DEF PulseWrite
<1>5. CASE DsndWrite
  <2>1. ~Shared
    BY <1>5 DEF DsndWrite, Shared
  <2>2. CASE Opening /\ \E c \in DsndCreate(trk, TryOpen) : OpenOutput(c)
    BY <1>1, <2>1, <2>2, DsndCreateGood
  <2> QED BY <1>2, <1>5, <2>2 DEF DsndWrite
<1>6. CASE WasapiWrite
  <2>1. Shared
    BY <1>6 DEF WasapiWrite, Shared
  <2>2. CASE Opening /\ \E c \in WasapiCreate(trk, TryOpen) : OpenOutput(c)
    BY <1>1, <2>1, <2>2, CreateKnowingGood DEF WasapiCreate
  <2>3. ASSUME Writing, NEW o \in Write(trk, trk.stream), o.r \in {"ERR", "OFFLINE"},
               bufs' = FreeBuf(mod.out),
               trk' = IF o.r = "OFFLINE" THEN Reopens(o.t) ELSE Returned(o),
               UNCHANGED <<env, task>>
        PROVE  AskInv'
    <3>1. OutputReady /\ WriteGood(o) /\ WriteAsked(o)
      BY <2>3, AtWriting, WritesGood, WritesAsked
    <3> QED BY <2>3, <3>1, AskDrop
  <2> QED BY <1>2, <1>6, <2>2, <2>3 DEF WasapiWrite
<1> QED BY <1>3, <1>4, <1>5, <1>6

\* The invariant of pauses and seeks holds in every reachable state.
THEOREM AskInvariant ==
  Spec => []AskInv
<1>1. Init => AskInv
  BY DEF Init, NoTrack, AskInv, NoTaskInRun, Running
<1>2. PlayInv /\ AskInv /\ [Next]_vars => AskInv'
  <2> SUFFICES ASSUME PlayInv, AskInv, [Next]_vars PROVE AskInv'
    OBVIOUS
  <2>1. bufs \in Seq(BufType) /\ QueuesAgree(bufs) /\ mod.out \in Nat
    BY DEF PlayInv, PlayTypes, ModType
  <2>2. CASE \E f \in Formats, il \in BOOLEAN : StartTrack(f, il)
    BY <2>2, AskStart
  <2>3. CASE Source
    BY <2>3, AskSource
  <2>4. CASE TuiPlayProcess \/ GtrkProcess
    BY <2>4, AskUi DEF TuiPlayProcess, GtrkProcess
  <2>5. CASE AutoConv
    BY <2>5, AskAutoConv
  <2>6. CASE AlsaWrite \/ PulseWrite \/ DsndWrite \/ WasapiWrite
    BY <2>6, AskOutput
  <2>7. CASE AlsaClose \/ PulseClose \/ WasapiClose \/ DsndClose
    <3>1. trk' = NoTrack
      BY <2>7 DEF AlsaClose, PulseClose, WasapiClose, DsndClose, Closes
    <3> QED BY <3>1, EndedAsksNothing DEF NoTrack
  <2>8. CASE Tick
    BY <2>8, AskTick
  <2>9. CASE CloseTick
    <3>1. bufs' = FreeBuf(mod.out) /\ UNCHANGED <<env, trk, task>>
      BY <2>9 DEF CloseTick
    <3>2. Drained(bufs, bufs')
      BY <2>1, <3>1, PlayedOrFreed
    <3> QED BY <3>1, <3>2, AskDrained
  <2>10. CASE RunTask
    BY <2>10, AskRunTask
  <2>11. CASE TuiPlaySeek \/ GtrkSeek
    BY <2>11, AskSeek DEF TuiPlaySeek, GtrkSeek
  <2>12. CASE TuiPlayPauseResume \/ GtrkPlayPause
    BY <2>12, AskPause DEF TuiPlayPauseResume, GtrkPlayPause
  <2>13. CASE StopTrack
    BY <2>13, AskStop
  <2>14. ASSUME NEW b \in 1..Len(bufs), DevicePlays(b)
         PROVE  AskInv'
    <3>1. UNCHANGED <<env, trk, task>>
      BY <2>14 DEF DevicePlays
    <3>2. Drained(bufs, bufs')
      BY <2>1, <2>14, PlayedOrFreed
    <3> QED BY <3>1, <3>2, AskDrained
  <2>15. CASE UNCHANGED vars
    <3>1. UNCHANGED <<env, trk, task>> /\ bufs' = bufs
      BY <2>15 DEF vars
    <3>2. Drained(bufs, bufs')
      BY <3>1 DEF Drained
    <3> QED BY <3>1, <3>2, AskDrained
  <2>16. CASE Rest
    BY <2>15, <2>16 DEF Rest
  <2> QED BY <2>2, <2>3, <2>4, <2>5, <2>6, <2>7, <2>8, <2>9, <2>10, <2>11, <2>12, <2>13,
             <2>14, <2>15, <2>16 DEF Next, Run
<1> QED BY <1>1, <1>2, PlayInvariant, PTL DEF Spec

\* Nothing is played while a track is paused, and after a seek nothing of what
\* was buffered before it (audio_write with the commands of tui/play.h and
\* gui/track-playback.h).
THEOREM CommandsAreObeyed ==
  Spec => []PlaysAsAsked
<1>1. PlayInv /\ AskInv => PlaysAsAsked
  <2> SUFFICES ASSUME PlayInv, AskInv PROVE PlaysAsAsked
    OBVIOUS
  <2>1. ASSUME trk.pc = "async"
        PROVE  SilentWhilePaused /\ Waits /\ (env.src = "file" => DeviceFresh)
    BY <2>1, AskedOf DEF Running
  <2>2. PausedStaysSilent
    BY <2>1 DEF PausedStaysSilent, SilentWhilePaused, Waits, Buf
  <2>3. SeekDropsOld
    BY <2>1 DEF SeekDropsOld, DeviceFresh, GensOf, Buf
  <2> QED BY <2>2, <2>3 DEF PlaysAsAsked
<1> QED BY <1>1, PlayInvariant, AskInvariant, PTL

=============================================================================
