--------------------------- MODULE PositionProofs ---------------------------
(***************************************************************************)
(* Positions on the monitors.                                              *)
(*                                                                         *)
(* Of the viewers' pointers: for any sizes, rotation and place of the      *)
(* monitor the state of ViewerDesktop is well typed, a position leads to   *)
(* what is shown there, and the last request for a size stands.            *)
(*                                                                         *)
(* Of the streamer's cursor: type correctness of CursorFollow and the      *)
(* landing of relocation bursts, for any number and layout of monitors,    *)
(* any step size and step count.                                           *)
(***************************************************************************)
EXTENDS ViewerDesktop, CursorFollow, TLAPS

-----------------------------------------------------------------------------
(* Pointers and sizes of ViewerDesktop. *)

(* A truncated quotient, and one below where it is exact. *)
LEMMA TimesType == \A x, y \in Nat : x * y \in Nat
OBVIOUS

LEMMA Quotient ==
  ASSUME NEW a \in Nat, NEW d \in Nat \ {0}
  PROVE  /\ a \div d \in Nat
         /\ (a \div d) * d <= a
         /\ a < (a \div d) * d + d
         /\ a % d = 0 => (a \div d) * d = a
OBVIOUS

LEMMA ScaledBounds ==
  ASSUME NEW n \in Nat, NEW num \in Nat, NEW den \in Nat \ {0},
         NEW v \in Scaled(n, num, den)
  PROVE  /\ v \in Nat
         /\ v * den <= n * num
         /\ n * num <= v * den + den
<1> DEFINE a == n * num
<1> DEFINE q == a \div den
<1>1. a \in Nat
  BY TimesType
<1>2. v = q \/ (v = q - 1 /\ q > 0 /\ a % den = 0)
  BY DEF Scaled
<1> HIDE DEF a
<1>3. /\ q \in Nat /\ q * den <= a /\ a < q * den + den
      /\ a % den = 0 => q * den = a
  BY <1>1, Quotient
<1> HIDE DEF q
<1>4. CASE v = q
  <2>1. q * den \in Nat
    BY <1>3, TimesType
  <2>2. a <= q * den + den
    BY <1>1, <1>3, <2>1
  <2> QED BY <1>3, <1>4, <2>2 DEF a
<1>5. CASE v = q - 1 /\ q > 0 /\ a % den = 0
  <2>1. v \in Nat
    BY <1>3, <1>5
  <2>2. v * den = q * den - den /\ q * den = a
    BY <1>3, <1>5
  <2>3. v * den <= a /\ a <= v * den + den
    BY <1>1, <2>2
  <2> QED BY <2>1, <2>3 DEF a
<1> QED BY <1>2, <1>4, <1>5

(* A request is followed within its bounds and with the ratio asked for.   *)
LEMMA FitBounds ==
  ASSUME NEW r \in Proper, NEW a \in Proper, NEW s \in Fit(r, a)
  PROVE  /\ s \in Size
         /\ s.w <= r.w /\ s.h <= r.h
         /\ Close(s, a)
         /\ s \in Proper \/ TooSmall(r, a)
<1>1. /\ r.w \in Nat \ {0} /\ r.h \in Nat \ {0}
      /\ a.w \in Nat \ {0} /\ a.h \in Nat \ {0}
  BY DEF Proper
<1> DEFINE wide == r.w * a.h - r.h * a.w
<1>2. r.w * a.h \in Nat /\ r.h * a.w \in Nat
  BY <1>1, TimesType
<1>3. CASE wide >= 0 /\ s \in {[w |-> n, h |-> r.h] : n \in Scaled(r.h, a.w, a.h)}
  <2>1. PICK n \in Scaled(r.h, a.w, a.h) : s = [w |-> n, h |-> r.h]
    BY <1>3
  <2>2. n \in Nat /\ n * a.h <= r.h * a.w /\ r.h * a.w <= n * a.h + a.h
    BY <1>1, ScaledBounds
  <2>3. n * a.h <= r.w * a.h
    BY <1>1, <1>2, <1>3, <2>2, TimesType
  <2>4. n <= r.w
    BY <1>1, <2>2, <2>3
  <2>5. r.h * a.w - a.h <= n * a.h /\ n * a.h <= r.h * a.w
    BY <1>1, <1>2, <2>2, TimesType
  <2>6. n = 0 => r.h * a.w <= a.h
    BY <1>1, <2>2
  <2> QED BY <1>1, <2>1, <2>2, <2>4, <2>5, <2>6 DEF Size, Proper, Close, TooSmall
<1>4. CASE wide <= 0 /\ s \in {[w |-> r.w, h |-> n] : n \in Scaled(r.w, a.h, a.w)}
  <2>1. PICK n \in Scaled(r.w, a.h, a.w) : s = [w |-> r.w, h |-> n]
    BY <1>4
  <2>2. n \in Nat /\ n * a.w <= r.w * a.h /\ r.w * a.h <= n * a.w + a.w
    BY <1>1, ScaledBounds
  <2>3. n * a.w <= r.h * a.w
    BY <1>1, <1>2, <1>4, <2>2, TimesType
  <2>4. n <= r.h
    BY <1>1, <2>2, <2>3
  <2>5. r.w * a.h - a.w <= n * a.w /\ n * a.w <= r.w * a.h
    BY <1>1, <1>2, <2>2, TimesType
  <2>6. n = 0 => r.w * a.h <= a.w
    BY <1>1, <2>2
  <2> QED BY <1>1, <2>1, <2>2, <2>4, <2>5, <2>6 DEF Size, Proper, Close, TooSmall
<1>5. wide \in Int
  BY <1>2
<1> HIDE DEF wide
<1> QED BY <1>3, <1>4, <1>5 DEF Fit, wide

(* A position leads to the unit of the device that is shown there.         *)
LEMMA AxisBounds ==
  ASSUME NEW p \in Nat, NEW n \in Nat \ {0}, NEW o \in Nat,
         NEW m \in Nat \ {0}, NEW d \in Nat \ {0},
         NEW v \in Axis(p, n, o, m, d)
  PROVE  v \in Nat /\ OnAxis(v, p, n, o, m, d)
<1> DEFINE at == o * n + p * m
<1>1. d * n \in Nat \ {0} /\ at \in Nat /\ PointerMax \in Nat \ {0}
  BY TimesType, KindAssumption
<1>2. /\ v \in Nat
      /\ v * (d * n) <= PointerMax * at
      /\ PointerMax * at <= v * (d * n) + d * n
  BY <1>1, ScaledBounds DEF Axis
<1>3. (v + 1) * d * n = v * (d * n) + d * n /\ v * d * n = v * (d * n)
  BY <1>2
<1>4. PointerMax * at < PointerMax * (o * n + (p + 1) * m)
  <2>1. o * n + (p + 1) * m = at + m
    OBVIOUS
  <2> HIDE DEF at
  <2>2. PointerMax * (at + m) = PointerMax * at + PointerMax * m
    BY <1>1
  <2>3. PointerMax * m \in Nat \ {0} /\ PointerMax * at \in Nat
    BY <1>1, TimesType
  <2> QED BY <2>1, <2>2, <2>3
<1>5. /\ v * (d * n) \in Nat /\ PointerMax * at \in Nat
      /\ PointerMax * (o * n + (p + 1) * m) \in Nat
  BY <1>1, <1>2, TimesType
<1> HIDE DEF at
<1>6. v * d * n < PointerMax * (o * n + (p + 1) * m)
  BY <1>2, <1>3, <1>4, <1>5
<1>7. (v + 1) * d * n >= PointerMax * at
  BY <1>1, <1>2, <1>3, <1>5
<1> QED BY <1>2, <1>6, <1>7 DEF OnAxis, at

(* A frame in the books is one of the mode that is shown, while a streamer *)
(* may be told of pointers.                                                *)
FrameOfMode ==
  stream # "off" /\ frame # Zero => frame = Shown(mode)

ViewInv == DesktopTypeOK /\ FrameOfMode

LEMMA ViewConstants ==
  /\ Modes \subseteq Proper /\ Requests \subseteq Proper
         /\ Default \in Size /\ DesktopSize \in Size /\ Monitor \in Size
         /\ PointerMax \in Nat \ {0} /\ Named \in BOOLEAN
         /\ None \notin Size /\ None \notin Proper /\ None \notin Request
         /\ \A m \in Modes : PlaneSizes(m) \subseteq Proper
BY SizesAssumption, KindAssumption DEF Size, Proper

LEMMA ShownProper ==
  ASSUME NEW m \in Proper
  PROVE  Shown(m) \in Proper
BY DEF Shown, Proper

LEMMA GoneType ==
  ASSUME DesktopTypeOK, NEW C, Gone(C)
  PROVE  /\ clients' \subseteq Clients
         /\ seen' \in [Clients -> Proper \cup {None}]
         /\ \A c \in Clients : seen'[c] # None => c \in clients'
         /\ signal' \in {"none", "first", "last"}
BY DEF DesktopTypeOK, Gone

LEMMA FrameType ==
  ASSUME DesktopTypeOK, NEW p \in PlaneSizes(mode)
  PROVE  /\ SizeOfFrame(p) \in Proper /\ SizeOfFrame(p) \in Size
         /\ Shown(p) \in Proper
<1>1. Shown(p) \in Proper
  BY ViewConstants, ShownProper DEF DesktopTypeOK
<1>2. size \in Size
  BY DEF DesktopTypeOK
<1> QED BY <1>1, <1>2 DEF SizeOfFrame, Proper, Size

LEMMA ModeType ==
  ASSUME DesktopTypeOK
  PROVE  Shown(mode) \in Proper /\ Shown(mode) \in Size /\ FrameSize = Shown(mode)
<1>1. Shown(mode) \in Proper
  BY ViewConstants, ShownProper DEF DesktopTypeOK
<1> QED BY <1>1 DEF FrameSize, Proper, Size

LEMMA ViewInit ==
  ASSUME DesktopInit
  PROVE  ViewInv
<1>1. fb \in Proper
  BY ViewConstants DEF DesktopInit, Proper, Size
<1>2. /\ Zero \in Size /\ Square \in Proper
  BY DEF Zero, Square, Size, Proper
<1>3. DesktopTypeOK
  BY <1>1, <1>2, ViewConstants DEF DesktopInit, DesktopTypeOK
<1> QED BY <1>3 DEF DesktopInit, ViewInv, FrameOfMode

LEMMA SpotType ==
  ASSUME NEW s \in Proper \cup {None}, NEW p \in Spots(s)
  PROVE  p \in Size
<1>1. s # None
  BY DEF Spots
<1>2. s.w \in Nat \ {0} /\ s.h \in Nat \ {0}
  BY <1>1 DEF Proper
<1>3. s.w \div 2 \in Nat /\ s.h \div 2 \in Nat /\ s.w - 1 \in Nat /\ s.h - 1 \in Nat
  BY <1>2
<1> QED BY <1>1, <1>3 DEF Spots, Size

(* The event of a pointer, on both axes.                                   *)
LEMMA PointerBounds ==
  ASSUME DesktopTypeOK, NEW c \in Clients,
         NEW p \in Spots(seen[c]), Pointer(c, p)
  PROVE  /\ sent'.by = c /\ sent'.at = p
         /\ sent' \in [by : Clients, at : Size, x : Int, y : Int]
         /\ frame \in Proper =>
              /\ OnAxis(sent'.x, p.w, fb.w, Monitor.w, frame.w, Spread.w)
              /\ OnAxis(sent'.y, p.h, fb.h, Monitor.h, frame.h, Spread.h)
<1>1. p \in Size
  BY SpotType DEF DesktopTypeOK
<1>2. PICK x \in Axis(p.w, fb.w, Monitor.w, frame.w, Spread.w),
           y \in Axis(p.h, fb.h, Monitor.h, frame.h, Spread.h) :
        sent' = [by |-> c, at |-> p, x |-> x, y |-> y]
  BY DEF Pointer
<1>3. /\ Spread.w \in Nat \ {0} /\ Spread.h \in Nat \ {0}
      /\ fb.w \in Nat \ {0} /\ fb.h \in Nat \ {0}
      /\ frame.w \in Nat /\ frame.h \in Nat
      /\ Monitor.w \in Nat /\ Monitor.h \in Nat
      /\ p.w \in Nat /\ p.h \in Nat
      /\ PointerMax \in Nat \ {0}
  <2>1. Monitor \in Size /\ DesktopSize \in Size /\ frame \in Size
        /\ fb \in Proper /\ PointerMax \in Nat \ {0}
    BY ViewConstants DEF DesktopTypeOK
  <2>2. Spread.w # 0 /\ Spread.h # 0
    BY DEF Pointer
  <2>3. Spread.w \in Nat /\ Spread.h \in Nat
    BY <2>1 DEF Spread, Whole, Size
  <2> QED BY <1>1, <2>1, <2>2, <2>3 DEF Size, Proper
<1>4. x \in Nat /\ y \in Nat
  <2>1. /\ Spread.w * fb.w \in Nat \ {0} /\ Spread.h * fb.h \in Nat \ {0}
        /\ Monitor.w * fb.w + p.w * frame.w \in Nat
        /\ Monitor.h * fb.h + p.h * frame.h \in Nat
    BY <1>3, TimesType
  <2> QED BY <1>3, <2>1, ScaledBounds DEF Axis
<1>5. ASSUME frame \in Proper
      PROVE  /\ OnAxis(x, p.w, fb.w, Monitor.w, frame.w, Spread.w)
             /\ OnAxis(y, p.h, fb.h, Monitor.h, frame.h, Spread.h)
  <2>1. frame.w \in Nat \ {0} /\ frame.h \in Nat \ {0}
    BY <1>5 DEF Proper
  <2> QED BY <1>3, <2>1, AxisBounds
<1> QED BY <1>1, <1>2, <1>4, <1>5

LEMMA PointerSteps ==
  ASSUME ViewInv, NEW c \in Clients,
         NEW p \in Spots(seen[c]), Pointer(c, p)
  PROVE  DesktopTypeOK' /\ FrameOfMode' /\ PointsAtPixel'
<1>1. /\ sent'.by = c /\ sent'.at = p
      /\ sent' \in [by : Clients, at : Size, x : Int, y : Int]
      /\ frame \in Proper =>
           /\ OnAxis(sent'.x, p.w, fb.w, Monitor.w, frame.w, Spread.w)
           /\ OnAxis(sent'.y, p.h, fb.h, Monitor.h, frame.h, Spread.h)
  BY PointerBounds DEF ViewInv
<1>2. /\ UNCHANGED <<mode, stream, frame, size, aspect, fb, hasBuf, clients, seen,
                     signal, named, label, plane, asked>>
      /\ stream # "off"
  BY DEF Pointer, viewers, names, history
<1>3. DesktopTypeOK'
  BY <1>1, <1>2 DEF ViewInv, DesktopTypeOK
<1>4. FrameOfMode'
  BY <1>2 DEF ViewInv, FrameOfMode, Shown, Zero
<1>5. PointsAtPixel'
  <2> SUFFICES ASSUME frame # Zero PROVE PointsAtPixel'
    BY <1>2 DEF PointsAtPixel, Zero
  <2>1. frame = Shown(mode)
    BY <1>2 DEF ViewInv, FrameOfMode
  <2>2. frame \in Proper
    BY <2>1, ModeType DEF ViewInv
  <2>3. /\ OnAxis(sent'.x, sent'.at.w, fb.w, Monitor.w, frame.w,
                       Whole(DesktopSize.w, Monitor.w, frame.w))
        /\ OnAxis(sent'.y, sent'.at.h, fb.h, Monitor.h, frame.h,
                       Whole(DesktopSize.h, Monitor.h, frame.h))
    BY <1>1, <2>2 DEF Spread
  <2> QED BY <1>2, <2>1, <2>3 DEF PointsAtPixel, Shown
<1> QED BY <1>3, <1>4, <1>5

LEMMA OtherSteps ==
  ASSUME ViewInv, DesktopNext,
         ~ \E c \in Clients : \E p \in Spots(seen[c]) : Pointer(c, p)
  PROVE  DesktopTypeOK' /\ FrameOfMode' /\ sent' = None
<1> USE DEF DesktopTypeOK, Quiet, viewers, names, history
<1> DEFINE Fine == DesktopTypeOK' /\ FrameOfMode' /\ sent' = None
<1>0. DesktopTypeOK /\ FrameOfMode
  BY DEF ViewInv
<1>1. ASSUME UNCHANGED <<mode, stream, frame>> PROVE FrameOfMode'
  BY <1>0, <1>1 DEF FrameOfMode, Shown, Zero
<1>2. ASSUME NEW c \in Clients, Connect(c) PROVE Fine
  BY <1>0, <1>1, <1>2 DEF Connect
<1>3. ASSUME NEW c \in Clients, Handshake(c) PROVE Fine
  BY <1>0, <1>1, <1>3 DEF Handshake
<1>4. ASSUME NEW c \in Clients, Learn(c) PROVE Fine
  BY <1>0, <1>1, <1>4 DEF Learn
<1>5. ASSUME NEW c \in Clients, Leave(c) PROVE Fine
  BY <1>0, <1>1, <1>5, GoneType DEF Leave
<1>6. ASSUME NEW c \in Clients, NEW r \in Requests, Resize(c, r) PROVE Fine
  <2>1. r \in Proper /\ aspect \in Proper /\ Square \in Proper
    BY <1>0, ViewConstants DEF Square, Proper
  <2>2. size' \in Size
    BY <1>0, <1>6, <2>1, FitBounds DEF Resize
  <2>3. asked' \in Request \cup {None}
    BY <1>0, <1>6, <2>1 DEF Resize, Request
  <2> QED BY <1>0, <1>1, <1>6, <2>2, <2>3 DEF Resize
<1>7. CASE FirstClient
  <2>1. /\ Default \in Size /\ Zero \in Size
        /\ Square \in Proper
    BY ViewConstants DEF Zero, Square, Size, Proper
  <2>2. DesktopTypeOK'
    BY <1>0, <1>7, <2>1 DEF FirstClient
  <2>3. FrameOfMode'
    BY <1>0, <1>7 DEF FirstClient, FrameOfMode, Shown, Zero
  <2> QED BY <1>7, <2>2, <2>3 DEF FirstClient
<1>8. CASE FirstClientFails
  <2>1. /\ Default \in Size /\ Zero \in Size
        /\ Square \in Proper
    BY ViewConstants DEF Zero, Square, Size, Proper
  <2>2. DesktopTypeOK'
    BY <1>0, <1>8, <2>1 DEF FirstClientFails
  <2> QED BY <1>8, <2>2 DEF FirstClientFails, FrameOfMode, Zero
<1>9. CASE LastClient
  BY <1>0, <1>9 DEF LastClient, FrameOfMode
<1>10. CASE ConnectorName
  BY <1>0, <1>10 DEF ConnectorName, FrameOfMode, Shown, Zero
<1>11. CASE Frame
  <2>1. PICK p \in PlaneSizes(mode) : TakeFrame(p)
    BY <1>11 DEF Frame
  <2>2. /\ frame' = Shown(mode) /\ size' = SizeOfFrame(p)
        /\ aspect' = Shown(p) /\ plane' = Shown(p)
        /\ (fb' = size' /\ hasBuf' = TRUE) \/ UNCHANGED <<fb, hasBuf>>
        /\ UNCHANGED <<mode, stream, clients, seen, signal, named, label, asked>>
        /\ sent' = None
    BY <1>11, <2>1, ModeType, <1>0 DEF Frame, TakeFrame
  <2>3. /\ SizeOfFrame(p) \in Proper /\ SizeOfFrame(p) \in Size
        /\ Shown(mode) \in Size /\ Shown(p) \in Proper
    BY <1>0, FrameType, ModeType
  <2>4. DesktopTypeOK'
    BY <1>0, <2>2, <2>3
  <2> QED BY <2>2, <2>4 DEF FrameOfMode, Shown
<1>12. CASE FrameFails
  <2>1. PICK p \in PlaneSizes(mode) : TakeFrame(p)
    BY <1>12 DEF FrameFails
  <2>2. /\ frame' = Shown(mode) /\ size' = SizeOfFrame(p)
        /\ aspect' = Shown(p) /\ plane' = Shown(p)
        /\ UNCHANGED <<mode, stream, fb, hasBuf, named, label, asked>>
        /\ Gone(clients) /\ sent' = None
    BY <1>12, <2>1, ModeType, <1>0 DEF FrameFails, TakeFrame
  <2>3. /\ SizeOfFrame(p) \in Proper /\ SizeOfFrame(p) \in Size
        /\ Shown(mode) \in Size /\ Shown(p) \in Proper
    BY <1>0, FrameType, ModeType
  <2>4. DesktopTypeOK'
    BY <1>0, <2>2, <2>3, GoneType
  <2> QED BY <2>2, <2>4 DEF FrameOfMode, Shown
<1>13. CASE StreamerLost
  <2>1. DesktopTypeOK'
    BY <1>0, <1>13, GoneType DEF StreamerLost
  <2> QED BY <1>13, <2>1 DEF StreamerLost, FrameOfMode
<1>14. ASSUME NEW m \in Modes, NewMode(m) PROVE Fine
  BY <1>0, <1>14 DEF NewMode, FrameOfMode
<1> QED
  BY <1>2, <1>3, <1>4, <1>5, <1>6, <1>7, <1>8, <1>9, <1>10, <1>11, <1>12,
     <1>13, <1>14
  DEF DesktopNext, Viewer

LEMMA ViewNext ==
  ASSUME ViewInv, PointsAtPixel, [DesktopNext]_desktopVars
  PROVE  ViewInv' /\ PointsAtPixel'
<1>1. CASE \E c \in Clients : \E p \in Spots(seen[c]) : Pointer(c, p)
  BY <1>1, PointerSteps DEF ViewInv
<1>2. CASE /\ DesktopNext
           /\ ~ \E c \in Clients : \E p \in Spots(seen[c]) : Pointer(c, p)
  BY <1>2, OtherSteps DEF ViewInv, PointsAtPixel
<1>3. CASE UNCHANGED desktopVars
  <2>1. UNCHANGED <<mode, stream, frame, size, aspect, fb, hasBuf, clients, seen,
                    signal, named, label, sent, plane, asked>>
    BY <1>3 DEF desktopVars, viewers, names, history
  <2>2. DesktopTypeOK'
    BY <2>1 DEF ViewInv, DesktopTypeOK
  <2>3. FrameOfMode'
    BY <2>1 DEF ViewInv, FrameOfMode, Shown, Zero
  <2>4. PointsAtPixel'
    BY <2>1 DEF PointsAtPixel, Shown, Zero
  <2> QED BY <2>2, <2>3, <2>4 DEF ViewInv
<1> QED BY <1>1, <1>2, <1>3

LEMMA ViewInvariant == DesktopSpec => [](ViewInv /\ PointsAtPixel)
<1>1. DesktopInit => ViewInv /\ PointsAtPixel
  BY ViewInit DEF DesktopInit, PointsAtPixel
<1>2. ViewInv /\ PointsAtPixel /\ [DesktopNext]_desktopVars
      => (ViewInv /\ PointsAtPixel)'
  BY ViewNext
<1> QED BY <1>1, <1>2, PTL DEF DesktopSpec

(* Sizes in the books are sizes; those that a client is told or a frame    *)
(* has are not empty (ViewerDesktop).                             *)
THEOREM DesktopTypeCorrect == DesktopSpec => []DesktopTypeOK
<1>1. ViewInv => DesktopTypeOK
  BY DEF ViewInv
<1> QED BY <1>1, ViewInvariant, PTL

(* A client that knows the present size points where it means to, for any  *)
(* sizes, rotation and place of the monitor, up to a unit of the device    *)
(* (rf_streamer_send_pointer_event).                                       *)
THEOREM PointerCorrect == DesktopSpec => []PointsAtPixel
BY ViewInvariant, PTL

(* What the ratio main keeps stands for, and what has become of the last   *)
(* request: a size with a zero in it waits for the next frame.             *)
RatioKnown == aspect = IF plane = None THEN Square ELSE plane

Standing ==
  asked # None =>
    IF size \in Proper
      THEN \/ /\ size.w <= asked.size.w /\ size.h <= asked.size.h
              /\ Close(size, asked.ratio)
           \/ /\ TooSmall(asked.size, asked.ratio)
              /\ \E m \in Modes : \E p \in PlaneSizes(m) : size = Shown(p)
      ELSE TooSmall(asked.size, asked.ratio)

LEMMA ResizeStands ==
  ASSUME ViewInv, RatioKnown, Standing,
         NEW c \in Clients, NEW r \in Requests, Resize(c, r)
  PROVE  RatioKnown' /\ Standing'
<1>1. UNCHANGED <<aspect, plane>>
  BY DEF Resize
<1>2. RatioKnown'
  BY <1>1 DEF RatioKnown, Square
<1>3. CASE r = fb
  BY <1>2, <1>3 DEF Resize, Standing, Close, TooSmall, Shown
<1>4. CASE r # fb
  <2>1. size' \in Fit(r, aspect) /\ asked' = [size |-> r, ratio |-> aspect]
    BY <1>4 DEF Resize, RatioKnown
  <2>2. r \in Proper /\ aspect \in Proper
    BY ViewConstants DEF ViewInv, DesktopTypeOK
  <2>3. asked'.size = r /\ asked'.ratio = aspect
    BY <2>1
  <2>4. /\ size'.w <= r.w /\ size'.h <= r.h
        /\ Close(size', aspect)
        /\ size' \in Proper \/ TooSmall(r, aspect)
    BY <2>1, <2>2, FitBounds
  <2> QED BY <1>2, <2>3, <2>4 DEF Standing, Close, TooSmall
<1> QED BY <1>2, <1>3, <1>4

LEMMA FrameStands ==
  ASSUME ViewInv, Standing, NEW p \in PlaneSizes(mode), TakeFrame(p), asked' = asked
  PROVE  RatioKnown' /\ Standing'
<1>1. size' = SizeOfFrame(p) /\ aspect' = Shown(p) /\ plane' = Shown(p)
  BY DEF TakeFrame
<1>2. Shown(p) \in Proper /\ None \notin Proper /\ mode \in Modes /\ size \in Size
  BY ViewConstants, FrameType DEF ViewInv, DesktopTypeOK
<1>3. RatioKnown'
  BY <1>1, <1>2 DEF RatioKnown
<1>4. CASE size \in Proper
  <2>1. size' = size
    BY <1>1, <1>4 DEF SizeOfFrame, Proper
  <2> QED BY <2>1, <1>3 DEF Standing, Close, TooSmall, Shown
<1>5. CASE size \notin Proper
  <2>1. size' = Shown(p)
    BY <1>1, <1>2, <1>5 DEF SizeOfFrame, Proper, Size
  <2>2. asked # None => TooSmall(asked.size, asked.ratio)
    BY <1>5 DEF Standing
  <2>3. \E m \in Modes : \E q \in PlaneSizes(m) : size' = Shown(q)
    BY <1>2, <2>1
  <2> QED BY <1>2, <1>3, <2>1, <2>2, <2>3 DEF Standing, TooSmall, Shown
<1> QED BY <1>4, <1>5

(* The last request stands, whatever the sizes of the monitor, of planes   *)
(* on it and of requests, and whatever has happened since: within what was *)
(* asked and of the ratio then known, unless hardly a pixel of that fits   *)
(* (on_resize_event, on_frame, on_first_client).                           *)
THEOREM RequestCorrect == DesktopSpec => []RequestFollowed
<1>1. DesktopInit => RatioKnown /\ Standing
  BY DEF DesktopInit, RatioKnown, Standing
<1>2. ViewInv /\ RatioKnown /\ Standing /\ [DesktopNext]_desktopVars
      => RatioKnown' /\ Standing'
  <2> SUFFICES ASSUME ViewInv, RatioKnown, Standing, [DesktopNext]_desktopVars
               PROVE  RatioKnown' /\ Standing'
    OBVIOUS
  <2>1. ASSUME UNCHANGED <<size, aspect, plane, asked>>
        PROVE  RatioKnown' /\ Standing'
    BY <2>1 DEF RatioKnown, Standing, Close, TooSmall, Shown, Square
  <2>2. ASSUME NEW c \in Clients, NEW r \in Requests, Resize(c, r)
        PROVE  RatioKnown' /\ Standing'
    BY <2>2, ResizeStands
  <2>3. CASE FirstClient \/ FirstClientFails
    BY <2>3 DEF FirstClient, FirstClientFails, RatioKnown, Standing
  <2>4. CASE Frame \/ FrameFails
    BY <2>4, FrameStands DEF Frame, FrameFails
  <2>5. CASE UNCHANGED desktopVars
    BY <2>1, <2>5 DEF desktopVars, history
  <2>6. CASE LastClient \/ ConnectorName \/ StreamerLost
    BY <2>1, <2>6 DEF LastClient, ConnectorName, StreamerLost, history
  <2>7. ASSUME NEW m \in Modes, NewMode(m) PROVE RatioKnown' /\ Standing'
    BY <2>1, <2>7 DEF NewMode, history
  <2>8. ASSUME NEW c \in Clients, Connect(c) \/ Handshake(c) \/ Learn(c) \/ Leave(c)
        PROVE  RatioKnown' /\ Standing'
    BY <2>1, <2>8 DEF Connect, Handshake, Learn, Leave, history
  <2>9. ASSUME NEW c \in Clients, NEW p \in Spots(seen[c]), Pointer(c, p)
        PROVE  RatioKnown' /\ Standing'
    BY <2>1, <2>9 DEF Pointer, history
  <2> QED BY <2>2, <2>3, <2>4, <2>5, <2>6, <2>7, <2>8, <2>9 DEF DesktopNext, Viewer
<1>3. Standing => RequestFollowed
  BY DEF Standing, RequestFollowed
<1> QED BY <1>1, <1>2, <1>3, ViewInvariant, PTL DEF DesktopSpec

-----------------------------------------------------------------------------
(* The cursor of CursorFollow. *)

USE DEF Desktop, Span, Positions, Phases, On

(* The compositor's clamp stays on the desktop. *)
LEMMA ClampType ==
  ASSUME NEW x \in Int
  PROVE  Clamp(x) \in Desktop
BY LayoutAssumption DEF Clamp

(* Moving right: either the right edge is reached or the whole step counted. *)
LEMMA ClampRight ==
  ASSUME NEW x \in Desktop, NEW d \in Nat
  PROVE  Clamp(x + d) = DesktopWidth - 1 \/ Clamp(x + d) = x + d
BY LayoutAssumption DEF Clamp

(* Moving left: either the left edge is reached or the whole step counted. *)
LEMMA ClampLeft ==
  ASSUME NEW x \in Desktop, NEW d \in Nat
  PROVE  Clamp(x - d) = 0 \/ Clamp(x - d) = x - d
BY LayoutAssumption DEF Clamp

(* One more step adds StepPx to the distance made good. *)
LEMMA OneMoreStep ==
  ASSUME NEW q \in Nat
  PROVE  /\ q * StepPx \in Nat
         /\ (q + 1) * StepPx = q * StepPx + StepPx
BY BurstAssumption

-----------------------------------------------------------------------------
(* Steps are left exactly while a burst is in progress. *)
StepsLeft ==
  \A m \in Monitors :
    IF pc[m] = "relocate" THEN left[m] > 0 /\ dir[m] # 0 ELSE left[m] = 0

(* The undisturbed steps are among those already made. *)
QuietBound ==
  \A m \in Monitors : quiet[m] + left[m] <= StepCount

(* Outside an input handler no burst is remembered. *)
IdleIsReset ==
  \A m \in Monitors :
    pc[m] \in {"down", "loop", "publish"} =>
      dir[m] = 0 /\ quiet[m] = 0

Typed == TypeOK /\ StepsLeft /\ QuietBound /\ IdleIsReset

(* The types and the burst counters of on_input_msg and cursor_relocate     *)
(* together are inductive: "left" and "quiet" bound each other only while   *)
(* the phases say that a burst is in progress.                              *)
THEOREM TypedInvariant == Spec => []Typed
<1>1. Init => Typed
  BY LayoutAssumption, BurstAssumption
  DEF Init, Typed, TypeOK, StepsLeft, QuietBound, IdleIsReset
<1>2. Typed /\ [Next]_vars => Typed'
  <2> SUFFICES ASSUME Typed, [Next]_vars PROVE Typed'
    OBVIOUS
  <2> USE DEF Typed, TypeOK, StepsLeft, QuietBound, IdleIsReset
  <2>1. ASSUME NEW m \in Monitors, Accept(m) PROVE Typed'
    BY <2>1 DEF Accept, Goto
  <2>2. ASSUME NEW m \in Monitors, Exit(m) PROVE Typed'
    BY <2>2, BurstAssumption DEF Exit
  <2>3. ASSUME NEW m \in Monitors, OnFrameMsg(m) PROVE Typed'
    BY <2>3, PlaneAssumption DEF OnFrameMsg, Goto, GetPlaneId
  <2>4. ASSUME NEW m \in Monitors, PublishFrame(m) PROVE Typed'
    BY <2>4 DEF PublishFrame, Goto, CursorOwnerPublish
  <2>5. ASSUME NEW m \in Monitors, InputHere(m) PROVE Typed'
    BY <2>5 DEF InputHere, Goto
  <2>6. ASSUME NEW m \in Monitors, InputElsewhere(m) PROVE Typed'
    BY <2>6, BurstAssumption DEF InputElsewhere, Goto, Toward
  <2>7. ASSUME NEW m \in Monitors, RelocateStep(m) PROVE Typed'
    <3>1. cursor' \in Desktop
      <4>1. dir[m] \in Int /\ cursor \in Int /\ StepPx \in Int
        BY LayoutAssumption, BurstAssumption
      <4>2. cursor + dir[m] * StepPx \in Int
        BY <4>1
      <4> QED BY <4>2, <2>7, ClampType DEF RelocateStep
    <3> QED
      BY <2>7, <3>1, BurstAssumption DEF RelocateStep, Goto, Disturbed
  <2>8. ASSUME NEW m \in Monitors, Claim(m) PROVE Typed'
    BY <2>8 DEF Claim, Goto, CursorOwnerPublish
  <2>9. ASSUME NEW m \in Monitors, WriteEvent(m) PROVE Typed'
    <3>1. cursor' \in Desktop
      BY <2>9, LayoutAssumption DEF WriteEvent
    <3>2. quiet' = Disturbed(m, 0) /\ Disturbed(m, 0) \in [Monitors -> 0 .. StepCount]
      BY <2>9, BurstAssumption DEF WriteEvent, Disturbed
    <3>3. TypeOK'
      BY <2>9, <3>1, <3>2 DEF WriteEvent, Goto
    <3>4. StepsLeft'
      BY <2>9 DEF WriteEvent, Goto
    <3>5. QuietBound'
      BY <2>9, BurstAssumption DEF WriteEvent, Disturbed
    <3>6. IdleIsReset'
      BY <2>9 DEF WriteEvent, Goto, Disturbed
    <3> QED BY <3>3, <3>4, <3>5, <3>6
  <2>10. CASE MoveMouse
    BY <2>10, BurstAssumption DEF MoveMouse
  <2>11. CASE ToggleShown
    BY <2>11 DEF ToggleShown
  <2>12. CASE UNCHANGED vars
    BY <2>12 DEF vars
  <2> QED
    BY <2>1, <2>2, <2>3, <2>4, <2>5, <2>6, <2>7, <2>8, <2>9, <2>10, <2>11,
       <2>12 DEF Next, Streamer, OnInputMsg
<1> QED BY <1>1, <1>2, PTL DEF Spec

(* The type invariant the runs check: every file content, cursor position   *)
(* and counter the streamers (on_frame_msg, on_input_msg) can produce.      *)
THEOREM TypeCorrect == Spec => []TypeOK
<1>1. Typed => TypeOK
  BY DEF Typed
<1> QED BY <1>1, TypedInvariant, PTL

-----------------------------------------------------------------------------
(* The distance a burst has made good since it was last disturbed. *)
Travelled(m) ==
  /\ dir[m] = 1 => cursor = DesktopWidth - 1 \/ cursor >= quiet[m] * StepPx
  /\ dir[m] = -1 => cursor = 0 \/ cursor + quiet[m] * StepPx <= DesktopWidth - 1

(* A burst onto an outermost monitor runs away from all the others. *)
AimsOutward(m) ==
  /\ PositionX[m] = 0 => dir[m] # 1
  /\ PositionX[m] + Width[m] = DesktopWidth => dir[m] # -1

LandInv == \A m \in Monitors : Travelled(m) /\ AimsOutward(m)

(* Whatever monitor the file names, the direction is right for an outermost *)
(* target: this is why a stale owner does no harm to a burst that starts.   *)
LEMMA DirectionOutward ==
  ASSUME NEW m \in Monitors, NEW k \in Monitors, PositionX[k] # PositionX[m]
  PROVE  /\ PositionX[m] = 0 => Toward(m, PositionX[k]) = -1
         /\ PositionX[m] + Width[m] = DesktopWidth =>
              Toward(m, PositionX[k]) = 1
<1>1. /\ PositionX[m] \in Nat /\ PositionX[k] \in Nat
      /\ Width[m] \in Nat \ {0} /\ Width[k] \in Nat \ {0}
  BY LayoutAssumption
<1>2. PositionX[m] = 0 => Toward(m, PositionX[k]) = -1
  BY <1>1 DEF Toward
<1>3. ASSUME PositionX[m] + Width[m] = DesktopWidth
      PROVE  PositionX[m] > PositionX[k]
  <2>1. m # k
    OBVIOUS
  <2>2. PositionX[k] \in Span(k)
    BY <1>1
  <2>3. PositionX[k] < DesktopWidth
    BY <2>2, <1>1, LayoutAssumption
  <2>4. PositionX[k] \notin Span(m)
    BY <2>1, <2>2, LayoutAssumption
  <2> QED BY <2>3, <2>4, <1>1, <1>3, LayoutAssumption
<1> QED BY <1>2, <1>3 DEF Toward

(* One step of a burst keeps the distance it made good. *)
LEMMA StepTravels ==
  ASSUME TypeOK, NEW m \in Monitors, Travelled(m), RelocateStep(m)
  PROVE  Travelled(m)'
<1> DEFINE q == quiet[m] * StepPx
<1>1. /\ cursor \in Desktop /\ quiet[m] \in Nat /\ StepPx \in Nat
      /\ DesktopWidth \in Nat \ {0}
  BY LayoutAssumption, BurstAssumption DEF TypeOK
<1>2. /\ q \in Nat
      /\ quiet'[m] * StepPx = q + StepPx
      /\ dir'[m] = dir[m]
  BY <1>1, OneMoreStep DEF RelocateStep, Disturbed
<1>3. CASE dir[m] = 1
  <2>1. cursor' = Clamp(cursor + StepPx)
    BY <1>1, <1>3 DEF RelocateStep
  <2>2. cursor' = DesktopWidth - 1 \/ cursor' = cursor + StepPx
    BY <2>1, <1>1, ClampRight
  <2>3. cursor' = DesktopWidth - 1 \/ cursor' >= q + StepPx
    <3>1. CASE cursor >= q
      BY <2>2, <3>1, <1>1, <1>2
    <3>2. CASE cursor = DesktopWidth - 1
      BY <2>1, <3>2, <1>1 DEF Clamp
    <3> QED BY <1>3, <3>1, <3>2 DEF Travelled
  <2> QED BY <1>2, <1>3, <2>3 DEF Travelled
<1>4. CASE dir[m] = -1
  <2>1. cursor' = Clamp(cursor - StepPx)
    BY <1>1, <1>4 DEF RelocateStep
  <2>2. cursor' = 0 \/ cursor' = cursor - StepPx
    BY <2>1, <1>1, ClampLeft
  <2>3. cursor' = 0 \/ cursor' + q + StepPx <= DesktopWidth - 1
    <3>1. CASE cursor + q <= DesktopWidth - 1
      BY <2>2, <3>1, <1>1, <1>2
    <3>2. CASE cursor = 0
      BY <2>1, <3>2, <1>1 DEF Clamp
    <3> QED BY <1>4, <3>1, <3>2 DEF Travelled
  <2>4. cursor' \in Int
    BY <2>2, <1>1
  <2>5. cursor' + (q + StepPx) = cursor' + q + StepPx
    BY <1>1, <1>2, <2>4
  <2> QED BY <1>2, <1>4, <2>3, <2>5 DEF Travelled
<1>5. CASE dir[m] = 0
  BY <1>2, <1>5 DEF Travelled
<1> QED BY <1>3, <1>4, <1>5 DEF TypeOK

(* The strengthening of the landing property: what cursor_relocate has made *)
(* good so far is never lost, because all steps of a burst have one sign.   *)
LEMMA LandInvariant == Spec => []LandInv
<1>1. Init => LandInv
  <2> SUFFICES ASSUME Init, NEW m \in Monitors
               PROVE  Travelled(m) /\ AimsOutward(m)
    BY DEF LandInv
  <2>1. dir[m] = 0
    BY DEF Init
  <2> QED BY <2>1 DEF Travelled, AimsOutward
<1>2. Typed /\ Typed' /\ LandInv /\ [Next]_vars => LandInv'
  <2> SUFFICES ASSUME Typed, Typed', LandInv, [Next]_vars, NEW n \in Monitors
               PROVE  Travelled(n)' /\ AimsOutward(n)'
    BY DEF LandInv
  <2> USE DEF Typed
  <2>1. TypeOK /\ TypeOK' /\ Travelled(n) /\ AimsOutward(n)
    BY DEF LandInv
  (* A step that leaves the cursor and n's burst alone. *)
  <2>2. ASSUME cursor' = cursor, quiet'[n] = quiet[n], dir'[n] = dir[n]
        PROVE  Travelled(n)' /\ AimsOutward(n)'
    BY <2>1, <2>2 DEF Travelled, AimsOutward
  (* A step that disturbs n's burst. *)
  <2>3. ASSUME quiet'[n] = 0, dir'[n] \in {0, dir[n]}
        PROVE  Travelled(n)' /\ AimsOutward(n)'
    <3>1. Travelled(n)'
      <4>1. (quiet[n] = 0)'
        BY <2>3
      <4>2. (quiet[n] * StepPx)' = 0
        BY <4>1, BurstAssumption
      <4> QED BY <2>1, <4>2, LayoutAssumption DEF TypeOK, Travelled
    <3>2. AimsOutward(n)'
      BY <2>1, <2>3 DEF AimsOutward
    <3> QED BY <3>1, <3>2
  <2>4. ASSUME NEW m \in Monitors, Accept(m)
        PROVE  Travelled(n)' /\ AimsOutward(n)'
    BY <2>2, <2>4 DEF Accept
  <2>5. ASSUME NEW m \in Monitors, Exit(m)
        PROVE  Travelled(n)' /\ AimsOutward(n)'
    <3>1. CASE n = m
      BY <2>1, <2>3, <2>5, <3>1 DEF Exit, TypeOK
    <3>2. CASE n # m
      BY <2>1, <2>2, <2>5, <3>2 DEF Exit, TypeOK
    <3> QED BY <3>1, <3>2
  <2>6. ASSUME NEW m \in Monitors, OnFrameMsg(m)
        PROVE  Travelled(n)' /\ AimsOutward(n)'
    BY <2>2, <2>6 DEF OnFrameMsg
  <2>7. ASSUME NEW m \in Monitors, PublishFrame(m)
        PROVE  Travelled(n)' /\ AimsOutward(n)'
    BY <2>2, <2>7 DEF PublishFrame
  <2>8. ASSUME NEW m \in Monitors, InputHere(m)
        PROVE  Travelled(n)' /\ AimsOutward(n)'
    BY <2>2, <2>8 DEF InputHere
  <2>9. ASSUME NEW m \in Monitors, InputElsewhere(m)
        PROVE  Travelled(n)' /\ AimsOutward(n)'
    <3>1. CASE n # m
      BY <2>1, <2>2, <2>9, <3>1 DEF InputElsewhere, TypeOK
    <3>2. CASE n = m
      <4>1. quiet'[n] = 0
        BY <2>9, <3>2 DEF InputElsewhere, Goto, IdleIsReset
      <4>2. Travelled(n)'
        <5>1. (quiet[n] * StepPx)' = 0
          BY <4>1, BurstAssumption
        <5> QED BY <2>1, <5>1, LayoutAssumption DEF TypeOK, Travelled
      <4>3. PICK k \in Monitors : owner = PositionX[k]
        BY <2>1, <2>9 DEF InputElsewhere, TypeOK
      <4>4. dir'[n] = Toward(n, PositionX[k]) /\ PositionX[k] # PositionX[n]
        BY <2>1, <2>9, <3>2, <4>3 DEF InputElsewhere, TypeOK
      <4>5. AimsOutward(n)'
        BY <4>4, DirectionOutward DEF AimsOutward
      <4> QED BY <4>2, <4>5
    <3> QED BY <3>1, <3>2
  <2>10. ASSUME NEW m \in Monitors, RelocateStep(m)
         PROVE  Travelled(n)' /\ AimsOutward(n)'
    <3>1. CASE n # m
      BY <2>3, <2>10, <3>1 DEF RelocateStep, Disturbed
    <3>2. CASE n = m
      <4>1. Travelled(n)'
        BY <2>1, <2>10, <3>2, StepTravels
      <4>2. AimsOutward(n)'
        BY <2>1, <2>10 DEF RelocateStep, AimsOutward
      <4> QED BY <4>1, <4>2
    <3> QED BY <3>1, <3>2
  <2>11. ASSUME NEW m \in Monitors, Claim(m)
         PROVE  Travelled(n)' /\ AimsOutward(n)'
    BY <2>2, <2>11 DEF Claim
  <2>12. ASSUME NEW m \in Monitors, WriteEvent(m)
         PROVE  Travelled(n)' /\ AimsOutward(n)'
    BY <2>1, <2>3, <2>12 DEF WriteEvent, Disturbed, TypeOK
  <2>13. CASE MoveMouse
    BY <2>3, <2>13 DEF MoveMouse
  <2>14. CASE ToggleShown
    BY <2>2, <2>14 DEF ToggleShown
  <2>15. CASE UNCHANGED vars
    BY <2>2, <2>15 DEF vars
  <2> QED
    BY <2>4, <2>5, <2>6, <2>7, <2>8, <2>9, <2>10, <2>11, <2>12, <2>13, <2>14,
       <2>15 DEF Next, Streamer, OnInputMsg
<1> QED BY <1>1, <1>2, TypedInvariant, PTL DEF Spec

(* A relocation burst onto an outermost monitor that was left alone long    *)
(* enough to cross the desktop ends on that monitor, whatever the owner     *)
(* file said and wherever the cursor was (cursor_relocate, on_input_msg).   *)
THEOREM BurstLands == Spec => []QuietBurstLands
<1>1. Typed /\ LandInv => QuietBurstLands
  <2> SUFFICES ASSUME Typed, LandInv, NEW m \in Monitors, Outermost(m),
                      dir[m] # 0, quiet[m] * StepPx >= DesktopWidth - 1
               PROVE  On(m)
    BY DEF QuietBurstLands
  <2>1. /\ cursor \in Desktop /\ dir[m] \in {-1, 1}
        /\ PositionX[m] \in Nat /\ Width[m] \in Nat \ {0}
        /\ DesktopWidth \in Nat \ {0} /\ quiet[m] * StepPx \in Nat
    BY LayoutAssumption, BurstAssumption, OneMoreStep DEF Typed, TypeOK
  <2>2. Travelled(m) /\ AimsOutward(m)
    BY DEF LandInv
  <2>3. CASE PositionX[m] = 0
    BY <2>1, <2>2, <2>3 DEF Travelled, AimsOutward
  <2>4. CASE PositionX[m] + Width[m] = DesktopWidth
    BY <2>1, <2>2, <2>4 DEF Travelled, AimsOutward
  <2> QED BY <2>3, <2>4 DEF Outermost
<1> QED BY <1>1, TypedInvariant, LandInvariant, PTL

=============================================================================
