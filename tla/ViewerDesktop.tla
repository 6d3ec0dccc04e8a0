---------------------------- MODULE ViewerDesktop ----------------------------
(***************************************************************************)
(* What a VNC client is told of the monitor - the name and the size of the *)
(* desktop - and what becomes of the sizes it asks for and the pixels it   *)
(* points at (reframe-server/main.c, the handshake, resize and pointer     *)
(* handlers of rf-lvnc-server.c and rf-nvnc-server.c, and                  *)
(* rf_streamer_send_pointer_event).                                        *)
(*                                                                         *)
(* The size is kept four times: by main (what the converter is asked for), *)
(* by the VNC server (what it last sent), by each client (what it has read *)
(* of that), and by the streamer's connection (the monitor's own size).    *)
(* The first follows the primary plane, which need not cover the monitor.  *)
(* Quotients of floating point numbers are truncated; where the exact      *)
(* result is an integer the computed one may be just below it.             *)
(* The specification is named for the desktop: PositionProofs extends this *)
(* module and CursorFollow.                                                *)
(***************************************************************************)
EXTENDS Integers

CONSTANTS
  Clients,     \* VNC clients
  Modes,       \* sizes of the monitor, crtc_width and crtc_height, as [w, h]
  PlaneSizes(_),   \* sizes, crtc_w and crtc_h, of the primary plane in a mode
  Requests,    \* sizes a client may ask for
  Default,     \* default-width and default-height, 0 for unset
  Landscape,   \* rotation is 0 or 180
  DesktopSize, \* desktop-width and desktop-height, 0 for unset
  Monitor,     \* monitor-x and monitor-y, as [w, h]
  PointerMax,  \* RF_POINTER_MAX
  MayResize,   \* resize=true
  Named,       \* the connector is configured
  LibVNC,      \* TRUE: rf-lvnc-server.c, FALSE: rf-nvnc-server.c
  None         \* no size, no event

Size == [w : Nat, h : Nat]
Proper == [w : Nat \ {0}, h : Nat \ {0}]

Request == [size : Proper, ratio : Proper]

ASSUME SizesAssumption ==
  /\ Modes \cup Requests \cup UNION {PlaneSizes(m) : m \in Modes} \subseteq Proper
  /\ {Default, DesktopSize, Monitor} \subseteq Size
  /\ None \notin Size \cup Request \cup [by : Clients, at : Size, x : Int, y : Int]
ASSUME KindAssumption ==
  /\ {Landscape, MayResize, Named, LibVNC} \subseteq BOOLEAN
  /\ PointerMax \in Nat \ {0}

VARIABLES
  mode,    \* the monitor's mode
  stream,  \* the connection of the streamer: off, on, or named (its
           \* connector-name message has come)
  frame,   \* frame_width and frame_height of RfStreamer
  size,    \* width and height of main
  aspect,  \* aspect_ratio of main, as a fraction
  fb,      \* width and height of the VNC server
  hasBuf,  \* the VNC server has got a buffer
  clients, \* connected clients
  seen,    \* the size a client has been told, None before the handshake
  signal,  \* first- or last-client signal to be emitted
  named,   \* desktop_name of the VNC server is not NULL
  label,   \* of LibVNCServer, desktopName: none (no screen yet), static,
           \* owned (this->desktop_name) or freed
  sent,    \* history: the pointer event of this step
  plane,   \* history: the plane of the newest frame since the first client
  asked    \* history: the last request since then that main was told of,
           \* with the ratio known by then

viewers == <<clients, seen, signal>>
names == <<named, label>>
history == <<plane, asked>>
desktopVars == <<mode, stream, frame, size, aspect, fb, hasBuf, viewers, names,
                 sent, history>>

Zero == [w |-> 0, h |-> 0]
Square == [w |-> 1, h |-> 1]

(* A size of the monitor, or of a plane on it, as it is shown. *)
Shown(m) == IF Landscape THEN m ELSE [w |-> m.h, h |-> m.w]

-----------------------------------------------------------------------------
(* n * num / den, truncated. *)
Scaled(n, num, den) ==
  LET q == (n * num) \div den IN
  {q} \cup {k \in {q - 1} : q > 0 /\ num # den /\ (n * num) % den = 0}

(* on_resize_event: the largest size of the aspect ratio within a request. *)
(* A request of just that ratio may be taken for a narrower one when the   *)
(* ratio is the inverse of a rounded quotient.                             *)
Fit(r, a) ==
  LET wide == r.w * a.h - r.h * a.w
      byHeight == {[w |-> n, h |-> r.h] : n \in Scaled(r.h, a.w, a.h)}
      byWidth == {[w |-> r.w, h |-> n] : n \in Scaled(r.w, a.h, a.w)}
  IN {s \in byHeight : wide >= 0} \cup
     {s \in byWidth : wide < 0 \/ (wide = 0 /\ ~Landscape)}

(* The events of rf_streamer_send_pointer_event for one axis: p of n       *)
(* pixels, on a monitor of m pixels at offset o of a desktop of d.         *)
Axis(p, n, o, m, d) == Scaled(PointerMax, o * n + p * m, d * n)

Whole(d, o, m) == IF d > 0 THEN d ELSE o + m

Spread == [w |-> Whole(DesktopSize.w, Monitor.w, frame.w),
           h |-> Whole(DesktopSize.h, Monitor.h, frame.h)]

-----------------------------------------------------------------------------
Quiet == sent' = None

(* Variant with a bug: a client that is gone is still told of. *)
GoneRemembered(C) ==
  /\ clients' = clients \ C
  /\ seen' = seen
  /\ signal' = IF clients # {} /\ clients \subseteq C THEN "last" ELSE signal

(* The clients in a set go, the last of them with the signal. *)
Gone(C) ==
  /\ clients' = clients \ C
  /\ seen' = [c \in Clients |-> IF c \in C THEN None ELSE seen[c]]
  /\ signal' = IF clients # {} /\ clients \subseteq C THEN "last" ELSE signal

(* on_incoming; LibVNCServer's screen is made for the first client.        *)
Connect(c) ==
  /\ c \notin clients
  /\ clients' = clients \cup {c}
  /\ signal' = IF clients = {} THEN "first" ELSE signal
  /\ label' = IF label # "none" \/ ~LibVNC THEN label
              ELSE IF named THEN "owned" ELSE "static"
  /\ Quiet
  /\ UNCHANGED <<mode, stream, frame, size, aspect, fb, hasBuf, seen, named, history>>

(* The client is told the name and the size.  on_socket_in lets it wait    *)
(* until there is a buffer.                                                *)
Handshake(c) ==
  /\ c \in clients /\ seen[c] = None
  /\ LibVNC => hasBuf
  /\ seen' = [seen EXCEPT ![c] = fb]
  /\ Quiet
  /\ UNCHANGED <<mode, stream, frame, size, aspect, fb, hasBuf, clients, signal, names, history>>

(* The client reads of a new size. *)
Learn(c) ==
  /\ seen[c] \notin {None, fb}
  /\ seen' = [seen EXCEPT ![c] = fb]
  /\ Quiet
  /\ UNCHANGED <<mode, stream, frame, size, aspect, fb, hasBuf, clients, signal, names, history>>

Leave(c) ==
  /\ c \in clients
  /\ Gone({c})
  /\ Quiet
  /\ UNCHANGED <<mode, stream, frame, size, aspect, fb, hasBuf, names, history>>

(* on_set_desktop_size, on_resize_event of both servers and main: a        *)
(* request for what was last sent is ignored.                              *)
Resize(c, r) ==
  /\ seen[c] # None /\ MayResize
  /\ IF r = fb THEN UNCHANGED <<size, asked>>
     ELSE /\ size' \in Fit(r, aspect)
          /\ asked' = [size |-> r, ratio |-> IF plane = None THEN Square ELSE plane]
  /\ Quiet
  /\ UNCHANGED <<mode, stream, frame, aspect, fb, hasBuf, viewers, names, plane>>

(* Variant with a bug: the position is taken for one in main's size. *)
PointerInMainSize(c, p) ==
  /\ seen[c] # None
  /\ stream # "off"
  /\ Spread.w # 0 /\ Spread.h # 0 /\ size \in Proper
  /\ \E x \in Axis(p.w, size.w, Monitor.w, frame.w, Spread.w),
        y \in Axis(p.h, size.h, Monitor.h, frame.h, Spread.h) :
       sent' = [by |-> c, at |-> p, x |-> x, y |-> y]
  /\ UNCHANGED <<mode, stream, frame, size, aspect, fb, hasBuf, viewers, names, history>>

(* on_pointer_event, rf_streamer_send_pointer_event. *)
Pointer(c, p) ==
  /\ seen[c] # None
  /\ stream # "off"
  /\ Spread.w # 0 /\ Spread.h # 0
  /\ \E x \in Axis(p.w, fb.w, Monitor.w, frame.w, Spread.w),
        y \in Axis(p.h, fb.h, Monitor.h, frame.h, Spread.h) :
       sent' = [by |-> c, at |-> p, x |-> x, y |-> y]
  /\ UNCHANGED <<mode, stream, frame, size, aspect, fb, hasBuf, viewers, names, history>>

-----------------------------------------------------------------------------
(* on_first_client: the size is that of the configuration, and without one *)
(* that of the next frame.  The signal comes again without a last-client   *)
(* signal when the last client goes and another comes at once.             *)
FirstClient ==
  /\ signal = "first"
  /\ size' = Default /\ aspect' = Square
  /\ plane' = None /\ asked' = None
  /\ stream' = IF stream = "off" THEN "on" ELSE stream
  /\ frame' = IF stream = "off" THEN Zero ELSE frame
  /\ signal' = "none"
  /\ Quiet
  /\ UNCHANGED <<mode, fb, hasBuf, clients, seen, names>>

(* The same, and the streamer cannot be reached: the clients are flushed.  *)
FirstClientFails ==
  /\ signal = "first" /\ stream = "off"
  /\ size' = Default /\ aspect' = Square
  /\ plane' = None /\ asked' = None
  /\ frame' = Zero
  /\ clients' = {} /\ seen' = [c \in Clients |-> None] /\ signal' = "last"
  /\ Quiet
  /\ UNCHANGED <<mode, stream, fb, hasBuf, names>>

(* on_last_client. *)
LastClient ==
  /\ signal = "last"
  /\ stream' = "off" /\ signal' = "none"
  /\ Quiet
  /\ UNCHANGED <<mode, frame, size, aspect, fb, hasBuf, clients, seen, names, history>>

(* rf_vnc_server_set_desktop_name, before any frame: the string the screen *)
(* was given is freed.                                                     *)
ConnectorName ==
  /\ stream = "on"
  /\ stream' = "named"
  /\ named' = TRUE
  /\ label' = IF label = "owned" THEN "freed" ELSE label
  /\ Quiet
  /\ UNCHANGED <<mode, frame, size, aspect, fb, hasBuf, viewers, history>>

(* Variant with a bug: the next frame undoes what was asked for. *)
SizeOfFrameAlways(p) == Shown(p)

(* Main takes the plane's size when it has none, or one with a zero.       *)
SizeOfFrame(p) == IF size.w = 0 \/ size.h = 0 THEN Shown(p) ELSE size

(* on_frame_msg of the streamer's connection. *)
FrameSize == Shown(mode)

(* on_frame: what main makes of a frame of a primary plane. *)
TakeFrame(p) ==
  /\ frame' = FrameSize
  /\ size' = SizeOfFrame(p)
  /\ aspect' = Shown(p) /\ plane' = Shown(p)

(* on_frame_msg, on_frame, update; or there is no damage, or the picture   *)
(* is not converted, and the VNC server is told nothing.                   *)
Frame ==
  /\ stream = "named"
  /\ \E p \in PlaneSizes(mode) : TakeFrame(p)
  /\ \/ fb' = size' /\ hasBuf' = TRUE
     \/ UNCHANGED <<fb, hasBuf>>
  /\ Quiet
  /\ UNCHANGED <<mode, stream, viewers, names, asked>>

(* on_frame, when the converter does not start. *)
FrameFails ==
  /\ stream = "named"
  /\ \E p \in PlaneSizes(mode) : TakeFrame(p)
  /\ Gone(clients)
  /\ Quiet
  /\ UNCHANGED <<mode, stream, fb, hasBuf, names, asked>>

(* The streamer is lost and the clients are flushed. *)
StreamerLost ==
  /\ stream # "off"
  /\ stream' = "off"
  /\ Gone(clients)
  /\ Quiet
  /\ UNCHANGED <<mode, frame, size, aspect, fb, hasBuf, names, history>>

(* The monitor gets another mode, for which the README asks to disconnect. *)
NewMode(m) ==
  /\ stream = "off" /\ m # mode
  /\ mode' = m
  /\ Quiet
  /\ UNCHANGED <<stream, frame, size, aspect, fb, hasBuf, viewers, names, history>>

-----------------------------------------------------------------------------
(* start: the VNC server needs some size before the first frame. *)
DesktopInit ==
  /\ mode \in Modes
  /\ stream = "off" /\ frame = Zero
  /\ size = Zero /\ aspect = Square
  /\ fb = IF Default.w = 0 \/ Default.h = 0 THEN [w |-> 800, h |-> 600] ELSE Default
  /\ hasBuf = FALSE
  /\ clients = {} /\ seen = [c \in Clients |-> None] /\ signal = "none"
  /\ named = Named /\ label = "none"
  /\ sent = None /\ plane = None /\ asked = None

(* Bound of the model: a client points at two corners and at the middle.   *)
Spots(s) ==
  IF s = None THEN {}
  ELSE {[w |-> 0, h |-> 0], [w |-> s.w \div 2, h |-> s.h \div 2],
        [w |-> s.w - 1, h |-> s.h - 1]}

Viewer(c) ==
  \/ Connect(c) \/ Handshake(c) \/ Learn(c) \/ Leave(c)
  \/ \E r \in Requests : Resize(c, r)
  \/ \E p \in Spots(seen[c]) : Pointer(c, p)

DesktopNext ==
  \/ \E c \in Clients : Viewer(c)
  \/ FirstClient \/ FirstClientFails \/ LastClient
  \/ ConnectorName \/ Frame \/ FrameFails \/ StreamerLost
  \/ \E m \in Modes : NewMode(m)

DesktopSpec == DesktopInit /\ [][DesktopNext]_desktopVars

-----------------------------------------------------------------------------
DesktopTypeOK ==
  /\ mode \in Modes
  /\ stream \in {"off", "on", "named"}
  /\ {frame, size} \subseteq Size /\ {aspect, fb} \subseteq Proper
  /\ {hasBuf, named} \subseteq BOOLEAN
  /\ clients \subseteq Clients
  /\ seen \in [Clients -> Proper \cup {None}]
  /\ \A c \in Clients : seen[c] # None => c \in clients
  /\ signal \in {"none", "first", "last"}
  /\ label \in {"none", "static", "owned", "freed"}
  /\ sent # None => sent \in [by : Clients, at : Size, x : Int, y : Int]
  /\ plane \in Proper \cup {None} /\ asked \in Request \cup {None}

(* Close: of the same ratio up to a pixel.  TooSmall: a request in which   *)
(* at most one row or column of the ratio fits.                            *)
Close(s, a) ==
  \/ s.h * a.w - a.h <= s.w * a.h /\ s.w * a.h <= s.h * a.w
  \/ s.w * a.h - a.w <= s.h * a.w /\ s.h * a.w <= s.w * a.h

TooSmall(r, a) == r.h * a.w <= a.h \/ r.w * a.h <= a.w

(* The last request stands: through frames, further requests that are      *)
(* ignored, other clients and lost streamers, until a first client comes   *)
(* again, what the converter is asked for is within the request and of the *)
(* ratio of the plane then shown - or square, when no frame had come yet.  *)
(* Only if hardly a pixel of that ratio fits may the next frame make it    *)
(* the whole plane, larger than asked (on_resize_event, on_frame,          *)
(* on_first_client).                                                       *)
RequestFollowed ==
  asked # None /\ size \in Proper =>
    \/ /\ size.w <= asked.size.w /\ size.h <= asked.size.h
       /\ Close(size, asked.ratio)
    \/ /\ TooSmall(asked.size, asked.ratio)
       /\ \E m \in Modes : \E p \in PlaneSizes(m) : size = Shown(p)

(* A client that knows the present size points where it means to: the      *)
(* event leads to the part of the monitor that the pixel shows, up to a    *)
(* unit of the device, whatever the sizes in between, the rotation and the *)
(* place of the monitor (rf_streamer_send_pointer_event).                  *)
OnAxis(v, p, n, o, m, d) ==
  /\ (v + 1) * d * n >= PointerMax * (o * n + p * m)
  /\ v * d * n < PointerMax * (o * n + (p + 1) * m)

PointsAtPixel ==
  sent # None /\ seen[sent.by] = fb /\ frame # Zero =>
    LET s == Shown(mode) IN
    /\ OnAxis(sent.x, sent.at.w, fb.w, Monitor.w, s.w,
              Whole(DesktopSize.w, Monitor.w, s.w))
    /\ OnAxis(sent.y, sent.at.h, fb.h, Monitor.h, s.h,
              Whole(DesktopSize.h, Monitor.h, s.h))

(* The comment in set_desktop_name: clients get the previous name, if not  *)
(* the present one.                                                        *)
NameIsKept == [][\A c \in Clients : Handshake(c) => label # "freed"]_desktopVars

=============================================================================
