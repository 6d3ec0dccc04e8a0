# Polyframe: formal models

TLA+ models of Polyframe (ReFrame), a remote desktop for DRM/KMS: one
`reframe-streamer` per monitor (root: reads the scanout, injects input), one
`reframe-server` per monitor (VNC server, converts frames), and a
`reframe-session` helper in the user's session (clipboard). All references
below are to the source tree, `src/`.

    VNC clients <--tcp--> reframe-server <--unix--> reframe-streamer --uinput--> compositor
                               |                          |
                       unix (session socket)     /run/reframe/cursor-owner
                               |                 (shared by all streamers)
                        reframe-session

## Inventory

| component | state | operations | hard part | correct if |
|---|---|---|---|---|
| cursor ownership and relocation (`reframe-streamer/main.c` 389-602) | owner file, `cursor_id`, burst in progress | publish from a frame; read, burst, claim and forward on input | independent processes, a lock held per access only, a file that survives everybody | a burst ends where it should; file and cursor catch up with the user |
| streamer loop (`reframe-streamer/main.c` 967-1172) | connection, DRM and uinput handles | accept, authenticate, set up, answer frame/input/auth, disconnect | blocking reads and writes, dying in any handler, socket activation | every request is answered or the connection ends |
| streamer client (`reframe-server/rf-streamer.c`) | `running`, `connection`, `timer_id`, frame size | start, stop, frame timer, message handlers, input and auth senders | stop nested in handlers and signals; blocking writes | one frame exchange at a time, loss noticed, no deadlock |
| client life cycle (`reframe-server/main.c`, `rf-vnc-server.c`, `rf-lvnc-server.c`, `rf-nvnc-server.c`) | client count, pending idle callback, first/last flag, `running` of streamer, session, converter | client comes or goes, first/last signal, flush, frame, quit | one callback for two signals; failures that flush from inside signals | resources are held exactly while somebody watches |
| damage detection (`rf-converter.c` 676-786, 1075-1362) | current and previous picture, tile size | convert, detect, resize, stop | previous picture must be what clients have | every changed pixel is reported |
| session socket (`rf-session.c`) and helper (`reframe-session/main.c`) | sockets, pids awaiting authentication, clipboard | connect, authenticate through the streamer, clipboard both ways | async authentication, reconnects, echo | only authenticated helpers, no echo |
| wire format (`reframe-common/rf-common.c`, `.h`) | - | header, length, payload | partial reads and writes | receiver stays in step |
| geometry (`main.c` 27-58, `rf-streamer.c` 656-757, `rf-vnc-server.c` 291-416) | size, aspect ratio, rotation | resize, pointer scaling | truncation, zero | never an invalid size, pointer within the monitor |
| keys and buttons (`rf-vnc-server.c` 269-416, `rf-streamer.c` 631-757, `reframe-streamer/main.c` 547-602 and 851-964) | what clients hold, the device's keys | press, release, point, set up and clean up the device | symbols depend on modifiers; several clients, one device | nothing stays down that nobody holds |
| configuration (`rf-config.c`) | key file | getters with defaults | numeric edges (`fps=0`) | legal values only |

Interaction is by GObject signals inside the server (wired in
`reframe-server/main.c` 246-327), by messages over two kinds of Unix sockets,
and, between streamers, only by the owner file and the one system cursor.
`PROJECT.json` lists every hazard with its line and the properties that would
catch it, or, where it does happen or no property sees it, why none does.

## Modules

| module | models |
|---|---|
| `CursorFollow` | all streamers, the owner file, the cursor |
| `StreamerLink` | one server's streamer client, the socket, one streamer's loop |
| `CaptureOnDemand` | abstract: the capture runs for somebody, or everybody is disconnected |
| `ServerLifecycle` | the server's clients, signals and resources; refines `CaptureOnDemand` |
| `DamageTrack` | the converter's pictures, both detectors, the VNC server's buffer, what clients show |
| `ViewerDesktop` | size and name of the desktop, resize requests, pointer positions |
| `SharedInput` | keys and buttons of all clients on one device |
| `SessionLink` | the session socket, its helpers, authentication, references |
| `ClipboardSync` | texts between sessions and VNC clients |
| `Channel` | abstract: one direction of a connection delivers what was sent, in order, until it is cut |
| `Framing` | both directions of a socket, cell by cell; each refines `Channel` |
| `PositionProofs`, `StreamerLinkProofs`, `ServerLifecycleProofs`, `DamageTrackProofs`, `SharedInputProofs`, `SessionLinkProofs`, `ClipboardSyncProofs`, `FramingProofs` | theorems |
| `MC*` | instances for TLC |

How they fit: `StreamerLink` assumes atomic messages; `Framing` says when the
layout of a message keeps that promise. `ServerLifecycle` assumes that a
streamer is running or not; `StreamerLink` is how it runs, and its frames are
`DamageTrack`'s. `SharedInput` and `ViewerDesktop` take the client life cycle in
the small (clients, pending signal, running), as `ServerLifecycle` has it, and
follow input and sizes through it. `SessionLink` says who is connected,
`ClipboardSync` what is said then. Definitions called a "variant with a bug" are
used by no specification; they are mistakes the properties are able to see.

### CursorFollow

One action is one access to shared state. The owner file is locked during each
access, so a read or a publish is one step; a burst is `StepCount` steps of
`StepPx` with nothing held in between. `pc[m]` says where streamer `m` is:
`OnFrameMsg` then `PublishFrame`; `InputHere` or `InputElsewhere`, then
`RelocateStep`s, `Claim`, `WriteEvent`. `Exit` may strike anywhere. The
compositor is the environment: relative motion is confined to the desktop
(`Clamp`), absolute events to the output that shows the cursor (`WriteEvent`;
this is the behaviour the code was written for, `dists/example.conf` 27-32), and
`ToggleShown` hides the cursor from its plane. `quiet` is a history variable:
how many of the last burst steps nothing else has disturbed.

An owner file that cannot be opened or written is `FileMayFail`: the service
file sets `ProtectSystem=strict`, and the code only warns. A read that fails is
taken as "unknown" and no burst follows, as in the code. Keyboard messages take
the same path as pointer messages; `WriteEvent` may leave the cursor in place.

### StreamerLink

`spc` is where the server's main loop is: between callbacks (`"loop"`), inside
the frame signal (`"frame"`), or gone (`"crashed"`). `sending` is the message
the server is blocked on, `outbox` what the streamer's handler has yet to write,
`toStreamer` and `toServer` the socket buffers of each connection, `backlog` the
connections systemd's socket holds. A connection has an identity because a
reconnect can be queued while the streamer still serves the old one. Messages
are atomic: a message that was cut off by a death is one that was never written,
since both sides treat a short read as the end.

`FrameDone` arms the timer without asking whether the streamer was stopped in
the frame signal, as `on_frame_msg` does; `TimerFires` on a stopped streamer
then dereferences an error that is not set, and the process is `"crashed"`.

### ServerLifecycle

One action is one dispatch of the main loop with everything nested in it:
`Drop` is `on_client_gone` for each client that the VNC library lets go,
`StreamerStop` is `rf_streamer_stop` with its "stop" handlers (flush, session
stop). `FirstClient`, `FirstClientFails` and `LastClient` are the idle callback
`emit_client_signal`. `LibVNC` selects the backend: LibVNCServer counts a
client before its handshake, processes events nested in `update` and
`send_clipboard_text`, and is not polled before it has a framebuffer; NeatVNC
does none of this. `rf_vnc_server_stop` at `Quit` clears `running` first, which
makes its own flush do nothing: the model shows the state after the process.

### DamageTrack

A picture is a function from pixels to colours, and a frame is one action: the
texture it is drawn on (`TexBefore`: uninitialised after `gen_buffers`), the
picture compared with (`PrevBefore`), `Damage` (the rectangle around the tiles
that differ), what is remembered (`Remember`: the GPU detector swaps two
textures, the CPU detector copies bytes), and `Update`, the operation of the VNC
backend, up to the region it marks as modified. `Send` is the library's: it
copies the marked region of the buffer *as it is then*, which is why a failed
read (`ReadFails`, `glReadPixels` has an error after it wrote) can put pixels on
a screen that no conversion produced; `stale` remembers them. `shared` says that
the VNC server's buffer is the converter's `curr`; a server without update keeps
its reference to the old one (`Detached`). The detectors read a picture through
`Sample`: the CPU detector the tile itself, the GPU detector (`Digest`) a level
of a mipmap of the *whole* picture. The edge of a tile is computed for each size
(`Tile`); where it does not divide the size, as with 1366x768 or after a client's
resize, the level's samples drift off the tiles, and the last columns and rows
may go into no sample at all. `DamageReadFails` is the GPU detector that cannot
read its result and reports everything.

### ViewerDesktop

The size of the desktop is kept four times, by `main` (`size`), by the VNC
server (`fb`), by each client (`seen`) and by the streamer's connection
(`frame`), and they change at different times. Two sizes come from the streamer
with a frame: that of the CRTC (`Modes`), which the streamer's connection keeps
and scales pointers by, and that of the primary plane (`PlaneSizes`), which
`main` takes its size and ratio from (`TakeFrame`); the plane need not cover the
monitor. `plane` and `asked` are history: the plane of the newest frame, and the
last request with the ratio known by then. Floating point is modelled as what
truncation can make of it (`Scaled`: the exact quotient, or one less where
a rounded factor may fall below an exact integer). `label` is the life of the
string LibVNCServer's screen points to.

### SharedInput

A client presses a *key*, but sends a *symbol* (`PressKey`, `ReleaseKey`), and
the server looks for the first key that has the symbol (`Lookup`, i.e.
`iterate_keys`). The device has one state per key (`down`), whoever pressed it.
`lost` collects the codes whose release cannot be expected from the one who
pressed them, because that client left or released another symbol; what else is
down must be held. Connections are one queue with `Eof` between them, since the
streamer serves them one after the other.

### SessionLink

`conn[c]` has the two ends of a connection. An end that its table has dropped is
`closed` only if no reference is left, else an `orphan`: `Apply` and
`SrvReleased` do what `g_object_unref` does. `asked` is the queue of
authentications the streamer has to answer, by PID. The start of the socket is
three steps (`Bind`, `Listen`, `Permit`), between which a helper may look.

### ClipboardSync

Copies carry who made them, so that an echo can be seen. A session's read is
asynchronous (`reads`, ended in any order by `ReadDone` or `ReadFails`); a text
from the network is set and its change is local, so it is not read.
`last` and `lone` are history: the last copy, and whether anything disturbed it.

### Framing and Channel

A cell is a type, a length or a block of a payload. `pc[e]` is the call an end
is in. `WriteShort` is a write that returns less than asked and `ReadPayload` a
read that does; the code takes both for success. After a boundary is lost the
end is `astray` and not followed further: what it does depends on bytes. `Exact`
cuts the history at the first torn text, and up to there each direction is shown
to be a `Channel`. A peer's death closes both directions at once here; the
references that can delay it are `SessionLink`'s.

## Runs

| run | instance of | properties | result |
|---|---|---|---|
| `cursor` | `CursorFollow` | `QuietBurstLands`: an undisturbed burst ends on its monitor; `OwnerCatchesUp`, `CursorFollows`: file and cursor catch up whatever happened | hold |
| `link` | `StreamerLink` | `OneFrameExchange`, `NoMutualBlock`, `WritesReturn`, `FramesFlow`, `PeerLossNoticed` | hold |
| `link_release` | `StreamerLink` | `NoReleaseWhileProcessing`, from the comment `rf-vnc-server.c` 430-433 | violated |
| `lifecycle` | `ServerLifecycle` | `ClientsCounted`, `ResourcesFollowClients`, `SessionNeedsStreamer`, `GoneNoticed`; `OnDemandSafety` and `OnDemandFairness`: it implements `CaptureOnDemand` | hold |
| `damage_cpu` | `DamageTrack` | `NothingLost`: every pixel a client lacks is marked; `NewestPicture`; `FirstUpdateIsFull` | hold |
| `damage_gpu` | `DamageTrack` | `TilesTold`: a tile a viewer shows is that of a picture the detector cannot tell from the buffer there, whole tiles and cut ones; errors do not add up over frames | hold |
| `desktop` | `ViewerDesktop` | `PointsAtPixel`: an event leads to the pixel that was pointed at; `RequestFollowed`: the last request stands through frames and lost streamers, within its bounds and of the plane's ratio, unless hardly a pixel fits | hold |
| `desktop_name` | `ViewerDesktop` | `NameIsKept`, from the comment `rf-lvnc-server.c` 306-308 | violated |
| `session` | `SessionLink` | `OnlyTrustedServed`, `WaitingIsAsked`, `PendingEnds`, `EofNoticed` | hold |
| `clipboard` | `ClipboardSync` | `NoEcho`; `LoneCopyArrives`: a lone copy reaches the other side and goes quiet | hold |
| `framing` | `Framing` | `AstrayAfterTorn`; `MessagesWhole`: both directions implement `Channel` to the first torn text; `TextsArrive`: and its liveness, unless jammed | hold |
| `input` | `SharedInput` | `KeysExplained`: what is down is held, or its holder left or changed symbols; `NobodyHolds`: without clients nothing stays down | hold |

Every module but `CaptureOnDemand` and `Channel` has its type invariant in one
of these runs.

### What the violations mean

- `link_release`: input processed inside the frame signal finds the streamer
  dead, and `on_frame_msg` goes on with a streamer that was stopped under it
  (`rf-streamer.c` 277-288). It arms a timer; unless a new start comes first, the
  timer's write has no connection and the message of an error that is not set is
  printed: the server crashes.
- `desktop_name`: LibVNCServer's screen keeps the pointer it was given at the
  first client (`rf-lvnc-server.c` 126-127). `set_desktop_name` frees that string
  (304) when the connector's name comes; the handshake of the next client reads
  freed memory, not "the previous desktop name".

### Other divergences met while modelling

The properties above are stated so that these do not make them false; each is in
the model and was seen in a counterexample to a stronger property.

- Cursor: two viewers on two monitors can make a streamer claim and write to the
  wrong monitor between its burst and its event, against "positions precisely on
  this monitor" (`reframe-streamer/main.c` 570-572); `CursorFollows` says it
  heals. A middle monitor is overrun ("no matter which monitor it started on",
  37-38; `PLAN.md` admits it). A mouse may have moved the cursor since the last
  frame, so that an event for a monitor without the cursor has no burst before
  it (`dists/example.conf` 29-32). With one cursor plane for all CRTCs the cached
  id reports another monitor's cursor (495).
- Pointer before the first frame: the guard at `rf-streamer.c` 684 looks at the
  desktop's size, which may be configured, not at the frame's.
- The GPU detector's previous texture is not cleared (`rf-converter.c` 704), so
  the first frame after a start may be a partial update or none. A frame whose
  import fails after the swap (1287) delivers an older picture; that is also why
  `NewestPicture` is about detectors that do not swap.
- A first picture as blank as the cleared buffer has no damage, and the VNC
  server gets no buffer from it (1353).
- A second connection of one PID overwrites the first in the table of
  `rf-session.c` (115); each write to a session leaks a reference (305), so that a
  connection dropped after a write error is never closed, which its helper
  therefore does not see.
- A socket that becomes ready between the scan and the monitor of a helper
  (`reframe-session/main.c` 318), or before its mode permits, is missed.
- The GPU detector asks only for a tile whose edge is a power of two
  (`rf-converter.c` 670-675), but where that edge does not divide the size, a
  change in what the mipmap leaves over at the right and at the bottom is not
  noticed (689-692, 1209-1212) until something else marks it.
- Size and ratio of the desktop are those of the primary plane
  (`reframe-server/main.c` 47-57), while the converter draws the CRTC's picture
  (`rf-converter.c` 1040-1049): a plane smaller than its monitor gives a distorted
  picture.
- A resize request before the first frame uses the ratio 1 (`reframe-server/main.c`
  93), and what it gives stays, because a size that is set is not recomputed. A
  request in which hardly a pixel of the ratio fits gives a size with a zero, which
  the next frame replaces by the whole plane, larger than asked (33, 47-54);
  `RequestFollowed` says that it happens in no other case. A request back to the size last sent is granted and dropped
  (`rf-lvnc-server.c` 69); a pointer position of a client that has not read of
  a smaller size lies outside the desktop (89).
- A release whose symbol is looked up as another key than the press (the modifiers
  have changed in between) leaves the first key down (`rf-vnc-server.c` 280).
- Two texts that cross leave each side with the other's (`reframe-session/main.c`
  112), and reads that end out of order leave the older copy (87).
- A long text is torn when the socket's buffer fills (`rf-common.c` 62 and
  `reframe-session/main.c` 42), and two ends that write with full buffers wait
  for each other for ever (`rf-session.c` 310).

### Bounds

Every bound is a CONSTANT or an operator of an `MC` module.

- `CursorFollow`: two monitors of 3 and 2 pixels (unequal, so that left and
  right differ), bursts of 4 steps of 2 px, longer than the desktop so that a
  burst that was disturbed early can still cross it; file failures and a mouse
  are on. Each monitor has its own cursor plane; `BurstLands` is proved for
  shared planes too. Liveness is claimed once the file works (`FileWorks`).
- `StreamerLink`: two connection identities (the one a dying streamer holds and
  the reopened one; a third would repeat them), one message buffered towards the
  streamer, so that a write blocks at once, and `CapOut` = 3 + `MaxAuth`, the
  least the assumption allows; the real buffer is far larger. One
  authentication at a time (`MaxAuth`).
- `ServerLifecycle`: three clients, so that one can leave while another stays
  and a third comes. Nothing else is bounded.
- `DamageTrack`: one client (clients do not influence each other's region), all
  pictures in two colours of a whole strip and a cut one, and of the whole strip
  alone, so that sizes change. For the GPU, rows of five and of four pixels with
  tiles of two, so that one size is cut and the other is not, four pictures of
  bars, of which two have the same averages and two differ only in the column the
  mipmap leaves over, and one driver's filter. Uninitialised memory is blank or a
  picture.
- `ViewerDesktop`: a rotated monitor of two modes at the right of a desktop,
  requests wider than its ratio and too narrow to leave a pixel, a default size
  with an unset half, planes that cover the monitor or leave a column of it, three
  spots a client points at. `PointerMax` is 40, so
  that it is no multiple of most sizes.
- `SharedInput`: two clients, two keys that share a symbol, one button, a symbol
  no key has, two messages in the sockets. A press repeats as the same key in the
  run (`MayShift` FALSE), as any key in the proof.
- `SessionLink`: a recognised helper and another program, two connections (of one
  PID or of two), two unhandled file events, three authentications.
- `ClipboardSync`: two sessions and one VNC client, two texts, two reads (so that
  they can end in the wrong order), one message per socket.
- `Framing`: buffers of three cells, two texts per end, of one block (they always
  fit) and of three (header and text never do).

### Fairness

- `CursorFollow`: a handler never waits for anybody, so its next step comes
  (WF). Frame requests come again and again and share a FIFO with inputs, so
  frames are handled however many inputs there are (SF). Nothing is assumed of
  users, mouse, compositor, or of `Accept` and `Exit`.
- `StreamerLink`: both processes run. The frame timer has `G_PRIORITY_HIGH`, and
  GLib dispatches every ready source of one priority per iteration, so timer and
  socket are not starved by clients, and a frame signal that goes on handling
  input ends (SF: other actions disable them for a time); writes and the
  streamer's loop are WF. Nothing forces a client to come, go, or move its
  pointer, or a streamer to die or live. Sleeps (the burst, the setup) end.
- `ServerLifecycle`: the idle callback and a readable socket are dispatched (WF).
- `SessionLink`: every ready source of both loops is dispatched, a start goes on,
  and the streamer answers (WF; `StreamerLink` checks that its writes return and
  its loop goes on). Nobody has to start, send or exit.
- `ClipboardSync`: received messages are handled and reads end (WF). Nobody has
  to copy, or to connect.
- `Framing`: an end that can go on with its call, or has input, does (WF of
  `Step`). Nobody has to copy or die. Jamming is excluded in the property, not by
  fairness.
- `SharedInput`: the streamer's loop reads on and the idle callbacks run (WF).
  Nobody has to release anything.

## Proofs

All are checked by TLAPS for every value of the constants that satisfies the
named assumptions.

`PositionProofs`, on `CursorFollow` (from `LayoutAssumption`, `BurstAssumption`,
`PlaneAssumption`, `SwitchAssumption`: any tiling of the desktop by monitors,
any step and count whose product covers the desktop, as the code's 120 * 40 px
is meant to)

- `TypedInvariant`, `TypeCorrect`: the type invariant needs two facts to be
  inductive: steps are left exactly while bursting (`StepsLeft`), and
  undisturbed steps and steps left together do not exceed the count
  (`QuietBound`).
- `BurstLands`: `QuietBurstLands` says nothing while the burst runs, so it is
  strengthened by `LandInv`: the cursor is at least `quiet * StepPx` from the
  edge it left, or at the edge it goes to (`Travelled`), and a burst onto an
  outermost monitor aims at its edge whatever monitor the file names
  (`AimsOutward`, lemma `DirectionOutward`). `StepTravels` is the arithmetic of
  one step.

`PositionProofs`, on `ViewerDesktop` (from `SizesAssumption`, `KindAssumption`: any
sizes, rotation and place of the monitor and any range of the pointer)

- `DesktopTypeCorrect`, `PointerCorrect`: the type invariant alone does not bound a
  position, because the frame's size is kept from an earlier frame while the shown
  size is that of the present mode; `ViewInv` adds that they agree while the
  streamer is connected (`FrameOfMode`). `PointerBounds` then takes the two axes of
  an event through the conversion: a client that knows the size last sent is off
  by one unit of the device at most.
- `RequestCorrect`: `RequestFollowed` is inductive once the ratio that `main`
  computes with is known to be that of the newest plane, or 1 before the first frame
  (`RatioKnown`), and a size with a zero is known to stem from a request too small
  for the ratio (`Standing`), because such a size is replaced by the next frame's
  plane. `ResizeStands` and `FrameStands` are the two steps. `ScaledBounds` bounds
  a truncated quotient, and one less where it is exact, which is what a division
  in floating point may give; `FitBounds` bounds with it both sides of the size
  that a request leads to (and `AxisBounds` the position above).
- Both modules are about positions in the desktop, and one module of theorems
  extends both: that is why `ViewerDesktop` says `DesktopInit`, `DesktopNext`,
  `DesktopSpec` and `DesktopTypeOK`. No proof about one cites the other's
  assumptions.

`StreamerLinkProofs` (from `ConnAssumption`, `NoneAssumption`, `CapAssumption`:
any capacity of the two socket buffers, any number of connections and of
authentications under way; the streamer's replies are small beside a socket
buffer, so the server's holds three of them and the authentications)

- `IInv` keeps the `Books` of the connection while the server runs. The one token
  of the frame exchange is in the timer, in a socket buffer, in the streamer's
  outbox or in the frame handler; `FrameTokens` counts it over all of these, and
  the lemmas on `Pending` say what appending to and taking from a sequence do to
  a count. `ServerOK` and `StreamerOK` tie the program counters to what is being
  sent; `BacklogOK` says that a connection waits to be accepted once only.
- `ExchangeCorrect` reads the count off. `NoDeadlock` adds the other books: nothing
  is answered before the message loop (`NotYetAnswered`), the setup messages come
  once (`InfoOnce`), and authentications are bounded (`AuthsBounded`). So what the
  server has not read, with what the streamer has still to write, is two messages,
  a frame and the authentications, for which its buffer has room.

`ServerLifecycleProofs` (from `ClientsAssumption`, `BackendAssumption`: any
finite set of clients, either backend)

- `IInv` joins the books (`Counted`) and what follows them (`Follows`):
  a handler that takes the last clients away keeps the resources right only
  because the count was, so that the last-client signal is asked for
  (`DropCounts`, by cardinality); a stop keeps them right only because somebody
  was there or a signal was pending (`StopReleases`).
- `CountCorrect`, `ResourcesCorrect`, `SessionCorrect` and `TypeCorrect` follow.
- `Implements`: every step of `ServerLifecycle` is a step of `CaptureOnDemand`
  or a stutter, with `watching <- alive`, `capturing <- streaming`.

`DamageTrackProofs` (from `SizesAssumption`, `PicturesAssumption`,
`KindAssumption`, `NoneAssumption`: any sizes and tiles, whole or cut, and any
function for what the GPU detector reads)

- `TilesCover` (every pixel is in a tile, by division), `AroundCovers` (every
  tile is in the rectangle; least and greatest elements of a finite set, from
  well-founded induction) and `DamageCovers` (so every pixel that differs is
  damaged) are the arithmetic of the detector, for any size and tile size.
- `TypeCorrect`: for both backends and all detectors.
- `NothingLostByCpu` and `NewestByCpu`: both follow from an inductive invariant,
  `Exact`. `NothingLost` is not inductive because it says nothing after a failed
  read; `Exact` relates what clients show to the *previous picture* instead,
  which a failed read leaves alone: a pixel that is neither marked nor stale is
  as in `prev`, and `prev` is `curr` unless the last conversion failed. The
  pixels that a new picture changes are in `Damage`, hence get marked. The
  theorem is about the detectors `cpu` and `none` with LibVNCServer. With NeatVNC
  it needs imports that do not fail.
- `TilesAreTold`, for any detector with LibVNCServer and sizes of any kind: the GPU
  detector does not see every change, so pixels do get lost, and `Exact` is no
  invariant. What is one is `TilesOfPrev`: a tile that is neither marked nor
  stale is, in the client's view, that of *one* delivered picture, which the
  detector reads there as it reads `prev`, against which the next picture is
  compared. It needs that the textures hold delivered pictures (`FromPictures`)
  and that what is marked are whole tiles, a cut one counting as far as it goes
  (`MarksAligned`, by `DamageAligned`). For the other detectors it follows from
  `NothingLostByCpu`.
- `WholeTilesRead`, a corollary: where what the detector reads of a tile depends on
  that tile only, as where the tile divides the size, the client's tile itself is
  read as the buffer's.
- `FirstIsFull` is an action property of the CPU detector: the previous picture
  is blank after `gen_buffers`, so a picture that is not has damage
  (`DamageCovers`), and the update that reports it is the first of a new
  framebuffer, which marks all.

`SharedInputProofs` (from `LayoutAssumption`, `QueueAssumption`: any keymap, any
buttons, any clients; a press may repeat as another key)

- `KeysCorrect`: `KeysExplained` speaks of empty sockets only. Its strengthening
  `NoStray` says of every queue that a code nobody accounts for is released
  after the last message that presses it (`Settled`; `SettledAppend` and
  `SettledTail` are what sending and reading do to that). It rests on `Ended`: a
  server that is not connected has put an end behind everything it sent, which
  releases all.

`SessionLinkProofs` (from `HelpersAssumption`, `BoundsAssumption`)

- `ServedCorrect`, `WaitingCorrect` and `TypeCorrect` follow from one invariant
  over the table of connections, `ConnsOK`, that is closed under forgetting
  (`TidyKeeps`) and under operations that let nobody wait who did not
  (`ChangeKeeps`). `WaitingIsAsked` needs that of one PID only one connection
  waits: the answer to the first question is for all that wait with its PID.

`ClipboardSyncProofs` (from `TextsAssumption`, `PartiesAssumption`,
`BoundsAssumption`)

- `NothingEchoed` is inductive once the reads under way are included
  (`Sourced`): what a session reads was copied in that session, because a change
  of its own is not read.

`FramingProofs` (from `SendersAssumption`, `RoomAssumption`, `CopiesAssumption`,
`SizesAssumption`: any room in the socket buffers, any number and sizes of texts,
one or two sending ends)

- The cells that belong to one direction form a run. `Rank` numbers type, length
  and payload of the n-th text 3n, 3n + 1 and 3n + 2; in a run the rank grows by
  one from cell to cell, or stays while blocks of one text follow (`Adjacent`,
  `Ascends`), and no text has more blocks than its size (`Fits`). `RunAppend` and
  `RunTake` are what writing and reading do to a run.
- `IInv` says of each direction whose reader has delivered no torn text that the
  pipe is a run from the cell last read (`ReadUpTo`) to the cell last written
  (`WrittenUpTo`), and that what was delivered is a prefix of what was sent
  (`Stream`). A write cut short breaks no run: it loses blocks of the text it
  writes, and the reader finds a torn text or waits. `Queued` is the subtle part:
  a text that is still being written cannot be complete for the reader.
- `StaysInStep` follows at once: the rank of the next cell is the one the reader
  waits for. `Implements` maps each step, for each direction, to a step of
  `Channel` or a stutter: a whole text is the next one sent, a torn one cuts the
  channel, and nothing after it counts (`BeforeAppend`).

Only model-checked are the liveness properties (`OwnerCatchesUp`,
`CursorFollows`, `WritesReturn`, `FramesFlow`, `PeerLossNoticed`,
`OnDemandFairness`, `GoneNoticed`, `PendingEnds`, `EofNoticed`,
`LoneCopyArrives`, `TextsArrive`, `NobodyHolds`), whose fairness TLAPS does not
handle.
ServerLifecycle with NeatVNC and CursorFollow with a shared plane are covered
by the proofs only, DamageTrack with NeatVNC by `TypeCorrect` only.

## Not modelled

- The GL pipeline: which pixels a shader computes is no behaviour over time.
  `DamageTrack` takes the drawn picture as an input, and what the damage shader reads
  for a tile as `Digest`, any function of the picture.
- The configuration parser: getters with defaults. `fps=0`, which divides by zero
  at `rf-streamer.c` 552, is one assignment, and no property is about it.
- Passwords and TLS of the VNC libraries, wheel events (they hold nothing), the
  scan codes of a keymap (a `Layout` is any function from keys to symbols).
- The choice of card and connector in `setup_drm`: one step of `StreamerLink`,
  which may fail.
- File descriptors that come with a frame, a peer whose credentials cannot be
  read, what an end does after it lost a message boundary.
- The Y axis of the cursor: no code depends on it.

## Plan

Every invariant and action property that a run finds true is a theorem. What is
left:

1. `NothingLost` of `DamageTrack` with NeatVNC, where `Exact` has to be said of the
   regions the library keeps, from the premise that no import fails.
2. What a step may never do in `ClipboardSync` and `SessionLink`, as action
   properties with theorems (now it is implied by their invariants only).
