---------------------------- MODULE CursorFollow ----------------------------
(***************************************************************************)
(* Follow-the-cursor: one streamer process per monitor, one system cursor, *)
(* and one file that records which monitor is believed to show it          *)
(* (reframe-streamer/main.c).  Each streamer runs a sequential message     *)
(* loop; the loops of different streamers, the compositor and a physical   *)
(* mouse interleave.  Each access to the owner file is one step, because   *)
(* the code holds an exclusive flock for the whole access; the burst of    *)
(* relative motion between two accesses is not covered by any lock.        *)
(*                                                                         *)
(* Only the X axis is modelled: the code relocates along X alone.          *)
(***************************************************************************)
EXTENDS Integers

CONSTANTS
  Monitors,      \* one streamer per monitor
  PositionX,     \* config position-x: X of each monitor's left edge
  Width,         \* width of each monitor in pixels
  DesktopWidth,  \* width of the whole virtual desktop
  StepPx,        \* RELOCATE_STEP_PX
  StepCount,     \* RELOCATE_STEP_COUNT
  CursorOn,      \* monitors whose config has cursor=true
  Planes,        \* hardware cursor planes
  PlaneOf,       \* plane the driver uses when a CRTC shows the cursor
  NoPlane,       \* cursor_id = 0
  Unknown,       \* owner file missing, empty or unreadable
  FileMayFail,   \* may an access to the owner file fail?
  PhysicalMouse  \* does a mouse of the machine itself move the cursor?

Desktop == 0 .. DesktopWidth - 1
Span(m) == PositionX[m] .. PositionX[m] + Width[m] - 1
Positions == { PositionX[m] : m \in Monitors }

ASSUME LayoutAssumption ==
  /\ DesktopWidth \in Nat \ {0}
  /\ PositionX \in [Monitors -> Nat]
  /\ Width \in [Monitors -> Nat \ {0}]
  /\ \A m \in Monitors : Span(m) \subseteq Desktop
  /\ \A x \in Desktop : \E m \in Monitors : x \in Span(m)
  /\ \A m, k \in Monitors : m # k => Span(m) \cap Span(k) = {}

ASSUME BurstAssumption ==
  /\ StepPx \in Nat \ {0}
  /\ StepCount \in Nat \ {0}
  /\ StepCount * StepPx >= DesktopWidth

ASSUME PlaneAssumption ==
  /\ CursorOn \subseteq Monitors
  /\ PlaneOf \in [Monitors -> Planes]
  /\ NoPlane \notin Planes

ASSUME SwitchAssumption ==
  /\ Unknown \notin Int
  /\ FileMayFail \in BOOLEAN
  /\ PhysicalMouse \in BOOLEAN

VARIABLES
  cursor,  \* X of the system cursor (compositor state)
  shown,   \* does the compositor put the cursor on a hardware plane?
  owner,   \* content of the owner file
  pc,      \* what each streamer is about to do; "loop" waits for a message
  cached,  \* cursor_id of each streamer
  dir,     \* direction of the burst in progress, 0 when none was needed
  left,    \* relative steps the burst still has to emit
  quiet    \* history: own steps since anything else moved the cursor

vars == <<cursor, shown, owner, pc, cached, dir, left, quiet>>

Phases == {"down", "loop", "publish", "relocate", "claim", "write"}

On(m) == cursor \in Span(m)

TypeOK ==
  /\ cursor \in Desktop
  /\ shown \in BOOLEAN
  /\ owner \in Positions \cup {Unknown}
  /\ pc \in [Monitors -> Phases]
  /\ cached \in [Monitors -> Planes \cup {NoPlane}]
  /\ dir \in [Monitors -> {-1, 0, 1}]
  /\ left \in [Monitors -> 0 .. StepCount]
  /\ quiet \in [Monitors -> 0 .. StepCount]

-----------------------------------------------------------------------------
(* The compositor clamps relative motion to the desktop. *)
Clamp(x) == IF x < 0 THEN 0
            ELSE IF x >= DesktopWidth THEN DesktopWidth - 1
            ELSE x

(* Variant with a bug: the burst runs away from this monitor. *)
AwayFrom(m, ownerX) == IF PositionX[m] > ownerX THEN -1 ELSE 1

(* The direction of a burst: towards this monitor, as seen from the owner. *)
Toward(m, ownerX) == IF PositionX[m] > ownerX THEN 1 ELSE -1

(* The cursor moved by m's hand: every other streamer was disturbed. *)
Disturbed(m, own) == [k \in Monitors |-> IF k = m THEN own ELSE 0]

(* get_plane_id: the cursor plane that is bound to m's CRTC now. *)
GetPlaneId(m) == IF shown /\ On(m) THEN PlaneOf[m] ELSE NoPlane

(* make_buffer: plane p scans out a framebuffer, on whichever CRTC. *)
HasFramebuffer(p) == shown /\ \E k \in Monitors : On(k) /\ PlaneOf[k] = p

(* cursor_owner_publish: write the file, or warn and leave it. *)
CursorOwnerPublish(m) ==
  \/ owner' = PositionX[m]
  \/ FileMayFail /\ owner' = owner

Goto(m, from, to) ==
  /\ pc[m] = from
  /\ pc' = [pc EXCEPT ![m] = to]

-----------------------------------------------------------------------------
(* A server connects and is authorised; the devices are set up. *)
Accept(m) ==
  /\ Goto(m, "down", "loop")
  /\ UNCHANGED <<cursor, shown, owner, cached, dir, left, quiet>>

(* The server is gone, a signal, or an abort: the process exits wherever it *)
(* is, and what it cached goes with it; the owner file stays.               *)
Exit(m) ==
  /\ pc[m] # "down"
  /\ pc' = [pc EXCEPT ![m] = "down"]
  /\ cached' = [cached EXCEPT ![m] = NoPlane]
  /\ dir' = [dir EXCEPT ![m] = 0]
  /\ left' = [left EXCEPT ![m] = 0]
  /\ quiet' = [quiet EXCEPT ![m] = 0]
  /\ UNCHANGED <<cursor, shown, owner>>

(* Variant with a bug: only the frame that finds the plane publishes. *)
OnFrameMsgOnce(m) ==
  LET id == IF m \in CursorOn /\ cached[m] = NoPlane
              THEN GetPlaneId(m) ELSE cached[m]
      seen == id # cached[m]
  IN /\ Goto(m, "loop", IF seen THEN "publish" ELSE "loop")
     /\ cached' = [cached EXCEPT ![m] = id]
     /\ UNCHANGED <<cursor, shown, owner, dir, left, quiet>>

(* on_frame_msg up to the cursor plane.  The plane is looked up until it is *)
(* found once; then its id is kept.  A frame without CRTC or primary plane  *)
(* is answered empty and changes nothing here.                              *)
OnFrameMsg(m) ==
  LET id == IF m \in CursorOn /\ cached[m] = NoPlane
              THEN GetPlaneId(m) ELSE cached[m]
      seen == id # NoPlane /\ HasFramebuffer(id)
  IN /\ Goto(m, "loop", IF seen THEN "publish" ELSE "loop")
     /\ cached' = [cached EXCEPT ![m] = id]
     /\ UNCHANGED <<cursor, shown, owner, dir, left, quiet>>

(* The rest of on_frame_msg: publish what was seen, answer the frame. *)
PublishFrame(m) ==
  /\ Goto(m, "publish", "loop")
  /\ CursorOwnerPublish(m)
  /\ UNCHANGED <<cursor, shown, cached, dir, left, quiet>>

(* on_input_msg: read the owner file; the cursor is here, or unknown. *)
InputHere(m) ==
  /\ owner \in {Unknown, PositionX[m]} \/ FileMayFail
  /\ Goto(m, "loop", "write")
  /\ UNCHANGED <<cursor, shown, owner, cached, dir, left, quiet>>

(* on_input_msg: the file names another monitor, so a burst starts. *)
InputElsewhere(m) ==
  /\ owner \notin {Unknown, PositionX[m]}
  /\ Goto(m, "loop", "relocate")
  /\ dir' = [dir EXCEPT ![m] = Toward(m, owner)]
  /\ left' = [left EXCEPT ![m] = StepCount]
  /\ UNCHANGED <<cursor, shown, owner, cached, quiet>>

OnInputMsg(m) == InputHere(m) \/ InputElsewhere(m)

(* Variant with a bug: the burst emits one step too many. *)
RelocateStepOneMore(m) ==
  /\ Goto(m, "relocate", IF left[m] = 0 THEN "claim" ELSE "relocate")
  /\ cursor' = Clamp(cursor + dir[m] * StepPx)
  /\ left' = [left EXCEPT ![m] = @ - 1]
  /\ quiet' = Disturbed(m, quiet[m] + 1)
  /\ UNCHANGED <<shown, owner, cached, dir>>

(* One iteration of cursor_relocate: a relative step, then 3 ms of sleep. *)
RelocateStep(m) ==
  /\ Goto(m, "relocate", IF left[m] = 1 THEN "claim" ELSE "relocate")
  /\ cursor' = Clamp(cursor + dir[m] * StepPx)
  /\ left' = [left EXCEPT ![m] = @ - 1]
  /\ quiet' = Disturbed(m, quiet[m] + 1)
  /\ UNCHANGED <<shown, owner, cached, dir>>

(* cursor_owner_claim after the burst, without looking at the cursor. *)
Claim(m) ==
  /\ Goto(m, "claim", "write")
  /\ CursorOwnerPublish(m)
  /\ UNCHANGED <<cursor, shown, cached, dir, left, quiet>>

(* The absolute event goes to uinput.  The compositor confines it to the   *)
(* output that shows the cursor, whichever monitor it was meant for.       *)
WriteEvent(m) ==
  /\ Goto(m, "write", "loop")
  /\ \E k \in Monitors : On(k) /\ cursor' \in Span(k)
  /\ dir' = [dir EXCEPT ![m] = 0]
  /\ quiet' = Disturbed(m, 0)
  /\ UNCHANGED <<shown, owner, cached, left>>

(* The machine's own mouse moves the cursor anywhere. *)
MoveMouse ==
  /\ PhysicalMouse
  /\ cursor' \in Desktop
  /\ quiet' = [m \in Monitors |-> 0]
  /\ UNCHANGED <<shown, owner, pc, cached, dir, left>>

(* The compositor hides the cursor, or shows it again. *)
ToggleShown ==
  /\ shown' = ~shown
  /\ UNCHANGED <<cursor, owner, pc, cached, dir, left, quiet>>

Init ==
  /\ cursor \in Desktop
  /\ shown \in BOOLEAN
  /\ owner \in Positions \cup {Unknown}
  /\ pc = [m \in Monitors |-> "down"]
  /\ cached = [m \in Monitors |-> NoPlane]
  /\ dir = [m \in Monitors |-> 0]
  /\ left = [m \in Monitors |-> 0]
  /\ quiet = [m \in Monitors |-> 0]

Streamer(m) ==
  \/ Accept(m)
  \/ Exit(m)
  \/ OnFrameMsg(m)
  \/ PublishFrame(m)
  \/ OnInputMsg(m)
  \/ RelocateStep(m)
  \/ Claim(m)
  \/ WriteEvent(m)

Next ==
  \/ \E m \in Monitors : Streamer(m)
  \/ MoveMouse
  \/ ToggleShown

Spec == Init /\ [][Next]_vars

(* A streamer never waits inside a handler: the loop of a running process   *)
(* continues (WF).  The server requests a frame again and again, and        *)
(* requests and inputs share one FIFO socket, so a frame request is handled *)
(* however many inputs come between (SF).                                   *)
Fairness ==
  \A m \in Monitors :
    /\ WF_vars(PublishFrame(m))
    /\ WF_vars(RelocateStep(m))
    /\ WF_vars(Claim(m))
    /\ WF_vars(WriteEvent(m))
    /\ SF_vars(OnFrameMsg(m))

FairSpec == Spec /\ Fairness

-----------------------------------------------------------------------------
Outermost(m) ==
  PositionX[m] = 0 \/ PositionX[m] + Width[m] = DesktopWidth

(* A burst onto an outermost monitor, in whose last part nothing else moved *)
(* the cursor for as many steps as it takes to cross the desktop, leaves    *)
(* the cursor on that monitor when the handler claims it and when it        *)
(* forwards the event: wherever the cursor started, however wrong the owner *)
(* file was, and whatever disturbed the first part of the burst             *)
(* (cursor_relocate, on_input_msg).                                         *)
QuietBurstLands ==
  \A m \in Monitors :
    /\ Outermost(m)
    /\ dir[m] # 0
    /\ pc[m] \in {"claim", "write"}
    /\ quiet[m] * StepPx >= DesktopWidth - 1
    => On(m)

(* From some point on the accesses to the owner file succeed. *)
FileWorks ==
  <>[][\A m \in Monitors :
         /\ PublishFrame(m) \/ Claim(m) => owner' = PositionX[m]
         /\ InputHere(m) => owner \in {Unknown, PositionX[m]}]_vars

(* While the cursor stays on a monitor whose streamer runs and whose cursor *)
(* plane is visible, the owner file names that monitor again and again: no  *)
(* claim or late publish of another streamer, and no access that failed     *)
(* before, sticks (on_frame_msg).                                           *)
OwnerCatchesUp ==
  FileWorks =>
    \A m \in CursorOn :
      <>[](On(m) /\ shown /\ pc[m] # "down") => []<>(owner = PositionX[m])

(* From some point on nobody but the viewer of m acts. *)
OnlyDriven(m) ==
  /\ []<><<OnInputMsg(m)>>_vars
  /\ <>[][\A k \in Monitors \ {m} : ~OnInputMsg(k)]_vars
  /\ <>[][~MoveMouse]_vars
  /\ <>[](shown /\ \A k \in Monitors : pc[k] # "down")

(* The cursor follows: if in the end the user drives one outermost monitor  *)
(* only, and every streamer runs, the cursor comes to that monitor and      *)
(* stays there, and its inputs are no longer delayed by bursts, whatever    *)
(* races, failures and stale files came before.                             *)
CursorFollows ==
  \A m \in Monitors :
    FileWorks /\ OnlyDriven(m) /\ Outermost(m)
      => <>[](On(m) /\ pc[m] # "relocate")

=============================================================================
