---------------------------- MODULE StreamerLink ----------------------------
(***************************************************************************)
(* The connection between one reframe-server and its reframe-streamer: the *)
(* client object of the server (reframe-server/rf-streamer.c), the Unix    *)
(* socket with its bounded buffers and its listening backlog, and the      *)
(* accept and message loop of the streamer (reframe-streamer/main.c).      *)
(*                                                                         *)
(* The server is one GLib main loop: spc = "loop" is the loop between two  *)
(* callbacks, spc = "frame" is the inside of on_frame_msg while the frame  *)
(* signal runs, where the VNC library may deliver client input.  Writes    *)
(* block: a message being written is in "sending" (server) or "outbox"     *)
(* (streamer) until the socket has room.                                   *)
(***************************************************************************)
EXTENDS Naturals, Sequences, FiniteSets

CONSTANTS
  Conns,              \* identities of socket connections, reused
  None,               \* NULL connection, nothing being written
  CapIn,              \* messages the socket buffers towards the streamer
  CapOut,             \* messages the socket buffers towards the server
  MaxAuth,            \* bound: auth exchanges of sessions under way
  DesktopConfigured   \* desktop-width and desktop-height are set

ASSUME ConnAssumption == None \notin Conns /\ IsFiniteSet(Conns)
ASSUME NoneAssumption ==
  None \notin {"frame", "pointer", "key", "auth"}
(* A Unix socket buffers some 200 KB; a reply has a few hundred bytes. *)
ASSUME CapAssumption ==
  /\ CapIn \in Nat \ {0}
  /\ MaxAuth \in Nat
  /\ CapOut \in Nat /\ CapOut >= 3 + MaxAuth
  /\ DesktopConfigured \in BOOLEAN

VARIABLES
  running,     \* RfStreamer.running
  conn,        \* RfStreamer.connection
  timer,       \* RfStreamer.timer_id # 0
  sized,       \* RfStreamer.frame_width and frame_height are not 0
  spc,         \* where the server's main loop is
  sending,     \* the message the server is writing
  backlog,     \* connections waiting to be accepted
  toStreamer,  \* what each connection buffers towards the streamer
  toServer,    \* what each connection buffers towards the server
  tconn,       \* the connection of the streamer process
  tpc,         \* where the streamer process is
  outbox       \* the messages the streamer's handler is writing

server == <<running, conn, timer, sized, spc, sending>>
wire == <<backlog, toStreamer, toServer>>
streamer == <<tconn, tpc, outbox>>
vars == <<running, conn, timer, sized, spc, sending,
          backlog, toStreamer, toServer, tconn, tpc, outbox>>

Requests == {"frame", "pointer", "key", "auth"}
Replies == {"card", "connector", "frame", "empty", "auth"}

InBacklog(c) == \E i \in DOMAIN backlog : backlog[i] = c

(* The streamer's end of c: accepted, or still in the listening socket. *)
PeerOpen(c) == c = tconn \/ InBacklog(c)

Free(c) == c # conn /\ ~PeerOpen(c)

Pending(seq, kinds) == Cardinality({i \in DOMAIN seq : seq[i] \in kinds})

(* Auth exchanges under way; a bound of the model, sessions are few. *)
AuthsUnderWay ==
  LET c == conn IN
  IF c = None THEN 0
  ELSE Pending(toStreamer[c], {"auth"}) + Pending(toServer[c], {"auth"})
       + IF tconn = c THEN Pending(outbox, {"auth"}) ELSE 0

TypeOK ==
  /\ running \in BOOLEAN
  /\ conn \in Conns \cup {None}
  /\ timer \in BOOLEAN
  /\ sized \in BOOLEAN
  /\ spc \in {"loop", "frame", "crashed"}
  /\ sending \in Requests \cup {None}
  /\ backlog \in Seq(Conns)
  /\ toStreamer \in [Conns -> Seq(Requests)]
  /\ toServer \in [Conns -> Seq(Replies)]
  /\ tconn \in Conns \cup {None}
  /\ tpc \in {"listen", "setup", "loop"}
  /\ outbox \in Seq(Replies)
  /\ \A c \in Conns : Len(toStreamer[c]) <= CapIn /\ Len(toServer[c]) <= CapOut

-----------------------------------------------------------------------------
(* Server side.                                                            *)

Idle == spc = "loop" /\ sending = None

(* rf_streamer_stop: the timer is removed, the connection dropped. *)
StopStreamer ==
  /\ running' = FALSE
  /\ timer' = FALSE
  /\ conn' = None

(* rf_streamer_start for the first client.  The socket accepts into its    *)
(* backlog, whether or not a streamer process is ready.  schedule_frame_msg *)
(* keeps a timer that is already armed.                                    *)
Start(c) ==
  /\ Idle /\ ~running /\ Free(c)
  /\ running' = TRUE
  /\ conn' = c
  /\ timer' = TRUE
  /\ sized' = FALSE
  /\ backlog' = Append(backlog, c)
  /\ toStreamer' = [toStreamer EXCEPT ![c] = <<>>]
  /\ toServer' = [toServer EXCEPT ![c] = <<>>]
  /\ UNCHANGED <<spc, sending, streamer>>

(* The connect fails: the client object has only been reset. *)
StartFails ==
  /\ Idle /\ ~running
  /\ sized' = FALSE
  /\ UNCHANGED <<running, conn, timer, spc, sending, wire, streamer>>

(* The last client has gone (on_last_client). *)
LastClient ==
  /\ Idle /\ running
  /\ StopStreamer
  /\ UNCHANGED <<sized, spc, sending, wire, streamer>>

(* send_frame_msg starts to write.  On a stopped streamer there is no      *)
(* connection; the write fails without setting the error that is printed.  *)
TimerFires ==
  /\ Idle /\ timer
  /\ IF conn = None
       THEN spc' = "crashed" /\ UNCHANGED sending
       ELSE sending' = "frame" /\ UNCHANGED spc
  /\ UNCHANGED <<running, conn, timer, sized, wire, streamer>>

(* A client moves the pointer: from the main loop (NeatVNC reads its       *)
(* clients at any time, LibVNCServer once it has a framebuffer or sends a  *)
(* clipboard text), or nested in the frame signal (LibVNCServer).          *)
PointerEvent ==
  /\ spc \in {"loop", "frame"} /\ sending = None
  /\ running
  /\ DesktopConfigured \/ sized
  /\ sending' = "pointer"
  /\ UNCHANGED <<running, conn, timer, sized, spc, wire, streamer>>

KeyboardEvent ==
  /\ spc \in {"loop", "frame"} /\ sending = None
  /\ running
  /\ sending' = "key"
  /\ UNCHANGED <<running, conn, timer, sized, spc, wire, streamer>>

(* rf_streamer_auth for a session that connected. *)
AuthRequest ==
  /\ Idle /\ running
  /\ AuthsUnderWay < MaxAuth
  /\ sending' = "auth"
  /\ UNCHANGED <<running, conn, timer, sized, spc, wire, streamer>>

(* Variant with a bug: a sent request leaves its timer armed. *)
SentKeepsTimer ==
  /\ sending # None
  /\ PeerOpen(conn)
  /\ Len(toStreamer[conn]) < CapIn
  /\ toStreamer' = [toStreamer EXCEPT ![conn] = Append(@, sending)]
  /\ sending' = None
  /\ UNCHANGED <<running, conn, timer, sized, spc,
                 backlog, toServer, streamer>>

(* Variant with a bug: a write does not wait for room. *)
SentAnyway ==
  /\ sending # None
  /\ PeerOpen(conn)
  /\ toStreamer' = [toStreamer EXCEPT ![conn] = Append(@, sending)]
  /\ timer' = (timer /\ sending # "frame")
  /\ sending' = None
  /\ UNCHANGED <<running, conn, sized, spc, backlog, toServer, streamer>>

(* The write goes through; send_frame_msg then forgets its timer. *)
Sent ==
  /\ sending # None
  /\ PeerOpen(conn)
  /\ Len(toStreamer[conn]) < CapIn
  /\ toStreamer' = [toStreamer EXCEPT ![conn] = Append(@, sending)]
  /\ timer' = (timer /\ sending # "frame")
  /\ sending' = None
  /\ UNCHANGED <<running, conn, sized, spc, backlog, toServer, streamer>>

(* Variant with a bug: a failed write is tried again. *)
SendRetries ==
  /\ sending # None
  /\ ~PeerOpen(conn)
  /\ UNCHANGED vars

(* The write fails: stop, even from within the frame signal. *)
SendFails ==
  /\ sending # None
  /\ ~PeerOpen(conn)
  /\ sending' = None
  /\ StopStreamer
  /\ UNCHANGED <<sized, spc, wire, streamer>>

TakeReply(kinds) ==
  /\ Idle /\ running
  /\ toServer[conn] # <<>>
  /\ Head(toServer[conn]) \in kinds
  /\ toServer' = [toServer EXCEPT ![conn] = Tail(@)]

(* on_card_path_msg, on_connector_name_msg, on_auth_msg: nothing is sent. *)
OnInfo ==
  /\ TakeReply({"card", "connector", "auth"})
  /\ UNCHANGED <<server, backlog, toStreamer, streamer>>

(* on_frame_msg with buffers: the frame signal runs. *)
OnFrame ==
  /\ TakeReply({"frame"})
  /\ sized' = TRUE
  /\ spc' = "frame"
  /\ UNCHANGED <<running, conn, timer, sending, backlog, toStreamer, streamer>>

(* Variant with a bug: an empty frame ends the exchange. *)
OnEmptyFrameForgets ==
  /\ TakeReply({"empty"})
  /\ UNCHANGED <<server, backlog, toStreamer, streamer>>

(* on_frame_msg with length 0: no signal, the next frame is scheduled. *)
OnEmptyFrame ==
  /\ TakeReply({"empty"})
  /\ timer' = TRUE
  /\ UNCHANGED <<running, conn, sized, spc, sending,
                 backlog, toStreamer, streamer>>

(* Variant with a bug: a converted frame ends the exchange. *)
FrameDoneForgets ==
  /\ spc = "frame" /\ sending = None
  /\ spc' = "loop"
  /\ UNCHANGED <<running, conn, timer, sized, sending, wire, streamer>>

(* The frame signal returns and on_frame_msg schedules the next frame,     *)
(* without asking whether the streamer was stopped meanwhile.              *)
FrameDone ==
  /\ spc = "frame" /\ sending = None
  /\ spc' = "loop"
  /\ timer' = TRUE
  /\ UNCHANGED <<running, conn, sized, sending, wire, streamer>>

(* Variant with a bug: the end of the stream is taken for no data. *)
PeerGoneIgnored ==
  /\ Idle /\ running
  /\ ~PeerOpen(conn) /\ toServer[conn] = <<>>
  /\ UNCHANGED vars

(* on_socket_in, after what was buffered, reads the end of the stream, at a *)
(* message boundary or within a message the streamer did not finish.       *)
PeerGone ==
  /\ Idle /\ running
  /\ ~PeerOpen(conn) /\ toServer[conn] = <<>>
  /\ StopStreamer
  /\ UNCHANGED <<sized, spc, sending, wire, streamer>>

(* systemd restarts a crashed server. *)
ServerRestart ==
  /\ spc = "crashed"
  /\ spc' = "loop"
  /\ timer' = FALSE /\ sized' = FALSE
  /\ UNCHANGED <<running, conn, sending, wire, streamer>>

-----------------------------------------------------------------------------
(* Streamer side.                                                          *)

(* The process ends, or drops the connection; the socket unit starts the   *)
(* next one when a connection waits.                                       *)
Disconnect ==
  /\ tpc' = "listen"
  /\ tconn' = None
  /\ outbox' = <<>>

(* A connection is accepted; its peer passes auth_pid while it lives. *)
Accept ==
  /\ tpc = "listen" /\ backlog # <<>>
  /\ tconn' = Head(backlog)
  /\ tpc' = "setup"
  /\ backlog' = Tail(backlog)
  /\ UNCHANGED <<server, toStreamer, toServer, outbox>>

(* The peer has gone, and auth_pid cannot tell what it was. *)
AcceptRejects ==
  /\ tpc = "listen" /\ backlog # <<>>
  /\ Head(backlog) # conn
  /\ backlog' = Tail(backlog)
  /\ UNCHANGED <<server, toStreamer, toServer, streamer>>

(* setup_uinput and setup_drm took their seconds; now the card path and    *)
(* the connector name go out.                                              *)
SetupDone ==
  /\ tpc = "setup"
  /\ tpc' = "loop"
  /\ outbox' = <<"card", "connector">>
  /\ UNCHANGED <<server, wire, tconn>>

(* g_error in the setup, a signal, a failing device: the process is gone. *)
StreamerDies ==
  /\ tpc # "listen"
  /\ Disconnect
  /\ UNCHANGED <<server, wire>>

(* One reply goes through, as soon as the socket has room. *)
Write ==
  /\ outbox # <<>>
  /\ tconn = conn
  /\ Len(toServer[tconn]) < CapOut
  /\ toServer' = [toServer EXCEPT ![tconn] = Append(@, Head(outbox))]
  /\ outbox' = Tail(outbox)
  /\ UNCHANGED <<server, backlog, toStreamer, tconn, tpc>>

(* The server closed: setup_drm ignores a failed write, the handlers of    *)
(* the loop end it.                                                        *)
WriteFails ==
  /\ outbox # <<>>
  /\ tconn # conn
  /\ IF Head(outbox) \in {"card", "connector"}
       THEN outbox' = Tail(outbox) /\ UNCHANGED <<tconn, tpc>>
       ELSE Disconnect
  /\ UNCHANGED <<server, wire>>

(* One round of the message loop: on_frame_msg answers with buffers or     *)
(* with none, on_auth_msg answers, on_input_msg does not.                  *)
Handle ==
  /\ tpc = "loop" /\ outbox = <<>>
  /\ toStreamer[tconn] # <<>>
  /\ LET m == Head(toStreamer[tconn]) IN
       outbox' \in CASE m = "frame" -> {<<"frame">>, <<"empty">>}
                     [] m = "auth" -> {<<"auth">>}
                     [] OTHER -> {<<>>}
  /\ toStreamer' = [toStreamer EXCEPT ![tconn] = Tail(@)]
  /\ UNCHANGED <<server, backlog, toServer, tconn, tpc>>

(* The server closed and everything it sent is read. *)
EndOfStream ==
  /\ tpc = "loop" /\ outbox = <<>>
  /\ toStreamer[tconn] = <<>>
  /\ tconn # conn
  /\ Disconnect
  /\ UNCHANGED <<server, wire>>

-----------------------------------------------------------------------------
Init ==
  /\ running = FALSE /\ conn = None /\ timer = FALSE
  /\ sized = FALSE
  /\ spc = "loop" /\ sending = None
  /\ backlog = <<>>
  /\ toStreamer = [c \in Conns |-> <<>>]
  /\ toServer = [c \in Conns |-> <<>>]
  /\ tconn = None /\ tpc = "listen" /\ outbox = <<>>

ServerNext ==
  \/ \E c \in Conns : Start(c)
  \/ StartFails
  \/ LastClient
  \/ TimerFires
  \/ PointerEvent
  \/ KeyboardEvent
  \/ AuthRequest
  \/ Sent
  \/ SendFails
  \/ OnInfo
  \/ OnFrame
  \/ OnEmptyFrame
  \/ FrameDone
  \/ PeerGone
  \/ ServerRestart

StreamerNext ==
  \/ Accept
  \/ AcceptRejects
  \/ SetupDone
  \/ StreamerDies
  \/ Write
  \/ WriteFails
  \/ Handle
  \/ EndOfStream

Next == ServerNext \/ StreamerNext

Spec == Init /\ [][Next]_vars

(* on_socket_in: one callback for whatever the socket holds. *)
OnSocketIn == OnInfo \/ OnFrame \/ OnEmptyFrame \/ PeerGone

(* What the sequential streamer does next, unless it waits for a message. *)
StreamerStep ==
  \/ Accept \/ AcceptRejects \/ SetupDone
  \/ Write \/ WriteFails \/ Handle \/ EndOfStream

(* Both processes keep running.  The main loop of the server dispatches    *)
(* the frame timer before anything else (G_PRIORITY_HIGH) and every ready  *)
(* source of one priority in each iteration, so neither the timer nor the  *)
(* socket is starved by client input, and the client events nested in the  *)
(* frame signal end (SF); the rest is WF.                                  *)
Fairness ==
  /\ SF_vars(TimerFires)
  /\ SF_vars(OnSocketIn)
  /\ SF_vars(FrameDone)
  /\ WF_vars(Sent \/ SendFails)
  /\ WF_vars(StreamerStep)

FairSpec == Spec /\ Fairness

-----------------------------------------------------------------------------
(* The places a frame exchange can be in: the timer (armed, or its request *)
(* still being written), a request or a reply in the socket, a reply the   *)
(* streamer is writing, the frame signal.                                  *)
FrameTokens ==
  (IF timer THEN 1 ELSE 0)
  + Pending(toStreamer[conn], {"frame"})
  + (IF tconn = conn THEN Pending(outbox, {"frame", "empty"}) ELSE 0)
  + Pending(toServer[conn], {"frame", "empty"})
  + (IF spc = "frame" THEN 1 ELSE 0)

(* While the server is connected there is exactly one frame exchange: a    *)
(* second one would flood the socket, a lost one freezes the picture       *)
(* (schedule_frame_msg, send_frame_msg, on_frame_msg on both sides).  When *)
(* the streamer has died the exchange may have died with it.               *)
OneFrameExchange ==
  running => /\ FrameTokens <= 1
             /\ PeerOpen(conn) => FrameTokens = 1

(* What waits for the server is bounded by the exchange, the two setup     *)
(* messages and the auths, so a streamer whose socket buffers that much    *)
(* never blocks while the server blocks on a long relocation burst.        *)
NoMutualBlock ==
  \A c \in Conns :
    ~ /\ conn = c /\ tconn = c
      /\ sending # None /\ Len(toStreamer[c]) = CapIn
      /\ outbox # <<>> /\ Len(toServer[c]) = CapOut

(* A write of the server returns: the main loop is not stuck for good.     *)
WritesReturn == (sending # None) ~> (sending = None)

(* While a connection lasts, frames keep arriving (or empty replies, when  *)
(* the monitor is off), however much input the clients send.               *)
FramesFlow ==
  <>[](conn # None /\ PeerOpen(conn)) => []<><<OnFrame \/ OnEmptyFrame>>_vars

(* A dead streamer is noticed: the connection is dropped (and the clients  *)
(* with it).                                                               *)
PeerLossNoticed == (conn # None /\ ~PeerOpen(conn)) ~> (conn = None)

(* The comment before emit_client_signal: resources are not released while *)
(* still processing events.                                                *)
NoReleaseWhileProcessing ==
  [][spc = "frame" => conn' = conn]_vars

=============================================================================
