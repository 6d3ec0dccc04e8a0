-------------------------- MODULE ServerLifecycle ---------------------------
(***************************************************************************)
(* The life of reframe-server: VNC clients come and go, the streamer       *)
(* connection, the session socket and the EGL converter are acquired for   *)
(* the first client and released after the last one (reframe-server/       *)
(* main.c, rf-vnc-server.c, rf-lvnc-server.c, rf-nvnc-server.c and the     *)
(* start and stop operations of rf-streamer.c, rf-session.c and            *)
(* rf-converter.c).                                                        *)
(*                                                                         *)
(* One action is one dispatch of the GLib main loop, with every signal     *)
(* handler and every callback of the VNC library that nests in it.         *)
(***************************************************************************)
EXTENDS Integers, FiniteSets

CONSTANTS
  Clients,  \* VNC clients
  LibVNC    \* TRUE: rf-lvnc-server.c, FALSE: rf-nvnc-server.c

ASSUME ClientsAssumption == IsFiniteSet(Clients)
ASSUME BackendAssumption == LibVNC \in BOOLEAN

VARIABLES
  up,         \* the process runs, RfVNCServer is started
  alive,      \* clients the VNC library holds
  gone,       \* those whose peer has closed, not processed yet
  count,      \* this->clients of the backend
  wanted,     \* priv->clients: which signal is emitted next
  idle,       \* priv->client_idle_id # 0
  streaming,  \* RfStreamer.running
  session,    \* RfSession.running
  converter,  \* RfConverter.running
  hasBuf      \* this->buf of the backend is not NULL

vars == <<up, alive, gone, count, wanted, idle,
          streaming, session, converter, hasBuf>>
resources == <<streaming, session, converter, hasBuf>>

TypeOK ==
  /\ up \in BOOLEAN
  /\ alive \subseteq Clients
  /\ gone \subseteq alive
  /\ count \in Int
  /\ wanted \in BOOLEAN
  /\ idle \in BOOLEAN
  /\ streaming \in BOOLEAN
  /\ session \in BOOLEAN
  /\ converter \in BOOLEAN
  /\ hasBuf \in BOOLEAN

-----------------------------------------------------------------------------
(* Variant with a bug: the last-client signal is not asked for when the    *)
(* idle callback is already pending.                                       *)
DropWhenNoneIsPending(S, pending) ==
  LET last == count \in 1 .. Cardinality(S) IN
  /\ alive' = alive \ S
  /\ gone' = gone \ S
  /\ count' = count - Cardinality(S)
  /\ wanted' = (wanted /\ (~last \/ pending))
  /\ idle' = (pending \/ last)

(* Variant with a bug: a lost client stays among those to be processed. *)
DropKeepsGone(S, pending) ==
  LET last == count \in 1 .. Cardinality(S) IN
  /\ alive' = alive \ S
  /\ gone' = gone
  /\ count' = count - Cardinality(S)
  /\ wanted' = (wanted /\ ~last)
  /\ idle' = (pending \/ last)

(* on_client_gone for every client in S, inside whatever made the library  *)
(* notice.  The one that takes the count from 1 to 0 asks for the          *)
(* last-client signal; "pending" is client_idle_id before.                 *)
Drop(S, pending) ==
  LET last == count \in 1 .. Cardinality(S) IN
  /\ alive' = alive \ S
  /\ gone' = gone \ S
  /\ count' = count - Cardinality(S)
  /\ wanted' = (wanted /\ ~last)
  /\ idle' = (pending \/ last)

(* Variant with a bug: the "stop" signal is not wired to the session. *)
StreamerStopAlone(pending) ==
  /\ Drop(alive, pending)
  /\ streaming' = FALSE
  /\ session' = session

(* rf_streamer_stop of a running streamer: its "stop" signal flushes every *)
(* client out of the VNC server and stops the session.                     *)
StreamerStop(pending) ==
  /\ Drop(alive, pending)
  /\ streaming' = FALSE
  /\ session' = FALSE

(* on_incoming / on_new_client: the first client asks for its signal. *)
Incoming(c) ==
  /\ up /\ c \notin alive
  /\ alive' = alive \cup {c}
  /\ count' = count + 1
  /\ wanted' = (wanted \/ count = 0)
  /\ idle' = (idle \/ count = 0)
  /\ UNCHANGED <<up, gone, resources>>

(* rfbNewClient fails at once, and on_incoming undoes its count. *)
IncomingFails ==
  /\ up /\ LibVNC
  /\ wanted' = (wanted /\ count # 0)
  /\ idle' = (idle \/ count = 0)
  /\ UNCHANGED <<up, alive, gone, count, resources>>

(* The peer of a client closes its connection. *)
PeerCloses(c) ==
  /\ c \in alive \ gone
  /\ gone' = gone \cup {c}
  /\ UNCHANGED <<up, alive, count, wanted, idle, resources>>

(* Variant with a bug: the converter is asked, which a stop has emptied. *)
SocketInWhileConverting ==
  /\ gone # {}
  /\ converter \/ ~LibVNC
  /\ Drop(gone, idle)
  /\ UNCHANGED <<up, resources>>

(* on_socket_in / poll_aml: the library finds out about closed peers.      *)
(* LibVNCServer is not run before it has a framebuffer.                    *)
SocketIn ==
  /\ gone # {}
  /\ hasBuf \/ ~LibVNC
  /\ Drop(gone, idle)
  /\ UNCHANGED <<up, resources>>

(* The session sends a clipboard text: LibVNCServer passes it on and       *)
(* processes its events, with or without a framebuffer.                    *)
ClipboardText ==
  /\ LibVNC /\ session
  /\ Drop(gone, idle)
  /\ UNCHANGED <<up, resources>>

(* emit_client_signal, first client: the streamer starts, or runs already, *)
(* and its "start" signal starts the session, which may fail.              *)
FirstClient ==
  /\ idle /\ wanted
  /\ idle' = FALSE
  /\ streaming' = TRUE
  /\ session' \in IF streaming THEN {session} ELSE BOOLEAN
  /\ UNCHANGED <<up, alive, gone, count, wanted, converter, hasBuf>>

(* emit_client_signal, first client, and the streamer does not start: the  *)
(* clients are flushed.                                                    *)
FirstClientFails ==
  /\ idle /\ wanted
  /\ ~streaming
  /\ Drop(alive, FALSE)
  /\ UNCHANGED <<up, resources>>

(* Variant with a bug: the converter is kept for the next client. *)
LastClientKeepsConverter ==
  /\ idle /\ ~wanted
  /\ IF streaming
       THEN StreamerStop(FALSE)
       ELSE idle' = FALSE
            /\ UNCHANGED <<alive, gone, count, wanted, streaming, session>>
  /\ UNCHANGED <<up, converter, hasBuf>>

(* emit_client_signal, last client. *)
LastClient ==
  /\ idle /\ ~wanted
  /\ converter' = FALSE
  /\ IF streaming
       THEN StreamerStop(FALSE)
       ELSE idle' = FALSE
            /\ UNCHANGED <<alive, gone, count, wanted, streaming, session>>
  /\ UNCHANGED <<up, hasBuf>>

(* Variant with a bug: a lost streamer leaves its clients connected. *)
StreamerLostSilently ==
  /\ streaming
  /\ streaming' = FALSE
  /\ session' = FALSE
  /\ UNCHANGED <<up, alive, gone, count, wanted, idle, converter, hasBuf>>

(* The streamer is lost: end of stream, a bad message, a failed write. *)
StreamerLost ==
  /\ streaming
  /\ StreamerStop(idle)
  /\ UNCHANGED <<up, converter, hasBuf>>

(* on_frame: a frame is converted.  It may have no damage; otherwise it    *)
(* becomes the framebuffer, and LibVNCServer processes its events.         *)
Frame ==
  /\ streaming
  /\ converter' = TRUE
  /\ \/ UNCHANGED <<alive, gone, count, wanted, idle, hasBuf>>
     \/ /\ hasBuf' = TRUE
        /\ IF LibVNC THEN Drop(gone, idle)
                     ELSE UNCHANGED <<alive, gone, count, wanted, idle>>
  /\ UNCHANGED <<up, streaming, session>>

(* on_frame: the converter does not start, the clients are flushed; the    *)
(* streamer stays until the last-client signal.                            *)
FrameConverterFails ==
  /\ streaming /\ ~converter
  /\ Drop(alive, idle)
  /\ UNCHANGED <<up, resources>>

(* on_frame: an input that arrives while the update processes events finds *)
(* the streamer dead, and stops it from inside the frame.                  *)
FrameLosesStreamer ==
  /\ LibVNC /\ streaming
  /\ converter' = TRUE
  /\ hasBuf' = TRUE
  /\ StreamerStop(idle)
  /\ UNCHANGED up

(* SIGINT: the loop ends, everything is stopped and released. *)
Quit ==
  /\ up
  /\ up' = FALSE
  /\ alive' = {} /\ gone' = {} /\ count' = 0
  /\ wanted' = FALSE /\ idle' = FALSE
  /\ streaming' = FALSE /\ session' = FALSE
  /\ converter' = FALSE /\ hasBuf' = FALSE

(* The service is started again. *)
Launch ==
  /\ ~up
  /\ up' = TRUE
  /\ UNCHANGED <<alive, gone, count, wanted, idle, resources>>

Init ==
  /\ up = TRUE
  /\ alive = {} /\ gone = {} /\ count = 0
  /\ wanted = FALSE /\ idle = FALSE
  /\ streaming = FALSE /\ session = FALSE
  /\ converter = FALSE /\ hasBuf = FALSE

Next ==
  \/ \E c \in Clients : Incoming(c) \/ PeerCloses(c)
  \/ IncomingFails
  \/ SocketIn
  \/ ClipboardText
  \/ FirstClient
  \/ FirstClientFails
  \/ LastClient
  \/ StreamerLost
  \/ Frame
  \/ FrameConverterFails
  \/ FrameLosesStreamer
  \/ Quit
  \/ Launch

Spec == Init /\ [][Next]_vars

(* An idle source and a readable socket are dispatched sooner or later. *)
Fairness ==
  /\ WF_vars(FirstClient \/ FirstClientFails)
  /\ WF_vars(LastClient)
  /\ WF_vars(SocketIn)

FairSpec == Spec /\ Fairness

-----------------------------------------------------------------------------
(* The counter of the backend agrees with the clients the library holds,   *)
(* and the signal to be emitted next with both, through failed handshakes, *)
(* flushes and nested losses (on_incoming, on_client_gone,                 *)
(* rf_vnc_server_handle_first_client, ..._last_client).                    *)
ClientsCounted ==
  /\ count = Cardinality(alive)
  /\ wanted <=> alive # {}

(* When no signal is pending, the streamer runs exactly while there are    *)
(* clients, and nobody's converter and session are kept without any: the   *)
(* coalesced first/last signals (emit_client_signal) lose no transition.   *)
ResourcesFollowClients ==
  ~idle => /\ streaming <=> alive # {}
           /\ alive = {} => ~converter /\ ~session

(* The session socket is open only while the streamer, which must          *)
(* authenticate its peers, is connected (main's "start"/"stop" wiring).    *)
SessionNeedsStreamer == session => streaming

OnDemand == INSTANCE CaptureOnDemand
              WITH watching <- alive, capturing <- streaming

(* The server keeps the promise of CaptureOnDemand: the streamer is started *)
(* for somebody only, stopped when nobody is left, and its loss disconnects *)
(* everybody (the signals that main connects).                             *)
OnDemandSafety == OnDemand!Safety

(* And it is started for who stays, and stopped when nobody does: no       *)
(* coalesced signal is left out (rf_vnc_server_handle_first_client).       *)
OnDemandFairness == OnDemand!Fairness

(* A client whose peer is gone is noticed and no longer counted; with      *)
(* LibVNCServer, once there is a framebuffer.                              *)
GoneNoticed ==
  \A c \in Clients :
    (c \in gone /\ (hasBuf \/ ~LibVNC)) ~> (c \notin gone)

=============================================================================
