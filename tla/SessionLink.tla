----------------------------- MODULE SessionLink -----------------------------
(***************************************************************************)
(* The session socket of one reframe-server and the reframe-session        *)
(* helpers that connect to it (rf-session.c, reframe-session/main.c).      *)
(*                                                                         *)
(* A helper looks for sockets once and then waits for files to be created; *)
(* the server keeps a new connection in a table by PID, has the streamer   *)
(* authenticate the PID and then serves or drops the connection.  GObject  *)
(* references decide when a dropped socket is really closed: an end that   *)
(* nobody serves but something still refers to is an orphan.               *)
(*                                                                         *)
(* Server actions are dispatches of its main loop, except for the three    *)
(* steps of the start, between which a helper may run.                     *)
(***************************************************************************)
EXTENDS Naturals, Sequences, FiniteSets

CONSTANTS
  Helpers,    \* processes that connect, by PID
  Trusted,    \* those whose executable is reframe-session
  Conns,      \* identities of connections
  Nobody,     \* owner of an unused connection
  MaxEvents,  \* bound of the model: file events a helper has not handled
  MaxAsked    \* bound of the model: authentications under way

ASSUME HelpersAssumption == Trusted \subseteq Helpers /\ Nobody \notin Helpers
ASSUME BoundsAssumption == {MaxEvents, MaxAsked} \subseteq Nat \ {0}

VARIABLES
  path,    \* the socket file: none, bound, listening, ready (the session
           \* runs) or dead (left by a closed listener)
  asked,   \* PIDs whose authentication is under way, in order
  conn,    \* the connections
  phase,   \* of a helper: down, scan, monitor, loop, gone
  events   \* CREATED events a helper has not handled

vars == <<path, asked, conn, phase, events>>

Unused == [owner |-> Nobody, srv |-> "none", cli |-> "none",
           srvRef |-> FALSE, cliRef |-> FALSE]

Connection == [owner : Helpers \cup {Nobody},
               srv : {"none", "backlog", "waiting", "served", "orphan", "closed"},
               cli : {"none", "open", "orphan", "closed"},
               srvRef : BOOLEAN, cliRef : BOOLEAN]

SrvIs(st) == {c \in Conns : conn[c].srv = st}
CliIs(h, st) == {c \in Conns : conn[c].owner = h /\ conn[c].cli = st}

TypeOK ==
  /\ path \in {"none", "bound", "listening", "ready", "dead"}
  /\ asked \in Seq(Helpers) /\ Len(asked) <= MaxAsked
  /\ conn \in [Conns -> Connection]
  /\ \A c \in Conns : conn[c].owner = Nobody <=> conn[c] = Unused
  /\ \A c, d \in SrvIs("waiting") : conn[c].owner = conn[d].owner => c = d
  /\ phase \in [Helpers -> {"down", "scan", "monitor", "loop", "gone"}]
  /\ events \in [Helpers -> 0 .. MaxEvents]

-----------------------------------------------------------------------------
(* A connection of which neither end is used can be forgotten, even when   *)
(* its descriptors leak.                                                   *)
Tidy(f) == [c \in Conns |->
              IF f[c].srv \in {"orphan", "closed"} /\ f[c].cli \in {"orphan", "closed"}
                THEN Unused ELSE f[c]]

(* Releasing an end closes it unless a reference to it has leaked.         *)
SrvReleased(r) == [r EXCEPT !.srv = IF r.srvRef THEN "orphan" ELSE "closed"]
CliReleased(r) == [r EXCEPT !.cli = IF r.cliRef THEN "orphan" ELSE "closed"]

(* Apply an operation to the connections in a set. *)
Apply(Op(_), C) == conn' = Tidy([c \in Conns |-> IF c \in C THEN Op(conn[c]) ELSE conn[c]])

-----------------------------------------------------------------------------
(* The server.                                                             *)

(* rf_session_start: the old file is removed, and binding creates a new    *)
(* one, which the helpers that monitor the directory are told.             *)
Bind ==
  /\ path \in {"none", "dead"}
  /\ \A h \in Helpers : events[h] < MaxEvents
  /\ path' = "bound"
  /\ events' = [h \in Helpers |->
                  IF phase[h] = "loop" THEN events[h] + 1 ELSE events[h]]
  /\ UNCHANGED <<asked, conn, phase>>

(* g_socket_listener_add_address fails after the old file was removed. *)
BindFails ==
  /\ path \in {"none", "dead"}
  /\ path' = "none"
  /\ UNCHANGED <<asked, conn, phase, events>>

Listen ==
  /\ path = "bound"
  /\ path' = "listening"
  /\ UNCHANGED <<asked, conn, phase, events>>

(* rf_set_group and g_chmod: from here helpers are permitted to connect.   *)
Permit ==
  /\ path = "listening"
  /\ path' = "ready"
  /\ UNCHANGED <<asked, conn, phase, events>>

(* Variant with a bug: the table keeps both sockets of a PID. *)
IncomingKeepsBoth(c) ==
  /\ path = "ready" /\ conn[c].srv = "backlog"
  /\ Len(asked) < MaxAsked
  /\ conn' = [conn EXCEPT ![c].srv = "waiting"]
  /\ asked' = Append(asked, conn[c].owner)
  /\ UNCHANGED <<path, phase, events>>

(* on_incoming: the connection is kept by the PID of its peer.  A PID that *)
(* is there already gets the new socket, and nobody refers to the old one  *)
(* but by the reference the table had.                                     *)
Incoming(c) ==
  /\ path = "ready" /\ conn[c].srv = "backlog"
  /\ Len(asked) < MaxAsked
  /\ conn' = Tidy([d \in Conns |->
       CASE d = c -> [conn[d] EXCEPT !.srv = "waiting"]
         [] d # c /\ conn[d].srv = "waiting" /\ conn[d].owner = conn[c].owner ->
              [conn[d] EXCEPT !.srv = "orphan"]
         [] OTHER -> conn[d]])
  /\ asked' = Append(asked, conn[c].owner)
  /\ UNCHANGED <<path, phase, events>>

(* Variant with a bug: a PID that is not accepted stays in the table. *)
AuthReplyForgets ==
  /\ path = "ready" /\ asked # <<>>
  /\ LET pid == Head(asked)
         ok == pid \in Trusted
         Answer(r) == IF ok THEN [r EXCEPT !.srv = "served"] ELSE r
     IN Apply(Answer, {c \in SrvIs("waiting") : conn[c].owner = pid})
  /\ asked' = Tail(asked)
  /\ UNCHANGED <<path, phase, events>>

(* Variant with a bug: the result is not looked at. *)
AuthReplyAny ==
  /\ path = "ready" /\ asked # <<>>
  /\ LET Answer(r) == [r EXCEPT !.srv = "served"]
     IN Apply(Answer, {c \in SrvIs("waiting") : conn[c].owner = Head(asked)})
  /\ asked' = Tail(asked)
  /\ UNCHANGED <<path, phase, events>>

(* rf_session_auth: the streamer has compared the executable of the PID,   *)
(* or found that the process has gone.                                     *)
AuthReply ==
  /\ path = "ready" /\ asked # <<>>
  /\ LET pid == Head(asked)
         ok == pid \in Trusted /\ phase[pid] # "gone"
         Answer(r) == IF ok THEN [r EXCEPT !.srv = "served"] ELSE SrvReleased(r)
     IN Apply(Answer, {c \in SrvIs("waiting") : conn[c].owner = pid})
  /\ asked' = Tail(asked)
  /\ UNCHANGED <<path, phase, events>>

(* rf_session_send_clipboard_text_msg: every connection object made for a  *)
(* write is kept; a write to a closed peer drops the socket from the table. *)
ServerSend ==
  /\ path = "ready" /\ SrvIs("served") # {}
  /\ LET Write(r) == [r EXCEPT !.srvRef = TRUE,
                               !.srv = IF r.cli = "closed" THEN "orphan" ELSE "served"]
     IN Apply(Write, SrvIs("served"))
  /\ UNCHANGED <<path, asked, phase, events>>

(* on_socket_in reads the end of the stream. *)
ServerEof(c) ==
  /\ conn[c].srv = "served" /\ conn[c].cli = "closed"
  /\ Apply(SrvReleased, {c})
  /\ UNCHANGED <<path, asked, phase, events>>

(* Variant with a bug: the sockets that wait for an answer are kept. *)
StopKeepsPids ==
  /\ path = "ready"
  /\ path' = "dead"
  /\ Apply(SrvReleased, SrvIs("backlog") \cup SrvIs("served"))
  /\ asked' = <<>>
  /\ UNCHANGED <<phase, events>>

(* rf_session_stop, when the streamer stops and takes the authentications  *)
(* with it: both tables are cleared, the listener is closed, the file      *)
(* stays.                                                                  *)
Stop ==
  /\ path = "ready"
  /\ path' = "dead"
  /\ Apply(SrvReleased, SrvIs("backlog") \cup SrvIs("waiting") \cup SrvIs("served"))
  /\ asked' = <<>>
  /\ UNCHANGED <<phase, events>>

(* reframe-server ends, in whatever way: the kernel closes everything.     *)
ServerExit ==
  /\ path # "none"
  /\ path' = "dead"
  /\ LET Close(r) == [r EXCEPT !.srv = "closed", !.srvRef = FALSE]
     IN Apply(Close, {c \in Conns : conn[c].owner # Nobody})
  /\ asked' = <<>>
  /\ UNCHANGED <<phase, events>>

-----------------------------------------------------------------------------
(* A helper.                                                               *)

(* connect: it succeeds only if the server listens and permits it.         *)
Connect(h) ==
  IF path = "ready"
    THEN \E c \in Conns :
           /\ conn[c] = Unused
           /\ conn' = [conn EXCEPT ![c] = [Unused EXCEPT !.owner = h,
                                             !.srv = "backlog", !.cli = "open"]]
    ELSE UNCHANGED conn

HelperStart(h) ==
  /\ phase[h] = "down"
  /\ phase' = [phase EXCEPT ![h] = "scan"]
  /\ UNCHANGED <<path, asked, conn, events>>

(* main: the directory is read once. *)
Scan(h) ==
  /\ phase[h] = "scan"
  /\ Connect(h)
  /\ phase' = [phase EXCEPT ![h] = "monitor"]
  /\ UNCHANGED <<path, asked, events>>

(* main: g_file_monitor_directory; events come from here on. *)
Monitor(h) ==
  /\ phase[h] = "monitor"
  /\ phase' = [phase EXCEPT ![h] = "loop"]
  /\ UNCHANGED <<path, asked, conn, events>>

(* on_changed, for a file that is still there. *)
OnChanged(h) ==
  /\ phase[h] = "loop" /\ events[h] > 0
  /\ events' = [events EXCEPT ![h] = @ - 1]
  /\ IF path # "none" THEN Connect(h) ELSE UNCHANGED conn
  /\ UNCHANGED <<path, asked, phase>>

(* send_clipboard_text_msg, as in the server. *)
HelperSend(h) ==
  /\ phase[h] = "loop" /\ CliIs(h, "open") # {}
  /\ LET Write(r) == [r EXCEPT !.cliRef = TRUE,
                               !.cli = IF r.srv = "closed" THEN "orphan" ELSE "open"]
     IN Apply(Write, CliIs(h, "open"))
  /\ UNCHANGED <<path, asked, phase, events>>

(* Variant with a bug: the end of the stream is not taken for an end. *)
HelperEofKeeps(h, c) ==
  /\ phase[h] = "loop"
  /\ conn[c].owner = h /\ conn[c].cli = "open" /\ conn[c].srv = "closed"
  /\ UNCHANGED vars

(* on_socket_in reads the end of the stream. *)
HelperEof(h, c) ==
  /\ phase[h] = "loop"
  /\ conn[c].owner = h /\ conn[c].cli = "open" /\ conn[c].srv = "closed"
  /\ Apply(CliReleased, {c})
  /\ UNCHANGED <<path, asked, phase, events>>

(* The user's session ends; a later one has another PID.                 *)
HelperExit(h) ==
  /\ phase[h] \notin {"down", "gone"}
  /\ phase' = [phase EXCEPT ![h] = "gone"]
  /\ events' = [events EXCEPT ![h] = 0]
  /\ LET Close(r) == [r EXCEPT !.cli = "closed", !.cliRef = FALSE]
     IN Apply(Close, {c \in Conns : conn[c].owner = h})
  /\ UNCHANGED <<path, asked>>

-----------------------------------------------------------------------------
Init ==
  /\ path = "none"
  /\ asked = <<>>
  /\ conn = [c \in Conns |-> Unused]
  /\ phase = [h \in Helpers |-> "down"]
  /\ events = [h \in Helpers |-> 0]

Server ==
  \/ Bind \/ BindFails \/ Listen \/ Permit
  \/ \E c \in Conns : Incoming(c) \/ ServerEof(c)
  \/ AuthReply \/ ServerSend
  \/ Stop \/ ServerExit

Helper(h) ==
  \/ HelperStart(h) \/ Scan(h) \/ Monitor(h) \/ OnChanged(h)
  \/ HelperSend(h)
  \/ \E c \in Conns : HelperEof(h, c)
  \/ HelperExit(h)

Next == Server \/ \E h \in Helpers : Helper(h)

Spec == Init /\ [][Next]_vars

(* Every source of the two main loops that is ready is dispatched, a       *)
(* process that starts goes on, and the streamer answers.                  *)
Fairness ==
  /\ WF_vars(Listen) /\ WF_vars(Permit)
  /\ WF_vars(AuthReply)
  /\ \A c \in Conns : WF_vars(Incoming(c)) /\ WF_vars(ServerEof(c))
  /\ \A h \in Helpers :
       /\ WF_vars(Scan(h)) /\ WF_vars(Monitor(h)) /\ WF_vars(OnChanged(h))
       /\ \A c \in Conns : WF_vars(HelperEof(h, c))

FairSpec == Spec /\ Fairness

-----------------------------------------------------------------------------
(* Only a helper the streamer has recognised is served, although the       *)
(* answer names a PID and that PID may have connected again meanwhile      *)
(* (on_incoming, rf_session_auth).                                         *)
OnlyTrustedServed ==
  \A c \in Conns : conn[c].srv = "served" => conn[c].owner \in Trusted

(* Whoever waits has been asked for: no connection is in the table of PIDs *)
(* without an answer to come (on_incoming, rf_session_auth,                *)
(* rf_session_stop).                                                       *)
WaitingIsAsked ==
  \A c \in SrvIs("waiting") : \E i \in 1 .. Len(asked) : asked[i] = conn[c].owner

(* A connection does not wait for ever for its authentication.             *)
PendingEnds ==
  \A c \in Conns : conn[c].srv = "waiting" ~> conn[c].srv # "waiting"

(* A connection the server has closed is dropped by its helper, unless     *)
(* the helper ends first (on_socket_in of reframe-session/main.c).         *)
EofNoticed ==
  \A c \in Conns :
    (conn[c].srv = "closed" /\ conn[c].cli = "open") ~>
      ~(conn[c].srv = "closed" /\ conn[c].cli = "open")

=============================================================================
