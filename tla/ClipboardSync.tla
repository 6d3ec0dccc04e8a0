---------------------------- MODULE ClipboardSync ----------------------------
(***************************************************************************)
(* The clipboard text of user sessions and VNC clients: an application of  *)
(* a session copies, its reframe-session reads the text and sends it to    *)
(* reframe-server, which hands it to the VNC clients; a VNC client copies, *)
(* the server sends the text to every session, and reframe-session sets    *)
(* it (reframe-session/main.c, rf-session.c, the clipboard operations of   *)
(* rf-vnc-server.c and of both backends, wired in reframe-server/main.c).  *)
(*                                                                         *)
(* Only the text messages of the sockets are modelled here, as queues;     *)
(* who may connect is SessionLink.  What the clipboard of a session holds  *)
(* and tells of its changes is GDK's.                                      *)
(***************************************************************************)
EXTENDS Naturals, Sequences, SequencesExt

CONSTANTS
  Sessions,   \* user sessions with a reframe-session
  Viewers,    \* VNC clients
  Texts,      \* what can be copied
  Else,       \* something without text/plain
  Unset,      \* a clipboard nobody has used
  MayDrop,    \* connections are made and lost and reads may fail; if not,
              \* every session is connected all the time
  ViewersCopy, \* VNC clients copy, too
  MaxReads,   \* bound of the model: reads under way in a session
  MaxQueue    \* bound of the model: messages in a socket

ASSUME TextsAssumption == Else \notin Texts /\ Unset \notin Texts \cup {Else}
ASSUME PartiesAssumption == Sessions \cap Viewers = {} /\ {MayDrop, ViewersCopy} \subseteq BOOLEAN
ASSUME BoundsAssumption == {MaxReads, MaxQueue} \subseteq Nat \ {0}

VARIABLES
  clip,      \* of a session: what is on the clipboard and who put it there
  reads,     \* of a session: texts gdk_clipboard_read_text_async is to bring
  linked,    \* sessions that are in the tables of both processes
  toServer,  \* messages from a session
  toSession, \* messages to a session
  view,      \* clipboard of a VNC client
  last,      \* history: the last copy, by whom and what
  lone       \* history: nothing else was under way then, and no connection
             \* has been made or lost since

vars == <<clip, reads, linked, toServer, toSession, view, last, lone>>

(* A text and who copied it. *)
Copy == [by : Sessions \cup Viewers, text : Texts]

TypeOK ==
  /\ clip \in [Sessions -> [what : Texts \cup {Else, Unset}, local : BOOLEAN]]
  /\ reads \in [Sessions -> Seq(Copy)]
  /\ linked \subseteq Sessions
  /\ toServer \in [Sessions -> Seq(Copy)] /\ toSession \in [Sessions -> Seq(Copy)]
  /\ \A s \in Sessions : /\ Len(reads[s]) <= MaxReads
                         /\ Len(toServer[s]) <= MaxQueue
                         /\ Len(toSession[s]) <= MaxQueue
                         /\ s \in linked \/ (toServer[s] = <<>> /\ toSession[s] = <<>>)
  /\ view \in [Viewers -> Texts \cup {Unset}]
  /\ last \in Copy \cup {Unset}
  /\ lone \in BOOLEAN

Quiet ==
  \A s \in Sessions : reads[s] = <<>> /\ toServer[s] = <<>> /\ toSession[s] = <<>>

-----------------------------------------------------------------------------
(* A session.                                                              *)

Copied(by, text) ==
  /\ last' = [by |-> by, text |-> text]
  /\ lone' = Quiet

(* on_clipboard_changed for a text of another process. *)
AppCopies(s, t) ==
  /\ Len(reads[s]) < MaxReads
  /\ clip' = [clip EXCEPT ![s] = [what |-> t, local |-> FALSE]]
  /\ reads' = [reads EXCEPT ![s] = Append(@, [by |-> s, text |-> t])]
  /\ Copied(s, t)
  /\ UNCHANGED <<linked, toServer, toSession, view>>

(* on_clipboard_changed for a picture, a file and the like. *)
AppCopiesElse(s) ==
  /\ clip[s].what # Else
  /\ clip' = [clip EXCEPT ![s] = [what |-> Else, local |-> FALSE]]
  /\ UNCHANGED <<reads, linked, toServer, toSession, view, last, lone>>

(* on_read_text_finish, send_clipboard_text_msg: reads end in any order.   *)
ReadDone(s, i) ==
  /\ i \in DOMAIN reads[s]
  /\ s \in linked => Len(toServer[s]) < MaxQueue
  /\ reads' = [reads EXCEPT ![s] = RemoveAt(@, i)]
  /\ toServer' = IF s \in linked THEN [toServer EXCEPT ![s] = Append(@, reads[s][i])]
                 ELSE toServer
  /\ UNCHANGED <<clip, linked, toSession, view, last, lone>>

(* The read fails, because the application that copied has gone. *)
ReadFails(s, i) ==
  /\ MayDrop /\ i \in DOMAIN reads[s]
  /\ reads' = [reads EXCEPT ![s] = RemoveAt(@, i)]
  /\ lone' = FALSE
  /\ UNCHANGED <<clip, linked, toServer, toSession, view, last>>

(* Variant with a bug: a change of its own is read like any other. *)
SessionReceivesAndReads(s) ==
  /\ toSession[s] # <<>> /\ Len(reads[s]) < MaxReads
  /\ clip' = [clip EXCEPT ![s] = [what |-> Head(toSession[s]).text, local |-> TRUE]]
  /\ toSession' = [toSession EXCEPT ![s] = Tail(@)]
  /\ reads' = [reads EXCEPT ![s] = Append(@, Head(toSession[s]))]
  /\ UNCHANGED <<linked, toServer, view, last, lone>>

(* on_clipboard_text_msg of reframe-session: the text is set, and the      *)
(* change it makes is local, so on_clipboard_changed returns.              *)
SessionReceives(s) ==
  /\ toSession[s] # <<>>
  /\ clip' = [clip EXCEPT ![s] = [what |-> Head(toSession[s]).text, local |-> TRUE]]
  /\ toSession' = [toSession EXCEPT ![s] = Tail(@)]
  /\ UNCHANGED <<reads, linked, toServer, view, last, lone>>

-----------------------------------------------------------------------------
(* The server.                                                             *)

(* on_clipboard_text_msg of rf-session.c and send_clipboard_text of both   *)
(* backends: every VNC client gets the text, no other session does.        *)
ServerReceives(s) ==
  /\ toServer[s] # <<>>
  /\ view' = [v \in Viewers |-> Head(toServer[s]).text]
  /\ toServer' = [toServer EXCEPT ![s] = Tail(@)]
  /\ UNCHANGED <<clip, reads, linked, toSession, last, lone>>

(* Variant with a bug: only one session is written to. *)
ViewerCopiesToOne(v, t) ==
  /\ ViewersCopy
  /\ \A s \in linked : Len(toSession[s]) < MaxQueue
  /\ view' = [view EXCEPT ![v] = t]
  /\ \E one \in Sessions :
       toSession' = [s \in Sessions |->
         IF s \in linked /\ s = one THEN Append(toSession[s], [by |-> v, text |-> t])
         ELSE toSession[s]]
  /\ Copied(v, t)
  /\ UNCHANGED <<clip, reads, linked, toServer>>

(* on_clipboard_text, rf_vnc_server_handle_clipboard_text and              *)
(* rf_session_send_clipboard_text_msg: every session gets the text, no     *)
(* other VNC client does.                                                  *)
ViewerCopies(v, t) ==
  /\ ViewersCopy
  /\ \A s \in linked : Len(toSession[s]) < MaxQueue
  /\ view' = [view EXCEPT ![v] = t]
  /\ toSession' = [s \in Sessions |->
       IF s \in linked THEN Append(toSession[s], [by |-> v, text |-> t])
       ELSE toSession[s]]
  /\ Copied(v, t)
  /\ UNCHANGED <<clip, reads, linked, toServer>>

(* The connection of a session is made, or lost with what is in it. *)
Link(s) ==
  /\ s \notin linked
  /\ linked' = linked \cup {s}
  /\ lone' = FALSE
  /\ UNCHANGED <<clip, reads, toServer, toSession, view, last>>

(* Variant with a bug: what was sent over the old connection remains. *)
UnlinkKeepsMessages(s) ==
  /\ MayDrop /\ s \in linked
  /\ linked' = linked \ {s}
  /\ lone' = FALSE
  /\ UNCHANGED <<clip, reads, toServer, toSession, view, last>>

Unlink(s) ==
  /\ MayDrop /\ s \in linked
  /\ linked' = linked \ {s}
  /\ toServer' = [toServer EXCEPT ![s] = <<>>]
  /\ toSession' = [toSession EXCEPT ![s] = <<>>]
  /\ lone' = FALSE
  /\ UNCHANGED <<clip, reads, view, last>>

-----------------------------------------------------------------------------
Init ==
  /\ clip = [s \in Sessions |-> [what |-> Unset, local |-> FALSE]]
  /\ reads = [s \in Sessions |-> <<>>]
  /\ linked = IF MayDrop THEN {} ELSE Sessions
  /\ toServer = [s \in Sessions |-> <<>>] /\ toSession = [s \in Sessions |-> <<>>]
  /\ view = [v \in Viewers |-> Unset]
  /\ last = Unset
  /\ lone = FALSE

Session(s) ==
  \/ AppCopiesElse(s) \/ SessionReceives(s)
  \/ \E t \in Texts : AppCopies(s, t)
  \/ \E i \in 1 .. MaxReads : ReadDone(s, i) \/ ReadFails(s, i)

Server ==
  \/ \E s \in Sessions : ServerReceives(s) \/ Link(s) \/ Unlink(s)
  \/ \E v \in Viewers, t \in Texts : ViewerCopies(v, t)

Next == Server \/ \E s \in Sessions : Session(s)

Spec == Init /\ [][Next]_vars

(* Both main loops dispatch the sources that are ready, and a read ends.   *)
Fairness ==
  \A s \in Sessions :
    /\ WF_vars(SessionReceives(s)) /\ WF_vars(ServerReceives(s))
    /\ \A i \in 1 .. MaxReads : WF_vars(ReadDone(s, i))

FairSpec == Spec /\ Fairness

-----------------------------------------------------------------------------
(* A text never goes back: what a session sends to the server was copied   *)
(* by an application of that session and what it is sent comes from a VNC  *)
(* client, so two sides cannot echo for ever (on_clipboard_changed returns *)
(* on a local change; no clipboard signal is wired to its own side).       *)
NoEcho ==
  \A s \in Sessions :
    /\ \A i \in DOMAIN toServer[s] : toServer[s][i].by = s
    /\ \A i \in DOMAIN toSession[s] : toSession[s][i].by \in Viewers

(* The other side has the last copy: all VNC clients, or all sessions that  *)
(* are connected and have not copied something else since.                 *)
Delivered ==
  IF last.by \in Sessions
    THEN last.by \in linked => \A v \in Viewers : view[v] = last.text
    ELSE \A s \in linked : clip[s].what \in {last.text, Else}

(* A copy made while nothing else is under way reaches the whole other     *)
(* side and then causes no further message, unless a connection is made or *)
(* lost or somebody copies meanwhile (on_read_text_finish,                 *)
(* send_clipboard_text of both backends,                                   *)
(* rf_session_send_clipboard_text_msg).                                    *)
LoneCopyArrives == lone ~> ~lone \/ (Quiet /\ Delivered)

=============================================================================
