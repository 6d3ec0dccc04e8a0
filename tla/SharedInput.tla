----------------------------- MODULE SharedInput -----------------------------
(***************************************************************************)
(* Keys and buttons: VNC clients hold them, and one uinput device of the   *)
(* streamer is to hold them too (rf_vnc_server_handle_keysym_event and     *)
(* rf_vnc_server_handle_pointer_event, the senders of rf-streamer.c,       *)
(* on_input_msg, setup_uinput and clean_uinput of reframe-streamer).       *)
(*                                                                         *)
(* A client tells what it does in symbols, which depend on its modifiers:  *)
(* a key may be released by another symbol than it was pressed by.  The    *)
(* kernel keeps one state per key whoever pressed it.  Connections are in  *)
(* one queue, each of them ended by Eof; StreamerLink has them in detail.  *)
(***************************************************************************)
EXTENDS Naturals, Sequences, FiniteSetsExt, SequencesExt

CONSTANTS
  Clients,    \* VNC clients
  Layout,     \* the server's keymap: from key codes to the symbols of a key
  Foreign,    \* symbols of the clients' keyboards that it does not have
  MayShift,   \* while a key repeats its press may become that of another key
  Buttons,    \* pointer buttons, as codes of the device
  MaxQueue,   \* bound of the model: messages in the sockets
  Eof         \* the end of a connection

Keys == DOMAIN Layout
Codes == Keys \cup Buttons

NoKey == 0  \* XKB_KEYCODE_INVALID: no key has the symbol

ASSUME LayoutAssumption ==
  /\ Keys \subseteq Nat /\ Keys \cap Buttons = {} /\ NoKey \notin Codes
  /\ \A k \in Keys : Layout[k] \cap Foreign = {}
ASSUME QueueAssumption == MaxQueue \in Nat \ {0}

VARIABLES
  clients,  \* connected clients
  held,     \* of a client: keys and buttons it holds, and the codes their
            \* presses were translated to
  signal,   \* first- or last-client signal to be emitted
  running,  \* RfStreamer.running
  queue,    \* messages in the sockets to the streamer
  device,   \* the uinput device exists
  down,     \* codes the kernel has down on it
  lost      \* history: codes that are not released by the one who pressed
            \* them: it left, or released them by a symbol of another key

vars == <<clients, held, signal, running, queue, device, down, lost>>

(* A message with key events: the codes it presses and those it releases.  *)
Events == [press : SUBSET Codes, release : SUBSET Codes]

TypeOK ==
  /\ clients \subseteq Clients
  /\ held \in [Clients -> SUBSET (Codes \X Codes)]
  /\ \A c \in Clients : c \notin clients => held[c] = {}
  /\ signal \in {"none", "first", "last"}
  /\ running \in BOOLEAN /\ device \in BOOLEAN
  /\ queue \in Seq(Events \cup {Eof}) /\ Len(queue) <= MaxQueue
  /\ down \subseteq Codes /\ lost \subseteq Codes
  /\ ~device => down = {}

-----------------------------------------------------------------------------
Owners(sym) == {k \in Keys : sym \in Layout[k]}

(* Variant with a bug: only the first level is looked at, so that a symbol *)
(* typed with Shift is not found.                                          *)
LookupFirstLevel(sym) ==
  LET ks == {k \in Owners(sym) : sym = Min(Layout[k])}
  IN IF ks = {} THEN NoKey ELSE Min(ks)

(* iterate_keys: the first key that has the symbol on any level. *)
Lookup(sym) ==
  IF Owners(sym) = {} THEN NoKey ELSE Min(Owners(sym))

(* send_input_msg, or nothing while the streamer is not running. *)
Send(press, release) ==
  queue' = IF running THEN Append(queue, [press |-> press, release |-> release])
           ELSE queue

(* rf_vnc_server_handle_keysym_event: a symbol without a key is dropped. *)
SendKey(press, release) ==
  IF NoKey \in press \cup release THEN UNCHANGED queue ELSE Send(press, release)

CanSend == running => Len(queue) < MaxQueue

Connect(c) ==
  /\ c \notin clients
  /\ clients' = clients \cup {c}
  /\ signal' = IF clients = {} THEN "first" ELSE signal
  /\ UNCHANGED <<held, running, queue, device, down, lost>>

(* The client presses key k, which its keyboard gives the symbol sym for.  *)
(* A press may repeat, and with other modifiers by another symbol.         *)
PressKey(c, k, sym) ==
  /\ c \in clients /\ CanSend
  /\ MayShift \/ \A h \in held[c] : h[1] = k => h[2] = Lookup(sym)
  /\ held' = [held EXCEPT ![c] = @ \cup ({k} \X ({Lookup(sym)} \ {NoKey}))]
  /\ SendKey({Lookup(sym)}, {})
  /\ UNCHANGED <<clients, signal, running, device, down, lost>>

(* It releases key k, held or not. *)
ReleaseKey(c, k, sym) ==
  /\ c \in clients /\ CanSend
  /\ held' = [held EXCEPT ![c] = {h \in @ : h[1] # k}]
  /\ SendKey({}, {Lookup(sym)})
  /\ lost' = lost \cup ({h[2] : h \in {h \in held[c] : h[1] = k}} \
                         {x \in Codes : Owners(sym) = {x}})
  /\ UNCHANGED <<clients, signal, running, device, down>>

(* Every pointer event tells the state of all buttons. *)
Point(c, mask) ==
  /\ c \in clients /\ CanSend
  /\ held' = [held EXCEPT ![c] = {h \in @ : h[1] \in Keys} \cup {<<b, b>> : b \in mask}]
  /\ Send(mask, Buttons \ mask)
  /\ UNCHANGED <<clients, signal, running, device, down, lost>>

(* Variant with a bug: what a client held is not forgotten with it. *)
DropKeepsHeld(C) ==
  /\ clients' = clients \ C
  /\ held' = held
  /\ signal' = IF clients # {} /\ clients \subseteq C THEN "last" ELSE signal
  /\ lost' = lost \cup {h[2] : h \in UNION {held[c] : c \in C}}

(* on_client_gone: nothing is released. *)
Drop(C) ==
  /\ clients' = clients \ C
  /\ held' = [c \in Clients |-> IF c \in C THEN {} ELSE held[c]]
  /\ signal' = IF clients # {} /\ clients \subseteq C THEN "last" ELSE signal
  /\ lost' = lost \cup {h[2] : h \in UNION {held[c] : c \in C}}

Leave(c) ==
  /\ c \in clients
  /\ Drop({c})
  /\ UNCHANGED <<running, queue, device, down>>

-----------------------------------------------------------------------------
(* on_first_client, and a streamer that is running goes on. *)
FirstClient ==
  /\ signal = "first"
  /\ signal' = "none"
  /\ running' = TRUE
  /\ UNCHANGED <<clients, held, queue, device, down, lost>>

(* Variant with a bug: the connection is kept for the next client. *)
LastClientKeepsStreamer ==
  /\ signal = "last"
  /\ signal' = "none"
  /\ UNCHANGED <<clients, held, running, queue, device, down, lost>>

(* on_last_client, rf_streamer_stop. *)
LastClient ==
  /\ signal = "last" /\ (running => Len(queue) < MaxQueue)
  /\ signal' = "none"
  /\ running' = FALSE
  /\ queue' = IF running THEN Append(queue, Eof) ELSE queue
  /\ UNCHANGED <<clients, held, device, down, lost>>

(* The streamer has accepted the connection and makes its device. *)
Setup ==
  /\ ~device
  /\ queue # <<>> \/ running
  /\ device' = TRUE
  /\ UNCHANGED <<clients, held, signal, running, queue, down, lost>>

(* on_input_msg: the kernel drops an event that changes nothing. *)
Input ==
  /\ device /\ queue # <<>> /\ Head(queue) # Eof
  /\ down' = (down \cup Head(queue).press) \ Head(queue).release
  /\ queue' = Tail(queue)
  /\ UNCHANGED <<clients, held, signal, running, device, lost>>

(* clean_uinput at the end of a connection. *)
CleanUp ==
  /\ device /\ queue # <<>> /\ Head(queue) = Eof
  /\ device' = FALSE /\ down' = {}
  /\ queue' = Tail(queue)
  /\ lost' = IF queue' = <<>> /\ ~running THEN {} ELSE lost
  /\ UNCHANGED <<clients, held, signal, running>>

(* The streamer dies with its device and what it has not read of its       *)
(* connection, and the server stops and flushes.                           *)
StreamerLost ==
  /\ running
  /\ running' = FALSE
  /\ queue' = <<>> /\ device' = FALSE /\ down' = {}
  /\ Drop(clients)

-----------------------------------------------------------------------------
Init ==
  /\ clients = {} /\ held = [c \in Clients |-> {}] /\ signal = "none"
  /\ running = FALSE /\ queue = <<>>
  /\ device = FALSE /\ down = {} /\ lost = {}

Client(c) ==
  \/ Connect(c) \/ Leave(c)
  \/ \E k \in Keys : \E sym \in Layout[k] \cup Foreign :
       PressKey(c, k, sym) \/ ReleaseKey(c, k, sym)
  \/ \E mask \in SUBSET Buttons : Point(c, mask)

Streamer == Setup \/ Input \/ CleanUp

Next ==
  \/ \E c \in Clients : Client(c)
  \/ FirstClient \/ LastClient
  \/ Streamer \/ StreamerLost

Spec == Init /\ [][Next]_vars

(* The streamer's loop reads on, and idle callbacks run. *)
FairSpec == Spec /\ WF_vars(Streamer) /\ WF_vars(FirstClient) /\ WF_vars(LastClient)

-----------------------------------------------------------------------------
Held == {h[2] : h \in UNION {held[c] : c \in Clients}}

(* When the streamer has read all it was sent, a key or button is down     *)
(* only if a client holds it, or the one that did has left or released it  *)
(* by a symbol of another key: no release is lost on its way, through      *)
(* modifiers, coalesced signals and connections (iterate_keys,             *)
(* rf_streamer_send_keyboard_event, clean_uinput).                         *)
KeysExplained == queue = <<>> => down \subseteq Held \cup lost

(* Without clients nothing stays down: the last one's departure ends the   *)
(* device (on_last_client, clean_uinput).                                  *)
NobodyHolds == clients = {} ~> (down = {} \/ clients # {})
=============================================================================
