------------------------------ MODULE Framing ------------------------------
(***************************************************************************)
(* One connection between ReFrame Server and a ReFrame Session, cell by    *)
(* cell.  A message is a type, a length and a payload, each given to the   *)
(* socket by one g_output_stream_write and taken from it by one            *)
(* g_input_stream_read.  Both calls may handle less than they are asked    *)
(* for, and the code takes any positive count for success.                 *)
(*                                                                         *)
(* A cell is a type, a length, or a block of the payload: what the kernel  *)
(* queues as one piece.  Each end is one thread running a main loop, so it *)
(* does not read while it writes.  What an end does once it has read one   *)
(* kind of cell for another depends on the bytes and is not followed       *)
(* further (astray).                                                       *)
(***************************************************************************)
EXTENDS Naturals, Sequences, FiniteSetsExt, SequencesExt

CONSTANTS Senders,   \* the ends on which a user copies text
          Room,      \* cells the socket buffer of one direction holds
          Copies,    \* bound: texts sent by one end
          Sizes,     \* blocks a text may have
          Torn       \* what is delivered for a text that is not whole

Ends == {"server", "session"}

ASSUME SendersAssumption == Senders \subseteq Ends
ASSUME RoomAssumption == Room \in Nat \ {0}
ASSUME CopiesAssumption == Copies \in Nat
ASSUME SizesAssumption == Sizes \subseteq Nat \ {0}
ASSUME TornAssumption == Torn \notin [by : Ends, n : 1 .. Copies, size : Sizes]

VARIABLES open,   \* the ends that still have the connection
          pipe,   \* pipe[e]: cells written by e and not read yet
          pc,     \* the call an end is in, "loop" when in none
          text,   \* text[e]: the text e is writing or reading
          left,   \* left[e]: blocks of it the write in progress has yet to queue
          sent,   \* history: texts end e has given to the connection
          got     \* history: texts end e has delivered

vars == <<open, pipe, pc, text, left, sent, got>>

Text == [by : Ends, n : 1 .. Copies, size : Sizes]
Kind == {"type", "length", "payload"}
Cell == [kind : Kind, text : Text]

Peer(e) == CHOOSE f \in Ends : f # e

Writing == {"write type", "write length", "write payload", "write more"}
Reading == {"loop", "read length", "read payload"}

(***************************************************************************)
(* Writing: rf_send_header and the write of the payload after it.          *)
(***************************************************************************)

(* Variant with a bug: a new text takes the place of one that waits for room. *)
CopyReplaces(e) ==
  /\ e \in Senders \cap open
  /\ pc[e] \in {"loop", "write type"}
  /\ Len(sent[e]) < Copies
  /\ \E s \in Sizes :
       LET t == [by |-> e, n |-> Len(sent[e]) + 1, size |-> s]
       IN  /\ text' = [text EXCEPT ![e] = t]
           /\ sent' = [sent EXCEPT ![e] = Append(@, t)]
  /\ pc' = [pc EXCEPT ![e] = "write type"]
  /\ UNCHANGED <<open, pipe, left, got>>

(* send_clipboard_text_msg is entered from the main loop.                   *)
Copy(e) ==
  /\ e \in Senders \cap open
  /\ pc[e] = "loop"
  /\ Len(sent[e]) < Copies
  /\ \E s \in Sizes :
       LET t == [by |-> e, n |-> Len(sent[e]) + 1, size |-> s]
       IN  /\ text' = [text EXCEPT ![e] = t]
           /\ sent' = [sent EXCEPT ![e] = Append(@, t)]
  /\ pc' = [pc EXCEPT ![e] = "write type"]
  /\ UNCHANGED <<open, pipe, left, got>>

(* Variant with a bug: a socket that takes whatever it is given.            *)
PutAlways(e, kind) ==
  /\ Peer(e) \in open
  /\ pipe' = [pipe EXCEPT ![e] = Append(@, [kind |-> kind, text |-> text[e]])]

(* A write waits until some of its bytes fit.                               *)
Put(e, kind) ==
  /\ Peer(e) \in open
  /\ Len(pipe[e]) < Room
  /\ pipe' = [pipe EXCEPT ![e] = Append(@, [kind |-> kind, text |-> text[e]])]

(* Variant with a bug: a text that finds no room is given up.               *)
WriteTypeOrDrop(e) ==
  /\ pc[e] = "write type"
  /\ Peer(e) \in open
  /\ IF Len(pipe[e]) < Room
       THEN Put(e, "type") /\ pc' = [pc EXCEPT ![e] = "write length"]
       ELSE UNCHANGED pipe /\ pc' = [pc EXCEPT ![e] = "loop"]
  /\ UNCHANGED <<open, text, left, sent, got>>

WriteType(e) ==
  /\ pc[e] = "write type"
  /\ Put(e, "type")
  /\ pc' = [pc EXCEPT ![e] = "write length"]
  /\ UNCHANGED <<open, text, left, sent, got>>

(* Variant with a bug: the length left out of the header.                   *)
WriteLengthOmitted(e) ==
  /\ pc[e] = "write length"
  /\ pc' = [pc EXCEPT ![e] = "write payload"]
  /\ left' = [left EXCEPT ![e] = text[e].size]
  /\ UNCHANGED <<open, pipe, text, sent, got>>

WriteLength(e) ==
  /\ pc[e] = "write length"
  /\ Put(e, "length")
  /\ pc' = [pc EXCEPT ![e] = "write payload"]
  /\ left' = [left EXCEPT ![e] = text[e].size]
  /\ UNCHANGED <<open, text, sent, got>>

(* The kernel queues block after block; the reader may run in between.      *)
WritePayload(e) ==
  /\ pc[e] \in {"write payload", "write more"}
  /\ Put(e, "payload")
  /\ left' = [left EXCEPT ![e] = @ - 1]
  /\ pc' = [pc EXCEPT ![e] = IF left[e] = 1 THEN "loop" ELSE "write more"]
  /\ UNCHANGED <<open, text, sent, got>>

(* A write that has queued something returns when no more fits: ret > 0.    *)
WriteShort(e) ==
  /\ pc[e] = "write more"
  /\ \/ Len(pipe[e]) = Room
     \/ Peer(e) \notin open
  /\ pc' = [pc EXCEPT ![e] = "loop"]
  /\ UNCHANGED <<open, pipe, text, left, sent, got>>

(* The connection is given up with what was unread on it.                   *)
Close(e) ==
  /\ open' = open \ {e}
  /\ pipe' = [pipe EXCEPT ![Peer(e)] = <<>>]
  /\ pc' = [pc EXCEPT ![e] = "loop"]

WriteFails(e) ==
  /\ pc[e] \in Writing \ {"write more"}
  /\ Peer(e) \notin open
  /\ Close(e)
  /\ UNCHANGED <<text, left, sent, got>>

(***************************************************************************)
(* Reading: on_socket_in and on_clipboard_text_msg.  A read waits for a    *)
(* byte and returns what there is, up to what it asked for.                *)
(***************************************************************************)

Arrived(e) == pipe[Peer(e)]

Take(e, k) == pipe' = [pipe EXCEPT ![Peer(e)] = SubSeq(@, k + 1, Len(@))]

ReadHeader(e, at, kind, then) ==
  /\ e \in open
  /\ pc[e] = at
  /\ Arrived(e) # <<>>
  /\ Take(e, 1)
  /\ pc' = [pc EXCEPT ![e] = IF Head(Arrived(e)).kind = kind THEN then ELSE "astray"]
  /\ text' = [text EXCEPT ![e] = Head(Arrived(e)).text]
  /\ UNCHANGED <<open, left, sent, got>>

ReadType(e) == ReadHeader(e, "loop", "type", "read length")

ReadLength(e) == ReadHeader(e, "read length", "length", "read payload")

ReadPayload(e) ==
  /\ e \in open
  /\ pc[e] = "read payload"
  /\ Arrived(e) # <<>>
  /\ LET k == Min({text[e].size, Len(Arrived(e))})
         whole == /\ k = text[e].size
                  /\ \A i \in 1 .. k :
                       Arrived(e)[i] = [kind |-> "payload", text |-> text[e]]
     IN  /\ Take(e, k)
         /\ got' = [got EXCEPT ![e] = Append(@, IF whole THEN text[e] ELSE Torn)]
  /\ pc' = [pc EXCEPT ![e] = "loop"]
  /\ UNCHANGED <<open, text, left, sent>>

(* Every read that returns 0 takes the connection out of the table, in the  *)
(* middle of a message too.                                                 *)
ReadEof(e) ==
  /\ e \in open
  /\ pc[e] \in Reading
  /\ Arrived(e) = <<>>
  /\ Peer(e) \notin open
  /\ Close(e)
  /\ UNCHANGED <<text, left, sent, got>>

(* An end exits, or is stopped, in the middle of anything.                  *)
Die(e) ==
  /\ e \in open
  /\ Close(e)
  /\ UNCHANGED <<text, left, sent, got>>

(***************************************************************************)
(* The specification.                                                      *)
(***************************************************************************)

NoText == [by |-> "server", n |-> 0, size |-> 0]

Init ==
  /\ open = Ends
  /\ pipe = [e \in Ends |-> <<>>]
  /\ pc = [e \in Ends |-> "loop"]
  /\ text = [e \in Ends |-> NoText]
  /\ left = [e \in Ends |-> 0]
  /\ sent = [e \in Ends |-> <<>>]
  /\ got = [e \in Ends |-> <<>>]

Step(e) ==
  \/ WriteType(e) \/ WriteLength(e) \/ WritePayload(e) \/ WriteShort(e)
  \/ WriteFails(e)
  \/ ReadType(e) \/ ReadLength(e) \/ ReadPayload(e) \/ ReadEof(e)

Next == \E e \in Ends : Copy(e) \/ Die(e) \/ Step(e)

Spec == Init /\ [][Next]_vars

(* The main loop and the kernel keep going: an end that can take a step of  *)
(* the call it is in, or has input, eventually does.                        *)
FairSpec == Spec /\ \A e \in Ends : WF_vars(Step(e))

(***************************************************************************)
(* Properties.                                                             *)
(***************************************************************************)

(* No more than the socket buffer holds is under way, and only texts that   *)
(* were sent are: the writes of rf_send_header wait for room.  A write of a *)
(* payload has some of that text left to queue.                             *)
TypeOK ==
  /\ open \subseteq Ends
  /\ pipe \in [Ends -> Seq(Cell)]
  /\ pc \in [Ends -> Writing \cup Reading \cup {"astray"}]
  /\ text \in [Ends -> Text \cup {NoText}]
  /\ left \in [Ends -> Nat]
  /\ sent \in [Ends -> Seq(Text)]
  /\ got \in [Ends -> Seq(Text \cup {Torn})]
  /\ \A e \in Ends :
       /\ Len(pipe[e]) <= Room
       /\ pc[e] \in {"write payload", "write more"} =>
            text[e] \in Text /\ left[e] \in 1 .. text[e].size

(* Before an end takes one kind of cell for another it has delivered a torn *)
(* text: a boundary is lost only to a read or a write that handled less     *)
(* than it was asked for (on_clipboard_text_msg, rf_send_header).           *)
AstrayAfterTorn ==
  \A e \in Ends : pc[e] = "astray" => Torn \in ToSet(got[e])

(* The texts e has delivered before a torn one. *)
Exact(e) ==
  LET n == Min({i \in DOMAIN got[e] : got[e][i] = Torn} \cup {Len(got[e]) + 1})
  IN  SubSeq(got[e], 1, n - 1)

ToSession == INSTANCE Channel WITH
  Message <- Text, sent <- sent["server"], got <- Exact("session"),
  cut <- "session" \notin open \/ Torn \in ToSet(got["session"])
ToServer == INSTANCE Channel WITH
  Message <- Text, sent <- sent["session"], got <- Exact("server"),
  cut <- "server" \notin open \/ Torn \in ToSet(got["server"])

(* What each end delivers of the other: until a first torn text the layout  *)
(* of rf-common.h gives back the messages that went in, whole and in order, *)
(* in both directions at once and whenever an end dies.                     *)
MessagesWhole == ToSession!Spec /\ ToServer!Spec

(* Both ends write and neither reads, or one has lost the boundaries. *)
Jammed ==
  \/ \A e \in Ends : pc[e] \in Writing /\ Len(pipe[e]) = Room
  \/ \E e \in Ends : pc[e] = "astray"

(* A text that is sent arrives, in both directions, unless the receiver has *)
(* lost the connection or the two ends are jammed: the blocking writes of   *)
(* send_clipboard_text_msg on both sides return.                            *)
TextsArrive == []~Jammed => ToSession!Fairness /\ ToServer!Fairness
=============================================================================
