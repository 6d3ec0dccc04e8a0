------------------------- MODULE SharedInputProofs -------------------------
(***************************************************************************)
(* Keys and buttons: for any number of clients, any layout and any buttons *)
(* the state of SharedInput is well typed, and what is down on the device  *)
(* once the sockets are empty is accounted for.                            *)
(***************************************************************************)
EXTENDS SharedInput, SequenceTheorems, WellFoundedInduction, TLAPS

-----------------------------------------------------------------------------
(* The key a symbol is looked up as. *)

LEMMA LeastIn ==
  ASSUME NEW S \in SUBSET Nat, S # {}
  PROVE  Min(S) \in S
<1>1. IsWellFoundedOn(OpToRel(<, Nat), Nat)
  BY NatLessThanWellFounded
<1>2. PICK x \in S : \A y \in S : ~(<<y, x>> \in OpToRel(<, Nat))
  BY <1>1, WFMin
<1>3. ASSUME NEW y \in S PROVE x <= y
  <2>1. ~(y < x)
    BY <1>2 DEF OpToRel
  <2> QED BY <2>1
<1> QED BY <1>3 DEF Min

LEMMA LookupType ==
  ASSUME NEW sym
  PROVE  /\ Lookup(sym) \in Keys \cup {NoKey}
         /\ \A k \in Keys : Owners(sym) = {k} => Lookup(sym) = k
<1>1. Owners(sym) \in SUBSET Nat /\ Owners(sym) \subseteq Keys
  BY LayoutAssumption DEF Owners
<1>2. Owners(sym) # {} => Min(Owners(sym)) \in Owners(sym)
  BY <1>1, LeastIn
<1> QED BY <1>1, <1>2 DEF Lookup

-----------------------------------------------------------------------------
(* What the messages of a queue make of a code. *)

Undoes(m, x) == m = Eof \/ x \in m.release
Presses(m, x) == m # Eof /\ x \in m.press

(* Code x, if it is down in d, will be released by queue q, and so it will *)
(* after every message of q that presses it.                               *)
Settled(x, d, q) ==
  /\ x \in d => \E j \in 1 .. Len(q) : Undoes(q[j], x)
  /\ \A i \in 1 .. Len(q) :
       Presses(q[i], x) => \E j \in i .. Len(q) : Undoes(q[j], x)

Messages == Events \cup {Eof}

LEMMA SettledAppend ==
  ASSUME NEW x, NEW d, NEW q \in Seq(Messages), NEW m \in Messages,
         Undoes(m, x) \/ (Settled(x, d, q) /\ ~Presses(m, x))
  PROVE  Settled(x, d, Append(q, m))
<1> DEFINE r == Append(q, m)
<1>1. /\ Len(q) \in Nat /\ Len(r) = Len(q) + 1 /\ r[Len(r)] = m
      /\ \A i \in 1 .. Len(q) : r[i] = q[i]
  BY AppendProperties, LenProperties
<1> HIDE DEF r
<1>2. CASE Undoes(m, x)
  BY <1>1, <1>2 DEF Settled
<1>3. CASE Settled(x, d, q) /\ ~Presses(m, x)
  <2>1. x \in d => \E j \in 1 .. Len(r) : Undoes(r[j], x)
    BY <1>1, <1>3 DEF Settled
  <2>2. ASSUME NEW i \in 1 .. Len(r), Presses(r[i], x)
        PROVE  \E j \in i .. Len(r) : Undoes(r[j], x)
    <3>1. i \in 1 .. Len(q) /\ Presses(q[i], x)
      BY <1>1, <1>3, <2>2
    <3>2. PICK j \in i .. Len(q) : Undoes(q[j], x)
      BY <1>3, <3>1 DEF Settled
    <3>3. j \in i .. Len(r) /\ j \in 1 .. Len(q)
      BY <1>1, <3>1, <3>2
    <3> QED BY <1>1, <3>2, <3>3
  <2> QED BY <2>1, <2>2 DEF Settled
<1> QED BY <1>2, <1>3 DEF r

LEMMA SettledTail ==
  ASSUME NEW x, NEW d, NEW e, NEW q \in Seq(Messages), q # <<>>,
         Settled(x, d, q),
         x \in e => (x \in d \/ Presses(Head(q), x)) /\ ~Undoes(Head(q), x)
  PROVE  Settled(x, e, Tail(q))
<1> DEFINE r == Tail(q)
<1>1. /\ Len(q) \in Nat /\ Len(q) >= 1 /\ Len(r) = Len(q) - 1 /\ Head(q) = q[1]
      /\ \A i \in 1 .. Len(r) : r[i] = q[i + 1]
  BY HeadTailProperties, LenProperties
<1> HIDE DEF r
<1>2. ASSUME x \in e PROVE \E j \in 1 .. Len(r) : Undoes(r[j], x)
  <2>1. PICK j \in 1 .. Len(q) : Undoes(q[j], x)
    BY <1>1, <1>2 DEF Settled
  <2>2. j # 1
    BY <1>1, <1>2, <2>1
  <2>3. j - 1 \in 1 .. Len(r) /\ r[j - 1] = q[j]
    BY <1>1, <2>1, <2>2
  <2> QED BY <2>1, <2>3
<1>3. ASSUME NEW i \in 1 .. Len(r), Presses(r[i], x)
      PROVE  \E j \in i .. Len(r) : Undoes(r[j], x)
  <2>1. i + 1 \in 1 .. Len(q) /\ Presses(q[i + 1], x)
    BY <1>1, <1>3
  <2>2. PICK j \in (i + 1) .. Len(q) : Undoes(q[j], x)
    BY <2>1 DEF Settled
  <2>3. j - 1 \in i .. Len(r) /\ r[j - 1] = q[j]
    BY <1>1, <2>2
  <2> QED BY <2>2, <2>3
<1> QED BY <1>2, <1>3 DEF Settled, r

-----------------------------------------------------------------------------
(* A button is held as itself. *)
ButtonsPlain ==
  \A c \in Clients : \A h \in held[c] : h[1] \in Buttons => h[2] = h[1]

(* When the server is not connected the last connection has an end, which  *)
(* the streamer has still to read or has done.                             *)
Ended ==
  ~running => IF queue = <<>> THEN ~device ELSE queue[Len(queue)] = Eof

(* What nobody accounts for is released before the sockets are empty.      *)
NoStray == \A x \in Codes \ (Held \cup lost) : Settled(x, down, queue)

IInv == TypeOK /\ ButtonsPlain /\ Ended /\ NoStray

LEMMA EndedSettles ==
  ASSUME TypeOK, Ended, ~running, NEW x
  PROVE  Settled(x, down, queue)
<1>1. Len(queue) \in Nat /\ (queue # <<>> => Len(queue) >= 1)
  BY LenProperties, EmptySeq DEF TypeOK
<1>2. CASE queue = <<>>
  BY <1>2 DEF Settled, Ended, TypeOK
<1>3. CASE queue # <<>>
  BY <1>1, <1>3 DEF Settled, Ended, Undoes
<1> QED BY <1>2, <1>3

(* Sending presses codes that are held afterwards, and codes that are not  *)
(* held any more are released or accounted for.                            *)
LEMMA SendSettles ==
  ASSUME IInv, UNCHANGED <<running, device, down>>,
         NEW P \in SUBSET Codes, NEW R \in SUBSET Codes,
         Send(P, R), CanSend, P \subseteq (Held \cup lost)', lost \subseteq lost',
         Held \subseteq Held' \cup lost' \cup R
  PROVE  NoStray' /\ Ended' /\ queue' \in Seq(Messages) /\ Len(queue') <= MaxQueue
<1> DEFINE m == [press |-> P, release |-> R]
<1>0. m \in Messages
  BY DEF Messages, Events
<1>1. CASE ~running
  <2>1. queue' = queue
    BY <1>1 DEF Send
  <2>2. \A x : Settled(x, down, queue)
    BY <1>1, EndedSettles DEF IInv
  <2> QED BY <1>1, <2>1, <2>2 DEF NoStray, Ended, IInv, TypeOK, Messages
<1>2. CASE running
  <2>1. queue' = Append(queue, m) /\ queue \in Seq(Messages) /\ Len(queue) < MaxQueue
    BY <1>2 DEF Send, IInv, TypeOK, Messages, CanSend
  <2>2. queue' \in Seq(Messages) /\ Len(queue') <= MaxQueue
    <3>1. /\ Append(queue, m) \in Seq(Messages)
          /\ Len(Append(queue, m)) = Len(queue) + 1 /\ Len(queue) \in Nat
      BY <1>0, <2>1, AppendProperties, LenProperties
    <3> QED BY <2>1, <3>1, QueueAssumption
  <2>3. ASSUME NEW x \in Codes, x \notin Held', x \notin lost'
        PROVE  Settled(x, down, queue')
    <3>1. Undoes(m, x) \/ (x \notin Held \cup lost /\ ~Presses(m, x))
      BY <2>3 DEF Undoes, Presses
    <3>2. Undoes(m, x) \/ (Settled(x, down, queue) /\ ~Presses(m, x))
      BY <3>1, <2>3 DEF IInv, NoStray
    <3> QED BY <1>0, <2>1, <3>2, SettledAppend
  <2> QED BY <1>2, <2>2, <2>3 DEF NoStray, Ended
<1> QED BY <1>1, <1>2

(* Nothing is sent, and nobody loses a code that is not accounted for.     *)
LEMMA IdleSettles ==
  ASSUME IInv, UNCHANGED <<device, down, queue>>, running' \/ ~running,
         Held \cup lost \subseteq (Held \cup lost)'
  PROVE  NoStray' /\ Ended'
BY DEF IInv, NoStray, Ended

LEMMA DropAccounts ==
  ASSUME IInv, NEW C \in SUBSET Clients, Drop(C)
  PROVE  /\ Held \cup lost \subseteq (Held \cup lost)' /\ lost' \subseteq Codes
         /\ held' \in [Clients -> SUBSET (Codes \X Codes)]
         /\ \A c \in Clients : held'[c] \subseteq held[c]
         /\ \A c \in Clients : c \notin clients' => held'[c] = {}
         /\ clients' \subseteq Clients /\ signal' \in {"none", "first", "last"}
<1>1. /\ held \in [Clients -> SUBSET (Codes \X Codes)]
      /\ held' = [c \in Clients |-> IF c \in C THEN {} ELSE held[c]]
      /\ lost' = lost \cup {h[2] : h \in UNION {held[c] : c \in C}}
  BY DEF IInv, TypeOK, Drop
<1>2. ASSUME NEW c \in Clients, NEW h \in held[c]
      PROVE  h[2] \in Codes /\ (h[2] \in lost' \/ h[2] \in Held')
  <2>1. h \in Codes \X Codes
    BY <1>1
  <2>2. CASE c \in C
    BY <1>1, <2>1, <2>2
  <2>3. CASE c \notin C
    BY <1>1, <2>1, <2>3 DEF Held
  <2> QED BY <2>2, <2>3
<1>3. Held \cup lost \subseteq (Held \cup lost)'
  BY <1>1, <1>2 DEF Held
<1>4. lost' \subseteq Codes
  BY <1>1, <1>2 DEF IInv, TypeOK
<1> QED BY <1>1, <1>3, <1>4 DEF Drop, IInv, TypeOK

-----------------------------------------------------------------------------
LEMMA PressKeeps ==
  ASSUME IInv, NEW c \in Clients, NEW k \in Keys, NEW sym, PressKey(c, k, sym)
  PROVE  IInv'
<1> DEFINE x == Lookup(sym)
<1>1. x \in Keys \cup {NoKey} /\ NoKey \notin Codes /\ Keys \subseteq Codes
  BY LookupType, LayoutAssumption DEF Codes
<1>2. /\ held \in [Clients -> SUBSET (Codes \X Codes)]
      /\ held' = [held EXCEPT ![c] = @ \cup ({k} \X ({x} \ {NoKey}))]
      /\ UNCHANGED <<clients, signal, running, device, down, lost>>
      /\ c \in clients /\ CanSend
  BY DEF IInv, TypeOK, PressKey
<1> HIDE DEF x
<1>3. {k} \X ({x} \ {NoKey}) \in SUBSET (Codes \X Codes)
  BY <1>1
<1>4. /\ held' \in [Clients -> SUBSET (Codes \X Codes)]
      /\ held'[c] = held[c] \cup ({k} \X ({x} \ {NoKey}))
      /\ \A d \in Clients \ {c} : held'[d] = held[d]
  BY <1>2, <1>3
<1>5. Held \subseteq Held' /\ (x # NoKey => x \in Held')
  <2>1. \A d \in Clients : held[d] \subseteq held'[d]
    BY <1>4
  <2>2. x # NoKey => <<k, x>> \in held'[c]
    BY <1>4
  <2>3. Held \subseteq Held'
    BY <2>1 DEF Held
  <2>4. x # NoKey => <<k, x>>[2] \in Held'
    BY <2>2 DEF Held
  <2> QED BY <2>3, <2>4
<1>6. NoStray' /\ Ended' /\ queue' \in Seq(Messages) /\ Len(queue') <= MaxQueue
  <2>1. CASE x = NoKey
    <3>1. queue' = queue
      BY <2>1 DEF PressKey, SendKey, x
    <3> QED BY <1>2, <1>5, <3>1, IdleSettles DEF IInv, TypeOK, Messages
  <2>2. CASE x # NoKey
    <3>1. Send({x}, {}) /\ {x} \in SUBSET Codes
      BY <1>1, <2>2 DEF PressKey, SendKey, x
    <3> QED BY <1>2, <1>5, <2>2, <3>1, SendSettles
  <2> QED BY <2>1, <2>2
<1>7. ButtonsPlain'
  <2> SUFFICES ASSUME NEW d \in Clients, NEW h \in held'[d], h[1] \in Buttons
               PROVE  h[2] = h[1]
    BY DEF ButtonsPlain
  <2>1. h \in held[d]
    BY <1>4, LayoutAssumption
  <2> QED BY <2>1 DEF IInv, ButtonsPlain
<1>8. TypeOK'
  BY <1>2, <1>4, <1>6 DEF IInv, TypeOK, Messages
<1> QED BY <1>6, <1>7, <1>8 DEF IInv

LEMMA ReleaseKeeps ==
  ASSUME IInv, NEW c \in Clients, NEW k \in Keys, NEW sym, ReleaseKey(c, k, sym)
  PROVE  IInv'
<1> DEFINE x == Lookup(sym)
<1> DEFINE dropped == {h \in held[c] : h[1] = k}
<1>1. x \in Keys \cup {NoKey} /\ NoKey \notin Codes /\ Keys \subseteq Codes
  BY LookupType, LayoutAssumption DEF Codes
<1>2. /\ held \in [Clients -> SUBSET (Codes \X Codes)] /\ lost \subseteq Codes
      /\ held' = [held EXCEPT ![c] = {h \in @ : h[1] # k}]
      /\ lost' = lost \cup ({h[2] : h \in dropped} \ {y \in Codes : Owners(sym) = {y}})
      /\ UNCHANGED <<clients, signal, running, device, down>>
      /\ c \in clients /\ CanSend
  BY DEF IInv, TypeOK, ReleaseKey
<1>3. /\ held' \in [Clients -> SUBSET (Codes \X Codes)]
      /\ held'[c] = held[c] \ dropped
      /\ \A d \in Clients \ {c} : held'[d] = held[d]
  BY <1>2
<1>4. \A h \in dropped : h[2] \in Codes
  BY <1>2
<1>5. lost' \subseteq Codes /\ lost \subseteq lost'
  BY <1>2, <1>4
<1>6. ASSUME NEW y \in Held, y \notin Held', y \notin lost'
      PROVE  x # NoKey /\ y = x
  <2>0. PICK d \in Clients : \E h \in held[d] : y = h[2]
    BY <1>6 DEF Held
  <2>1. PICK h \in held[d] : y = h[2]
    BY <2>0
  <2>2. h \notin held'[d]
    BY <1>6, <2>1 DEF Held
  <2>3. h \in dropped
    BY <1>3, <2>2
  <2>4. Owners(sym) = {y}
    BY <1>2, <1>4, <1>6, <2>1, <2>3
  <2>5. y \in Keys
    BY <2>4 DEF Owners
  <2> QED BY <1>1, <2>4, <2>5, LookupType
<1> HIDE DEF x, dropped
<1>7. NoStray' /\ Ended' /\ queue' \in Seq(Messages) /\ Len(queue') <= MaxQueue
  <2>1. CASE x = NoKey
    <3>1. queue' = queue
      BY <2>1 DEF ReleaseKey, SendKey, x
    <3>2. Held \cup lost \subseteq (Held \cup lost)'
      BY <1>5, <1>6, <2>1
    <3> QED BY <1>2, <3>1, <3>2, IdleSettles DEF IInv, TypeOK, Messages
  <2>2. CASE x # NoKey
    <3>1. Send({}, {x}) /\ {x} \in SUBSET Codes
      BY <1>1, <2>2 DEF ReleaseKey, SendKey, x
    <3>2. Held \subseteq Held' \cup lost' \cup {x}
      BY <1>6
    <3> QED BY <1>2, <1>5, <3>1, <3>2, SendSettles
  <2> QED BY <2>1, <2>2
<1>8. ButtonsPlain'
  <2>1. \A d \in Clients : held'[d] \subseteq held[d]
    BY <1>3
  <2> QED BY <2>1 DEF IInv, ButtonsPlain
<1>9. TypeOK'
  BY <1>2, <1>3, <1>5, <1>7 DEF IInv, TypeOK, Messages
<1> QED BY <1>7, <1>8, <1>9 DEF IInv

LEMMA PointKeeps ==
  ASSUME IInv, NEW c \in Clients, NEW mask \in SUBSET Buttons, Point(c, mask)
  PROVE  IInv'
<1> DEFINE new == {h \in held[c] : h[1] \in Keys} \cup {<<b, b>> : b \in mask}
<1>1. /\ held \in [Clients -> SUBSET (Codes \X Codes)]
      /\ held' = [held EXCEPT ![c] = new]
      /\ UNCHANGED <<clients, signal, running, device, down, lost>>
      /\ c \in clients /\ CanSend /\ Send(mask, Buttons \ mask)
  BY DEF IInv, TypeOK, Point
<1>2. mask \subseteq Codes /\ Buttons \subseteq Codes
  BY DEF Codes
<1>3. new \in SUBSET (Codes \X Codes)
  BY <1>1, <1>2
<1>4. /\ held' \in [Clients -> SUBSET (Codes \X Codes)]
      /\ held'[c] = new
      /\ \A d \in Clients \ {c} : held'[d] = held[d]
  BY <1>1, <1>3
<1>5. mask \subseteq Held'
  <2> SUFFICES ASSUME NEW b \in mask PROVE b \in Held'
    OBVIOUS
  <2>1. <<b, b>> \in held'[c]
    BY <1>4
  <2>2. <<b, b>>[2] \in Held'
    BY <2>1 DEF Held
  <2> QED BY <2>2
<1>6. Held \subseteq Held' \cup (Buttons \ mask)
  <2> SUFFICES ASSUME NEW y \in Held, y \notin Held' PROVE y \in Buttons \ mask
    OBVIOUS
  <2>0. PICK d \in Clients : \E h \in held[d] : y = h[2]
    BY DEF Held
  <2>1. PICK h \in held[d] : y = h[2]
    BY <2>0
  <2>2. h \notin held'[d]
    BY <2>1 DEF Held
  <2>3. d = c /\ h \notin new
    BY <1>4, <2>2
  <2>4. h \in Codes \X Codes
    BY <1>1, <2>1
  <2>5. h[1] \in Buttons
    BY <2>1, <2>3, <2>4 DEF Codes
  <2>6. h[2] = h[1]
    BY <2>1, <2>5 DEF IInv, ButtonsPlain
  <2> QED BY <1>5, <2>1, <2>5, <2>6
<1>7. NoStray' /\ Ended' /\ queue' \in Seq(Messages) /\ Len(queue') <= MaxQueue
  <2>1. mask \in SUBSET Codes /\ Buttons \ mask \in SUBSET Codes
    BY <1>2
  <2> HIDE DEF new
  <2> QED BY <1>1, <1>5, <1>6, <2>1, SendSettles
<1>8. ButtonsPlain'
  <2> SUFFICES ASSUME NEW d \in Clients, NEW h \in held'[d], h[1] \in Buttons
               PROVE  h[2] = h[1]
    BY DEF ButtonsPlain
  <2>1. CASE h \in held[d]
    BY <2>1 DEF IInv, ButtonsPlain
  <2>2. CASE h \notin held[d]
    BY <1>4, <2>2
  <2> QED BY <2>1, <2>2
<1>9. TypeOK'
  BY <1>1, <1>4, <1>7 DEF IInv, TypeOK, Messages
<1> QED BY <1>7, <1>8, <1>9 DEF IInv

LEMMA LeaveKeeps ==
  ASSUME IInv, NEW c \in Clients, Leave(c)
  PROVE  IInv'
<1>1. Drop({c}) /\ UNCHANGED <<running, queue, device, down>>
  BY DEF Leave
<1>2. NoStray' /\ Ended'
  BY <1>1, DropAccounts, IdleSettles
<1>3. ButtonsPlain'
  BY <1>1, DropAccounts DEF IInv, ButtonsPlain
<1>4. TypeOK'
  BY <1>1, DropAccounts DEF IInv, TypeOK
<1> QED BY <1>2, <1>3, <1>4 DEF IInv

(* No message is under way. *)
LEMMA EmptyQueue == \A S : <<>> \in Seq(S) /\ Len(<<>>) = 0 /\ Len(<<>>) <= MaxQueue
BY EmptySeq, QueueAssumption

LEMMA StreamerLostKeeps ==
  ASSUME IInv, StreamerLost
  PROVE  IInv'
<1>1. Drop(clients) /\ clients \in SUBSET Clients
  BY DEF StreamerLost, IInv, TypeOK
<1>2. running' = FALSE /\ queue' = <<>> /\ device' = FALSE /\ down' = {}
  BY DEF StreamerLost
<1>3. ButtonsPlain'
  BY <1>1, DropAccounts DEF IInv, ButtonsPlain
<1>4. TypeOK'
  <2>1. running' \in BOOLEAN /\ device' \in BOOLEAN /\ down' \subseteq Codes
        /\ queue' \in Seq(Events \cup {Eof}) /\ Len(queue') <= MaxQueue
    BY <1>2, EmptyQueue
  <2> QED BY <1>1, <1>2, <2>1, DropAccounts DEF TypeOK
<1>5. NoStray' /\ Ended'
  BY <1>2 DEF NoStray, Ended, Settled
<1> QED BY <1>3, <1>4, <1>5 DEF IInv

LEMMA LastClientKeeps ==
  ASSUME IInv, LastClient
  PROVE  IInv'
<1>1. /\ UNCHANGED <<clients, held, device, down, lost>> /\ signal' = "none"
      /\ running' = FALSE
  BY DEF LastClient
<1>2. queue \in Seq(Messages) /\ Len(queue) \in Nat /\ Len(queue) <= MaxQueue
  BY LenProperties DEF IInv, TypeOK, Messages
<1>3. /\ queue' \in Seq(Messages) /\ Len(queue') <= MaxQueue
      /\ Ended' /\ \A x \in Codes \ (Held \cup lost) : Settled(x, down, queue')
  <2>1. CASE ~running
    <3>1. queue' = queue
      BY <2>1 DEF LastClient
    <3> QED BY <1>1, <1>2, <2>1, <3>1 DEF IInv, NoStray, Ended
  <2>2. CASE running
    <3>1. queue' = Append(queue, Eof) /\ Len(queue) < MaxQueue /\ Eof \in Messages
      BY <2>2 DEF LastClient, Messages
    <3>2. /\ queue' \in Seq(Messages) /\ Len(queue') = Len(queue) + 1
          /\ queue' # <<>> /\ queue'[Len(queue')] = Eof
      BY <1>2, <3>1, AppendProperties
    <3>3. \A x : Settled(x, down, queue')
      BY <1>2, <3>1, SettledAppend DEF Undoes
    <3>4. Len(queue') <= MaxQueue
      BY <1>2, <3>1, <3>2, QueueAssumption
    <3> QED BY <3>2, <3>3, <3>4 DEF Ended
  <2> QED BY <2>1, <2>2
<1>4. NoStray'
  BY <1>1, <1>3 DEF NoStray, Held
<1>5. TypeOK'
  BY <1>1, <1>3 DEF IInv, TypeOK, Messages
<1>6. ButtonsPlain'
  BY <1>1 DEF IInv, ButtonsPlain
<1> QED BY <1>3, <1>4, <1>5, <1>6 DEF IInv

(* The streamer takes a message. *)
LEMMA TailKeeps ==
  ASSUME IInv, queue # <<>>, queue' = Tail(queue), UNCHANGED running
  PROVE  /\ queue' \in Seq(Messages) /\ Len(queue') <= MaxQueue
         /\ ~running /\ queue' # <<>> => queue'[Len(queue')] = Eof
         /\ ~running /\ queue' = <<>> => Head(queue) = Eof
<1>1. /\ queue \in Seq(Messages) /\ Len(queue) \in Nat /\ Len(queue) >= 1
      /\ Len(queue) <= MaxQueue
  BY LenProperties, EmptySeq DEF IInv, TypeOK, Messages
<1>2. /\ queue' \in Seq(Messages) /\ Len(queue') = Len(queue) - 1
      /\ \A i \in 1 .. Len(queue') : queue'[i] = queue[i + 1]
      /\ Head(queue) = queue[1]
  BY <1>1, HeadTailProperties
<1>3. queue' = <<>> <=> Len(queue') = 0
  BY <1>2, EmptySeq
<1>4. ~running => queue[Len(queue)] = Eof
  BY DEF IInv, Ended
<1>5. Len(queue') <= MaxQueue
  BY <1>1, <1>2, QueueAssumption
<1>6. ASSUME ~running, queue' # <<>> PROVE queue'[Len(queue')] = Eof
  <2>1. Len(queue') \in 1 .. Len(queue') /\ Len(queue') + 1 = Len(queue)
    BY <1>1, <1>2, <1>3, <1>6
  <2> QED BY <1>2, <1>4, <1>6, <2>1
<1>7. ASSUME ~running, queue' = <<>> PROVE Head(queue) = Eof
  BY <1>1, <1>2, <1>3, <1>4, <1>7
<1> QED BY <1>2, <1>5, <1>6, <1>7

LEMMA InputKeeps ==
  ASSUME IInv, Input
  PROVE  IInv'
<1>1. /\ queue # <<>> /\ queue' = Tail(queue) /\ Head(queue) # Eof /\ device
      /\ down' = (down \cup Head(queue).press) \ Head(queue).release
      /\ UNCHANGED <<clients, held, signal, running, device, lost>>
  BY DEF Input
<1>2. queue \in Seq(Messages) /\ Head(queue) \in Events
  <2>1. queue \in Seq(Messages)
    BY DEF IInv, TypeOK, Messages
  <2> QED BY <1>1, <2>1, HeadTailProperties DEF Messages
<1>3. ASSUME NEW x \in Codes, x \notin Held \cup lost
      PROVE  Settled(x, down', queue')
  <2>1. Settled(x, down, queue)
    BY <1>3 DEF IInv, NoStray
  <2>2. x \in down' => (x \in down \/ Presses(Head(queue), x)) /\ ~Undoes(Head(queue), x)
    BY <1>1 DEF Presses, Undoes
  <2> QED BY <1>1, <1>2, <2>1, <2>2, SettledTail
<1>4. NoStray'
  BY <1>1, <1>3 DEF NoStray, Held
<1>5. Ended'
  BY <1>1, TailKeeps DEF Ended
<1>6. down' \subseteq Codes
  BY <1>1, <1>2 DEF Events, IInv, TypeOK
<1>7. TypeOK'
  BY <1>1, <1>6, TailKeeps DEF IInv, TypeOK, Messages
<1>8. ButtonsPlain'
  BY <1>1 DEF IInv, ButtonsPlain
<1> QED BY <1>4, <1>5, <1>7, <1>8 DEF IInv

LEMMA CleanUpKeeps ==
  ASSUME IInv, CleanUp
  PROVE  IInv'
<1>1. /\ queue # <<>> /\ queue' = Tail(queue) /\ device' = FALSE /\ down' = {}
      /\ lost' = IF queue' = <<>> /\ ~running THEN {} ELSE lost
      /\ UNCHANGED <<clients, held, signal, running>>
  BY DEF CleanUp
<1>2. queue \in Seq(Messages)
  BY DEF IInv, TypeOK, Messages
<1>3. ASSUME NEW x \in Codes, x \notin Held' \cup lost'
      PROVE  Settled(x, down', queue')
  <2>1. CASE queue' = <<>>
    BY <1>1, <2>1, EmptySeq DEF Settled
  <2>2. CASE queue' # <<>>
    <3>1. Settled(x, down, queue)
      BY <1>1, <1>3, <2>2 DEF IInv, NoStray, Held
    <3> QED BY <1>1, <1>2, <3>1, SettledTail
  <2> QED BY <2>1, <2>2
<1>4. NoStray'
  BY <1>3 DEF NoStray
<1>5. Ended'
  BY <1>1, TailKeeps DEF Ended
<1>6. TypeOK'
  BY <1>1, TailKeeps DEF IInv, TypeOK, Messages
<1>7. ButtonsPlain'
  BY <1>1 DEF IInv, ButtonsPlain
<1> QED BY <1>4, <1>5, <1>6, <1>7 DEF IInv

LEMMA IInvInvariant == Spec => []IInv
<1>1. Init => IInv
  <2> SUFFICES ASSUME Init PROVE IInv
    OBVIOUS
  <2>1. TypeOK
    <3>1. queue \in Seq(Events \cup {Eof}) /\ Len(queue) <= MaxQueue
      BY EmptyQueue DEF Init
    <3> QED BY <3>1 DEF Init, TypeOK
  <2> QED BY <2>1 DEF Init, IInv, ButtonsPlain, Ended, NoStray, Settled
<1>2. IInv /\ [Next]_vars => IInv'
  <2> SUFFICES ASSUME IInv, [Next]_vars PROVE IInv'
    OBVIOUS
  <2>1. ASSUME NEW c \in Clients, Connect(c) PROVE IInv'
    BY <2>1 DEF Connect, IInv, TypeOK, ButtonsPlain, Ended, NoStray, Held
  <2>2. ASSUME NEW c \in Clients, Client(c), ~Connect(c) PROVE IInv'
    BY <2>2, LeaveKeeps, PressKeeps, ReleaseKeeps, PointKeeps DEF Client
  <2>3. CASE FirstClient
    BY <2>3 DEF FirstClient, IInv, TypeOK, ButtonsPlain, Ended, NoStray, Held
  <2>4. CASE LastClient
    BY <2>4, LastClientKeeps
  <2>5. CASE Setup
    BY <2>5 DEF Setup, IInv, TypeOK, ButtonsPlain, Ended, NoStray, Held
  <2>6. CASE Input
    BY <2>6, InputKeeps
  <2>7. CASE CleanUp
    BY <2>7, CleanUpKeeps
  <2>8. CASE StreamerLost
    BY <2>8, StreamerLostKeeps
  <2>9. CASE UNCHANGED vars
    BY <2>9 DEF vars, IInv, TypeOK, ButtonsPlain, Ended, NoStray, Held
  <2> QED
    BY <2>1, <2>2, <2>3, <2>4, <2>5, <2>6, <2>7, <2>8, <2>9 DEF Next, Streamer
<1> QED BY <1>1, <1>2, PTL DEF Spec

(* Clients hold pairs of codes, queues stay within their bound, and without *)
(* a device nothing is down, for any number of clients and any layout.     *)
THEOREM TypeCorrect == Spec => []TypeOK
<1>1. IInv => TypeOK
  BY DEF IInv
<1> QED BY <1>1, IInvInvariant, PTL

(* No release is lost on its way: when the sockets are empty, what is down *)
(* is held, or was left behind by its holder, whatever the layout.         *)
THEOREM KeysCorrect == Spec => []KeysExplained
<1>1. IInv => KeysExplained
  <2> SUFFICES ASSUME IInv, queue = <<>>, NEW x \in down, x \notin Held \cup lost
               PROVE  FALSE
    BY DEF KeysExplained
  <2>1. x \in Codes /\ Len(queue) = 0
    BY EmptySeq DEF IInv, TypeOK
  <2>2. Settled(x, down, queue)
    BY <2>1 DEF IInv, NoStray
  <2> QED BY <2>1, <2>2 DEF Settled
<1> QED BY <1>1, IInvInvariant, PTL

=============================================================================
