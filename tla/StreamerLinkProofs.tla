------------------------- MODULE StreamerLinkProofs -------------------------
(***************************************************************************)
(* For any buffer sizes the assumption allows, any number of connection    *)
(* identities and any bound on authentications: the state of StreamerLink  *)
(* is well typed, there is one frame exchange, and the two processes never *)
(* wait for each other with full buffers.                                  *)
(***************************************************************************)
EXTENDS StreamerLink, SequenceTheorems, FiniteSetTheorems, TLAPS

-----------------------------------------------------------------------------
(* The inductive invariant.                                                *)

Frames == {"frame", "empty"}
Info == {"card", "connector"}

(* Requests of some kinds that are under way to the streamer. *)
Asked(kinds) == Pending(toStreamer[conn], kinds)

(* Replies of some kinds that are under way to the server. *)
Replying(kinds) ==
  Pending(toServer[conn], kinds)
  + (IF tconn = conn THEN Pending(outbox, kinds) ELSE 0)

(* The server has a connection while it runs; only a running server writes,*)
(* and the timer stays armed while its request is written.                 *)
ServerOK ==
  /\ running = (conn # None)
  /\ sending # None => running
  /\ spc = "crashed" => ~running
  /\ sending = "frame" => timer /\ spc = "loop"

(* The streamer writes in its message loop only. *)
StreamerOK ==
  /\ tconn = None <=> tpc = "listen"
  /\ tpc # "loop" => outbox = <<>>

(* A connection waits once, and not after it has been accepted. *)
BacklogOK ==
  /\ \A i, j \in 1 .. Len(backlog) : backlog[i] = backlog[j] => i = j
  /\ tconn # None => ~InBacklog(tconn)

(* Nothing was answered before the message loop. *)
NotYetAnswered ==
  InBacklog(conn) \/ (tconn = conn /\ tpc = "setup") => toServer[conn] = <<>>

(* The setup messages come once, and there are no more authentications     *)
(* than the bound allows, that being written included.                     *)
InfoOnce == Replying(Info) <= 2
AuthsBounded ==
  (IF sending = "auth" THEN 1 ELSE 0)
  + Asked({"auth"}) + Replying({"auth"}) <= MaxAuth

(* What holds of the connection of a running server. *)
Books ==
  /\ FrameTokens <= 1
  /\ PeerOpen(conn) => FrameTokens = 1
  /\ NotYetAnswered
  /\ InfoOnce
  /\ AuthsBounded

IInv ==
  /\ TypeOK
  /\ ServerOK
  /\ StreamerOK
  /\ BacklogOK
  /\ running => Books

-----------------------------------------------------------------------------
(* Counting messages of some kinds.                                        *)

LEMMA IndicesFinite ==
  ASSUME NEW S, NEW s \in Seq(S), NEW I \in SUBSET DOMAIN s
  PROVE  IsFiniteSet(I) /\ Cardinality(I) \in Nat
<1>1. Len(s) \in Nat /\ DOMAIN s = 1 .. Len(s)
  BY LenProperties
<1>2. IsFiniteSet(1 .. Len(s))
  BY <1>1, 0 \in Int, 1 \in Int, Len(s) \in Int, FS_Interval
<1>3. IsFiniteSet(I)
  BY <1>1, <1>2, FS_Subset
<1> QED BY <1>3, FS_CardinalityType

LEMMA PendingCounts ==
  ASSUME NEW S, NEW s \in Seq(S), NEW kinds
  PROVE  Pending(s, kinds) \in Nat
<1> DEFINE I == {i \in DOMAIN s : s[i] \in kinds}
<1>1. I \in SUBSET DOMAIN s
  OBVIOUS
<1> HIDE DEF I
<1>2. Cardinality(I) \in Nat
  BY <1>1, IndicesFinite
<1> QED BY <1>2 DEF Pending, I

LEMMA PendingEmpty ==
  ASSUME NEW kinds
  PROVE  Pending(<<>>, kinds) = 0
<1>1. {i \in DOMAIN <<>> : <<>>[i] \in kinds} = {}
  OBVIOUS
<1> QED BY <1>1, FS_EmptySet DEF Pending

LEMMA PendingAppend ==
  ASSUME NEW S, NEW s \in Seq(S), NEW e \in S, NEW kinds
  PROVE  Pending(Append(s, e), kinds) =
           Pending(s, kinds) + IF e \in kinds THEN 1 ELSE 0
<1> DEFINE t == Append(s, e)
           n == Len(s) + 1
           I == {i \in DOMAIN s : s[i] \in kinds}
           J == {i \in DOMAIN t : t[i] \in kinds}
<1>1. /\ DOMAIN s = 1 .. Len(s) /\ Len(s) \in Nat
      /\ DOMAIN t = 1 .. n /\ t[n] = e
      /\ \A i \in 1 .. Len(s) : t[i] = s[i]
  BY AppendProperties, LenProperties
<1>2. I \in SUBSET DOMAIN s /\ n \notin I
  BY <1>1
<1> HIDE DEF t
<1>3. J = IF e \in kinds THEN I \cup {n} ELSE I
  BY <1>1
<1> HIDE DEF I, J, n
<1>4. IsFiniteSet(I) /\ Cardinality(I) \in Nat
  BY <1>2, IndicesFinite
<1>5. Cardinality(I \cup {n}) = Cardinality(I) + 1
  BY <1>2, <1>4, FS_AddElement
<1>6. Cardinality(J) = Cardinality(I) + IF e \in kinds THEN 1 ELSE 0
  BY <1>3, <1>4, <1>5
<1> QED BY <1>6 DEF Pending, t, I, J

LEMMA PendingOne ==
  ASSUME NEW S, NEW e \in S, NEW kinds
  PROVE  Pending(<<e>>, kinds) = IF e \in kinds THEN 1 ELSE 0
<1> DEFINE none == <<>>
           one == <<e>>
<1>1. none \in Seq(S) /\ one = Append(none, e) /\ Pending(none, kinds) = 0
  BY PendingEmpty
<1> HIDE DEF none, one
<1>2. Pending(Append(none, e), kinds) = Pending(none, kinds) + IF e \in kinds THEN 1 ELSE 0
  BY <1>1, PendingAppend
<1>3. Pending(one, kinds) = IF e \in kinds THEN 1 ELSE 0
  BY <1>1, <1>2
<1> QED BY <1>3 DEF one

(* The first message gone, the others move up by one: a bijection. *)
LEMMA Shifted ==
  ASSUME NEW n \in Nat, NEW J \in SUBSET (1 .. n), NEW I,
         \A i : i \in I <=> i - 1 \in J /\ i \in 2 .. n + 1
  PROVE  ExistsBijection(J, I)
<1> DEFINE f == [j \in J |-> j + 1]
<1>1. f \in [J -> I]
  OBVIOUS
<1>2. \A i, j \in J : f[i] = f[j] => i = j
  OBVIOUS
<1>3. \A i \in I : i - 1 \in J /\ f[i - 1] = i
  OBVIOUS
<1>4. f \in Injection(J, I)
  BY <1>1, <1>2 DEF Injection, IsInjective
<1>5. f \in Surjection(J, I)
  BY <1>1, <1>3 DEF Surjection
<1> QED BY <1>4, <1>5 DEF ExistsBijection, Bijection

LEMMA PendingTail ==
  ASSUME NEW S, NEW s \in Seq(S), s # <<>>, NEW kinds
  PROVE  Pending(s, kinds) =
           Pending(Tail(s), kinds) + IF Head(s) \in kinds THEN 1 ELSE 0
<1> DEFINE t == Tail(s)
           I == {i \in DOMAIN s : s[i] \in kinds}
           J == {i \in DOMAIN t : t[i] \in kinds}
           R == I \ {1}
<1>1. /\ DOMAIN s = 1 .. Len(s) /\ Len(s) \in Nat \ {0} /\ Head(s) = s[1]
      /\ t \in Seq(S) /\ Len(t) = Len(s) - 1 /\ DOMAIN t = 1 .. Len(t)
      /\ \A i \in 1 .. Len(t) : t[i] = s[i + 1]
  BY HeadTailProperties, LenProperties, EmptySeq
<1>2. I \in SUBSET DOMAIN s /\ J \in SUBSET DOMAIN t
  OBVIOUS
<1> HIDE DEF t
<1>3. \A i : i \in R <=> i - 1 \in J /\ i \in 2 .. Len(t) + 1
  <2>1. ASSUME NEW i \in R PROVE i - 1 \in J /\ i \in 2 .. Len(t) + 1
    BY <1>1, <2>1
  <2>2. ASSUME NEW i \in 2 .. Len(t) + 1, i - 1 \in J PROVE i \in R
    BY <1>1, <2>2
  <2> QED BY <2>1, <2>2
<1>4. 1 \in I <=> Head(s) \in kinds
  BY <1>1
<1> HIDE DEF I, J
<1>5. IsFiniteSet(I) /\ Cardinality(I) \in Nat
  BY <1>2, IndicesFinite
<1>6. IsFiniteSet(J) /\ Cardinality(J) \in Nat
  BY <1>1, <1>2, IndicesFinite
<1>7. Cardinality(R) = IF 1 \in I THEN Cardinality(I) - 1 ELSE Cardinality(I)
  BY <1>5, FS_RemoveElement
<1> HIDE DEF R
<1>8. ExistsBijection(J, R)
  BY <1>1, <1>2, <1>3, Shifted
<1>9. Cardinality(R) = Cardinality(J)
  BY <1>6, <1>8, FS_Bijection
<1>10. Cardinality(I) = Cardinality(J) + IF Head(s) \in kinds THEN 1 ELSE 0
  BY <1>4, <1>5, <1>6, <1>7, <1>9
<1> QED BY <1>10 DEF Pending, t, I, J

LEMMA PendingUnion ==
  ASSUME NEW S, NEW s \in Seq(S), NEW k1, NEW k2, k1 \cap k2 = {}
  PROVE  Pending(s, k1 \cup k2) = Pending(s, k1) + Pending(s, k2)
<1> DEFINE I == {i \in DOMAIN s : s[i] \in k1}
           J == {i \in DOMAIN s : s[i] \in k2}
           K == {i \in DOMAIN s : s[i] \in k1 \cup k2}
<1>1. I \in SUBSET DOMAIN s /\ J \in SUBSET DOMAIN s
  OBVIOUS
<1>2. K = I \cup J /\ I \cap J = {}
  OBVIOUS
<1> HIDE DEF I, J, K
<1>3. /\ IsFiniteSet(I) /\ Cardinality(I) \in Nat
      /\ IsFiniteSet(J) /\ Cardinality(J) \in Nat
  BY <1>1, IndicesFinite
<1>4. Cardinality(I \cup J) = Cardinality(I) + Cardinality(J) - Cardinality(I \cap J)
  BY <1>3, FS_Union
<1>5. Cardinality(I \cap J) = 0
  BY <1>2, FS_EmptySet
<1>6. Cardinality(K) = Cardinality(I) + Cardinality(J)
  BY <1>2, <1>3, <1>4, <1>5
<1> QED BY <1>6 DEF Pending, I, J, K

LEMMA PendingAll ==
  ASSUME NEW S, NEW s \in Seq(S)
  PROVE  Pending(s, S) = Len(s)
<1> DEFINE n == Len(s)
<1>1. {i \in DOMAIN s : s[i] \in S} = 1 .. n
  BY LenProperties, ElementOfSeq
<1>2. n \in Nat
  BY LenProperties
<1> HIDE DEF n
<1>3. Cardinality(1 .. n) = IF 1 > n THEN 0 ELSE n - 1 + 1
  BY <1>2, n \in Int, 1 \in Int, FS_Interval
<1>4. Cardinality(1 .. n) = n
  BY <1>2, <1>3
<1> QED BY <1>1, <1>4 DEF Pending, n

-----------------------------------------------------------------------------
(* The counts of the invariant.                                            *)

(* The part of the exchange that the server keeps in its own variables. *)
OwnTokens == (IF timer THEN 1 ELSE 0) + (IF spc = "frame" THEN 1 ELSE 0)
Writing == IF sending = "auth" THEN 1 ELSE 0

Connected == TypeOK /\ running /\ ServerOK

LEMMA ConnTyped ==
  Connected => /\ conn \in Conns /\ conn # None
               /\ toStreamer[conn] \in Seq(Requests)
               /\ toServer[conn] \in Seq(Replies)
               /\ outbox \in Seq(Replies)
BY DEF Connected, TypeOK, ServerOK

LEMMA CountsAreNat ==
  ASSUME Connected, NEW kinds
  PROVE  /\ Asked(kinds) \in Nat /\ Replying(kinds) \in Nat
         /\ Pending(toServer[conn], kinds) \in Nat /\ Pending(outbox, kinds) \in Nat
<1>1. /\ Pending(toStreamer[conn], kinds) \in Nat
      /\ Pending(toServer[conn], kinds) \in Nat
      /\ Pending(outbox, kinds) \in Nat
  BY ConnTyped, PendingCounts
<1> QED BY <1>1 DEF Asked, Replying

Counted ==
  /\ FrameTokens = OwnTokens + Asked({"frame"}) + Replying(Frames)
  /\ {OwnTokens, Writing, Asked({"frame"}), Asked({"auth"}),
      Replying(Frames), Replying(Info), Replying({"auth"})} \subseteq Nat

LEMMA CountsSum == Connected => Counted
<1> SUFFICES ASSUME Connected PROVE Counted
  OBVIOUS
<1>1. OwnTokens \in Nat /\ Writing \in Nat
  BY DEF OwnTokens, Writing
<1>2. /\ {Asked({"frame"}), Asked({"auth"})} \subseteq Nat
      /\ {Replying(Frames), Replying(Info), Replying({"auth"})} \subseteq Nat
      /\ Pending(toServer[conn], Frames) \in Nat /\ Pending(outbox, Frames) \in Nat
  BY CountsAreNat
<1> QED BY <1>1, <1>2 DEF Counted, FrameTokens, OwnTokens, Replying, Asked, Frames

LEMMA CountsSumNext == (Connected => Counted)'
BY CountsSum, PTL

(* AuthsUnderWay is the sum that the invariant bounds, but for what the    *)
(* server is writing.                                                      *)
LEMMA AuthsSum ==
  ASSUME Connected
  PROVE  AuthsUnderWay = Asked({"auth"}) + Replying({"auth"})
<1>1. conn # None
  BY ConnTyped
<1>2. /\ Asked({"auth"}) \in Nat
      /\ Pending(toServer[conn], {"auth"}) \in Nat /\ Pending(outbox, {"auth"}) \in Nat
  BY CountsAreNat
<1> QED BY <1>1, <1>2 DEF AuthsUnderWay, Asked, Replying

(* What a step of a connected server or of the streamer has to keep. *)
LEMMA BooksKept ==
  ASSUME Connected, Connected', Books, NotYetAnswered',
         PeerOpen(conn)' => PeerOpen(conn),
         LET before == OwnTokens + Asked({"frame"}) + Replying(Frames)
             after == OwnTokens' + Asked({"frame"})' + Replying(Frames)'
         IN  after <= before /\ (PeerOpen(conn)' => after = before),
         Replying(Info)' <= Replying(Info) \/ Replying(Info)' <= 2,
         \/ Writing' + Asked({"auth"})' + Replying({"auth"})' <=
              Writing + Asked({"auth"}) + Replying({"auth"})
         \/ Writing' + Asked({"auth"})' + Replying({"auth"})' <= MaxAuth
  PROVE  Books'
<1>1. Counted /\ Counted'
  BY CountsSum, CountsSumNext
<1>2. FrameTokens' <= 1 /\ (PeerOpen(conn)' => FrameTokens' = 1)
  BY <1>1 DEF Counted, Books
<1>3. InfoOnce'
  BY <1>1 DEF Counted, Books, InfoOnce
<1>4. AuthsBounded'
  BY <1>1, CapAssumption DEF Counted, Books, AuthsBounded, Writing
<1> QED BY <1>2, <1>3, <1>4 DEF Books

(* Steps of the server that leave the socket and the streamer alone. *)
LEMMA ServerKeeps ==
  ASSUME IInv, TypeOK', ServerOK', UNCHANGED <<conn, wire, streamer>>,
         running' => /\ OwnTokens' = OwnTokens
                     /\ sending' = "auth" => sending = "auth" \/ AuthsUnderWay < MaxAuth
  PROVE  IInv'
<1>1. StreamerOK' /\ BacklogOK'
  BY DEF IInv, StreamerOK, BacklogOK, wire, streamer, InBacklog
<1>2. ASSUME running' PROVE Books'
  <2>1. Connected /\ Connected' /\ Books
    BY <1>2 DEF IInv, ServerOK, Connected
  <2>2. NotYetAnswered' /\ (PeerOpen(conn)' <=> PeerOpen(conn))
    BY <2>1 DEF Books, NotYetAnswered, InBacklog, PeerOpen, wire, streamer
  <2>3. /\ Asked({"frame"})' = Asked({"frame"}) /\ Asked({"auth"})' = Asked({"auth"})
        /\ Replying(Frames)' = Replying(Frames) /\ Replying(Info)' = Replying(Info)
        /\ Replying({"auth"})' = Replying({"auth"})
    BY DEF Replying, Asked, wire, streamer
  <2>4. Counted /\ Counted' /\ AuthsUnderWay = Asked({"auth"}) + Replying({"auth"})
    BY <2>1, CountsSum, CountsSumNext, AuthsSum
  <2>5. Writing' <= Writing \/ Writing' + Asked({"auth"}) + Replying({"auth"}) <= MaxAuth
    BY <1>2, <2>4, CapAssumption DEF Writing, Counted
  <2>6. \/ Writing' + Asked({"auth"})' + Replying({"auth"})' <=
             Writing + Asked({"auth"}) + Replying({"auth"})
        \/ Writing' + Asked({"auth"})' + Replying({"auth"})' <= MaxAuth
    BY <2>3, <2>4, <2>5 DEF Counted
  <2>7. /\ OwnTokens' + Asked({"frame"})' + Replying(Frames)' =
             OwnTokens + Asked({"frame"}) + Replying(Frames)
        /\ OwnTokens + Asked({"frame"}) + Replying(Frames) \in Nat
        /\ Replying(Info)' \in Nat
    BY <1>2, <2>3, <2>4 DEF Counted
  <2> QED BY <2>1, <2>2, <2>3, <2>6, <2>7, BooksKept
<1> QED BY <1>1, <1>2 DEF IInv

(* Steps after which the server is not connected. *)
LEMMA StopKeeps ==
  ASSUME IInv, TypeOK', ServerOK', ~running', UNCHANGED <<wire, streamer>>
  PROVE  IInv'
<1>1. StreamerOK' /\ BacklogOK'
  BY DEF IInv, StreamerOK, BacklogOK, wire, streamer, InBacklog
<1> QED BY <1>1 DEF IInv

-----------------------------------------------------------------------------
(* Steps of the server.                                                    *)

LEMMA StartKeeps ==
  ASSUME IInv, NEW c \in Conns, Start(c)
  PROVE  IInv'
<1> USE DEF Start, Idle, Free, IInv
<1>1. backlog' \in Seq(Conns) /\ Len(backlog') = Len(backlog) + 1 /\ Len(backlog) \in Nat
      /\ backlog'[Len(backlog) + 1] = c
      /\ \A i \in 1 .. Len(backlog) : backlog'[i] = backlog[i]
  BY AppendProperties, LenProperties DEF TypeOK
<1>2. /\ c # tconn /\ \A i \in 1 .. Len(backlog) : backlog[i] # c
      /\ c # None
  BY ConnAssumption, LenProperties DEF PeerOpen, InBacklog, TypeOK
<1>3. TypeOK' /\ ServerOK' /\ StreamerOK'
  <2>1. /\ toStreamer' \in [Conns -> Seq(Requests)]
        /\ toServer' \in [Conns -> Seq(Replies)]
    BY EmptySeq DEF TypeOK
  <2>2. ASSUME NEW d \in Conns
        PROVE  Len(toStreamer'[d]) <= CapIn /\ Len(toServer'[d]) <= CapOut
    BY CapAssumption, EmptySeq DEF TypeOK
  <2>3. TypeOK'
    BY <1>1, <2>1, <2>2 DEF TypeOK, streamer
  <2> QED BY <1>2, <2>3 DEF TypeOK, ServerOK, StreamerOK, streamer
<1>4. BacklogOK'
  <2>1. Len(backlog') = Len(backlog) + 1 /\ Len(backlog) \in Nat
    BY <1>1
  <2>2. \A i, j \in 1 .. Len(backlog') : backlog'[i] = backlog'[j] => i = j
    BY <1>1, <1>2 DEF BacklogOK
  <2>3. ASSUME tconn' # None PROVE ~InBacklog(tconn)'
    BY <1>1, <1>2, <2>3, LenProperties DEF BacklogOK, InBacklog, TypeOK, streamer
  <2> QED BY <2>2, <2>3 DEF BacklogOK
<1>5. Books'
  <2>1. toStreamer'[conn'] = <<>> /\ toServer'[conn'] = <<>> /\ tconn' # conn'
    BY <1>2 DEF TypeOK, streamer
  <2>2. \A kinds : Pending(toStreamer'[conn'], kinds) = 0 /\ Pending(toServer'[conn'], kinds) = 0
    BY <2>1, PendingEmpty
  <2>3. FrameTokens' = 1
    BY <2>1, <2>2 DEF FrameTokens
  <2>4. InfoOnce' /\ AuthsBounded'
    BY <2>1, <2>2, CapAssumption, NoneAssumption DEF InfoOnce, AuthsBounded, Asked, Replying
  <2> QED BY <2>1, <2>3, <2>4 DEF Books, NotYetAnswered
<1> QED BY <1>3, <1>4, <1>5

LEMMA QuietServerKeeps ==
  ASSUME IInv, \/ StartFails \/ TimerFires \/ PointerEvent \/ KeyboardEvent
               \/ AuthRequest \/ FrameDone \/ ServerRestart
  PROVE  IInv'
<1> DEFINE Quiet == /\ TypeOK' /\ ServerOK' /\ UNCHANGED <<conn, wire, streamer>>
                    /\ running' =>
                         /\ OwnTokens' = OwnTokens
                         /\ sending' = "auth" => sending = "auth" \/ AuthsUnderWay < MaxAuth
<1> USE DEF IInv, Idle, TypeOK, ServerOK, OwnTokens, wire, streamer
<1>1. CASE StartFails
  BY <1>1, ServerKeeps DEF StartFails
<1>2. CASE TimerFires
  <2>1. Quiet
    BY <1>2, NoneAssumption DEF TimerFires, Requests
  <2> QED BY <2>1, ServerKeeps
<1>3. CASE PointerEvent
  <2>1. Quiet
    BY <1>3, NoneAssumption DEF PointerEvent, Requests
  <2> QED BY <2>1, ServerKeeps
<1>4. CASE KeyboardEvent
  <2>1. Quiet
    BY <1>4, NoneAssumption DEF KeyboardEvent, Requests
  <2> QED BY <2>1, ServerKeeps
<1>5. CASE AuthRequest
  <2>1. Quiet
    BY <1>5, NoneAssumption DEF AuthRequest, Requests
  <2> QED BY <2>1, ServerKeeps
<1>6. CASE FrameDone
  <2>1. running => ~timer
    <3>1. ASSUME running PROVE ~timer
      <4>1. Connected /\ Books
        BY <3>1 DEF Connected
      <4>2. Counted
        BY <4>1, CountsSum
      <4> HIDE DEF IInv, TypeOK, ServerOK, wire, streamer
      <4> QED BY <1>6, <4>1, <4>2 DEF Counted, Books, FrameDone
    <3> QED BY <3>1
  <2>2. Quiet
    BY <1>6, <2>1 DEF FrameDone
  <2> QED BY <2>2, ServerKeeps
<1>7. CASE ServerRestart
  <2>1. Quiet
    BY <1>7, NoneAssumption DEF ServerRestart
  <2> QED BY <2>1, ServerKeeps
<1> QED BY <1>1, <1>2, <1>3, <1>4, <1>5, <1>6, <1>7

LEMMA StoppingKeeps ==
  ASSUME IInv, LastClient \/ SendFails \/ PeerGone
  PROVE  IInv'
<1>1. TypeOK' /\ ServerOK' /\ ~running' /\ UNCHANGED <<wire, streamer>>
  BY NoneAssumption DEF IInv, LastClient, SendFails, PeerGone, Idle, StopStreamer, TypeOK,
     ServerOK, wire, streamer
<1> QED BY <1>1, StopKeeps

LEMMA SentKeeps ==
  ASSUME IInv, Sent
  PROVE  IInv'
<1> DEFINE old == toStreamer[conn]
           new == toStreamer'[conn]
<1>1. Connected /\ Books /\ sending \in Requests
  BY DEF IInv, Sent, ServerOK, TypeOK, Connected
<1>2. /\ conn \in Conns /\ old \in Seq(Requests) /\ Len(old) < CapIn
      /\ new = Append(old, sending)
  BY <1>1, ConnTyped DEF Sent, Connected, TypeOK
<1>3. new \in Seq(Requests) /\ Len(new) = Len(old) + 1 /\ Len(old) \in Nat
  BY <1>1, <1>2, AppendProperties, LenProperties
<1>4. TypeOK'
  <2>1. toStreamer' \in [Conns -> Seq(Requests)]
    BY <1>1, <1>2, <1>3 DEF Sent, Connected, TypeOK
  <2>2. ASSUME NEW d \in Conns PROVE Len(toStreamer'[d]) <= CapIn
    BY <1>1, <1>2, <1>3, CapAssumption DEF Sent, Connected, TypeOK
  <2> QED BY <1>1, <2>1, <2>2 DEF Sent, Connected, TypeOK, streamer
<1>5. ServerOK' /\ StreamerOK' /\ BacklogOK'
  BY <1>1, NoneAssumption DEF IInv, Sent, ServerOK, StreamerOK, BacklogOK, InBacklog,
     Requests, streamer, Connected
<1>6. Connected'
  BY <1>1, <1>4, <1>5 DEF Connected, Sent
<1>7. NotYetAnswered' /\ (PeerOpen(conn)' <=> PeerOpen(conn))
  BY <1>1 DEF Sent, Books, NotYetAnswered, PeerOpen, InBacklog, streamer
<1>8. /\ Replying(Frames)' = Replying(Frames) /\ Replying(Info)' = Replying(Info)
      /\ Replying({"auth"})' = Replying({"auth"})
  BY DEF Sent, Replying, streamer
<1>9. /\ Pending(new, {"frame"}) = Pending(old, {"frame"}) + IF sending = "frame" THEN 1 ELSE 0
      /\ Pending(new, {"auth"}) = Pending(old, {"auth"}) + IF sending = "auth" THEN 1 ELSE 0
  BY <1>1, <1>2, PendingAppend
<1>10. /\ Asked({"frame"})' = Asked({"frame"}) + IF sending = "frame" THEN 1 ELSE 0
       /\ Asked({"auth"})' = Asked({"auth"}) + IF sending = "auth" THEN 1 ELSE 0
  BY <1>9 DEF Asked, Sent
<1>11. OwnTokens = OwnTokens' + IF sending = "frame" THEN 1 ELSE 0
  <2>1. CASE sending = "frame"
    <3>1. timer /\ ~timer' /\ spc = "loop" /\ spc' = "loop"
      BY <1>1, <2>1 DEF Sent, Connected, ServerOK
    <3> QED BY <2>1, <3>1 DEF OwnTokens
  <2>2. CASE sending # "frame"
    <3>1. (timer' <=> timer) /\ spc' = spc
      BY <2>2 DEF Sent
    <3> QED BY <2>2, <3>1 DEF OwnTokens
  <2> QED BY <2>1, <2>2
<1>12. Writing = IF sending = "auth" THEN 1 ELSE 0
  BY DEF Writing
<1>13. Writing' = 0
  BY NoneAssumption DEF Writing, Sent
<1>14. Counted /\ Counted'
  BY <1>1, <1>6, CountsSum, CountsSumNext
<1>15. /\ OwnTokens' + Asked({"frame"})' + Replying(Frames)' =
            OwnTokens + Asked({"frame"}) + Replying(Frames)
       /\ OwnTokens + Asked({"frame"}) + Replying(Frames) \in Nat
       /\ Replying(Info)' <= Replying(Info)
       /\ Writing' + Asked({"auth"})' + Replying({"auth"})' <=
            Writing + Asked({"auth"}) + Replying({"auth"})
  BY <1>8, <1>10, <1>11, <1>12, <1>13, <1>14 DEF Counted
<1>16. Books'
  BY <1>1, <1>6, <1>7, <1>15, BooksKept
<1> QED BY <1>4, <1>5, <1>16 DEF IInv

(* A reply is taken, and the exchange goes on with the frame signal or the *)
(* timer if the reply was of a frame.                                      *)
LEMMA TakeReplyKeeps ==
  ASSUME IInv, OnInfo \/ OnFrame \/ OnEmptyFrame
  PROVE  IInv'
<1> DEFINE old == toServer[conn]
           new == toServer'[conn]
           one == IF Head(old) \in Frames THEN 1 ELSE 0
<1>1. /\ Connected /\ Books /\ Idle
      /\ UNCHANGED <<running, conn, sending, backlog, toStreamer, streamer>>
      /\ toServer' = [toServer EXCEPT ![conn] = Tail(@)]
      /\ toServer[conn] # <<>>
  BY DEF IInv, OnInfo, OnFrame, OnEmptyFrame, TakeReply, Connected, server
<1>2. conn \in Conns /\ old \in Seq(Replies) /\ new = Tail(old) /\ old # <<>>
  BY <1>1, ConnTyped DEF Connected, TypeOK
<1>3. /\ new \in Seq(Replies) /\ Len(new) = Len(old) - 1 /\ Len(old) \in Nat
      /\ Head(old) \in Replies
  BY <1>2, HeadTailProperties, LenProperties
<1>4. TypeOK'
  <2>1. toServer' \in [Conns -> Seq(Replies)]
    BY <1>1, <1>2, <1>3 DEF Connected, TypeOK
  <2>2. ASSUME NEW d \in Conns PROVE Len(toServer'[d]) <= CapOut
    BY <1>1, <1>2, <1>3, CapAssumption DEF Connected, TypeOK
  <2>3. timer' \in BOOLEAN /\ sized' \in BOOLEAN /\ spc' \in {"loop", "frame", "crashed"}
    BY <1>1 DEF OnInfo, OnFrame, OnEmptyFrame, server, Connected, TypeOK
  <2> QED BY <1>1, <2>1, <2>2, <2>3 DEF Connected, TypeOK, streamer
<1>5. ServerOK' /\ StreamerOK' /\ BacklogOK'
  BY <1>1, NoneAssumption DEF IInv, ServerOK, StreamerOK, BacklogOK, InBacklog, Idle,
     streamer, Connected, OnInfo, OnFrame, OnEmptyFrame, server
<1>6. Connected'
  BY <1>1, <1>4, <1>5 DEF Connected
<1>7. NotYetAnswered' /\ (PeerOpen(conn)' <=> PeerOpen(conn))
  BY <1>1 DEF Books, NotYetAnswered, PeerOpen, InBacklog, streamer
<1>8. /\ Pending(old, Frames) = Pending(new, Frames) + one
      /\ Pending(old, Info) = Pending(new, Info) + IF Head(old) \in Info THEN 1 ELSE 0
      /\ Pending(old, {"auth"}) =
           Pending(new, {"auth"}) + IF Head(old) \in {"auth"} THEN 1 ELSE 0
  BY <1>2, PendingTail
<1>9. /\ Pending(new, Frames) \in Nat /\ Pending(new, Info) \in Nat
      /\ Pending(new, {"auth"}) \in Nat
      /\ Pending(outbox, Frames) \in Nat /\ Pending(outbox, Info) \in Nat
      /\ Pending(outbox, {"auth"}) \in Nat
  BY <1>1, <1>3, ConnTyped, PendingCounts
<1>10. /\ Replying(Frames) = Replying(Frames)' + one
       /\ Replying(Info)' <= Replying(Info)
       /\ Replying({"auth"})' <= Replying({"auth"})
  BY <1>1, <1>8, <1>9 DEF Replying, streamer
<1>11. OwnTokens' = OwnTokens + one
  <2>1. CASE OnInfo
    BY <2>1 DEF OnInfo, TakeReply, OwnTokens, server, Frames
  <2>2. CASE OnFrame
    BY <2>2, <1>1 DEF OnFrame, TakeReply, OwnTokens, Idle, Frames
  <2>3. CASE OnEmptyFrame
    <3>1. Counted /\ Counted' /\ FrameTokens <= 1
      BY <1>1, <1>6, CountsSum, CountsSumNext DEF Books
    <3>2. one = 1
      BY <2>3 DEF OnEmptyFrame, TakeReply, Frames
    <3>3. OwnTokens = 0
      BY <1>10, <3>1, <3>2 DEF Counted
    <3> QED BY <2>3, <3>2, <3>3 DEF OnEmptyFrame, OwnTokens
  <2> QED BY <2>1, <2>2, <2>3
<1>12. Asked({"frame"})' = Asked({"frame"}) /\ Asked({"auth"})' = Asked({"auth"})
  BY <1>1 DEF Asked
<1>13. Writing' = Writing
  BY <1>1 DEF Writing
<1>14. Counted /\ Counted'
  BY <1>1, <1>6, CountsSum, CountsSumNext
<1> HIDE DEF one
<1>15. /\ OwnTokens' + Asked({"frame"})' + Replying(Frames)' =
            OwnTokens + Asked({"frame"}) + Replying(Frames)
       /\ OwnTokens + Asked({"frame"}) + Replying(Frames) \in Nat
       /\ Writing' + Asked({"auth"})' + Replying({"auth"})' <=
            Writing + Asked({"auth"}) + Replying({"auth"})
  BY <1>10, <1>11, <1>12, <1>13, <1>14 DEF Counted, one
<1>16. Books'
  BY <1>1, <1>6, <1>7, <1>10, <1>15, BooksKept
<1> QED BY <1>4, <1>5, <1>16 DEF IInv

-----------------------------------------------------------------------------
(* Steps of the streamer.                                                  *)

LEMMA StreamerKeeps ==
  ASSUME IInv, TypeOK', StreamerOK', BacklogOK', UNCHANGED server,
         running =>
           /\ NotYetAnswered'
           /\ PeerOpen(conn)' => PeerOpen(conn)
           /\ LET before == Asked({"frame"}) + Replying(Frames)
                  after == Asked({"frame"})' + Replying(Frames)'
              IN  after <= before /\ (PeerOpen(conn)' => after = before)
           /\ Replying(Info)' <= Replying(Info) \/ Replying(Info)' <= 2
           /\ Asked({"auth"})' + Replying({"auth"})' <= Asked({"auth"}) + Replying({"auth"})
  PROVE  IInv'
<1>1. ServerOK'
  BY DEF IInv, ServerOK, server
<1>2. ASSUME running' PROVE Books'
  <2>1. Connected /\ Connected' /\ Books /\ running
    BY <1>1, <1>2 DEF IInv, Connected, server
  <2>2. OwnTokens' = OwnTokens /\ Writing' = Writing
    BY DEF OwnTokens, Writing, server
  <2>3. Counted /\ Counted'
    BY <2>1, CountsSum, CountsSumNext
  <2> DEFINE before == OwnTokens + Asked({"frame"}) + Replying(Frames)
             after == OwnTokens' + Asked({"frame"})' + Replying(Frames)'
  <2>4. after <= before /\ (PeerOpen(conn)' => after = before)
    BY <2>1, <2>2, <2>3 DEF Counted
  <2>5. Writing' + Asked({"auth"})' + Replying({"auth"})' <=
          Writing + Asked({"auth"}) + Replying({"auth"})
    BY <2>1, <2>2, <2>3 DEF Counted
  <2> QED BY <2>1, <2>4, <2>5, BooksKept
<1> QED BY <1>1, <1>2 DEF IInv

(* A connection is taken out of the backlog. *)
LEMMA BacklogTail ==
  ASSUME TypeOK, BacklogOK, backlog # <<>>, backlog' = Tail(backlog)
  PROVE  /\ backlog' \in Seq(Conns) /\ Head(backlog) \in Conns
         /\ \A i, j \in 1 .. Len(backlog') : backlog'[i] = backlog'[j] => i = j
         /\ \A c : InBacklog(c)' <=> InBacklog(c) /\ c # Head(backlog)
         /\ InBacklog(Head(backlog))
<1>1. /\ backlog' \in Seq(Conns) /\ Head(backlog) \in Conns /\ Head(backlog) = backlog[1]
      /\ Len(backlog) \in Nat /\ Len(backlog') = Len(backlog) - 1 /\ Len(backlog) >= 1
      /\ \A i \in 1 .. Len(backlog') : backlog'[i] = backlog[i + 1]
      /\ DOMAIN backlog = 1 .. Len(backlog) /\ DOMAIN backlog' = 1 .. Len(backlog')
  BY HeadTailProperties, LenProperties, EmptySeq DEF TypeOK
<1>2. \A i, j \in 1 .. Len(backlog) : backlog[i] = backlog[j] => i = j
  BY DEF BacklogOK
<1>3. \A i, j \in 1 .. Len(backlog') : backlog'[i] = backlog'[j] => i = j
  <2>1. ASSUME NEW i \in 1 .. Len(backlog'), NEW j \in 1 .. Len(backlog'),
               backlog'[i] = backlog'[j]
        PROVE  i = j
    <3>1. i + 1 \in 1 .. Len(backlog) /\ j + 1 \in 1 .. Len(backlog)
      BY <1>1
    <3>2. i + 1 = j + 1
      BY <1>1, <1>2, <2>1, <3>1
    <3> QED BY <3>2
  <2> QED BY <2>1
<1>4. ASSUME NEW c, InBacklog(c), c # Head(backlog) PROVE InBacklog(c)'
  <2>1. PICK i \in 1 .. Len(backlog) : backlog[i] = c
    BY <1>1, <1>4 DEF InBacklog
  <2>2. i # 1
    BY <1>1, <1>4, <2>1
  <2>3. i - 1 \in 1 .. Len(backlog') /\ (i - 1) + 1 = i
    BY <1>1, <2>1, <2>2
  <2>4. backlog'[i - 1] = c
    BY <1>1, <2>1, <2>3
  <2> QED BY <1>1, <2>3, <2>4 DEF InBacklog
<1>5. ASSUME NEW c, InBacklog(c)' PROVE InBacklog(c) /\ c # Head(backlog)
  <2>1. PICK i \in 1 .. Len(backlog') : backlog'[i] = c
    BY <1>1, <1>5 DEF InBacklog
  <2>2. i + 1 \in 1 .. Len(backlog) /\ 1 \in 1 .. Len(backlog) /\ i + 1 # 1
    BY <1>1, <2>1
  <2>3. backlog[i + 1] = c
    BY <1>1, <2>1
  <2> QED BY <1>1, <1>2, <2>2, <2>3 DEF InBacklog
<1>6. InBacklog(Head(backlog))
  <2>1. 1 \in 1 .. Len(backlog)
    BY <1>1
  <2> QED BY <1>1, <2>1 DEF InBacklog
<1> QED BY <1>1, <1>3, <1>4, <1>5, <1>6

LEMMA AcceptsKeep ==
  ASSUME IInv, Accept \/ AcceptRejects
  PROVE  IInv'
<1>1. /\ TypeOK /\ ServerOK /\ StreamerOK /\ BacklogOK
      /\ tpc = "listen" /\ tconn = None /\ outbox = <<>>
      /\ UNCHANGED <<server, toStreamer, toServer, outbox>>
      /\ backlog # <<>> /\ backlog' = Tail(backlog)
  BY DEF IInv, Accept, AcceptRejects, StreamerOK, streamer
<1>2. /\ backlog' \in Seq(Conns) /\ Head(backlog) \in Conns
      /\ \A i, j \in 1 .. Len(backlog') : backlog'[i] = backlog'[j] => i = j
      /\ \A c : InBacklog(c)' <=> InBacklog(c) /\ c # Head(backlog)
      /\ InBacklog(Head(backlog))
  BY <1>1, BacklogTail
<1>3. Head(backlog) # None
  BY <1>2, ConnAssumption
<1>4. \/ tconn' = Head(backlog) /\ tpc' = "setup"
      \/ tconn' = None /\ tpc' = "listen" /\ Head(backlog) # conn
  BY <1>1 DEF Accept, AcceptRejects, streamer
<1>5. TypeOK' /\ StreamerOK'
  BY <1>1, <1>2, <1>3, <1>4 DEF TypeOK, StreamerOK, server
<1>6. BacklogOK'
  <2>1. ASSUME tconn' # None PROVE ~InBacklog(tconn)'
    <3>1. tconn' = Head(backlog)
      BY <1>4, <2>1
    <3> DEFINE h == Head(backlog)
    <3>2. ~ \E i \in DOMAIN backlog' : backlog'[i] = h
      BY <1>2 DEF InBacklog
    <3> QED BY <3>1, <3>2 DEF InBacklog
  <2> QED BY <1>2, <2>1 DEF BacklogOK
<1>7. ASSUME running
      PROVE  /\ NotYetAnswered' /\ (PeerOpen(conn)' <=> PeerOpen(conn))
             /\ Asked({"frame"})' = Asked({"frame"}) /\ Asked({"auth"})' = Asked({"auth"})
             /\ Replying(Frames)' = Replying(Frames) /\ Replying(Info)' = Replying(Info)
             /\ Replying({"auth"})' = Replying({"auth"})
  <2>1. Connected /\ Books
    BY <1>1, <1>7 DEF IInv, Connected
  <2>2. conn' = conn /\ conn # None
    BY <1>1, <2>1, ConnTyped DEF server
  <2>3. InBacklog(conn) <=> InBacklog(conn)' \/ tconn' = conn
    <3>1. InBacklog(conn)' <=> \E i \in DOMAIN backlog' : backlog'[i] = conn
      BY <2>2 DEF InBacklog
    <3>2. InBacklog(conn)' <=> InBacklog(conn) /\ conn # Head(backlog)
      BY <1>2, <3>1 DEF InBacklog
    <3> QED BY <1>2, <1>4, <2>2, <3>2
  <2>4. NotYetAnswered' /\ (PeerOpen(conn)' <=> PeerOpen(conn))
    BY <1>1, <2>1, <2>2, <2>3 DEF Books, NotYetAnswered, PeerOpen
  <2>5. /\ Pending(outbox', Frames) = 0 /\ Pending(outbox', Info) = 0
        /\ Pending(outbox', {"auth"}) = 0
    BY <1>1, PendingEmpty
  <2>6. Asked({"frame"})' = Asked({"frame"}) /\ Asked({"auth"})' = Asked({"auth"})
    BY <1>1, <2>2 DEF Asked
  <2>7. /\ Replying(Frames)' = Replying(Frames) /\ Replying(Info)' = Replying(Info)
        /\ Replying({"auth"})' = Replying({"auth"})
    BY <1>1, <2>2, <2>5 DEF Replying
  <2> QED BY <2>4, <2>6, <2>7
<1>8. running => Counted
  BY <1>1, CountsSum DEF Connected
<1>9. running =>
        /\ Asked({"frame"}) + Replying(Frames) \in Nat /\ Replying(Info) \in Nat
        /\ Asked({"auth"}) + Replying({"auth"}) \in Nat
  BY <1>8 DEF Counted
<1> QED BY <1>1, <1>5, <1>6, <1>7, <1>9, StreamerKeeps

LEMMA SetupKeeps ==
  ASSUME IInv, SetupDone
  PROVE  IInv'
<1>1. /\ TypeOK /\ ServerOK /\ StreamerOK /\ BacklogOK
      /\ tpc = "setup" /\ outbox = <<>> /\ UNCHANGED <<server, wire, tconn>>
      /\ outbox' = <<"card", "connector">> /\ tpc' = "loop"
  BY DEF IInv, SetupDone, StreamerOK
<1>2. TypeOK' /\ StreamerOK' /\ BacklogOK'
  <2>1. outbox' \in Seq(Replies)
    BY <1>1 DEF Replies
  <2> QED BY <1>1, <2>1 DEF TypeOK, StreamerOK, BacklogOK, InBacklog, server, wire
<1>3. ASSUME NEW kinds
      PROVE  Pending(outbox', kinds) = (IF "card" \in kinds THEN 1 ELSE 0)
                                       + IF "connector" \in kinds THEN 1 ELSE 0
  <2> DEFINE s == Append(<<>>, "card")
  <2>1. /\ s \in Seq(Replies) /\ outbox' = Append(s, "connector")
        /\ <<>> \in Seq(Replies) /\ {"card", "connector"} \subseteq Replies
    BY <1>1 DEF Replies
  <2>2. Pending(s, kinds) = Pending(<<>>, kinds) + IF "card" \in kinds THEN 1 ELSE 0
    BY <2>1, PendingAppend
  <2>3. Pending(outbox', kinds) = Pending(s, kinds) + IF "connector" \in kinds THEN 1 ELSE 0
    <3> HIDE DEF s
    <3> QED BY <2>1, PendingAppend
  <2> QED BY <2>2, <2>3, PendingEmpty
<1>4. ASSUME running
      PROVE  /\ NotYetAnswered' /\ (PeerOpen(conn)' <=> PeerOpen(conn))
             /\ Asked({"frame"})' = Asked({"frame"}) /\ Asked({"auth"})' = Asked({"auth"})
             /\ Replying(Frames)' = Replying(Frames) /\ Replying({"auth"})' = Replying({"auth"})
             /\ Replying(Info)' = Replying(Info) \/ Replying(Info)' <= 2
  <2>1. Connected /\ Books
    BY <1>1, <1>4 DEF IInv, Connected
  <2>2. NotYetAnswered' /\ (PeerOpen(conn)' <=> PeerOpen(conn))
    BY <1>1, <2>1 DEF Books, NotYetAnswered, PeerOpen, InBacklog, server, wire
  <2>3. Asked({"frame"})' = Asked({"frame"}) /\ Asked({"auth"})' = Asked({"auth"})
    BY <1>1 DEF Asked, server, wire
  <2>4. /\ Pending(outbox, Frames) = 0 /\ Pending(outbox, Info) = 0
        /\ Pending(outbox, {"auth"}) = 0
    BY <1>1, PendingEmpty
  <2>5. /\ Pending(outbox', Frames) = 0 /\ Pending(outbox', Info) = 2
        /\ Pending(outbox', {"auth"}) = 0
    BY <1>3 DEF Frames, Info
  <2>6. Replying(Frames)' = Replying(Frames) /\ Replying({"auth"})' = Replying({"auth"})
    BY <1>1, <2>4, <2>5 DEF Replying, server, wire
  <2>7. CASE tconn = conn
    <3>1. toServer[conn] = <<>>
      BY <1>1, <2>1, <2>7 DEF Books, NotYetAnswered
    <3>2. Pending(toServer'[conn'], Info) = 0
      BY <1>1, <3>1, PendingEmpty DEF server, wire
    <3>3. Replying(Info)' <= 2
      BY <1>1, <2>5, <2>7, <3>2 DEF Replying, server
    <3> QED BY <2>2, <2>3, <2>6, <3>3
  <2>8. CASE tconn # conn
    <3>1. Replying(Info)' = Replying(Info)
      BY <1>1, <2>8 DEF Replying, server, wire
    <3> QED BY <2>2, <2>3, <2>6, <3>1
  <2> QED BY <2>7, <2>8
<1>5. running => Counted
  BY <1>1, CountsSum DEF Connected
<1>6. running =>
        /\ Asked({"frame"}) + Replying(Frames) \in Nat /\ Replying(Info) \in Nat
        /\ Asked({"auth"}) + Replying({"auth"}) \in Nat
  BY <1>5 DEF Counted
<1> QED BY <1>1, <1>2, <1>4, <1>6, StreamerKeeps

(* The streamer drops its connection: what it had still to write is lost,  *)
(* and if the connection was the server's then nobody else answers.        *)
LEMMA DisconnectKeeps ==
  ASSUME IInv, Disconnect, tconn # None, UNCHANGED <<server, wire>>
  PROVE  IInv'
<1>1. /\ TypeOK /\ ServerOK /\ StreamerOK /\ BacklogOK
      /\ tconn' = None /\ tpc' = "listen" /\ outbox' = <<>>
  BY DEF IInv, Disconnect
<1>2. TypeOK' /\ StreamerOK' /\ BacklogOK'
  BY <1>1, EmptySeq DEF TypeOK, StreamerOK, BacklogOK, InBacklog, server, wire
<1>3. ASSUME running
      PROVE  /\ NotYetAnswered'
             /\ PeerOpen(conn)' => PeerOpen(conn) /\ tconn # conn
             /\ Asked({"frame"})' = Asked({"frame"}) /\ Asked({"auth"})' = Asked({"auth"})
             /\ Replying(Frames)' <= Replying(Frames) /\ Replying(Info)' <= Replying(Info)
             /\ Replying({"auth"})' <= Replying({"auth"})
             /\ tconn # conn => Replying(Frames)' = Replying(Frames)
  <2>1. Connected /\ Books /\ conn # None
    BY <1>1, <1>3, ConnTyped DEF IInv, Connected
  <2>2. InBacklog(conn)' <=> InBacklog(conn)
    BY DEF InBacklog, server, wire
  <2>3. NotYetAnswered'
    BY <1>1, <2>1, <2>2 DEF Books, NotYetAnswered, server, wire
  <2>4. PeerOpen(conn)' => PeerOpen(conn) /\ tconn # conn
    BY <1>1, <2>1, <2>2 DEF PeerOpen, BacklogOK, server
  <2>5. Asked({"frame"})' = Asked({"frame"}) /\ Asked({"auth"})' = Asked({"auth"})
    BY DEF Asked, server, wire
  <2>6. /\ Pending(toServer[conn], Frames) \in Nat /\ Pending(outbox, Frames) \in Nat
        /\ Pending(toServer[conn], Info) \in Nat /\ Pending(outbox, Info) \in Nat
        /\ Pending(toServer[conn], {"auth"}) \in Nat /\ Pending(outbox, {"auth"}) \in Nat
    BY <2>1, CountsAreNat
  <2>7. /\ Replying(Frames)' = Pending(toServer[conn], Frames)
        /\ Replying(Info)' = Pending(toServer[conn], Info)
        /\ Replying({"auth"})' = Pending(toServer[conn], {"auth"})
    BY <1>1, <2>1, <2>6 DEF Replying, server, wire
  <2>8. /\ Replying(Frames)' <= Replying(Frames) /\ Replying(Info)' <= Replying(Info)
        /\ Replying({"auth"})' <= Replying({"auth"})
        /\ tconn # conn => Replying(Frames)' = Replying(Frames)
    BY <2>6, <2>7 DEF Replying
  <2> QED BY <2>3, <2>4, <2>5, <2>8
<1>4. running' <=> running
  BY DEF server
<1>5. running => Counted /\ Counted'
  BY <1>1, <1>2, <1>4, CountsSum, CountsSumNext DEF Connected, ServerOK, server
<1> QED BY <1>1, <1>2, <1>3, <1>5, StreamerKeeps DEF Counted

(* A reply to a server that has gone is not one that counts. *)
LEMMA WriteFailsKeeps ==
  ASSUME IInv, WriteFails
  PROVE  IInv'
<1>1. /\ TypeOK /\ StreamerOK /\ BacklogOK /\ ServerOK
      /\ outbox # <<>> /\ tconn # conn /\ tpc = "loop" /\ tconn # None
      /\ UNCHANGED <<server, wire>>
  BY DEF IInv, WriteFails, StreamerOK, TypeOK
<1>2. CASE Disconnect
  BY <1>1, <1>2, DisconnectKeeps
<1>3. CASE outbox' = Tail(outbox) /\ UNCHANGED <<tconn, tpc>>
  <2>1. TypeOK' /\ StreamerOK' /\ BacklogOK'
    <3>1. outbox' \in Seq(Replies)
      BY <1>1, <1>3, HeadTailProperties DEF TypeOK
    <3> QED BY <1>1, <1>3, <3>1 DEF TypeOK, StreamerOK, BacklogOK, InBacklog, server, wire
  <2>2. ASSUME running
        PROVE  /\ NotYetAnswered' /\ (PeerOpen(conn)' <=> PeerOpen(conn))
               /\ Asked({"frame"})' = Asked({"frame"}) /\ Asked({"auth"})' = Asked({"auth"})
               /\ Replying(Frames)' = Replying(Frames) /\ Replying(Info)' = Replying(Info)
               /\ Replying({"auth"})' = Replying({"auth"})
    BY <1>1, <1>3, <2>2 DEF IInv, Books, NotYetAnswered, PeerOpen, InBacklog, Asked, Replying,
       server, wire
  <2>3. running => Counted
    BY <1>1, CountsSum DEF Connected
  <2>4. running =>
          /\ Asked({"frame"}) + Replying(Frames) \in Nat /\ Replying(Info) \in Nat
          /\ Asked({"auth"}) + Replying({"auth"}) \in Nat
    BY <2>3 DEF Counted
  <2> QED BY <1>1, <2>1, <2>2, <2>4, StreamerKeeps
<1> QED BY <1>2, <1>3 DEF WriteFails

(* A reply moves from the streamer into the socket. *)
LEMMA WriteKeeps ==
  ASSUME IInv, Write
  PROVE  IInv'
<1> DEFINE m == Head(outbox)
           old == toServer[conn]
           new == toServer'[conn]
<1>1. /\ TypeOK /\ StreamerOK /\ BacklogOK /\ ServerOK
      /\ outbox # <<>> /\ tconn = conn /\ tpc = "loop" /\ tconn # None /\ tconn \in Conns
      /\ UNCHANGED <<server, backlog, toStreamer, tconn, tpc>>
      /\ toServer' = [toServer EXCEPT ![tconn] = Append(@, Head(outbox))]
      /\ outbox' = Tail(outbox) /\ Len(old) < CapOut
  BY DEF IInv, Write, StreamerOK, TypeOK
<1>2. Connected /\ Books /\ running
  BY <1>1 DEF IInv, Connected, ServerOK
<1>3. /\ old \in Seq(Replies) /\ outbox \in Seq(Replies)
      /\ m \in Replies /\ outbox' \in Seq(Replies)
      /\ new = Append(old, m)
  BY <1>1, HeadTailProperties DEF TypeOK
<1>4. new \in Seq(Replies) /\ Len(new) = Len(old) + 1 /\ Len(old) \in Nat
  BY <1>3, AppendProperties, LenProperties
<1>5. TypeOK'
  <2>1. toServer' \in [Conns -> Seq(Replies)]
    BY <1>1, <1>3, <1>4 DEF TypeOK
  <2>2. ASSUME NEW d \in Conns PROVE Len(toServer'[d]) <= CapOut
    BY <1>1, <1>3, <1>4, CapAssumption DEF TypeOK
  <2> QED BY <1>1, <1>3, <2>1, <2>2 DEF TypeOK, server
<1>6. StreamerOK' /\ BacklogOK'
  BY <1>1 DEF StreamerOK, BacklogOK, InBacklog
<1>7. NotYetAnswered' /\ (PeerOpen(conn)' <=> PeerOpen(conn))
  BY <1>1 DEF NotYetAnswered, BacklogOK, PeerOpen, InBacklog, server
<1>8. ASSUME NEW kinds
      PROVE  Replying(kinds)' = Replying(kinds) /\ Asked(kinds)' = Asked(kinds)
  <2> DEFINE one == IF m \in kinds THEN 1 ELSE 0
  <2>1. Pending(new, kinds) = Pending(old, kinds) + one
    BY <1>3, PendingAppend
  <2>2. Pending(outbox, kinds) = Pending(outbox', kinds) + one
    BY <1>1, <1>3, PendingTail
  <2>3. /\ Pending(old, kinds) \in Nat /\ Pending(outbox, kinds) \in Nat
        /\ Pending(new, kinds) \in Nat /\ Pending(outbox', kinds) \in Nat
    BY <1>3, <1>4, PendingCounts
  <2>4. one \in Nat
    OBVIOUS
  <2> HIDE DEF one, old, new
  <2>5. Pending(new, kinds) + Pending(outbox', kinds) = Pending(old, kinds) + Pending(outbox, kinds)
    BY <2>1, <2>2, <2>3, <2>4
  <2> QED BY <1>1, <2>5 DEF Replying, Asked, server, old, new
<1>9. Counted
  BY <1>2, CountsSum
<1>10. /\ Asked({"frame"})' = Asked({"frame"}) /\ Asked({"auth"})' = Asked({"auth"})
       /\ Replying(Frames)' = Replying(Frames) /\ Replying(Info)' = Replying(Info)
       /\ Replying({"auth"})' = Replying({"auth"})
  <2>1. Frames' = Frames /\ Info' = Info
    BY DEF Frames, Info
  <2> QED BY <1>8, <2>1
<1> QED BY <1>1, <1>5, <1>6, <1>7, <1>9, <1>10, StreamerKeeps DEF Counted

(* A request is read; a request of a frame or an authentication is         *)
(* answered with one reply.                                                *)
LEMMA HandleKeeps ==
  ASSUME IInv, Handle
  PROVE  IInv'
<1> DEFINE old == toStreamer[tconn]
           new == toStreamer'[tconn]
           m == Head(old)
<1>1. /\ TypeOK /\ StreamerOK /\ BacklogOK /\ ServerOK
      /\ outbox = <<>> /\ tpc = "loop" /\ tconn # None /\ tconn \in Conns
      /\ UNCHANGED <<server, backlog, toServer, tconn, tpc>>
      /\ toStreamer' = [toStreamer EXCEPT ![tconn] = Tail(@)] /\ old # <<>>
      /\ \/ m = "frame" /\ outbox' \in {<<"frame">>, <<"empty">>}
         \/ m = "auth" /\ outbox' = <<"auth">>
         \/ m \notin {"frame", "auth"} /\ outbox' = <<>>
  BY DEF IInv, Handle, StreamerOK, TypeOK
<1>2. /\ old \in Seq(Requests) /\ m \in Requests /\ new = Tail(old)
      /\ new \in Seq(Requests) /\ Len(new) = Len(old) - 1 /\ Len(old) \in Nat
  BY <1>1, HeadTailProperties, LenProperties DEF TypeOK
<1>3. TypeOK'
  <2>1. toStreamer' \in [Conns -> Seq(Requests)]
    BY <1>1, <1>2 DEF TypeOK
  <2>2. ASSUME NEW d \in Conns PROVE Len(toStreamer'[d]) <= CapIn
    BY <1>1, <1>2, CapAssumption DEF TypeOK
  <2>3. outbox' \in Seq(Replies)
    <3>1. outbox' \in {<<"frame">>, <<"empty">>, <<"auth">>, <<>>}
      BY <1>1
    <3>2. {"frame", "empty", "auth"} \subseteq Replies
      BY DEF Replies
    <3>3. /\ <<"frame">> \in Seq(Replies) /\ <<"empty">> \in Seq(Replies)
          /\ <<"auth">> \in Seq(Replies) /\ <<>> \in Seq(Replies)
      BY <3>2
    <3> QED BY <3>1, <3>3, Zenon
  <2> QED BY <1>1, <2>1, <2>2, <2>3 DEF TypeOK, server
<1>4. StreamerOK' /\ BacklogOK'
  BY <1>1 DEF StreamerOK, BacklogOK, InBacklog
<1>5. running => NotYetAnswered' /\ (PeerOpen(conn)' <=> PeerOpen(conn))
  BY <1>1 DEF IInv, Books, NotYetAnswered, BacklogOK, PeerOpen, InBacklog, server
<1>6. /\ Pending(old, {"frame"}) = Pending(new, {"frame"}) + IF m \in {"frame"} THEN 1 ELSE 0
      /\ Pending(old, {"auth"}) = Pending(new, {"auth"}) + IF m \in {"auth"} THEN 1 ELSE 0
      /\ Pending(new, {"frame"}) \in Nat /\ Pending(new, {"auth"}) \in Nat
  BY <1>1, <1>2, PendingTail, PendingCounts
<1>7. \A r \in Replies : \A kinds : Pending(<<r>>, kinds) = IF r \in kinds THEN 1 ELSE 0
  BY PendingOne
<1>8. /\ Pending(outbox', Frames) = IF m = "frame" THEN 1 ELSE 0
      /\ Pending(outbox', Info) = 0
      /\ Pending(outbox', {"auth"}) = IF m = "auth" THEN 1 ELSE 0
  <2>1. {"frame", "empty", "auth"} \subseteq Replies
    BY DEF Replies
  <2> QED BY <1>1, <1>7, <2>1, PendingEmpty DEF Frames, Info
<1>9. /\ Pending(outbox, Frames) = 0 /\ Pending(outbox, Info) = 0
      /\ Pending(outbox, {"auth"}) = 0
  BY <1>1, PendingEmpty
<1>10. ASSUME running
       PROVE  /\ Asked({"frame"})' + Replying(Frames)' = Asked({"frame"}) + Replying(Frames)
              /\ Asked({"auth"})' + Replying({"auth"})' = Asked({"auth"}) + Replying({"auth"})
              /\ Replying(Info)' = Replying(Info)
              /\ Counted
  <2>1. Connected /\ conn \in Conns /\ Counted
    BY <1>1, <1>10, ConnTyped, CountsSum DEF Connected
  <2>2. Replying(Info)' = Replying(Info)
    BY <1>1, <1>8, <1>9 DEF Replying, server, Info
  <2>3. CASE tconn = conn
    <3>1. /\ Asked({"frame"})' = Pending(new, {"frame"}) /\ Asked({"frame"}) = Pending(old, {"frame"})
          /\ Asked({"auth"})' = Pending(new, {"auth"}) /\ Asked({"auth"}) = Pending(old, {"auth"})
      BY <1>1, <2>3 DEF Asked, server
    <3>2. /\ Pending(toServer[conn], Frames) \in Nat /\ Pending(toServer[conn], {"auth"}) \in Nat
      BY <2>1, CountsAreNat
    <3>3. /\ Replying(Frames) = Pending(toServer[conn], Frames)
          /\ Replying(Frames)' = Pending(toServer[conn], Frames) + IF m = "frame" THEN 1 ELSE 0
          /\ Replying({"auth"}) = Pending(toServer[conn], {"auth"})
          /\ Replying({"auth"})' = Pending(toServer[conn], {"auth"}) + IF m = "auth" THEN 1 ELSE 0
      BY <1>1, <1>8, <1>9, <2>3, <3>2 DEF Replying, server, Frames
    <3> HIDE DEF old, new, m
    <3> QED BY <1>6, <2>1, <2>2, <3>1, <3>2, <3>3
  <2>4. CASE tconn # conn
    <3>1. Asked({"frame"})' = Asked({"frame"}) /\ Asked({"auth"})' = Asked({"auth"})
      BY <1>1, <2>1, <2>4 DEF Asked, server, TypeOK
    <3>2. Replying(Frames)' = Replying(Frames) /\ Replying({"auth"})' = Replying({"auth"})
      BY <1>1, <2>4 DEF Replying, server, Frames
    <3> QED BY <2>1, <2>2, <3>1, <3>2
  <2> QED BY <2>3, <2>4
<1> QED BY <1>1, <1>3, <1>4, <1>5, <1>10, StreamerKeeps DEF Counted

-----------------------------------------------------------------------------
(* The invariance.                                                         *)

LEMMA InvInit == Init => IInv
<1> SUFFICES ASSUME Init PROVE IInv
  OBVIOUS
<1>1. TypeOK
  <2>1. toStreamer \in [Conns -> Seq(Requests)] /\ toServer \in [Conns -> Seq(Replies)]
    BY DEF Init
  <2>2. backlog \in Seq(Conns) /\ outbox \in Seq(Replies)
    BY DEF Init
  <2>3. \A c \in Conns : Len(toStreamer[c]) <= CapIn /\ Len(toServer[c]) <= CapOut
    BY CapAssumption, EmptySeq DEF Init
  <2> QED BY <2>1, <2>2, <2>3 DEF Init, TypeOK
<1>2. ServerOK /\ StreamerOK /\ ~running
  BY NoneAssumption DEF Init, ServerOK, StreamerOK
<1>3. BacklogOK
  BY EmptySeq DEF Init, BacklogOK, InBacklog
<1> QED BY <1>1, <1>2, <1>3 DEF IInv

LEMMA InvNext == IInv /\ [Next]_vars => IInv'
<1> SUFFICES ASSUME IInv, [Next]_vars PROVE IInv'
  OBVIOUS
<1>1. ASSUME NEW c \in Conns, Start(c) PROVE IInv'
  BY <1>1, StartKeeps
<1>2. CASE \/ StartFails \/ TimerFires \/ PointerEvent \/ KeyboardEvent
           \/ AuthRequest \/ FrameDone \/ ServerRestart
  BY <1>2, QuietServerKeeps
<1>3. CASE LastClient \/ SendFails \/ PeerGone
  BY <1>3, StoppingKeeps
<1>4. CASE Sent
  BY <1>4, SentKeeps
<1>5. CASE OnInfo \/ OnFrame \/ OnEmptyFrame
  BY <1>5, TakeReplyKeeps
<1>6. CASE Accept \/ AcceptRejects
  BY <1>6, AcceptsKeep
<1>7. CASE SetupDone
  BY <1>7, SetupKeeps
<1>8. CASE StreamerDies \/ EndOfStream
  <2>1. Disconnect /\ tconn # None /\ UNCHANGED <<server, wire>>
    BY <1>8 DEF StreamerDies, EndOfStream, IInv, StreamerOK
  <2> QED BY <2>1, DisconnectKeeps
<1>9. CASE Write
  BY <1>9, WriteKeeps
<1>10. CASE WriteFails
  BY <1>10, WriteFailsKeeps
<1>11. CASE Handle
  BY <1>11, HandleKeeps
<1>12. CASE UNCHANGED vars
  <2>1. TypeOK' /\ ServerOK' /\ OwnTokens' = OwnTokens /\ sending' = sending
        /\ UNCHANGED <<conn, wire, streamer>>
    BY <1>12 DEF IInv, TypeOK, ServerOK, OwnTokens, vars, wire, streamer
  <2> QED BY <2>1, ServerKeeps
<1> QED BY <1>1, <1>2, <1>3, <1>4, <1>5, <1>6, <1>7, <1>8, <1>9, <1>10, <1>11, <1>12
        DEF Next, ServerNext, StreamerNext

LEMMA IInvInvariant == Spec => []IInv
BY InvInit, InvNext, PTL DEF Spec

-----------------------------------------------------------------------------
(* The theorems.                                                           *)

(* Types, with the bounds of the two buffers (StreamerLink.TypeOK): what   *)
(* both processes write waits for room.                                    *)
THEOREM TypeCorrect == Spec => []TypeOK
<1>1. IInv => TypeOK
  BY DEF IInv
<1> QED BY <1>1, IInvInvariant, PTL

(* While the server is connected there is exactly one frame exchange, and  *)
(* none more than that when the streamer has died (schedule_frame_msg,     *)
(* send_frame_msg and both on_frame_msg).                                  *)
THEOREM ExchangeCorrect == Spec => []OneFrameExchange
<1>1. IInv => OneFrameExchange
  BY DEF IInv, Books, OneFrameExchange
<1> QED BY <1>1, IInvInvariant, PTL

(* The server and the streamer never wait for each other with full         *)
(* buffers: what waits for the server, and what the streamer has still to  *)
(* write, are at most two setup messages, one frame and the                *)
(* authentications.                                                        *)
THEOREM NoDeadlock == Spec => []NoMutualBlock
<1>1. IInv => NoMutualBlock
  <2> SUFFICES ASSUME IInv, NEW c \in Conns, conn = c, tconn = c,
                      outbox # <<>>, Len(toServer[c]) = CapOut
               PROVE  FALSE
    BY DEF NoMutualBlock
  <2> DEFINE s == toServer[c]
  <2>1. Connected /\ Books /\ c # None
    BY ConnAssumption DEF IInv, Connected, ServerOK
  <2>2. s \in Seq(Replies) /\ outbox \in Seq(Replies) /\ Len(outbox) \in Nat \ {0}
    BY <2>1, EmptySeq DEF Connected, TypeOK
  <2>3. ASSUME NEW t \in Seq(Replies)
        PROVE  Len(t) = Pending(t, Frames) + Pending(t, Info) + Pending(t, {"auth"})
    <3>1. Replies = (Frames \cup Info) \cup {"auth"}
      BY DEF Replies, Frames, Info
    <3>2. Frames \cap Info = {} /\ (Frames \cup Info) \cap {"auth"} = {}
      BY DEF Frames, Info
    <3>3. Pending(t, Frames \cup Info) = Pending(t, Frames) + Pending(t, Info)
      BY <3>2, PendingUnion
    <3>4. Pending(t, (Frames \cup Info) \cup {"auth"}) =
            Pending(t, Frames \cup Info) + Pending(t, {"auth"})
      BY <3>2, PendingUnion
    <3>5. Pending(t, Replies) = Len(t)
      BY PendingAll
    <3> QED BY <3>1, <3>3, <3>4, <3>5
  <2>4. /\ Pending(s, Frames) \in Nat /\ Pending(s, Info) \in Nat /\ Pending(s, {"auth"}) \in Nat
        /\ Pending(outbox, Frames) \in Nat /\ Pending(outbox, Info) \in Nat
        /\ Pending(outbox, {"auth"}) \in Nat
    BY <2>2, PendingCounts
  <2>5. /\ Replying(Frames) = Pending(s, Frames) + Pending(outbox, Frames)
        /\ Replying(Info) = Pending(s, Info) + Pending(outbox, Info)
        /\ Replying({"auth"}) = Pending(s, {"auth"}) + Pending(outbox, {"auth"})
    BY DEF Replying
  <2>6. Counted
    BY <2>1, CountsSum
  <2>7. Replying(Frames) <= 1 /\ Replying(Info) <= 2 /\ Replying({"auth"}) <= MaxAuth
    BY <2>1, <2>6, CapAssumption DEF Books, Counted, InfoOnce, AuthsBounded
  <2>8. Len(s) + Len(outbox) = Replying(Frames) + Replying(Info) + Replying({"auth"})
    <3>1. /\ Len(s) = Pending(s, Frames) + Pending(s, Info) + Pending(s, {"auth"})
          /\ Len(outbox) = Pending(outbox, Frames) + Pending(outbox, Info)
                             + Pending(outbox, {"auth"})
      BY <2>2, <2>3
    <3> HIDE DEF s
    <3> QED BY <2>4, <2>5, <3>1
  <2>9. CapOut + Len(outbox) <= 3 + MaxAuth
    BY <2>6, <2>7, <2>8, CapAssumption DEF Counted
  <2> QED BY <2>2, <2>9, CapAssumption
<1> QED BY <1>1, IInvInvariant, PTL
=============================================================================
