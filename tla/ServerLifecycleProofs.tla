----------------------- MODULE ServerLifecycleProofs ------------------------
(***************************************************************************)
(* The bookkeeping of the clients, the resources that follow it and the    *)
(* promise of CaptureOnDemand, for any finite set of clients and both VNC  *)
(* backends.                                                               *)
(***************************************************************************)
EXTENDS ServerLifecycle, FiniteSetTheorems, TLAPS

(* The bookkeeping every handler relies on. *)
Counted == TypeOK /\ ClientsCounted

(* Streamer, converter and session agree with the clients, or a signal is  *)
(* pending that will make them agree.                                      *)
Follows ==
  /\ ResourcesFollowClients
  /\ SessionNeedsStreamer

IInv == Counted /\ Follows

(* The clients are a finite set, so their number is a natural number that  *)
(* is 0 only when there are none.                                          *)
LEMMA Finite ==
  ASSUME NEW S, S \subseteq Clients
  PROVE  /\ IsFiniteSet(S)
         /\ Cardinality(S) \in Nat
         /\ Cardinality(S) = 0 <=> S = {}
<1>1. IsFiniteSet(S)
  BY ClientsAssumption, FS_Subset
<1> QED BY <1>1, FS_CardinalityType, FS_EmptySet

(* on_client_gone for several clients at once keeps the books, and asks for *)
(* the last-client signal exactly if it takes the last clients away.        *)
LEMMA DropCounts ==
  ASSUME Counted, NEW S, S \subseteq alive, NEW p \in BOOLEAN, Drop(S, p)
  PROVE  /\ alive' \subseteq alive /\ alive' \subseteq Clients
         /\ gone' \subseteq alive'
         /\ count' \in Int /\ wanted' \in BOOLEAN /\ idle' \in BOOLEAN
         /\ ClientsCounted'
         /\ p => idle'
         /\ (alive # {} /\ alive' = {}) => idle'
<1> USE DEF Counted, TypeOK, ClientsCounted
<1>1. /\ IsFiniteSet(alive) /\ IsFiniteSet(S)
      /\ Cardinality(alive) \in Nat /\ Cardinality(S) \in Nat
      /\ Cardinality(alive) = 0 <=> alive = {}
      /\ Cardinality(S) = 0 <=> S = {}
  BY Finite
<1>2. alive' = alive \ S /\ gone' = gone \ S /\ count' = count - Cardinality(S)
  BY DEF Drop
<1>3. Cardinality(alive') = Cardinality(alive) - Cardinality(S)
  <2>1. Cardinality(alive \ S) = Cardinality(alive) - Cardinality(alive \cap S)
    BY <1>1, FS_Difference
  <2>2. alive \cap S = S
    OBVIOUS
  <2> QED BY <2>1, <2>2, <1>2
<1>4. Cardinality(alive') \in Nat /\ (Cardinality(alive') = 0 <=> alive' = {})
  BY <1>2, Finite
<1>5. count \in 1 .. Cardinality(S) <=> alive # {} /\ alive' = {}
  BY <1>1, <1>2, <1>3, <1>4
<1>6. /\ wanted' = (wanted /\ ~(alive # {} /\ alive' = {}))
      /\ idle' = (p \/ (alive # {} /\ alive' = {}))
  BY <1>5 DEF Drop
<1>7. wanted' <=> alive' # {}
  BY <1>2, <1>6
<1> QED BY <1>1, <1>2, <1>3, <1>6, <1>7

(* When the streamer stops nobody and nothing is left but, perhaps, a       *)
(* pending signal, which there is if there were clients.                   *)
LEMMA StopReleases ==
  ASSUME Counted, NEW p \in BOOLEAN, StreamerStop(p)
  PROVE  /\ ClientsCounted' /\ alive' = {} /\ gone' = {}
         /\ count' \in Int /\ wanted' \in BOOLEAN /\ idle' \in BOOLEAN
         /\ p => idle'
         /\ alive # {} => idle'
         /\ streaming' = FALSE /\ session' = FALSE
<1>1. Drop(alive, p) /\ streaming' = FALSE /\ session' = FALSE
  BY DEF StreamerStop
<1>2. alive' = {}
  BY <1>1 DEF Drop
<1> QED BY <1>1, <1>2, DropCounts

-----------------------------------------------------------------------------
(* The bookkeeping and the resources together are inductive: a handler that *)
(* takes the last client away keeps Follows only because the books were     *)
(* right, and a stop keeps it only because a signal was pending or somebody *)
(* was there.                                                              *)
LEMMA IInvInvariant == Spec => []IInv
<1>1. Init => IInv
  <2> SUFFICES ASSUME Init PROVE IInv
    OBVIOUS
  <2>1. TypeOK
    <3>1. alive \subseteq Clients /\ gone \subseteq alive /\ count \in Int
      BY DEF Init
    <3>2. /\ up \in BOOLEAN /\ wanted \in BOOLEAN /\ idle \in BOOLEAN
          /\ streaming \in BOOLEAN /\ session \in BOOLEAN
          /\ converter \in BOOLEAN /\ hasBuf \in BOOLEAN
      BY Zenon DEF Init
    <3> QED BY <3>1, <3>2 DEF TypeOK
  <2>2. ClientsCounted
    BY FS_EmptySet DEF Init, ClientsCounted
  <2>3. Follows
    BY DEF Init, Follows, ResourcesFollowClients, SessionNeedsStreamer
  <2> QED BY <2>1, <2>2, <2>3 DEF IInv, Counted
<1>2. IInv /\ [Next]_vars => IInv'
  <2> SUFFICES ASSUME IInv, [Next]_vars PROVE Counted' /\ Follows'
    BY DEF IInv
  <2>0. Counted /\ Follows /\ idle \in BOOLEAN /\ gone \subseteq alive
    BY DEF IInv, Counted, TypeOK
  <2> USE DEF resources
  <2>1. ASSUME NEW c \in Clients, Incoming(c) PROVE Counted' /\ Follows'
    <3>1. /\ IsFiniteSet(alive) /\ Cardinality(alive) \in Nat
          /\ Cardinality(alive) = 0 <=> alive = {}
      BY <2>0, Finite DEF Counted, TypeOK
    <3>2. Cardinality(alive') = Cardinality(alive) + 1
      BY <2>1, <3>1, FS_AddElement DEF Incoming
    <3>3. TypeOK'
      BY <2>0, <2>1 DEF Incoming, Counted, TypeOK
    <3>4. ClientsCounted'
      BY <2>0, <2>1, <3>1, <3>2 DEF Incoming, Counted, ClientsCounted
    <3>5. Follows'
      BY <2>0, <2>1, <3>1
      DEF Incoming, Counted, ClientsCounted, Follows, ResourcesFollowClients,
          SessionNeedsStreamer
    <3> QED BY <3>3, <3>4, <3>5 DEF Counted
  <2>2. ASSUME NEW c \in Clients, PeerCloses(c) PROVE Counted' /\ Follows'
    BY <2>0, <2>2
    DEF PeerCloses, Counted, TypeOK, ClientsCounted, Follows,
        ResourcesFollowClients, SessionNeedsStreamer
  <2>3. CASE IncomingFails
    <3>1. count = 0 <=> alive = {}
      BY <2>0, Finite DEF Counted, TypeOK, ClientsCounted
    <3> QED
      BY <2>0, <2>3, <3>1
      DEF IncomingFails, Counted, TypeOK, ClientsCounted, Follows,
          ResourcesFollowClients, SessionNeedsStreamer
  (* Some clients are lost and no resource changes. *)
  <2>4. ASSUME Drop(gone, idle), UNCHANGED <<up, resources>>
        PROVE  Counted' /\ Follows'
    <3>1. /\ alive' \subseteq alive /\ alive' \subseteq Clients
          /\ gone' \subseteq alive'
          /\ count' \in Int /\ wanted' \in BOOLEAN /\ idle' \in BOOLEAN
          /\ ClientsCounted'
          /\ idle => idle'
          /\ (alive # {} /\ alive' = {}) => idle'
      BY <2>0, <2>4, DropCounts
    <3>2. Counted'
      BY <2>0, <2>4, <3>1 DEF Counted, TypeOK
    <3>3. Follows'
      BY <2>0, <2>4, <3>1
      DEF Follows, ResourcesFollowClients, SessionNeedsStreamer
    <3> QED BY <3>2, <3>3
  <2>5. CASE SocketIn
    BY <2>4, <2>5 DEF SocketIn
  <2>6. CASE ClipboardText
    BY <2>4, <2>6 DEF ClipboardText
  <2>7. CASE FirstClient
    BY <2>0, <2>7
    DEF FirstClient, Counted, TypeOK, ClientsCounted, Follows,
        ResourcesFollowClients, SessionNeedsStreamer
  <2>8. CASE FirstClientFails
    <3>1. alive # {} /\ Drop(alive, FALSE) /\ UNCHANGED <<up, resources>>
      BY <2>0, <2>8 DEF FirstClientFails, Counted, ClientsCounted
    <3>2. alive' = {}
      BY <3>1 DEF Drop
    <3>3. /\ alive' \subseteq Clients /\ gone' \subseteq alive'
          /\ count' \in Int /\ wanted' \in BOOLEAN
          /\ idle' = TRUE /\ ClientsCounted'
      BY <2>0, <3>1, <3>2, DropCounts
    <3> QED
      BY <2>0, <3>1, <3>3
      DEF Counted, TypeOK, Follows, ResourcesFollowClients,
          SessionNeedsStreamer
  <2>9. CASE LastClient
    <3>1. alive = {} /\ converter' = FALSE /\ UNCHANGED <<up, hasBuf>>
      BY <2>0, <2>9 DEF LastClient, Counted, ClientsCounted
    <3>2. CASE streaming
      <4>1. StreamerStop(FALSE)
        BY <2>9, <3>2 DEF LastClient
      <4>2. /\ ClientsCounted' /\ alive' = {} /\ gone' = {}
            /\ count' \in Int /\ wanted' \in BOOLEAN /\ idle' \in BOOLEAN
            /\ streaming' = FALSE /\ session' = FALSE
        BY <2>0, <4>1, StopReleases
      <4> QED
        BY <2>0, <3>1, <4>2
        DEF Counted, TypeOK, Follows, ResourcesFollowClients,
            SessionNeedsStreamer
    <3>3. CASE ~streaming
      BY <2>0, <2>9, <3>1, <3>3
      DEF LastClient, Counted, TypeOK, ClientsCounted, Follows,
          ResourcesFollowClients, SessionNeedsStreamer
    <3> QED BY <3>2, <3>3
  (* A running streamer stops while a signal is pending or somebody is there. *)
  <2>10. ASSUME streaming, StreamerStop(idle), up' = up,
                converter' \in BOOLEAN, hasBuf' \in BOOLEAN
         PROVE  Counted' /\ Follows'
    <3>1. /\ ClientsCounted' /\ alive' = {} /\ gone' = {}
          /\ count' \in Int /\ wanted' \in BOOLEAN /\ idle' \in BOOLEAN
          /\ idle => idle'
          /\ alive # {} => idle'
          /\ streaming' = FALSE /\ session' = FALSE
      BY <2>0, <2>10, StopReleases
    <3>2. idle'
      BY <2>0, <2>10, <3>1 DEF Follows, ResourcesFollowClients
    <3> QED
      BY <2>0, <2>10, <3>1, <3>2
      DEF Counted, TypeOK, Follows, ResourcesFollowClients,
          SessionNeedsStreamer
  <2>11. CASE StreamerLost
    BY <2>0, <2>10, <2>11 DEF StreamerLost, Counted, TypeOK
  <2>12. CASE FrameLosesStreamer
    BY <2>10, <2>12 DEF FrameLosesStreamer
  <2>13. CASE FrameConverterFails
    <3>1. /\ streaming /\ Drop(alive, idle) /\ UNCHANGED <<up, resources>>
      BY <2>13 DEF FrameConverterFails
    <3>2. alive' = {}
      BY <3>1 DEF Drop
    <3>3. /\ alive' \subseteq Clients /\ gone' \subseteq alive'
          /\ count' \in Int /\ wanted' \in BOOLEAN /\ idle' \in BOOLEAN
          /\ ClientsCounted'
          /\ idle => idle'
          /\ alive # {} => idle'
      BY <2>0, <3>1, <3>2, DropCounts
    <3>4. idle'
      BY <2>0, <3>1, <3>3 DEF Follows, ResourcesFollowClients
    <3> QED
      BY <2>0, <3>1, <3>3, <3>4
      DEF Counted, TypeOK, Follows, ResourcesFollowClients,
          SessionNeedsStreamer
  <2>14. CASE Frame
    <3>1. /\ streaming /\ streaming' = streaming /\ session' = session
          /\ up' = up /\ converter' = TRUE
      BY <2>14 DEF Frame
    <3>2. CASE UNCHANGED <<alive, gone, count, wanted, idle>>
      <4>1. hasBuf' \in BOOLEAN
        BY <2>0, <2>14 DEF Frame, Counted, TypeOK
      <4> QED
        BY <2>0, <3>1, <3>2, <4>1
        DEF Counted, TypeOK, ClientsCounted, Follows, ResourcesFollowClients,
            SessionNeedsStreamer
    <3>3. CASE Drop(gone, idle) /\ hasBuf' = TRUE
      <4>1. /\ alive' \subseteq alive /\ alive' \subseteq Clients
            /\ gone' \subseteq alive'
            /\ count' \in Int /\ wanted' \in BOOLEAN /\ idle' \in BOOLEAN
            /\ ClientsCounted'
            /\ idle => idle'
            /\ (alive # {} /\ alive' = {}) => idle'
        BY <2>0, <3>3, DropCounts
      <4> QED
        BY <2>0, <3>1, <3>3, <4>1
        DEF Counted, TypeOK, Follows, ResourcesFollowClients,
            SessionNeedsStreamer
    <3> QED BY <2>14, <3>2, <3>3 DEF Frame
  <2>15. CASE Quit
    <3>1. TypeOK'
      <4>1. /\ alive' \subseteq Clients /\ gone' \subseteq alive'
            /\ count' \in Int
        BY <2>15 DEF Quit
      <4>2. /\ up' \in BOOLEAN /\ wanted' \in BOOLEAN /\ idle' \in BOOLEAN
            /\ streaming' \in BOOLEAN /\ session' \in BOOLEAN
            /\ converter' \in BOOLEAN /\ hasBuf' \in BOOLEAN
        BY <2>15, Zenon DEF Quit
      <4> QED BY <4>1, <4>2 DEF TypeOK
    <3>2. ClientsCounted'
      BY <2>15, FS_EmptySet DEF Quit, ClientsCounted
    <3>3. Follows'
      BY <2>15
      DEF Quit, Follows, ResourcesFollowClients, SessionNeedsStreamer
    <3> QED BY <3>1, <3>2, <3>3 DEF Counted
  <2>16. CASE Launch
    BY <2>0, <2>16
    DEF Launch, Counted, TypeOK, ClientsCounted, Follows,
        ResourcesFollowClients, SessionNeedsStreamer
  <2>17. CASE UNCHANGED vars
    BY <2>0, <2>17
    DEF vars, Counted, TypeOK, ClientsCounted, Follows,
        ResourcesFollowClients, SessionNeedsStreamer
  <2> QED
    BY <2>1, <2>2, <2>3, <2>5, <2>6, <2>7, <2>8, <2>9, <2>11, <2>12, <2>13,
       <2>14, <2>15, <2>16, <2>17 DEF Next
<1> QED BY <1>1, <1>2, PTL DEF Spec

(* The type invariant the runs check: among others, a client waiting to be  *)
(* found gone is one the library still holds (on_client_gone).              *)
THEOREM TypeCorrect == Spec => []TypeOK
<1>1. IInv => TypeOK
  BY DEF IInv, Counted
<1> QED BY <1>1, IInvInvariant, PTL

(* The backend's counter and the next signal agree with the clients the    *)
(* library holds (on_incoming, on_new_client, on_client_gone).             *)
THEOREM CountCorrect == Spec => []ClientsCounted
<1>1. IInv => ClientsCounted
  BY DEF IInv, Counted
<1> QED BY <1>1, IInvInvariant, PTL

(* Without a pending signal the streamer runs exactly for the clients, and  *)
(* nothing is kept for nobody (emit_client_signal, on_first_client,         *)
(* on_last_client).                                                        *)
THEOREM ResourcesCorrect == Spec => []ResourcesFollowClients
<1>1. IInv => ResourcesFollowClients
  BY DEF IInv, Follows
<1> QED BY <1>1, IInvInvariant, PTL

(* The session socket is open only while the streamer is connected         *)
(* (main's wiring of "start" and "stop").                                  *)
THEOREM SessionCorrect == Spec => []SessionNeedsStreamer
<1>1. IInv => SessionNeedsStreamer
  BY DEF IInv, Follows
<1> QED BY <1>1, IInvInvariant, PTL

-----------------------------------------------------------------------------
(* The server implements the safety part of CaptureOnDemand: every dispatch *)
(* of the main loop is a step of the promise, or changes nothing it speaks  *)
(* about.                                                                  *)
THEOREM Implements == Spec => OnDemandSafety
<1> DEFINE Promise == [OnDemand!Next]_(OnDemand!vars)
<1>1. Init => OnDemand!Init
  BY DEF Init, OnDemand!Init
<1>2. IInv /\ [Next]_vars => Promise
  <2> SUFFICES ASSUME IInv, [Next]_vars PROVE Promise
    OBVIOUS
  <2>0. Counted /\ gone \subseteq Clients /\ alive \subseteq Clients
    BY DEF IInv, Counted, TypeOK
  <2>1. ASSUME alive' = alive, streaming' = streaming PROVE Promise
    BY <2>1 DEF OnDemand!vars
  <2>2. ASSUME NEW S \in SUBSET Clients, alive' = alive \ S,
               streaming' = streaming
        PROVE  Promise
    BY <2>2 DEF OnDemand!Next, OnDemand!Leave
  <2>3. ASSUME alive' = {}, streaming' = FALSE PROVE Promise
    BY <2>3 DEF OnDemand!Next, OnDemand!Lose
  <2>4. ASSUME NEW p \in BOOLEAN, StreamerStop(p) PROVE Promise
    BY <2>3, <2>4 DEF StreamerStop, Drop
  <2> USE DEF resources
  <2>5. ASSUME NEW c \in Clients, Incoming(c) PROVE Promise
    BY <2>5 DEF Incoming, OnDemand!Next, OnDemand!Join
  <2>6. ASSUME NEW c \in Clients, PeerCloses(c) PROVE Promise
    BY <2>1, <2>6 DEF PeerCloses
  <2>7. CASE IncomingFails
    BY <2>1, <2>7 DEF IncomingFails
  <2>8. CASE SocketIn
    BY <2>0, <2>2, <2>8 DEF SocketIn, Drop
  <2>9. CASE ClipboardText
    BY <2>0, <2>2, <2>9 DEF ClipboardText, Drop
  <2>10. CASE FirstClient
    <3>1. alive # {} /\ alive' = alive /\ streaming' = TRUE
      BY <2>0, <2>10 DEF FirstClient, Counted, ClientsCounted
    <3>2. streaming \in BOOLEAN
      BY <2>0 DEF Counted, TypeOK
    <3>3. CASE streaming
      BY <2>1, <3>1, <3>2, <3>3
    <3>4. CASE ~streaming
      BY <3>1, <3>4 DEF OnDemand!Next, OnDemand!Begin
    <3> QED BY <3>3, <3>4
  <2>11. CASE FirstClientFails
    BY <2>0, <2>2, <2>11 DEF FirstClientFails, Drop
  <2>12. CASE LastClient
    BY <2>1, <2>4, <2>12 DEF LastClient
  <2>13. CASE StreamerLost
    BY <2>0, <2>4, <2>13 DEF StreamerLost, Counted, TypeOK
  <2>14. CASE Frame
    BY <2>0, <2>1, <2>2, <2>14 DEF Frame, Drop
  <2>15. CASE FrameConverterFails
    BY <2>0, <2>2, <2>15 DEF FrameConverterFails, Drop
  <2>16. CASE FrameLosesStreamer
    BY <2>0, <2>4, <2>16 DEF FrameLosesStreamer, Counted, TypeOK
  <2>17. CASE Quit
    BY <2>3, <2>17 DEF Quit
  <2>18. CASE Launch
    BY <2>1, <2>18 DEF Launch
  <2>19. CASE UNCHANGED vars
    BY <2>1, <2>19 DEF vars
  <2> QED
    BY <2>5, <2>6, <2>7, <2>8, <2>9, <2>10, <2>11, <2>12, <2>13, <2>14,
       <2>15, <2>16, <2>17, <2>18, <2>19 DEF Next
<1> QED
  BY <1>1, <1>2, IInvInvariant, PTL DEF Spec, OnDemandSafety, OnDemand!Safety

=============================================================================
