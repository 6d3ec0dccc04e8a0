------------------------- MODULE ClipboardSyncProofs -------------------------
(***************************************************************************)
(* Type correctness of ClipboardSync, and that no text goes back to where  *)
(* it came from, for any number of sessions and VNC clients.               *)
(***************************************************************************)
EXTENDS ClipboardSync, SequenceTheorems, TLAPS

-----------------------------------------------------------------------------
(* What is left of a queue when one element is taken out. *)
LEMMA RemoveAtType ==
  ASSUME NEW S, NEW q \in Seq(S), NEW i \in DOMAIN q
  PROVE  /\ RemoveAt(q, i) \in Seq(S)
         /\ Len(RemoveAt(q, i)) = Len(q) - 1
<1> DEFINE a == SubSeq(q, 1, i - 1)
<1> DEFINE b == SubSeq(q, i + 1, Len(q))
<1>1. Len(q) \in Nat /\ i \in 1 .. Len(q)
  OBVIOUS
<1>2. a \in Seq(S) /\ Len(a) = i - 1
  BY <1>1
<1>3. b \in Seq(S) /\ Len(b) = Len(q) - i
  BY <1>1
<1>4. a \o b \in Seq(S) /\ Len(a \o b) = Len(a) + Len(b)
  BY <1>2, <1>3, ConcatProperties
<1>5. RemoveAt(q, i) = a \o b
  BY DEF RemoveAt
<1> HIDE DEF a, b
<1> QED BY <1>1, <1>2, <1>3, <1>4, <1>5

(* The queues of a session, with their contents and lengths. *)
Queue(S, max) == {q \in Seq(S) : Len(q) <= max}

LEMMA QueueAppend ==
  ASSUME NEW S, NEW max \in Nat, NEW q \in Queue(S, max), NEW x \in S, Len(q) < max
  PROVE  Append(q, x) \in Queue(S, max)
<1>1. Append(q, x) \in Seq(S) /\ Len(Append(q, x)) = Len(q) + 1 /\ Len(q) \in Nat
  BY AppendProperties, LenProperties DEF Queue
<1> QED BY <1>1 DEF Queue

LEMMA QueueTail ==
  ASSUME NEW S, NEW max \in Nat, NEW q \in Queue(S, max), q # <<>>
  PROVE  Tail(q) \in Queue(S, max) /\ Head(q) \in S
<1>1. Tail(q) \in Seq(S) /\ Len(Tail(q)) = Len(q) - 1 /\ Head(q) \in S /\ Len(q) \in Nat
  BY HeadTailProperties, LenProperties DEF Queue
<1> QED BY <1>1 DEF Queue

LEMMA QueueRemoveAt ==
  ASSUME NEW S, NEW max \in Nat, NEW q \in Queue(S, max), NEW i \in DOMAIN q
  PROVE  RemoveAt(q, i) \in Queue(S, max) /\ q[i] \in S
<1>1. q \in Seq(S) /\ Len(q) <= max /\ Len(q) \in Nat
  BY LenProperties DEF Queue
<1>2. RemoveAt(q, i) \in Seq(S) /\ Len(RemoveAt(q, i)) = Len(q) - 1
  BY <1>1, RemoveAtType
<1>3. q[i] \in S
  BY <1>1
<1> QED BY <1>1, <1>2, <1>3 DEF Queue

LEMMA QueueEmpty ==
  ASSUME NEW S, NEW max \in Nat
  PROVE  <<>> \in Queue(S, max)
BY DEF Queue

-----------------------------------------------------------------------------
From(parties) == [by : parties, text : Texts]

(* Reads and messages of a session are copies of its own, and what comes   *)
(* to it was copied by VNC clients.  NoEcho alone is not inductive: it      *)
(* does not speak of the reads under way.                                   *)
Sourced ==
  /\ reads \in [Sessions -> Queue(From(Sessions), MaxReads)]
  /\ toServer \in [Sessions -> Queue(From(Sessions), MaxQueue)]
  /\ toSession \in [Sessions -> Queue(From(Viewers), MaxQueue)]
  /\ \A s \in Sessions : /\ reads[s] \in Queue(From({s}), MaxReads)
                         /\ toServer[s] \in Queue(From({s}), MaxQueue)

Others ==
  /\ clip \in [Sessions -> [what : Texts \cup {Else, Unset}, local : BOOLEAN]]
  /\ linked \subseteq Sessions
  /\ \A s \in Sessions : s \in linked \/ (toServer[s] = <<>> /\ toSession[s] = <<>>)
  /\ view \in [Viewers -> Texts \cup {Unset}]
  /\ last \in Copy \cup {Unset}
  /\ lone \in BOOLEAN

IInv == Sourced /\ Others

LEMMA Bounds == MaxReads \in Nat /\ MaxQueue \in Nat
BY BoundsAssumption

LEMMA FromType ==
  ASSUME NEW s \in Sessions
  PROVE  /\ From({s}) \subseteq From(Sessions)
         /\ From(Sessions) \subseteq Copy /\ From(Viewers) \subseteq Copy
BY DEF From, Copy

(* An action that changes the queues of one session. *)
LEMMA OwnQueue ==
  ASSUME NEW s \in Sessions, NEW f, NEW max \in Nat,
         f \in [Sessions -> Queue(From(Sessions), max)],
         \A t \in Sessions : f[t] \in Queue(From({t}), max),
         NEW q \in Queue(From({s}), max)
  PROVE  LET g == [f EXCEPT ![s] = q] IN
         /\ g \in [Sessions -> Queue(From(Sessions), max)]
         /\ \A t \in Sessions : g[t] \in Queue(From({t}), max)
<1>1. q \in Queue(From(Sessions), max)
  <2>1. q \in Seq(From(Sessions))
    BY FromType, SeqMonotonic DEF Queue
  <2> QED BY <2>1 DEF Queue
<1> QED BY <1>1

LEMMA IInvInvariant == Spec => []IInv
<1> USE Bounds
<1>1. Init => IInv
  <2> SUFFICES ASSUME Init PROVE IInv
    OBVIOUS
  <2>1. Sourced
    BY QueueEmpty DEF Init, Sourced
  <2>2. Others
    BY DEF Init, Others
  <2> QED BY <2>1, <2>2 DEF IInv
<1>2. IInv /\ [Next]_vars => IInv'
  <2> SUFFICES ASSUME IInv, [Next]_vars PROVE IInv'
    OBVIOUS
  <2>1. ASSUME NEW s \in Sessions, NEW t \in Texts, AppCopies(s, t) PROVE IInv'
    <3>1. [by |-> s, text |-> t] \in From({s}) /\ [by |-> s, text |-> t] \in Copy
      BY DEF From, Copy
    <3>2. Append(reads[s], [by |-> s, text |-> t]) \in Queue(From({s}), MaxReads)
      BY <2>1, <3>1, QueueAppend DEF AppCopies, IInv, Sourced
    <3>3. Sourced'
      BY <2>1, <3>2, OwnQueue DEF AppCopies, IInv, Sourced
    <3>4. Others'
      BY <2>1, <3>1 DEF AppCopies, Copied, IInv, Others, Quiet
    <3> QED BY <3>3, <3>4 DEF IInv
  <2>2. ASSUME NEW s \in Sessions, AppCopiesElse(s) PROVE IInv'
    <3>1. Sourced'
      BY <2>2 DEF AppCopiesElse, IInv, Sourced
    <3>2. Others'
      BY <2>2 DEF AppCopiesElse, IInv, Others
    <3> QED BY <3>1, <3>2 DEF IInv
  <2>3. ASSUME NEW s \in Sessions, NEW i \in 1 .. MaxReads, ReadDone(s, i) PROVE IInv'
    <3>1. /\ RemoveAt(reads[s], i) \in Queue(From({s}), MaxReads)
          /\ reads[s][i] \in From({s})
      BY <2>3, QueueRemoveAt DEF ReadDone, IInv, Sourced
    <3>2. s \in linked => Append(toServer[s], reads[s][i]) \in Queue(From({s}), MaxQueue)
      BY <2>3, <3>1, QueueAppend DEF ReadDone, IInv, Sourced
    <3>3. Sourced'
      <4>1. /\ reads' \in [Sessions -> Queue(From(Sessions), MaxReads)]
            /\ \A x \in Sessions : reads'[x] \in Queue(From({x}), MaxReads)
        BY <2>3, <3>1, OwnQueue DEF ReadDone, IInv, Sourced
      <4>2. /\ toServer' \in [Sessions -> Queue(From(Sessions), MaxQueue)]
            /\ \A x \in Sessions : toServer'[x] \in Queue(From({x}), MaxQueue)
        <5>1. CASE s \in linked
          <6>1. toServer' = [toServer EXCEPT ![s] = Append(@, reads[s][i])]
            BY <2>3, <5>1 DEF ReadDone
          <6>2. /\ toServer \in [Sessions -> Queue(From(Sessions), MaxQueue)]
                /\ \A x \in Sessions : toServer[x] \in Queue(From({x}), MaxQueue)
            BY DEF IInv, Sourced
          <6> QED BY <3>2, <5>1, <6>1, <6>2, OwnQueue
        <5>2. CASE s \notin linked
          BY <2>3, <5>2 DEF ReadDone, IInv, Sourced
        <5> QED BY <5>1, <5>2
      <4> QED BY <2>3, <4>1, <4>2 DEF ReadDone, IInv, Sourced
    <3>4. Others'
      BY <2>3 DEF ReadDone, IInv, Others, Sourced
    <3> QED BY <3>3, <3>4 DEF IInv
  <2>4. ASSUME NEW s \in Sessions, NEW i \in 1 .. MaxReads, ReadFails(s, i) PROVE IInv'
    <3>1. RemoveAt(reads[s], i) \in Queue(From({s}), MaxReads)
      BY <2>4, QueueRemoveAt DEF ReadFails, IInv, Sourced
    <3>2. Sourced'
      <4>1. /\ reads' \in [Sessions -> Queue(From(Sessions), MaxReads)]
            /\ \A x \in Sessions : reads'[x] \in Queue(From({x}), MaxReads)
        <5>1. reads' = [reads EXCEPT ![s] = RemoveAt(@, i)]
          BY <2>4 DEF ReadFails
        <5>2. /\ reads \in [Sessions -> Queue(From(Sessions), MaxReads)]
              /\ \A x \in Sessions : reads[x] \in Queue(From({x}), MaxReads)
          BY DEF IInv, Sourced
        <5> QED BY <3>1, <5>1, <5>2, OwnQueue
      <4> QED BY <2>4, <4>1 DEF ReadFails, IInv, Sourced
    <3>3. Others'
      BY <2>4 DEF ReadFails, IInv, Others
    <3> QED BY <3>2, <3>3 DEF IInv
  <2>5. ASSUME NEW s \in Sessions, SessionReceives(s) PROVE IInv'
    <3>1. /\ Tail(toSession[s]) \in Queue(From(Viewers), MaxQueue)
          /\ Head(toSession[s]) \in From(Viewers)
      BY <2>5, QueueTail DEF SessionReceives, IInv, Sourced
    <3>2. Sourced'
      BY <2>5, <3>1 DEF SessionReceives, IInv, Sourced
    <3>3. Head(toSession[s]).text \in Texts
      BY <3>1 DEF From
    <3>4. Others'
      BY <2>5, <3>3 DEF SessionReceives, IInv, Others, Sourced
    <3> QED BY <3>2, <3>4 DEF IInv
  <2>6. ASSUME NEW s \in Sessions, ServerReceives(s) PROVE IInv'
    <3>1. /\ Tail(toServer[s]) \in Queue(From({s}), MaxQueue)
          /\ Head(toServer[s]) \in From({s})
      BY <2>6, QueueTail DEF ServerReceives, IInv, Sourced
    <3>2. Sourced'
      BY <2>6, <3>1, OwnQueue DEF ServerReceives, IInv, Sourced
    <3>3. Head(toServer[s]).text \in Texts
      BY <3>1 DEF From
    <3>4. Others'
      BY <2>6, <3>3 DEF ServerReceives, IInv, Others, Sourced
    <3> QED BY <3>2, <3>4 DEF IInv
  <2>7. ASSUME NEW s \in Sessions, Link(s) PROVE IInv'
    <3>1. Sourced'
      BY <2>7 DEF Link, IInv, Sourced
    <3>2. Others'
      BY <2>7 DEF Link, IInv, Others
    <3> QED BY <3>1, <3>2 DEF IInv
  <2>8. ASSUME NEW s \in Sessions, Unlink(s) PROVE IInv'
    <3>1. Sourced'
      BY <2>8, QueueEmpty DEF Unlink, IInv, Sourced
    <3>2. Others'
      BY <2>8 DEF Unlink, IInv, Others, Sourced
    <3> QED BY <3>1, <3>2 DEF IInv
  <2>9. ASSUME NEW v \in Viewers, NEW t \in Texts, ViewerCopies(v, t) PROVE IInv'
    <3>1. [by |-> v, text |-> t] \in From(Viewers) /\ [by |-> v, text |-> t] \in Copy
      BY DEF From, Copy
    <3>2. \A s \in linked :
            Append(toSession[s], [by |-> v, text |-> t]) \in Queue(From(Viewers), MaxQueue)
      BY <2>9, <3>1, QueueAppend DEF ViewerCopies, IInv, Sourced, Others
    <3>3. Sourced'
      BY <2>9, <3>2 DEF ViewerCopies, IInv, Sourced
    <3>4. Others'
      BY <2>9, <3>1 DEF ViewerCopies, Copied, IInv, Others, Quiet
    <3> QED BY <3>3, <3>4 DEF IInv
  <2>10. CASE UNCHANGED vars
    <3>1. Sourced'
      BY <2>10 DEF vars, IInv, Sourced
    <3>2. Others'
      BY <2>10 DEF vars, IInv, Others
    <3> QED BY <3>1, <3>2 DEF IInv
  <2> QED
    BY <2>1, <2>2, <2>3, <2>4, <2>5, <2>6, <2>7, <2>8, <2>9, <2>10
    DEF Next, Session, Server
<1> QED BY <1>1, <1>2, PTL DEF Spec

(* Queues hold copies of texts and stay within their bounds, and without a *)
(* connection nothing is on it, for any number of sessions and clients.    *)
THEOREM TypeCorrect == Spec => []TypeOK
<1>1. IInv => TypeOK
  <2> SUFFICES ASSUME IInv PROVE TypeOK
    OBVIOUS
  <2>1. ASSUME NEW parties \in {Sessions, Viewers}, NEW max \in Nat,
               NEW f \in [Sessions -> Queue(From(parties), max)]
        PROVE  f \in [Sessions -> Seq(Copy)] /\ \A s \in Sessions : Len(f[s]) <= max
    <3>1. From(parties) \subseteq Copy
      BY DEF From, Copy
    <3>2. \A q \in Queue(From(parties), max) : q \in Seq(Copy) /\ Len(q) <= max
      BY <3>1, SeqMonotonic DEF Queue
    <3> QED BY <3>2
  <2> QED BY <2>1, Bounds DEF IInv, Sourced, Others, TypeOK
<1> QED BY <1>1, IInvInvariant, PTL

(* No text goes back to its side: neither reads that end late nor          *)
(* connections that are made again let one come to where it was copied.    *)
THEOREM NothingEchoed == Spec => []NoEcho
<1>1. IInv => NoEcho
  <2> SUFFICES ASSUME IInv, NEW s \in Sessions
               PROVE  /\ \A i \in DOMAIN toServer[s] : toServer[s][i].by = s
                      /\ \A i \in DOMAIN toSession[s] : toSession[s][i].by \in Viewers
    BY DEF NoEcho
  <2>1. toServer[s] \in Seq(From({s})) /\ toSession[s] \in Seq(From(Viewers))
    BY DEF IInv, Sourced, Queue
  <2>2. \A i \in DOMAIN toServer[s] : toServer[s][i] \in From({s})
    BY <2>1
  <2>3. \A i \in DOMAIN toSession[s] : toSession[s][i] \in From(Viewers)
    BY <2>1
  <2> QED BY <2>2, <2>3 DEF From
<1> QED BY <1>1, IInvInvariant, PTL
=============================================================================
