-------------------------- MODULE SessionLinkProofs --------------------------
(***************************************************************************)
(* For any number of helpers, connections and file events: the state of    *)
(* SessionLink is well typed, only recognised helpers are served, and      *)
(* whoever waits has been asked for.                                       *)
(***************************************************************************)
EXTENDS SessionLink, SequenceTheorems, TLAPS

-----------------------------------------------------------------------------
(* One connection. *)
Sound(r) ==
  /\ r \in Connection
  /\ r.owner = Nobody <=> r = Unused
  /\ r.srv = "served" => r.owner \in Trusted

Asked(h, q) == \E i \in 1 .. Len(q) : q[i] = h

(* All of them; OnlyTrustedServed and WaitingIsAsked are part of it. *)
ConnsOK(f, q) ==
  /\ f \in [Conns -> Connection]
  /\ \A c \in Conns : /\ Sound(f[c])
                      /\ f[c].srv = "waiting" => Asked(f[c].owner, q)
  /\ \A c, d \in Conns : f[c].srv = "waiting" /\ f[d].srv = "waiting"
                         /\ f[c].owner = f[d].owner => c = d

Others ==
  /\ path \in {"none", "bound", "listening", "ready", "dead"}
  /\ asked \in Seq(Helpers) /\ Len(asked) <= MaxAsked
  /\ phase \in [Helpers -> {"down", "scan", "monitor", "loop", "gone"}]
  /\ events \in [Helpers -> 0 .. MaxEvents]

IInv == Others /\ ConnsOK(conn, asked)

LEMMA UnusedSound == Sound(Unused) /\ Unused.srv = "none"
BY HelpersAssumption DEF Sound, Unused, Connection

(* Forgetting connections keeps the rest as it was. *)
LEMMA TidyKeeps ==
  ASSUME NEW f, NEW q, ConnsOK(f, q)
  PROVE  ConnsOK(Tidy(f), q)
<1>1. /\ \A c \in Conns : Tidy(f)[c] \in {f[c], Unused}
      /\ Tidy(f) = [c \in Conns |-> Tidy(f)[c]]
  BY DEF Tidy
<1>2. \A c \in Conns : Tidy(f)[c].srv = "waiting" => Tidy(f)[c] = f[c]
  BY <1>1, UnusedSound
<1>3. \A c \in Conns : Sound(Tidy(f)[c])
  BY <1>1, UnusedSound DEF ConnsOK
<1>4. Tidy(f) \in [Conns -> Connection]
  BY <1>1, <1>3 DEF Sound
<1> QED BY <1>2, <1>3, <1>4 DEF ConnsOK

(* An operation that lets nobody wait who did not. *)
LEMMA ChangeKeeps ==
  ASSUME NEW f, NEW q, NEW p, NEW g, ConnsOK(f, q),
         g = [c \in Conns |-> g[c]],
         \A c \in Conns :
           /\ Sound(g[c])
           /\ g[c].srv = "waiting" => /\ f[c].srv = "waiting"
                                      /\ g[c].owner = f[c].owner
                                      /\ Asked(f[c].owner, p)
  PROVE  ConnsOK(g, p)
<1>1. g \in [Conns -> Connection]
  BY DEF Sound
<1> QED BY <1>1 DEF ConnsOK

(* A connection one of whose ends changes. *)
LEMMA SrvSound ==
  ASSUME NEW r, Sound(r), r.owner # Nobody,
         NEW st \in {"backlog", "waiting", "served", "orphan", "closed"},
         st = "served" => r.owner \in Trusted
  PROVE  /\ Sound([r EXCEPT !.srv = st]) /\ [r EXCEPT !.srv = st].srv = st
         /\ [r EXCEPT !.srv = st].owner = r.owner
BY UnusedSound DEF Sound, Connection, Unused

(* The two that are no release. *)
LEMMA WaitSound ==
  ASSUME NEW r, Sound(r), r.owner # Nobody
  PROVE  /\ Sound([r EXCEPT !.srv = "waiting"]) /\ [r EXCEPT !.srv = "waiting"].srv = "waiting"
         /\ [r EXCEPT !.srv = "waiting"].owner = r.owner
         /\ Sound([r EXCEPT !.srv = "orphan"]) /\ [r EXCEPT !.srv = "orphan"].srv = "orphan"
BY UnusedSound DEF Sound, Connection, Unused

LEMMA SentSound ==
  ASSUME NEW r, Sound(r), r.owner # Nobody, r.owner \in Trusted,
         NEW st \in {"served", "orphan"}
  PROVE  /\ Sound([r EXCEPT !.srvRef = TRUE, !.srv = st])
         /\ [r EXCEPT !.srvRef = TRUE, !.srv = st].srv = st
BY UnusedSound DEF Sound, Connection, Unused

LEMMA ClosedSound ==
  ASSUME NEW r, Sound(r), r.owner # Nobody
  PROVE  /\ Sound([r EXCEPT !.srv = "closed", !.srvRef = FALSE])
         /\ [r EXCEPT !.srv = "closed", !.srvRef = FALSE].srv = "closed"
BY UnusedSound DEF Sound, Connection, Unused

LEMMA CliSound ==
  ASSUME NEW r, Sound(r), r.owner # Nobody,
         NEW cl \in {"open", "orphan", "closed"}
  PROVE  /\ Sound([r EXCEPT !.cli = cl])
         /\ [r EXCEPT !.cli = cl].srv = r.srv /\ [r EXCEPT !.cli = cl].owner = r.owner
BY UnusedSound DEF Sound, Connection, Unused

LEMMA CliSentSound ==
  ASSUME NEW r, Sound(r), r.owner # Nobody, NEW st \in {"open", "orphan"}
  PROVE  /\ Sound([r EXCEPT !.cliRef = TRUE, !.cli = st])
         /\ [r EXCEPT !.cliRef = TRUE, !.cli = st].srv = r.srv
         /\ [r EXCEPT !.cliRef = TRUE, !.cli = st].owner = r.owner
BY UnusedSound DEF Sound, Connection, Unused

LEMMA CliClosedSound ==
  ASSUME NEW r, Sound(r), r.owner # Nobody
  PROVE  /\ Sound([r EXCEPT !.cli = "closed", !.cliRef = FALSE])
         /\ [r EXCEPT !.cli = "closed", !.cliRef = FALSE].srv = r.srv
         /\ [r EXCEPT !.cli = "closed", !.cliRef = FALSE].owner = r.owner
BY UnusedSound DEF Sound, Connection, Unused

LEMMA SrvReleasedSound ==
  ASSUME NEW r, Sound(r), r.owner # Nobody
  PROVE  /\ Sound(SrvReleased(r)) /\ SrvReleased(r).srv # "waiting"
<1> DEFINE st == IF r.srvRef THEN "orphan" ELSE "closed"
<1>1. /\ SrvReleased(r) = [r EXCEPT !.srv = st]
      /\ st \in {"backlog", "waiting", "served", "orphan", "closed"}
      /\ st # "served" /\ st # "waiting"
  BY DEF SrvReleased
<1> HIDE DEF st
<1>2. Sound([r EXCEPT !.srv = st]) /\ [r EXCEPT !.srv = st].srv = st
  BY <1>1, SrvSound
<1> QED BY <1>1, <1>2

LEMMA CliReleasedSound ==
  ASSUME NEW r, Sound(r), r.owner # Nobody
  PROVE  /\ Sound(CliReleased(r)) /\ CliReleased(r).srv = r.srv
         /\ CliReleased(r).owner = r.owner
<1> DEFINE st == IF r.cliRef THEN "orphan" ELSE "closed"
<1>1. /\ CliReleased(r) = [r EXCEPT !.cli = st]
      /\ st \in {"open", "orphan", "closed"}
  BY DEF CliReleased
<1> HIDE DEF st
<1> QED BY <1>1, CliSound

LEMMA InUse ==
  ASSUME NEW r, Sound(r), r.srv # "none" \/ r.cli # "none"
  PROVE  r.owner # Nobody
BY DEF Sound, Unused

-----------------------------------------------------------------------------
(* Forgetting and changing at once, which is what most actions do. *)
LEMMA ApplyKeeps ==
  ASSUME ConnsOK(conn, asked), NEW g, NEW p,
         conn' = Tidy(g), g = [c \in Conns |-> g[c]],
         \A c \in Conns :
           /\ Sound(g[c])
           /\ g[c].srv = "waiting" => /\ conn[c].srv = "waiting"
                                      /\ g[c].owner = conn[c].owner
                                      /\ Asked(conn[c].owner, p)
  PROVE  ConnsOK(conn', p)
BY ChangeKeeps, TidyKeeps

LEMMA IncomingKeeps ==
  ASSUME IInv, NEW c \in Conns, Incoming(c)
  PROVE  IInv'
<1> DEFINE g == [d \in Conns |->
       CASE d = c -> [conn[d] EXCEPT !.srv = "waiting"]
         [] d # c /\ conn[d].srv = "waiting" /\ conn[d].owner = conn[c].owner ->
              [conn[d] EXCEPT !.srv = "orphan"]
         [] OTHER -> conn[d]]
<1> DEFINE h == conn[c].owner
<1>1. ConnsOK(conn, asked) /\ Sound(conn[c]) /\ h # Nobody
  BY InUse DEF IInv, ConnsOK, Incoming
<1>2. h \in Helpers /\ asked \in Seq(Helpers) /\ asked' = Append(asked, h)
  BY <1>1 DEF Sound, Connection, IInv, Others, Incoming
<1>3. \A k : k = h \/ Asked(k, asked) => Asked(k, asked')
  BY <1>2, AppendProperties, LenProperties DEF Asked
<1>4. /\ g = [d \in Conns |-> g[d]]
      /\ g[c] = [conn[c] EXCEPT !.srv = "waiting"]
      /\ \A d \in Conns \ {c} :
           \/ conn[d].srv = "waiting" /\ conn[d].owner = h
              /\ g[d] = [conn[d] EXCEPT !.srv = "orphan"]
           \/ ~(conn[d].srv = "waiting" /\ conn[d].owner = h) /\ g[d] = conn[d]
  OBVIOUS
<1>5. conn' = Tidy(g)
  BY DEF Incoming
<1> HIDE DEF g
<1>6. Sound(g[c]) /\ g[c].srv = "waiting" /\ g[c].owner = h
  <2>1. Sound(conn[c]) /\ conn[c].owner # Nobody
    BY <1>1
  <2>2. /\ Sound([conn[c] EXCEPT !.srv = "waiting"])
        /\ [conn[c] EXCEPT !.srv = "waiting"].srv = "waiting"
        /\ [conn[c] EXCEPT !.srv = "waiting"].owner = conn[c].owner
    BY <2>1, WaitSound
  <2> QED BY <1>4, <2>2
<1>7. ASSUME NEW d \in Conns \ {c}
      PROVE  Sound(g[d]) /\ (g[d].srv = "waiting" => g[d] = conn[d] /\ conn[d].owner # h)
  <2>1. Sound(conn[d])
    BY <1>1 DEF ConnsOK
  <2>2. CASE conn[d].srv = "waiting" /\ conn[d].owner = h
    BY <1>1, <1>4, <2>1, <2>2, WaitSound
  <2>3. CASE ~(conn[d].srv = "waiting" /\ conn[d].owner = h)
    BY <1>4, <2>1, <2>3
  <2> QED BY <2>2, <2>3
<1>8. ConnsOK(g, asked')
  <2>1. g \in [Conns -> Connection]
    BY <1>4, <1>6, <1>7 DEF Sound
  <2>2. \A d \in Conns : Sound(g[d]) /\ (g[d].srv = "waiting" => Asked(g[d].owner, asked'))
    BY <1>1, <1>3, <1>6, <1>7 DEF ConnsOK
  <2> HIDE DEF h
  <2>3. \A d, e \in Conns : g[d].srv = "waiting" /\ g[e].srv = "waiting"
                             /\ g[d].owner = g[e].owner => d = e
    BY <1>1, <1>6, <1>7 DEF ConnsOK
  <2> QED BY <2>1, <2>2, <2>3 DEF ConnsOK
<1>9. ConnsOK(conn', asked')
  BY <1>5, <1>8, TidyKeeps
<1>10. asked' \in Seq(Helpers) /\ Len(asked') <= MaxAsked
  <2>1. Len(asked) < MaxAsked /\ Len(asked) \in Nat
    BY <1>2, LenProperties DEF Incoming
  <2> QED BY <1>2, <2>1, AppendProperties, BoundsAssumption
<1> QED BY <1>9, <1>10 DEF IInv, Others, Incoming

(* The answer to the first question: nobody with that PID waits any longer, *)
(* so that the questions left are enough.                                   *)
LEMMA AuthReplyKeeps ==
  ASSUME IInv, AuthReply
  PROVE  IInv'
<1> DEFINE pid == Head(asked)
<1> DEFINE ok == pid \in Trusted /\ phase[pid] # "gone"
<1> DEFINE Answer(r) == IF ok THEN [r EXCEPT !.srv = "served"] ELSE SrvReleased(r)
<1> DEFINE C == {c \in SrvIs("waiting") : conn[c].owner = pid}
<1> DEFINE g == [c \in Conns |-> IF c \in C THEN Answer(conn[c]) ELSE conn[c]]
<1>1. asked # <<>> /\ asked' = Tail(asked) /\ conn' = Tidy(g)
  BY DEF AuthReply, Apply
<1>2. /\ asked \in Seq(Helpers) /\ Len(asked) \in Nat /\ Len(asked) >= 1
      /\ Len(asked) <= MaxAsked
  BY <1>1, LenProperties, EmptySeq DEF IInv, Others
<1>3. /\ asked' \in Seq(Helpers) /\ Len(asked') = Len(asked) - 1
      /\ \A i \in 1 .. Len(asked') : asked'[i] = asked[i + 1]
      /\ pid = asked[1]
  BY <1>1, <1>2, HeadTailProperties
<1>4. ASSUME NEW k, Asked(k, asked), k # pid PROVE Asked(k, asked')
  <2>1. PICK i \in 1 .. Len(asked) : asked[i] = k
    BY <1>4 DEF Asked
  <2>2. i # 1
    BY <1>3, <1>4, <2>1
  <2>3. i - 1 \in 1 .. Len(asked') /\ asked'[i - 1] = k
    BY <1>2, <1>3, <2>1, <2>2
  <2> QED BY <2>3 DEF Asked
<1>5. ASSUME NEW c \in Conns
      PROVE  /\ Sound(g[c])
             /\ g[c].srv = "waiting" => g[c] = conn[c] /\ Asked(conn[c].owner, asked')
  <2>1. Sound(conn[c]) /\ (conn[c].srv = "waiting" => Asked(conn[c].owner, asked))
    BY DEF IInv, ConnsOK
  <2>2. CASE c \in C
    <3>1. conn[c].owner = pid /\ conn[c].owner # Nobody
      BY <2>1, <2>2, InUse DEF SrvIs
    <3>2. CASE ok
      <4>1. g[c] = [conn[c] EXCEPT !.srv = "served"]
        BY <2>2, <3>2
      <4>2. conn[c].owner \in Trusted
        BY <3>1, <3>2
      <4>3. /\ Sound([conn[c] EXCEPT !.srv = "served"])
            /\ [conn[c] EXCEPT !.srv = "served"].srv = "served"
        BY <2>1, <3>1, <4>2, SrvSound
      <4> QED BY <4>1, <4>3
    <3>3. CASE ~ok
      <4>1. g[c] = SrvReleased(conn[c])
        BY <2>2, <3>3
      <4> QED BY <2>1, <3>1, <4>1, SrvReleasedSound
    <3> QED BY <3>2, <3>3
  <2>3. CASE c \notin C
    <3>1. g[c] = conn[c]
      BY <2>3
    <3>2. conn[c].srv = "waiting" => conn[c].owner # pid
      BY <2>3 DEF SrvIs
    <3> QED BY <1>4, <2>1, <3>1, <3>2
  <2> QED BY <2>2, <2>3
<1>6. ConnsOK(conn', asked')
  <2>1. g = [c \in Conns |-> g[c]] /\ ConnsOK(conn, asked)
    BY DEF IInv
  <2> HIDE DEF g
  <2> QED BY <1>1, <1>5, <2>1, ApplyKeeps
<1> QED BY <1>2, <1>3, <1>6, BoundsAssumption DEF IInv, Others, AuthReply

(* An action that leaves the questions alone.                               *)
LEMMA QuietKeeps ==
  ASSUME IInv, NEW g, conn' = Tidy(g), g = [c \in Conns |-> g[c]], asked' = asked,
         \A c \in Conns :
           /\ Sound(g[c])
           /\ g[c].srv = "waiting" => /\ conn[c].srv = "waiting"
                                      /\ g[c].owner = conn[c].owner
  PROVE  ConnsOK(conn', asked')
<1>1. \A c \in Conns : g[c].srv = "waiting" => Asked(conn[c].owner, asked')
  BY DEF IInv, ConnsOK
<1> QED BY <1>1, ApplyKeeps DEF IInv

(* An action that leaves nobody waiting.                                    *)
LEMMA NobodyWaits ==
  ASSUME IInv, NEW g, conn' = Tidy(g), g = [c \in Conns |-> g[c]],
         \A c \in Conns : Sound(g[c]) /\ g[c].srv # "waiting"
  PROVE  ConnsOK(conn', asked')
BY ApplyKeeps DEF IInv

LEMMA ServerSendKeeps ==
  ASSUME IInv, ServerSend
  PROVE  IInv'
<1> DEFINE Write(r) == [r EXCEPT !.srvRef = TRUE,
                                 !.srv = IF r.cli = "closed" THEN "orphan" ELSE "served"]
<1> DEFINE g == [c \in Conns |-> IF c \in SrvIs("served") THEN Write(conn[c]) ELSE conn[c]]
<1>1. conn' = Tidy(g) /\ UNCHANGED <<path, asked, phase, events>>
  BY DEF ServerSend, Apply
<1>2. ASSUME NEW c \in Conns
      PROVE  Sound(g[c]) /\ (g[c].srv = "waiting" => g[c] = conn[c])
  <2>1. Sound(conn[c])
    BY DEF IInv, ConnsOK
  <2>2. CASE c \in SrvIs("served")
    <3> DEFINE st == IF conn[c].cli = "closed" THEN "orphan" ELSE "served"
    <3>1. /\ conn[c].owner # Nobody /\ conn[c].owner \in Trusted
          /\ st \in {"served", "orphan"}
      BY <2>1, <2>2, InUse DEF SrvIs, Sound
    <3>2. g[c] = [conn[c] EXCEPT !.srvRef = TRUE, !.srv = st]
      BY <2>2
    <3> HIDE DEF st, g
    <3>3. /\ Sound([conn[c] EXCEPT !.srvRef = TRUE, !.srv = st])
          /\ [conn[c] EXCEPT !.srvRef = TRUE, !.srv = st].srv = st
      BY <2>1, <3>1, SentSound
    <3> QED BY <3>1, <3>2, <3>3
  <2>3. CASE c \notin SrvIs("served")
    BY <2>1, <2>3
  <2> QED BY <2>2, <2>3
<1>3. g = [c \in Conns |-> g[c]]
  OBVIOUS
<1> HIDE DEF g
<1>4. ConnsOK(conn', asked')
  BY <1>1, <1>2, <1>3, QuietKeeps
<1> QED BY <1>1, <1>4 DEF IInv, Others

LEMMA ServerEofKeeps ==
  ASSUME IInv, NEW d \in Conns, ServerEof(d)
  PROVE  IInv'
<1> DEFINE g == [c \in Conns |-> IF c \in {d} THEN SrvReleased(conn[c]) ELSE conn[c]]
<1>1. conn' = Tidy(g) /\ UNCHANGED <<path, asked, phase, events>>
  BY DEF ServerEof, Apply
<1>2. ASSUME NEW c \in Conns
      PROVE  Sound(g[c]) /\ (g[c].srv = "waiting" => g[c] = conn[c])
  <2>1. Sound(conn[c])
    BY DEF IInv, ConnsOK
  <2> QED BY <2>1, InUse, SrvReleasedSound DEF ServerEof
<1>3. g = [c \in Conns |-> g[c]]
  OBVIOUS
<1> HIDE DEF g
<1>4. ConnsOK(conn', asked')
  BY <1>1, <1>2, <1>3, QuietKeeps
<1> QED BY <1>1, <1>4 DEF IInv, Others

LEMMA NoQuestions == <<>> \in Seq(Helpers) /\ Len(<<>>) <= MaxAsked
BY EmptySeq, BoundsAssumption

LEMMA StopKeeps ==
  ASSUME IInv, Stop
  PROVE  IInv'
<1> DEFINE C == SrvIs("backlog") \cup SrvIs("waiting") \cup SrvIs("served")
<1> DEFINE g == [c \in Conns |-> IF c \in C THEN SrvReleased(conn[c]) ELSE conn[c]]
<1>1. conn' = Tidy(g) /\ path' = "dead" /\ asked' = <<>> /\ UNCHANGED <<phase, events>>
  BY DEF Stop, Apply
<1>2. ASSUME NEW c \in Conns
      PROVE  Sound(g[c]) /\ g[c].srv # "waiting"
  <2>1. Sound(conn[c])
    BY DEF IInv, ConnsOK
  <2>2. CASE c \in C
    <3>1. conn[c].owner # Nobody
      BY <2>1, <2>2, InUse DEF SrvIs
    <3>2. g[c] = SrvReleased(conn[c])
      BY <2>2
    <3> QED BY <2>1, <3>1, <3>2, SrvReleasedSound
  <2>3. CASE c \notin C
    <3>1. conn[c].srv # "waiting" /\ g[c] = conn[c]
      BY <2>3 DEF SrvIs
    <3> QED BY <2>1, <3>1
  <2> QED BY <2>2, <2>3
<1>3. g = [c \in Conns |-> g[c]]
  OBVIOUS
<1> HIDE DEF g
<1>4. ConnsOK(conn', asked')
  BY <1>1, <1>2, <1>3, NobodyWaits
<1> QED BY <1>1, <1>4, NoQuestions DEF IInv, Others

LEMMA ServerExitKeeps ==
  ASSUME IInv, ServerExit
  PROVE  IInv'
<1> DEFINE Close(r) == [r EXCEPT !.srv = "closed", !.srvRef = FALSE]
<1> DEFINE C == {c \in Conns : conn[c].owner # Nobody}
<1> DEFINE g == [c \in Conns |-> IF c \in C THEN Close(conn[c]) ELSE conn[c]]
<1>1. conn' = Tidy(g) /\ path' = "dead" /\ asked' = <<>> /\ UNCHANGED <<phase, events>>
  BY DEF ServerExit, Apply
<1>2. ASSUME NEW c \in Conns
      PROVE  Sound(g[c]) /\ g[c].srv # "waiting"
  <2>1. Sound(conn[c])
    BY DEF IInv, ConnsOK
  <2>2. CASE c \in C
    <3>1. g[c] = [conn[c] EXCEPT !.srv = "closed", !.srvRef = FALSE]
      BY <2>2
    <3>2. /\ Sound([conn[c] EXCEPT !.srv = "closed", !.srvRef = FALSE])
          /\ [conn[c] EXCEPT !.srv = "closed", !.srvRef = FALSE].srv = "closed"
      BY <2>1, <2>2, ClosedSound
    <3> QED BY <3>1, <3>2
  <2>3. CASE c \notin C
    <3>1. conn[c] = Unused /\ g[c] = conn[c]
      BY <2>1, <2>3 DEF Sound
    <3> QED BY <3>1, UnusedSound
  <2> QED BY <2>2, <2>3
<1>3. g = [c \in Conns |-> g[c]]
  OBVIOUS
<1> HIDE DEF g
<1>4. ConnsOK(conn', asked')
  BY <1>1, <1>2, <1>3, NobodyWaits
<1> QED BY <1>1, <1>4, NoQuestions DEF IInv, Others

-----------------------------------------------------------------------------
LEMMA HelperSendKeeps ==
  ASSUME IInv, NEW h \in Helpers, HelperSend(h)
  PROVE  IInv'
<1> DEFINE Write(r) == [r EXCEPT !.cliRef = TRUE,
                                 !.cli = IF r.srv = "closed" THEN "orphan" ELSE "open"]
<1> DEFINE g == [c \in Conns |-> IF c \in CliIs(h, "open") THEN Write(conn[c]) ELSE conn[c]]
<1>1. conn' = Tidy(g) /\ UNCHANGED <<path, asked, phase, events>>
  BY DEF HelperSend, Apply
<1>2. ASSUME NEW c \in Conns
      PROVE  /\ Sound(g[c])
             /\ g[c].srv = conn[c].srv /\ g[c].owner = conn[c].owner
  <2>1. Sound(conn[c])
    BY DEF IInv, ConnsOK
  <2>2. CASE c \in CliIs(h, "open")
    <3> DEFINE st == IF conn[c].srv = "closed" THEN "orphan" ELSE "open"
    <3>1. conn[c].owner # Nobody /\ st \in {"open", "orphan"}
      BY <2>1, <2>2, InUse DEF CliIs
    <3>2. g[c] = [conn[c] EXCEPT !.cliRef = TRUE, !.cli = st]
      BY <2>2
    <3> DEFINE sent == [conn[c] EXCEPT !.cliRef = TRUE, !.cli = st]
    <3> HIDE DEF st, g
    <3>3. Sound(sent) /\ sent.srv = conn[c].srv /\ sent.owner = conn[c].owner
      BY <2>1, <3>1, CliSentSound
    <3>4. g[c] = sent
      BY <3>2
    <3> HIDE DEF sent
    <3> QED BY <3>3, <3>4
  <2>3. CASE c \notin CliIs(h, "open")
    BY <2>1, <2>3
  <2> QED BY <2>2, <2>3
<1>3. g = [c \in Conns |-> g[c]]
  OBVIOUS
<1> HIDE DEF g
<1>4. ConnsOK(conn', asked')
  BY <1>1, <1>2, <1>3, QuietKeeps
<1> QED BY <1>1, <1>4 DEF IInv, Others

LEMMA EofKeeps ==
  ASSUME IInv, NEW h \in Helpers, NEW d \in Conns, HelperEof(h, d)
  PROVE  IInv'
<1> DEFINE g == [c \in Conns |-> IF c \in {d} THEN CliReleased(conn[c]) ELSE conn[c]]
<1>1. conn' = Tidy(g) /\ UNCHANGED <<path, asked, phase, events>>
  BY DEF HelperEof, Apply
<1>2. ASSUME NEW c \in Conns
      PROVE  /\ Sound(g[c])
             /\ g[c].srv = conn[c].srv /\ g[c].owner = conn[c].owner
  <2>1. Sound(conn[c])
    BY DEF IInv, ConnsOK
  <2> QED BY <2>1, InUse, CliReleasedSound DEF HelperEof
<1>3. g = [c \in Conns |-> g[c]]
  OBVIOUS
<1> HIDE DEF g
<1>4. ConnsOK(conn', asked')
  BY <1>1, <1>2, <1>3, QuietKeeps
<1> QED BY <1>1, <1>4 DEF IInv, Others

LEMMA HelperExitKeeps ==
  ASSUME IInv, NEW h \in Helpers, HelperExit(h)
  PROVE  IInv'
<1> DEFINE Close(r) == [r EXCEPT !.cli = "closed", !.cliRef = FALSE]
<1> DEFINE C == {c \in Conns : conn[c].owner = h}
<1> DEFINE g == [c \in Conns |-> IF c \in C THEN Close(conn[c]) ELSE conn[c]]
<1>1. /\ conn' = Tidy(g) /\ UNCHANGED <<path, asked>>
      /\ phase' = [phase EXCEPT ![h] = "gone"] /\ events' = [events EXCEPT ![h] = 0]
  BY DEF HelperExit, Apply
<1>2. ASSUME NEW c \in Conns
      PROVE  /\ Sound(g[c])
             /\ g[c].srv = conn[c].srv /\ g[c].owner = conn[c].owner
  <2>1. Sound(conn[c])
    BY DEF IInv, ConnsOK
  <2>2. CASE c \in C
    <3>1. conn[c].owner # Nobody
      BY <2>2, HelpersAssumption
    <3>2. g[c] = [conn[c] EXCEPT !.cli = "closed", !.cliRef = FALSE]
      BY <2>2
    <3> HIDE DEF g
    <3> QED BY <2>1, <3>1, <3>2, CliClosedSound
  <2>3. CASE c \notin C
    BY <2>1, <2>3
  <2> QED BY <2>2, <2>3
<1>3. g = [c \in Conns |-> g[c]]
  OBVIOUS
<1> HIDE DEF g
<1>4. ConnsOK(conn', asked')
  BY <1>1, <1>2, <1>3, QuietKeeps
<1>5. Others'
  BY <1>1, BoundsAssumption DEF IInv, Others
<1> QED BY <1>4, <1>5 DEF IInv

(* A new connection waits for nothing yet. *)
LEMMA ConnectKeeps ==
  ASSUME IInv, NEW h \in Helpers, Connect(h) \/ UNCHANGED conn, asked' = asked
  PROVE  ConnsOK(conn', asked')
<1>1. CASE UNCHANGED conn
  BY <1>1 DEF IInv
<1>2. ASSUME NEW c \in Conns, conn[c] = Unused,
             conn' = [conn EXCEPT ![c] = [Unused EXCEPT !.owner = h, !.srv = "backlog", !.cli = "open"]]
      PROVE  ConnsOK(conn', asked')
  <2> DEFINE r == [Unused EXCEPT !.owner = h, !.srv = "backlog", !.cli = "open"]
  <2>1. Sound(r) /\ r.srv = "backlog"
    BY HelpersAssumption DEF Sound, Unused, Connection
  <2> HIDE DEF r
  <2>2. conn' = [conn EXCEPT ![c] = r] /\ conn \in [Conns -> Connection]
    BY <1>2 DEF IInv, ConnsOK, r
  <2>3. conn'[c] = r /\ \A d \in Conns \ {c} : conn'[d] = conn[d]
    BY <2>2
  <2>4. conn' \in [Conns -> Connection]
    BY <2>1, <2>2 DEF Sound
  <2> QED BY <2>1, <2>3, <2>4 DEF IInv, ConnsOK
<1> QED BY <1>1, <1>2 DEF Connect

LEMMA IInvInvariant == Spec => []IInv
<1>1. Init => IInv
  <2> SUFFICES ASSUME Init PROVE IInv
    OBVIOUS
  <2>1. \A c \in Conns : conn[c] = Unused
    BY DEF Init
  <2>2. conn \in [Conns -> Connection]
    BY UnusedSound DEF Init, Sound
  <2>3. ConnsOK(conn, asked)
    BY <2>1, <2>2, UnusedSound DEF ConnsOK
  <2>4. Others
    BY NoQuestions, BoundsAssumption DEF Init, Others
  <2> QED BY <2>3, <2>4 DEF IInv
<1>2. IInv /\ [Next]_vars => IInv'
  <2> SUFFICES ASSUME IInv, [Next]_vars PROVE IInv'
    OBVIOUS
  <2>1. CASE Bind
    BY <2>1, BoundsAssumption DEF Bind, IInv, Others
  <2>2. CASE BindFails \/ Listen \/ Permit
    BY <2>2 DEF BindFails, Listen, Permit, IInv, Others
  <2>3. CASE AuthReply \/ ServerSend \/ Stop \/ ServerExit
    BY <2>3, AuthReplyKeeps, ServerSendKeeps, StopKeeps, ServerExitKeeps
  <2>4. ASSUME NEW c \in Conns, Incoming(c) \/ ServerEof(c) PROVE IInv'
    BY <2>4, IncomingKeeps, ServerEofKeeps
  <2>5. ASSUME NEW h \in Helpers, HelperStart(h) PROVE IInv'
    BY <2>5 DEF HelperStart, IInv, Others
  <2>6. ASSUME NEW h \in Helpers, Scan(h) PROVE IInv'
    <3>1. ConnsOK(conn', asked')
      BY <2>6, ConnectKeeps DEF Scan
    <3> QED BY <2>6, <3>1 DEF Scan, IInv, Others
  <2>7. ASSUME NEW h \in Helpers, Monitor(h) PROVE IInv'
    BY <2>7 DEF Monitor, IInv, Others
  <2>8. ASSUME NEW h \in Helpers, OnChanged(h) PROVE IInv'
    <3>1. ConnsOK(conn', asked')
      BY <2>8, ConnectKeeps DEF OnChanged
    <3>2. events[h] - 1 \in 0 .. MaxEvents
      BY <2>8, BoundsAssumption DEF OnChanged, IInv, Others
    <3>3. events' \in [Helpers -> 0 .. MaxEvents]
      BY <2>8, <3>2 DEF OnChanged, IInv, Others
    <3> QED BY <2>8, <3>1, <3>3 DEF OnChanged, IInv, Others
  <2>9. ASSUME NEW h \in Helpers, HelperSend(h) \/ HelperExit(h) PROVE IInv'
    BY <2>9, HelperSendKeeps, HelperExitKeeps
  <2>10. ASSUME NEW h \in Helpers, NEW c \in Conns, HelperEof(h, c) PROVE IInv'
    BY <2>10, EofKeeps
  <2>11. CASE UNCHANGED vars
    BY <2>11 DEF vars, IInv, Others
  <2> QED
    BY <2>1, <2>2, <2>3, <2>4, <2>5, <2>6, <2>7, <2>8, <2>9, <2>10, <2>11
    DEF Next, Server, Helper
<1> QED BY <1>1, <1>2, PTL DEF Spec

(* Connections are used by helpers, and of one PID at most one waits, for  *)
(* any number of helpers, connections and questions.                       *)
THEOREM TypeCorrect == Spec => []TypeOK
<1>1. IInv => TypeOK
  BY DEF IInv, Others, ConnsOK, Sound, TypeOK, SrvIs
<1> QED BY <1>1, IInvInvariant, PTL

(* Only a recognised helper is ever served, however connections of one PID *)
(* and answers to earlier questions cross.                                 *)
THEOREM ServedCorrect == Spec => []OnlyTrustedServed
<1>1. IInv => OnlyTrustedServed
  BY DEF IInv, ConnsOK, Sound, OnlyTrustedServed
<1> QED BY <1>1, IInvInvariant, PTL

(* No connection waits without a question under way that will answer it.   *)
THEOREM WaitingCorrect == Spec => []WaitingIsAsked
<1>1. IInv => WaitingIsAsked
  BY DEF IInv, ConnsOK, Asked, WaitingIsAsked, SrvIs
<1> QED BY <1>1, IInvInvariant, PTL
=============================================================================
