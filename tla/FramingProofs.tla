--------------------------- MODULE FramingProofs ---------------------------
(***************************************************************************)
(* Each direction of a connection implements Channel, the abstract         *)
(* promise, until the first torn text: for any number and sizes of texts,  *)
(* any capacity of the socket buffers and deaths at any moment.            *)
(***************************************************************************)
EXTENDS Framing, SequenceTheorems, WellFoundedInduction, TLAPS

-----------------------------------------------------------------------------
(* The inductive invariant.  The cells of one direction form a run: the    *)
(* type of a text, its length, one or more blocks of it, the type of the   *)
(* next.  Rank numbers them in that order, blocks of a text alike.         *)

Rank(c) ==
  CASE c.kind = "type" -> 3 * c.text.n
    [] c.kind = "length" -> 3 * c.text.n + 1
    [] OTHER -> 3 * c.text.n + 2

(* The rank of the last cell that reader f took, or of its whole texts.    *)
ReadUpTo(f) ==
  CASE pc[f] = "read length" -> 3 * Len(got[f]) + 3
    [] pc[f] = "read payload" -> 3 * Len(got[f]) + 4
    [] OTHER -> 3 * Len(got[f]) + 2

(* The rank of the last cell that writer e gave to the socket.             *)
WrittenUpTo(e) ==
  CASE pc[e] = "write type" -> 3 * Len(sent[e]) - 1
    [] pc[e] = "write length" -> 3 * Len(sent[e])
    [] pc[e] = "write payload" -> 3 * Len(sent[e]) + 1
    [] OTHER -> 3 * Len(sent[e]) + 2

IsBlock(c, t) == c.kind = "payload" /\ c.text = t

(* p is a run of cells of the texts S, after one of the rank from.         *)
Carries(p, S) ==
  \A i \in 1 .. Len(p) :
    p[i].text.n \in 1 .. Len(S) /\ p[i].text = S[p[i].text.n]
Starts(p, from) == p # <<>> => Rank(p[1]) = from + 1
Adjacent(p) ==
  \A i \in 1 .. Len(p) - 1 :
    \/ Rank(p[i + 1]) = Rank(p[i]) + 1
    \/ Rank(p[i + 1]) = Rank(p[i]) /\ p[i].kind = "payload"
Ascends(p) ==
  \A i, j \in 1 .. Len(p) : i <= j => Rank(p[i]) <= Rank(p[j])
Fits(p) ==
  \A i, j \in 1 .. Len(p) :
    /\ i <= j
    /\ IsBlock(p[i], p[i].text)
    /\ IsBlock(p[j], p[i].text)
    => j - i < p[i].text.size

Run(p, S, from) ==
  Carries(p, S) /\ Starts(p, from) /\ Adjacent(p) /\ Ascends(p) /\ Fits(p)

UpTo(p, from) == IF p = <<>> THEN from ELSE Rank(p[Len(p)])

(* Reader f has not lost its place in what it is sent.                     *)
Whole(f) == f \in open /\ Torn \notin ToSet(got[f])

Delivered(e, f) ==
  /\ Len(got[f]) <= Len(sent[e])
  /\ \A i \in 1 .. Len(got[f]) : got[f][i] = sent[e][i]
  /\ pc[f] # "astray"
  /\ pc[f] \in {"read length", "read payload"} =>
       Len(got[f]) < Len(sent[e]) /\ text[f] = sent[e][Len(got[f]) + 1]

(* A text being written has as many blocks under way as it has written.    *)
Queued(e, f) ==
  /\ pc[e] \in {"write payload", "write more"} =>
       \A i \in 1 .. Len(pipe[e]) :
         IsBlock(pipe[e][i], text[e]) => Len(pipe[e]) - i < text[e].size - left[e]
  /\ pc[e] = "write more" => Len(got[f]) < Len(sent[e])

Stream(e, f) ==
  /\ Delivered(e, f)
  /\ Run(pipe[e], sent[e], ReadUpTo(f))
  /\ e \in open => UpTo(pipe[e], ReadUpTo(f)) = WrittenUpTo(e)
  /\ Queued(e, f)

Numbered ==
  \A e \in Ends : \A i \in 1 .. Len(sent[e]) : sent[e][i].n = i

Occupied ==
  \A e \in Ends :
    /\ e \notin open => pc[e] = "loop"
    /\ pc[e] \in Writing => sent[e] # <<>> /\ text[e] = sent[e][Len(sent[e])]
    /\ pc[e] = "read payload" => text[e] \in Text

Streams == \A e, f \in Ends : e # f /\ Whole(f) => Stream(e, f)

IInv == TypeOK /\ Numbered /\ Occupied /\ Streams

-----------------------------------------------------------------------------
(* The two ends. *)

LEMMA PeerIs ==
  ASSUME NEW e \in Ends, NEW f \in Ends, e # f
  PROVE  Peer(e) = f /\ \A g \in Ends : g = e \/ g = f
BY DEF Peer, Ends

LEMMA PeerEnds ==
  ASSUME NEW e \in Ends
  PROVE  Peer(e) \in Ends /\ Peer(e) # e
<1>1. \E f \in Ends : f # e
  BY DEF Ends
<1> QED BY <1>1 DEF Peer

-----------------------------------------------------------------------------
(* Cells and runs of them. *)

LEMMA TextType ==
  ASSUME NEW t \in Text
  PROVE  t.n \in Nat \ {0} /\ t.size \in Nat \ {0}
<1>1. t.n \in 1 .. Copies /\ t.size \in Sizes
  BY DEF Text
<1>2. t.size \in Nat \ {0}
  BY <1>1, SizesAssumption
<1>3. t.n \in Nat \ {0}
  BY <1>1, CopiesAssumption
<1> QED BY <1>2, <1>3

LEMMA RankType ==
  ASSUME NEW c \in Cell
  PROVE  /\ Rank(c) \in Nat
         /\ c.text \in Text
         /\ c.text.n \in Nat \ {0}
         /\ c.text.size \in Nat \ {0}
<1>1. c.text \in Text /\ c.kind \in Kind
  BY DEF Cell
<1>2. c.text.n \in Nat \ {0} /\ c.text.size \in Nat \ {0}
  BY <1>1, TextType
<1> QED BY <1>1, <1>2 DEF Rank, Kind

(* The rank tells kind and text.                                           *)
LEMMA RankTells ==
  ASSUME NEW c \in Cell, NEW n \in Nat
  PROVE  /\ Rank(c) = 3 * n => c.kind = "type" /\ c.text.n = n
         /\ Rank(c) = 3 * n + 1 => c.kind = "length" /\ c.text.n = n
         /\ Rank(c) = 3 * n + 2 => c.kind = "payload" /\ c.text.n = n
<1>1. c.text.n \in Nat /\ c.kind \in Kind
  BY RankType DEF Cell
<1> DEFINE m == c.text.n
<1>2. CASE c.kind = "type"
  <2>1. Rank(c) = 3 * m
    BY <1>2 DEF Rank
  <2> HIDE DEF m
  <2> QED BY <1>2, <2>1, <1>1 DEF m
<1>3. CASE c.kind = "length"
  <2>1. Rank(c) = 3 * m + 1
    BY <1>3 DEF Rank
  <2> HIDE DEF m
  <2> QED BY <1>3, <2>1, <1>1 DEF m
<1>4. CASE c.kind = "payload"
  <2>1. Rank(c) = 3 * m + 2
    BY <1>4 DEF Rank
  <2> HIDE DEF m
  <2> QED BY <1>4, <2>1, <1>1 DEF m
<1> QED BY <1>1, <1>2, <1>3, <1>4 DEF Kind

LEMMA RunCells ==
  ASSUME NEW p \in Seq(Cell)
  PROVE  /\ Len(p) \in Nat
         /\ \A i \in 1 .. Len(p) : p[i] \in Cell /\ Rank(p[i]) \in Nat
BY RankType, LenProperties, ElementOfSeq

LEMMA NextFits == \A m, r \in Nat : m < r => m + 1 <= r
OBVIOUS

LEMMA LastIndex ==
  ASSUME NEW S, NEW s \in Seq(S), s # <<>>
  PROVE  Len(s) \in Nat \ {0} /\ Len(s) \in 1 .. Len(s)
BY EmptySeq

(* A sender that goes on sending leaves the run as it is.                  *)
LEMMA RunOfMore ==
  ASSUME NEW p \in Seq(Cell), NEW S, NEW T, NEW from \in Nat,
         Len(S) \in Nat, Len(T) \in Nat,
         Run(p, S, from), Len(S) <= Len(T),
         \A i \in 1 .. Len(S) : T[i] = S[i]
  PROVE  Run(p, T, from)
<1>1. Carries(p, T)
  BY DEF Run, Carries
<1> QED BY <1>1 DEF Run

(* What may come after a run: the next cell, or another block of the text  *)
(* while some are left.                                                    *)
MayFollow(p, from, c) ==
  /\ \/ Rank(c) = UpTo(p, from) + 1
     \/ p # <<>> /\ Rank(c) = Rank(p[Len(p)]) /\ c.kind = "payload"
  /\ c.kind = "payload" =>
       \A i \in 1 .. Len(p) :
         IsBlock(p[i], c.text) => Len(p) + 1 - i < c.text.size

LEMMA RunAppend ==
  ASSUME NEW p \in Seq(Cell), NEW S, NEW from \in Nat, NEW c \in Cell,
         Run(p, S, from),
         c.text.n \in 1 .. Len(S), c.text = S[c.text.n],
         MayFollow(p, from, c)
  PROVE  /\ Run(Append(p, c), S, from)
         /\ UpTo(Append(p, c), from) = Rank(c)
<1>0. /\ \/ Rank(c) = UpTo(p, from) + 1
         \/ p # <<>> /\ Rank(c) = Rank(p[Len(p)]) /\ c.kind = "payload"
      /\ c.kind = "payload" =>
           \A i \in 1 .. Len(p) :
             IsBlock(p[i], c.text) => Len(p) + 1 - i < c.text.size
  BY DEF MayFollow
<1> DEFINE q == Append(p, c)
<1>1. /\ q \in Seq(Cell) /\ Len(q) = Len(p) + 1
      /\ q[Len(p) + 1] = c
      /\ \A i \in 1 .. Len(p) : q[i] = p[i]
  BY AppendProperties
<1>2. /\ Len(p) \in Nat
      /\ \A i \in 1 .. Len(p) : p[i] \in Cell /\ Rank(p[i]) \in Nat
  BY RunCells
<1>3. Rank(c) \in Nat /\ c.text.size \in Nat \ {0}
  BY RankType
<1>4. p = <<>> <=> Len(p) = 0
  BY <1>2, EmptySeq
<1> HIDE DEF q
<1>5. q # <<>>
  BY <1>1, <1>2, EmptySeq
<1>6. Carries(q, S)
  <2> SUFFICES ASSUME NEW i \in 1 .. Len(q)
               PROVE  q[i].text.n \in 1 .. Len(S) /\ q[i].text = S[q[i].text.n]
    BY DEF Carries
  <2>1. CASE i \in 1 .. Len(p)
    BY <2>1, <1>1 DEF Run, Carries
  <2>2. CASE i = Len(p) + 1
    BY <2>2, <1>1
  <2> QED BY <2>1, <2>2, <1>1, <1>2
<1>7. Starts(q, from)
  BY <1>0, <1>1, <1>2, <1>4 DEF Run, Starts, UpTo
<1>8. \A i \in 1 .. Len(p) : Rank(p[i]) <= Rank(c)
  <2> SUFFICES ASSUME NEW i \in 1 .. Len(p) PROVE Rank(p[i]) <= Rank(c)
    OBVIOUS
  <2>1. Rank(p[i]) <= Rank(p[Len(p)]) /\ Rank(p[Len(p)]) \in Nat
    BY <1>2 DEF Run, Ascends
  <2>2. Rank(p[Len(p)]) <= Rank(c)
    BY <1>0, <1>2, <1>3, <1>4 DEF UpTo
  <2> QED BY <1>2, <1>3, <2>1, <2>2
<1>9. Ascends(q)
  <2> SUFFICES ASSUME NEW i \in 1 .. Len(q), NEW j \in 1 .. Len(q), i <= j
               PROVE  Rank(q[i]) <= Rank(q[j])
    BY DEF Ascends
  <2>1. CASE j <= Len(p)
    <3>1. q[i] = p[i] /\ q[j] = p[j] /\ i \in 1 .. Len(p) /\ j \in 1 .. Len(p)
      BY <2>1, <1>1, <1>2
    <3> QED BY <3>1 DEF Run, Ascends
  <2>2. CASE j = Len(p) + 1 /\ i <= Len(p)
    BY <2>2, <1>1, <1>2, <1>8
  <2>3. CASE j = Len(p) + 1 /\ i = Len(p) + 1
    BY <2>3, <1>1, <1>3
  <2> QED BY <2>1, <2>2, <2>3, <1>1, <1>2
<1>10. Adjacent(q)
  <2> SUFFICES ASSUME NEW i \in 1 .. Len(q) - 1
               PROVE  \/ Rank(q[i + 1]) = Rank(q[i]) + 1
                      \/ Rank(q[i + 1]) = Rank(q[i]) /\ q[i].kind = "payload"
    BY DEF Adjacent
  <2>1. CASE i < Len(p)
    <3>1. q[i] = p[i] /\ q[i + 1] = p[i + 1] /\ i \in 1 .. Len(p) - 1
      BY <2>1, <1>1, <1>2
    <3> QED BY <3>1 DEF Run, Adjacent
  <2>2. CASE i = Len(p)
    <3>1. q[i] = p[Len(p)] /\ q[i + 1] = c /\ p # <<>> /\ p[Len(p)] \in Cell
      BY <2>2, <1>1, <1>2, <1>4
    <3>2. CASE Rank(c) = UpTo(p, from) + 1
      BY <3>1, <3>2 DEF UpTo
    <3>3. CASE Rank(c) = Rank(p[Len(p)]) /\ c.kind = "payload"
      <4>1. c.text.n \in Nat /\ Rank(p[Len(p)]) = 3 * c.text.n + 2
        BY <3>3, RankType DEF Rank
      <4>2. p[Len(p)].kind = "payload"
        BY <3>1, <4>1, RankTells
      <4> QED BY <3>1, <3>3, <4>2
    <3> QED BY <1>0, <3>2, <3>3
  <2> QED BY <2>1, <2>2, <1>1, <1>2
<1>11. Fits(q)
  <2> SUFFICES ASSUME NEW i \in 1 .. Len(q), NEW j \in 1 .. Len(q), i <= j,
                      IsBlock(q[i], q[i].text), IsBlock(q[j], q[i].text)
               PROVE  j - i < q[i].text.size
    BY DEF Fits
  <2>1. CASE j <= Len(p)
    <3>1. q[i] = p[i] /\ q[j] = p[j] /\ i \in 1 .. Len(p) /\ j \in 1 .. Len(p)
      BY <2>1, <1>1, <1>2
    <3> QED BY <3>1 DEF Run, Fits
  <2>2. CASE j = Len(p) + 1 /\ i <= Len(p)
    <3>1. q[i] = p[i] /\ q[j] = c /\ i \in 1 .. Len(p)
      BY <2>2, <1>1, <1>2
    <3>2. c.kind = "payload" /\ c.text = p[i].text /\ IsBlock(p[i], c.text)
      BY <3>1 DEF IsBlock
    <3> QED BY <1>0, <2>2, <3>1, <3>2
  <2>3. CASE j = Len(p) + 1 /\ i = Len(p) + 1
    BY <2>3, <1>1, <1>2, <1>3
  <2> QED BY <2>1, <2>2, <2>3, <1>1, <1>2
<1> QED BY <1>1, <1>5, <1>6, <1>7, <1>9, <1>10, <1>11 DEF Run, UpTo, q

(* Cells are taken from the front of a run, up to where the rank grows.    *)
LEMMA RunTake ==
  ASSUME NEW p \in Seq(Cell), NEW S, NEW from \in Nat, NEW k \in 1 .. Len(p),
         Run(p, S, from),
         k < Len(p) => Rank(p[k + 1]) = Rank(p[k]) + 1
  PROVE  /\ SubSeq(p, k + 1, Len(p)) \in Seq(Cell)
         /\ Len(SubSeq(p, k + 1, Len(p))) = Len(p) - k
         /\ \A i \in 1 .. Len(p) - k : SubSeq(p, k + 1, Len(p))[i] = p[k + i]
         /\ Run(SubSeq(p, k + 1, Len(p)), S, Rank(p[k]))
         /\ UpTo(SubSeq(p, k + 1, Len(p)), Rank(p[k])) = UpTo(p, from)
<1> DEFINE q == SubSeq(p, k + 1, Len(p))
<1>1. /\ Len(p) \in Nat
      /\ \A i \in 1 .. Len(p) : p[i] \in Cell /\ Rank(p[i]) \in Nat
  BY RunCells
<1>2. /\ q \in Seq(Cell) /\ Len(q) = Len(p) - k
      /\ \A i \in 1 .. Len(p) - k : q[i] = p[k + i]
  <2>1. \A i \in k + 1 .. Len(p) : p[i] \in Cell
    BY <1>1
  <2>2. /\ q \in Seq(Cell)
        /\ Len(q) = IF k + 1 <= Len(p) THEN Len(p) - (k + 1) + 1 ELSE 0
        /\ \A i \in 1 .. Len(p) - (k + 1) + 1 : q[i] = p[k + 1 + i - 1]
    BY <1>1, <2>1, SubSeqProperties
  <2> HIDE DEF q
  <2>3. Len(q) = Len(p) - k
    BY <1>1, <2>2
  <2>4. \A i \in 1 .. Len(p) - k : q[i] = p[k + i]
    <3> TAKE i \in 1 .. Len(p) - k
    <3>1. i \in 1 .. Len(p) - (k + 1) + 1 /\ k + 1 + i - 1 = k + i
      BY <1>1
    <3> QED BY <2>2, <3>1
  <2> QED BY <2>2, <2>3, <2>4
<1> HIDE DEF q
<1>3. \A i \in 1 .. Len(q) : k + i \in 1 .. Len(p) /\ q[i] = p[k + i]
  BY <1>1, <1>2
<1>4. q = <<>> <=> k = Len(p)
  BY <1>1, <1>2, EmptySeq
<1>5. p # <<>>
  BY <1>1, EmptySeq
<1>6. Carries(q, S)
  BY <1>3 DEF Run, Carries
<1>7. Starts(q, Rank(p[k]))
  BY <1>1, <1>2, <1>3, <1>4 DEF Starts
<1>8. Adjacent(q)
  <2> SUFFICES ASSUME NEW i \in 1 .. Len(q) - 1
               PROVE  \/ Rank(q[i + 1]) = Rank(q[i]) + 1
                      \/ Rank(q[i + 1]) = Rank(q[i]) /\ q[i].kind = "payload"
    BY DEF Adjacent
  <2>1. /\ i \in 1 .. Len(p) - k /\ i + 1 \in 1 .. Len(p) - k
        /\ k + (i + 1) = (k + i) + 1 /\ k + i \in 1 .. Len(p) - 1
    BY <1>1, <1>2
  <2>2. q[i] = p[k + i] /\ q[i + 1] = p[(k + i) + 1]
    BY <1>2, <2>1
  <2> QED BY <2>1, <2>2 DEF Run, Adjacent
<1>9. Ascends(q)
  <2> SUFFICES ASSUME NEW i \in 1 .. Len(q), NEW j \in 1 .. Len(q), i <= j
               PROVE  Rank(q[i]) <= Rank(q[j])
    BY DEF Ascends
  <2>1. k + i <= k + j
    BY <1>1, <1>2
  <2> QED BY <1>3, <2>1 DEF Run, Ascends
<1>10. Fits(q)
  <2> SUFFICES ASSUME NEW i \in 1 .. Len(q), NEW j \in 1 .. Len(q), i <= j,
                      IsBlock(q[i], q[i].text), IsBlock(q[j], q[i].text)
               PROVE  j - i < q[i].text.size
    BY DEF Fits
  <2>1. k + i <= k + j /\ (k + j) - (k + i) = j - i
    BY <1>1, <1>2
  <2>2. (k + j) - (k + i) < p[k + i].text.size
    BY <1>3, <2>1 DEF Run, Fits
  <2> QED BY <1>3, <2>1, <2>2
<1>11. UpTo(q, Rank(p[k])) = UpTo(p, from)
  <2>1. CASE k = Len(p)
    BY <2>1, <1>4, <1>5 DEF UpTo
  <2>2. CASE k < Len(p)
    <3>1. Len(q) \in 1 .. Len(p) - k /\ k + Len(q) = Len(p)
      BY <2>2, <1>1, <1>2
    <3>2. q[Len(q)] = p[Len(p)]
      BY <3>1, <1>2
    <3> QED BY <2>2, <3>2, <1>4, <1>5 DEF UpTo
  <2> QED BY <2>1, <2>2, <1>1
<1> QED BY <1>2, <1>6, <1>7, <1>8, <1>9, <1>10, <1>11 DEF Run, q

LEMMA UpToGrows ==
  ASSUME NEW p \in Seq(Cell), NEW S, NEW from \in Nat, Run(p, S, from)
  PROVE  UpTo(p, from) \in Nat /\ from <= UpTo(p, from)
<1>1. /\ Len(p) \in Nat
      /\ \A i \in 1 .. Len(p) : p[i] \in Cell /\ Rank(p[i]) \in Nat
  BY RunCells
<1>2. CASE p = <<>>
  BY <1>2 DEF UpTo
<1>3. CASE p # <<>>
  <2>1. 1 \in 1 .. Len(p) /\ Len(p) \in 1 .. Len(p)
    BY <1>1, <1>3, EmptySeq
  <2>2. Rank(p[1]) = from + 1 /\ Rank(p[1]) <= Rank(p[Len(p)])
    BY <1>3, <2>1 DEF Run, Starts, Ascends
  <2> QED BY <1>1, <1>3, <2>1, <2>2 DEF UpTo
<1> QED BY <1>2, <1>3

-----------------------------------------------------------------------------
(* What a step of one end leaves of the stream to the other and back.      *)

LEMMA TypesAt ==
  ASSUME TypeOK, NEW e \in Ends
  PROVE  /\ pipe[e] \in Seq(Cell) /\ Len(pipe[e]) \in Nat
         /\ sent[e] \in Seq(Text) /\ Len(sent[e]) \in Nat
         /\ got[e] \in Seq(Text \cup {Torn}) /\ Len(got[e]) \in Nat
         /\ pc[e] \in Writing \cup Reading \cup {"astray"}
         /\ left[e] \in Nat
BY LenProperties DEF TypeOK

LEMMA ReadUpToType ==
  ASSUME TypeOK, NEW f \in Ends
  PROVE  /\ ReadUpTo(f) \in Nat
         /\ 3 * Len(got[f]) + 2 <= ReadUpTo(f)
         /\ ReadUpTo(f) <= 3 * Len(got[f]) + 4
<1>1. PICK n \in Nat : Len(got[f]) = n
  BY TypesAt
<1>2. pc[f] = "read length" => ReadUpTo(f) = 3 * n + 3
  BY <1>1 DEF ReadUpTo
<1>3. pc[f] = "read payload" => ReadUpTo(f) = 3 * n + 4
  BY <1>1 DEF ReadUpTo
<1>4. pc[f] \notin {"read length", "read payload"} => ReadUpTo(f) = 3 * n + 2
  BY <1>1 DEF ReadUpTo
<1>5. ReadUpTo(f) \in {3 * n + 2, 3 * n + 3, 3 * n + 4}
  BY <1>2, <1>3, <1>4
<1> QED BY <1>1, <1>5

(* The stream to an end that stays out of reading does not notice it.      *)
LEMMA ReaderIdle ==
  ASSUME NEW e \in Ends, NEW f \in Ends, Stream(e, f),
         pipe'[e] = pipe[e], sent'[e] = sent[e], got'[f] = got[f],
         pc'[e] = pc[e], text'[e] = text[e], left'[e] = left[e],
         {pc[f], pc'[f]} \subseteq Writing \cup {"loop"},
         open' = open
  PROVE  Stream(e, f)'
<1>1. ReadUpTo(f)' = ReadUpTo(f) /\ WrittenUpTo(e)' = WrittenUpTo(e)
  BY DEF ReadUpTo, WrittenUpTo, Writing
<1>2. Delivered(e, f)'
  BY DEF Stream, Delivered, Writing
<1>3. Queued(e, f)'
  BY DEF Stream, Queued
<1>4. Run(pipe[e], sent[e], ReadUpTo(f))'
  BY <1>1 DEF Stream
<1>5. (e \in open => UpTo(pipe[e], ReadUpTo(f)) = WrittenUpTo(e))'
  BY <1>1 DEF Stream
<1> QED BY <1>2, <1>3, <1>4, <1>5 DEF Stream

(* The stream from an end that stops writing between two cells, is not     *)
(* writing, or has gone.                                                   *)
LEMMA WriterIdle ==
  ASSUME NEW e \in Ends, NEW f \in Ends, Stream(e, f),
         pipe'[e] = pipe[e], sent'[e] = sent[e], got'[f] = got[f],
         pc'[f] = pc[f], text'[f] = text[f],
         pc'[e] \notin Writing,
         e \in open' => e \in open /\ pc[e] \notin Writing \ {"write more"}
  PROVE  Stream(e, f)'
<1>1. ReadUpTo(f)' = ReadUpTo(f)
  BY DEF ReadUpTo
<1>2. e \in open' => WrittenUpTo(e)' = WrittenUpTo(e)
  BY DEF WrittenUpTo, Writing
<1>3. Delivered(e, f)'
  BY DEF Stream, Delivered
<1>4. Queued(e, f)'
  BY DEF Queued, Writing
<1>5. Run(pipe[e], sent[e], ReadUpTo(f))'
  BY <1>1 DEF Stream
<1>6. (e \in open => UpTo(pipe[e], ReadUpTo(f)) = WrittenUpTo(e))'
  BY <1>1, <1>2 DEF Stream
<1> QED BY <1>3, <1>4, <1>5, <1>6 DEF Stream

LEMMA BothStreams ==
  ASSUME NEW a \in Ends, NEW b \in Ends, a # b,
         Whole(b)' => Stream(a, b)',
         Whole(a)' => Stream(b, a)'
  PROVE  Streams'
<1>1. \A e, f \in Ends : e # f => (e = a /\ f = b) \/ (e = b /\ f = a)
  BY PeerIs
<1> QED BY <1>1 DEF Streams

(* An end that has lost the connection: nothing more is promised to it,    *)
(* and what it wrote is still there.                                       *)
LEMMA CloseKeeps ==
  ASSUME IInv, NEW a \in Ends, Close(a), UNCHANGED <<text, left, sent, got>>
  PROVE  IInv'
<1>1. PICK b \in Ends : Peer(a) = b /\ a # b
  BY PeerEnds
<1>2. /\ open' = open \ {a}
      /\ pipe' = [pipe EXCEPT ![b] = <<>>]
      /\ pc' = [pc EXCEPT ![a] = "loop"]
  BY <1>1 DEF Close
<1>3. /\ pipe'[b] = <<>> /\ pipe'[a] = pipe[a]
      /\ pc'[a] = "loop" /\ pc'[b] = pc[b]
  BY <1>1, <1>2 DEF IInv, TypeOK
<1>4. \A g \in Ends : g = a \/ g = b
  BY <1>1, PeerIs
<1>5. TypeOK'
  <2>1. <<>> \in Seq(Cell) /\ Len(<<>>) = 0
    BY EmptySeq
  <2>2. pipe' \in [Ends -> Seq(Cell)]
    BY <1>2, <2>1 DEF IInv, TypeOK
  <2>3. pc' \in [Ends -> Writing \cup Reading \cup {"astray"}]
    BY <1>2 DEF IInv, TypeOK, Reading
  <2>4. Len(pipe'[a]) <= Room
    BY <1>3 DEF IInv, TypeOK
  <2>5. Len(pipe'[b]) <= Room
    BY <1>3, <2>1, RoomAssumption
  <2> QED BY <1>2, <1>3, <1>4, <2>2, <2>3, <2>4, <2>5 DEF IInv, TypeOK
<1>6. Numbered' /\ Occupied'
  BY <1>2, <1>3, <1>4 DEF IInv, Numbered, Occupied, Writing
<1>7. Whole(b)' => Stream(a, b)'
  <2> SUFFICES ASSUME Whole(b)' PROVE Stream(a, b)'
    OBVIOUS
  <2>1. Stream(a, b)
    BY <1>1, <1>2 DEF Whole, IInv, Streams
  <2> QED BY <1>2, <1>3, <2>1, WriterIdle DEF Writing
<1>8. ~Whole(a)'
  BY <1>2 DEF Whole
<1> QED BY <1>1, <1>5, <1>6, <1>7, <1>8, BothStreams DEF IInv

-----------------------------------------------------------------------------
(* Writing. *)

LEMMA CopyKeeps ==
  ASSUME IInv, NEW a \in Ends, Copy(a)
  PROVE  IInv'
<1>1. PICK b \in Ends : Peer(a) = b /\ a # b
  BY PeerEnds
<1>2. PICK s \in Sizes :
        /\ text' = [text EXCEPT ![a] =
             [by |-> a, n |-> Len(sent[a]) + 1, size |-> s]]
        /\ sent' = [sent EXCEPT ![a] = Append(sent[a],
             [by |-> a, n |-> Len(sent[a]) + 1, size |-> s])]
  BY DEF Copy
<1> DEFINE t == [by |-> a, n |-> Len(sent[a]) + 1, size |-> s]
<1>3. /\ a \in open /\ pc[a] = "loop" /\ Len(sent[a]) < Copies
      /\ pc' = [pc EXCEPT ![a] = "write type"]
      /\ open' = open /\ pipe' = pipe /\ left' = left /\ got' = got
  BY DEF Copy
<1>4. sent[a] \in Seq(Text) /\ Len(sent[a]) \in Nat
  BY TypesAt DEF IInv
<1>5. Len(sent[a]) + 1 \in 1 .. Copies
  <2>1. PICK n \in Nat : Len(sent[a]) = n
    BY <1>4
  <2>2. n < Copies
    BY <1>3, <2>1
  <2>3. n + 1 \in 1 .. Copies
    BY <2>2, CopiesAssumption
  <2> QED BY <2>1, <2>3
<1>6. t \in Text /\ t.n = Len(sent[a]) + 1
  BY <1>5 DEF Text
<1> HIDE DEF t
<1>7. /\ sent'[a] = Append(sent[a], t) /\ sent'[b] = sent[b]
      /\ text'[a] = t /\ text'[b] = text[b]
      /\ pc'[a] = "write type" /\ pc'[b] = pc[b]
  BY <1>1, <1>2, <1>3 DEF IInv, TypeOK, t
<1>8. /\ sent'[a] \in Seq(Text) /\ Len(sent'[a]) = Len(sent[a]) + 1
      /\ sent'[a] # <<>>
      /\ \A i \in 1 .. Len(sent[a]) : sent'[a][i] = sent[a][i]
      /\ sent'[a][Len(sent[a]) + 1] = t
  <2> DEFINE S == sent[a]
  <2>1. S \in Seq(Text)
    BY <1>4
  <2> HIDE DEF S
  <2>2. /\ Append(S, t) \in Seq(Text) /\ Len(Append(S, t)) = Len(S) + 1
        /\ Append(S, t) # <<>>
        /\ \A i \in 1 .. Len(S) : Append(S, t)[i] = S[i]
        /\ Append(S, t)[Len(S) + 1] = t
    BY <2>1, <1>6, AppendProperties
  <2>3. sent'[a] = Append(S, t)
    BY <1>7 DEF S
  <2>4. /\ sent'[a] \in Seq(Text) /\ Len(sent'[a]) = Len(S) + 1
        /\ sent'[a] # <<>>
        /\ \A i \in 1 .. Len(S) : sent'[a][i] = S[i]
        /\ sent'[a][Len(S) + 1] = t
    BY <2>2, <2>3
  <2> QED BY <2>4 DEF S
<1>9. \A g \in Ends : g = a \/ g = b
  BY <1>1, PeerIs
<1>10. TypeOK'
  <2>1. /\ text' \in [Ends -> Text \cup {NoText}]
        /\ sent' \in [Ends -> Seq(Text)]
        /\ pc' \in [Ends -> Writing \cup Reading \cup {"astray"}]
    BY <1>2, <1>3, <1>6, <1>7, <1>8 DEF IInv, TypeOK, Writing, t
  <2> QED BY <1>3, <1>7, <1>9, <2>1 DEF IInv, TypeOK
<1>11. Numbered'
  <2>1. \A i \in 1 .. Len(sent'[a]) : sent'[a][i].n = i
    <3> TAKE i \in 1 .. Len(sent'[a])
    <3>1. CASE i <= Len(sent[a])
      BY <3>1, <1>4, <1>8 DEF IInv, Numbered
    <3>2. CASE i = Len(sent[a]) + 1
      BY <3>2, <1>6, <1>8
    <3> QED BY <3>1, <3>2, <1>4, <1>8
  <2> QED BY <1>7, <1>9, <2>1 DEF IInv, Numbered
<1>12. Occupied'
  <2>1. sent'[a] # <<>> /\ text'[a] = sent'[a][Len(sent'[a])]
    BY <1>7, <1>8
  <2>2. a \in open' /\ pc'[a] # "read payload"
    BY <1>3, <1>7
  <2>3. /\ b \notin open' => pc'[b] = "loop"
        /\ pc'[b] \in Writing => sent'[b] # <<>> /\ text'[b] = sent'[b][Len(sent'[b])]
        /\ pc'[b] = "read payload" => text'[b] \in Text
    BY <1>3, <1>7 DEF IInv, Occupied
  <2> QED BY <1>9, <2>1, <2>2, <2>3 DEF Occupied
<1>13. Whole(b)' => Stream(a, b)'
  <2> SUFFICES ASSUME Whole(b)' PROVE Stream(a, b)'
    OBVIOUS
  <2>1. Stream(a, b)
    BY <1>1, <1>3 DEF Whole, IInv, Streams
  <2>2. ReadUpTo(b)' = ReadUpTo(b) /\ ReadUpTo(b) \in Nat
    BY <1>3, <1>7, ReadUpToType DEF ReadUpTo, IInv
  <2>3. Delivered(a, b)'
    <3>1. Len(got[b]) \in Nat
      BY TypesAt DEF IInv
    <3>2. Len(got[b]) <= Len(sent[a])
          /\ \A i \in 1 .. Len(got[b]) : got[b][i] = sent[a][i]
      BY <2>1 DEF Stream, Delivered
    <3>3. \A i \in 1 .. Len(got[b]) : got[b][i] = sent'[a][i]
      BY <3>1, <3>2, <1>4, <1>8
    <3>4. ASSUME pc[b] \in {"read length", "read payload"}
          PROVE  /\ Len(got[b]) < Len(sent'[a])
                 /\ text[b] = sent'[a][Len(got[b]) + 1]
      <4>1. Len(got[b]) < Len(sent[a]) /\ text[b] = sent[a][Len(got[b]) + 1]
        BY <2>1, <3>4 DEF Stream, Delivered
      <4>2. Len(got[b]) + 1 \in 1 .. Len(sent[a]) /\ Len(got[b]) < Len(sent[a]) + 1
        <5> HIDE DEF t
        <5>1. PICK m \in Nat, n \in Nat : Len(got[b]) = m /\ Len(sent[a]) = n
          BY <3>1, <1>4
        <5> QED BY <4>1, <5>1
      <4> QED BY <4>1, <4>2, <1>8
    <3>5. pc[b] # "astray"
      BY <2>1 DEF Stream, Delivered
    <3>6. Len(got[b]) <= Len(sent'[a])
      <4>1. PICK m \in Nat, n \in Nat : Len(got[b]) = m /\ Len(sent[a]) = n
        BY <3>1, <1>4
      <4> QED BY <3>2, <4>1, <1>8
    <3> QED BY <3>3, <3>4, <3>5, <3>6, <1>3, <1>7 DEF Delivered
  <2>4. Run(pipe[a], sent'[a], ReadUpTo(b))
    <3>1. pipe[a] \in Seq(Cell)
      BY TypesAt DEF IInv
    <3>2. Run(pipe[a], sent[a], ReadUpTo(b))
      BY <2>1 DEF Stream
    <3>3. Len(sent'[a]) \in Nat /\ Len(sent[a]) <= Len(sent'[a])
      BY <1>4, <1>8
    <3> QED BY <3>1, <3>2, <3>3, <2>2, <1>4, <1>8, RunOfMore
  <2>5. WrittenUpTo(a) = 3 * Len(sent[a]) + 2
        /\ WrittenUpTo(a)' = 3 * (Len(sent[a]) + 1) - 1
    BY <1>3, <1>7, <1>8 DEF WrittenUpTo
  <2>6. WrittenUpTo(a)' = WrittenUpTo(a)
    BY <2>5, <1>4
  <2>7. UpTo(pipe[a], ReadUpTo(b)) = WrittenUpTo(a)
    BY <1>3, <2>1 DEF Stream
  <2>8. Queued(a, b)'
    BY <1>7 DEF Queued
  <2> QED BY <1>3, <2>2, <2>3, <2>4, <2>6, <2>7, <2>8 DEF Stream
<1>14. Whole(a)' => Stream(b, a)'
  <2> SUFFICES ASSUME Whole(a)' PROVE Stream(b, a)'
    OBVIOUS
  <2>1. Stream(b, a)
    BY <1>1, <1>3 DEF Whole, IInv, Streams
  <2> QED BY <1>3, <1>7, <2>1, ReaderIdle DEF Writing
<1> QED BY <1>1, <1>10, <1>11, <1>12, <1>13, <1>14, BothStreams DEF IInv

(* What the three kinds of cells have in common when they are written.     *)
LEMMA PutKeeps ==
  ASSUME IInv, NEW a \in Ends, NEW b \in Ends, a # b, NEW kind \in Kind,
         NEW then \in Writing \cup {"loop"},
         pc[a] \in Writing, Put(a, kind),
         pc' = [pc EXCEPT ![a] = then],
         UNCHANGED <<open, text, sent, got>>,
         left' \in [Ends -> Nat], left'[b] = left[b],
         then \in {"write payload", "write more"} =>
           left'[a] \in 1 .. text[a].size,
         Whole(b) /\ Stream(a, b) => Stream(a, b)'
  PROVE  IInv'
<1>1. /\ Len(pipe[a]) < Room
      /\ pipe' = [pipe EXCEPT ![a] = Append(pipe[a], [kind |-> kind, text |-> text[a]])]
  BY DEF Put
<1> DEFINE c == [kind |-> kind, text |-> text[a]]
<1>2. /\ sent[a] \in Seq(Text) /\ Len(sent[a]) \in Nat
      /\ pipe[a] \in Seq(Cell) /\ Len(pipe[a]) \in Nat
  BY TypesAt DEF IInv
<1>3. sent[a] # <<>> /\ text[a] = sent[a][Len(sent[a])]
  BY DEF IInv, Occupied
<1>4. Len(sent[a]) \in 1 .. Len(sent[a])
  BY <1>2, <1>3, LastIndex
<1>5. text[a] \in Text
  BY <1>2, <1>3, <1>4, ElementOfSeq
<1>6. c \in Cell
  BY <1>5 DEF Cell
<1> HIDE DEF c
<1>7. /\ pipe'[a] = Append(pipe[a], c) /\ pipe'[b] = pipe[b]
      /\ pc'[a] = then /\ pc'[b] = pc[b]
  BY <1>1 DEF IInv, TypeOK, c
<1>8. pipe'[a] \in Seq(Cell) /\ Len(pipe'[a]) = Len(pipe[a]) + 1
  <2>1. /\ Append(pipe[a], c) \in Seq(Cell)
        /\ Len(Append(pipe[a], c)) = Len(pipe[a]) + 1
    BY <1>2, <1>6, AppendProperties
  <2> QED BY <1>7, <2>1
<1>9. \A g \in Ends : g = a \/ g = b
  BY PeerIs
<1>10. TypeOK'
  <2>1. pipe' \in [Ends -> Seq(Cell)]
    BY <1>1, <1>7, <1>8 DEF IInv, TypeOK, c
  <2>2. pc' \in [Ends -> Writing \cup Reading \cup {"astray"}]
    BY DEF IInv, TypeOK, Writing, Reading
  <2>3. Len(pipe'[a]) <= Room
    <3>1. PICK n \in Nat : Len(pipe[a]) = n
      BY <1>2
    <3>2. n < Room
      BY <1>1, <3>1
    <3>3. n + 1 <= Room
      <4>1. Room \in Nat
        BY RoomAssumption
      <4> QED BY <3>2, <4>1, NextFits, Zenon
    <3> QED BY <1>8, <3>1, <3>3
  <2>4. Len(pipe'[b]) <= Room
    BY <1>7 DEF IInv, TypeOK
  <2>5. pc'[b] \in {"write payload", "write more"} =>
          text'[b] \in Text /\ left'[b] \in 1 .. text'[b].size
    BY <1>7 DEF IInv, TypeOK
  <2>6. pc'[a] \in {"write payload", "write more"} =>
          text'[a] \in Text /\ left'[a] \in 1 .. text'[a].size
    BY <1>5, <1>7
  <2> QED BY <1>9, <2>1, <2>2, <2>3, <2>4, <2>5, <2>6 DEF IInv, TypeOK
<1>11. Numbered'
  BY DEF IInv, Numbered
<1>12. Occupied'
  <2>1. a \in open /\ pc'[a] # "read payload"
    BY <1>7 DEF IInv, Occupied, Writing
  <2> QED BY <1>3, <1>7, <1>9, <2>1 DEF IInv, Occupied
<1>13. Whole(b)' => Stream(a, b)'
  BY DEF Whole, IInv, Streams
<1>14. Whole(a)' => Stream(b, a)'
  <2> SUFFICES ASSUME Whole(a)' PROVE Stream(b, a)'
    OBVIOUS
  <2>1. Stream(b, a)
    BY DEF Whole, IInv, Streams
  <2> QED BY <1>7, <2>1, ReaderIdle
<1> QED BY <1>10, <1>11, <1>12, <1>13, <1>14, BothStreams DEF IInv

(* The run that a cell makes with those before it, and what it is about.   *)
NewCell(a, kind) == [kind |-> kind, text |-> text[a]]

LEMMA PutRuns ==
  ASSUME IInv, NEW a \in Ends, NEW b \in Ends, a # b, NEW kind \in Kind,
         pc[a] \in Writing, Stream(a, b), Put(a, kind),
         pc'[b] = pc[b], sent' = sent, got' = got, text' = text,
         MayFollow(pipe[a], ReadUpTo(b), NewCell(a, kind))
  PROVE  /\ Run(pipe[a], sent[a], ReadUpTo(b))'
         /\ UpTo(pipe[a], ReadUpTo(b))' = Rank(NewCell(a, kind))
         /\ Delivered(a, b)'
         /\ pipe'[a] \in Seq(Cell)
         /\ Len(pipe'[a]) = Len(pipe[a]) + 1 /\ Len(pipe[a]) \in Nat
         /\ pipe'[a][Len(pipe[a]) + 1] = NewCell(a, kind)
         /\ \A i \in 1 .. Len(pipe[a]) : pipe'[a][i] = pipe[a][i]
<1>1. /\ sent[a] \in Seq(Text) /\ Len(sent[a]) \in Nat
      /\ pipe[a] \in Seq(Cell) /\ Len(pipe[a]) \in Nat
      /\ ReadUpTo(b) \in Nat
  BY TypesAt, ReadUpToType DEF IInv
<1>2. sent[a] # <<>> /\ text[a] = sent[a][Len(sent[a])]
  BY DEF IInv, Occupied
<1>3. Len(sent[a]) \in 1 .. Len(sent[a])
  BY <1>1, <1>2, LastIndex
<1>4. text[a] \in Text /\ text[a].n = Len(sent[a])
  BY <1>1, <1>2, <1>3, ElementOfSeq DEF IInv, Numbered
<1> DEFINE c == NewCell(a, kind)
<1>5. c \in Cell /\ c.kind = kind /\ c.text = text[a]
  BY <1>4 DEF Cell, NewCell
<1>6. pipe'[a] = Append(pipe[a], c)
  BY DEF Put, IInv, TypeOK, NewCell
<1>8. ReadUpTo(b)' = ReadUpTo(b)
  BY DEF ReadUpTo
<1>9. Delivered(a, b)'
  BY DEF Stream, Delivered
<1>10. Run(pipe[a], sent[a], ReadUpTo(b))
  BY DEF Stream
<1>11. /\ Run(Append(pipe[a], c), sent[a], ReadUpTo(b))
       /\ UpTo(Append(pipe[a], c), ReadUpTo(b)) = Rank(c)
  <2>1. c.text.n \in 1 .. Len(sent[a]) /\ c.text = sent[a][c.text.n]
    BY <1>2, <1>3, <1>4, <1>5
  <2> DEFINE p == pipe[a]
  <2> DEFINE S == sent[a]
  <2> DEFINE from == ReadUpTo(b)
  <2>4. p \in Seq(Cell) /\ from \in Nat /\ Run(p, S, from)
    BY <1>1, <1>10
  <2>5. c.text.n \in 1 .. Len(S) /\ c.text = S[c.text.n]
    BY <2>1
  <2>6. MayFollow(p, from, c)
    OBVIOUS
  <2> HIDE DEF p, S, from, c
  <2>8. Run(Append(p, c), S, from) /\ UpTo(Append(p, c), from) = Rank(c)
    BY <1>5, <2>4, <2>5, <2>6, RunAppend
  <2> QED BY <2>8 DEF p, S, from
<1>12. /\ Append(pipe[a], c) \in Seq(Cell)
       /\ Len(Append(pipe[a], c)) = Len(pipe[a]) + 1
       /\ Append(pipe[a], c)[Len(pipe[a]) + 1] = c
       /\ \A i \in 1 .. Len(pipe[a]) : Append(pipe[a], c)[i] = pipe[a][i]
  BY <1>1, <1>5, AppendProperties
<1> QED BY <1>1, <1>6, <1>8, <1>9, <1>11, <1>12

(* The text being written is the last one sent.                            *)
LEMMA WriterAt ==
  ASSUME IInv, NEW a \in Ends, pc[a] \in Writing
  PROVE  /\ a \in open
         /\ text[a] \in Text /\ text[a].n = Len(sent[a])
         /\ text[a].size \in Nat \ {0}
         /\ Len(sent[a]) \in Nat \ {0}
<1>1. a \in open
  BY DEF IInv, Occupied, Writing
<1>2. sent[a] \in Seq(Text)
  BY TypesAt DEF IInv
<1>3. sent[a] # <<>> /\ text[a] = sent[a][Len(sent[a])]
  BY DEF IInv, Occupied
<1>4. Len(sent[a]) \in Nat \ {0} /\ Len(sent[a]) \in 1 .. Len(sent[a])
  BY <1>2, <1>3, LastIndex
<1>5. text[a] \in Text /\ text[a].n = Len(sent[a])
  BY <1>2, <1>3, <1>4, ElementOfSeq DEF IInv, Numbered
<1> QED BY <1>1, <1>4, <1>5, TextType

(* Blocks of a text have the rank of its end.                              *)
LEMMA BlockRank ==
  ASSUME NEW c, NEW t, IsBlock(c, t)
  PROVE  Rank(c) = 3 * t.n + 2
BY DEF IsBlock, Rank

LEMMA WriteTypeKeeps ==
  ASSUME IInv, NEW a \in Ends, WriteType(a)
  PROVE  IInv'
<1>1. PICK b \in Ends : Peer(a) = b /\ a # b
  BY PeerEnds
<1>2. /\ pc[a] = "write type" /\ Put(a, "type")
      /\ pc' = [pc EXCEPT ![a] = "write length"]
      /\ UNCHANGED <<open, text, left, sent, got>>
  BY DEF WriteType
<1>3. "type" \in Kind /\ pc[a] \in Writing /\ "write length" \in Writing
  BY <1>2 DEF Kind, Writing
<1>4. ASSUME Stream(a, b) PROVE Stream(a, b)'
  <2> DEFINE c == NewCell(a, "type")
  <2>0. c.kind = "type" /\ c.text = text[a]
    BY DEF NewCell
  <2> HIDE DEF c
  <2>1. a \in open /\ text[a].n = Len(sent[a]) /\ Len(sent[a]) \in Nat \ {0}
    BY <1>3, WriterAt
  <2>2. UpTo(pipe[a], ReadUpTo(b)) = 3 * Len(sent[a]) - 1
    BY <1>2, <1>4, <2>1 DEF Stream, WrittenUpTo
  <2>3. Rank(c) = 3 * Len(sent[a])
    BY <2>0, <2>1 DEF Rank
  <2>4. pc'[a] = "write length" /\ pc'[b] = pc[b]
    BY <1>1, <1>2 DEF IInv, TypeOK
  <2>5. Rank(c) = UpTo(pipe[a], ReadUpTo(b)) + 1
    BY <2>1, <2>2, <2>3
  <2>7. /\ Run(pipe[a], sent[a], ReadUpTo(b))'
        /\ UpTo(pipe[a], ReadUpTo(b))' = Rank(c)
        /\ Delivered(a, b)'
    <3>1. sent' = sent /\ got' = got /\ text' = text
      BY <1>2
    <3>2. MayFollow(pipe[a], ReadUpTo(b), NewCell(a, "type"))
      BY <2>0, <2>5 DEF MayFollow, c
    <3> QED BY <1>1, <1>2, <1>3, <1>4, <2>4, <3>1, <3>2, PutRuns DEF c
  <2>8. WrittenUpTo(a)' = 3 * Len(sent[a])
    BY <1>2, <2>4 DEF WrittenUpTo
  <2>9. Queued(a, b)'
    BY <2>4 DEF Queued
  <2> QED BY <2>3, <2>7, <2>8, <2>9 DEF Stream
<1>5. left' \in [Ends -> Nat] /\ left'[b] = left[b]
  BY <1>2 DEF IInv, TypeOK
<1> QED BY <1>1, <1>2, <1>3, <1>4, <1>5, PutKeeps

LEMMA WriteLengthKeeps ==
  ASSUME IInv, NEW a \in Ends, WriteLength(a)
  PROVE  IInv'
<1>1. PICK b \in Ends : Peer(a) = b /\ a # b
  BY PeerEnds
<1>2. /\ pc[a] = "write length" /\ Put(a, "length")
      /\ pc' = [pc EXCEPT ![a] = "write payload"]
      /\ left' = [left EXCEPT ![a] = text[a].size]
      /\ UNCHANGED <<open, text, sent, got>>
  BY DEF WriteLength
<1>3. "length" \in Kind /\ pc[a] \in Writing /\ "write payload" \in Writing
  BY <1>2 DEF Kind, Writing
<1>4. /\ a \in open /\ text[a].n = Len(sent[a]) /\ Len(sent[a]) \in Nat \ {0}
      /\ text[a].size \in Nat \ {0}
  BY <1>3, WriterAt
<1>5. /\ left' \in [Ends -> Nat] /\ left'[b] = left[b]
      /\ left'[a] \in 1 .. text[a].size /\ left'[a] = text[a].size
  <2>1. PICK n \in Nat \ {0} : text[a].size = n
    BY <1>4
  <2>2. left' = [left EXCEPT ![a] = n] /\ left \in [Ends -> Nat]
    BY <1>2, <2>1 DEF IInv, TypeOK
  <2>3. left' \in [Ends -> Nat] /\ left'[b] = left[b] /\ left'[a] = n
    BY <1>1, <2>2
  <2> QED BY <2>1, <2>3
<1>6. ASSUME Stream(a, b) PROVE Stream(a, b)'
  <2> DEFINE c == NewCell(a, "length")
  <2>0. c.kind = "length" /\ c.text = text[a]
    BY DEF NewCell
  <2> HIDE DEF c
  <2>1. UpTo(pipe[a], ReadUpTo(b)) = 3 * Len(sent[a])
    BY <1>2, <1>4, <1>6 DEF Stream, WrittenUpTo
  <2>2. Rank(c) = 3 * Len(sent[a]) + 1
    BY <1>4, <2>0 DEF Rank
  <2>3. pc'[a] = "write payload" /\ pc'[b] = pc[b]
    BY <1>1, <1>2 DEF IInv, TypeOK
  <2>4. Rank(c) = UpTo(pipe[a], ReadUpTo(b)) + 1
    BY <1>4, <2>1, <2>2
  <2>6. /\ Run(pipe[a], sent[a], ReadUpTo(b))'
        /\ UpTo(pipe[a], ReadUpTo(b))' = Rank(c)
        /\ Delivered(a, b)'
        /\ pipe'[a] \in Seq(Cell)
    <3>1. sent' = sent /\ got' = got /\ text' = text
      BY <1>2
    <3>2. MayFollow(pipe[a], ReadUpTo(b), NewCell(a, "length"))
      BY <2>0, <2>4 DEF MayFollow, c
    <3> QED BY <1>1, <1>2, <1>3, <1>6, <2>3, <3>1, <3>2, PutRuns DEF c
  <2>7. WrittenUpTo(a)' = 3 * Len(sent[a]) + 1
    BY <1>2, <2>3 DEF WrittenUpTo
  <2>8. \A i \in 1 .. Len(pipe'[a]) : ~IsBlock(pipe'[a][i], text[a])
    <3> SUFFICES ASSUME NEW i \in 1 .. Len(pipe'[a]), IsBlock(pipe'[a][i], text[a])
                 PROVE  FALSE
      OBVIOUS
    <3>1. /\ Len(pipe'[a]) \in Nat /\ pipe'[a] # <<>>
          /\ Len(pipe'[a]) \in 1 .. Len(pipe'[a])
      BY <2>6, RunCells, EmptySeq
    <3>2. Rank(pipe'[a][i]) <= Rank(pipe'[a][Len(pipe'[a])])
      BY <2>6, <3>1 DEF Run, Ascends
    <3>3. Rank(pipe'[a][Len(pipe'[a])]) = 3 * Len(sent[a]) + 1
      BY <2>2, <2>6, <3>1 DEF UpTo
    <3>4. Rank(pipe'[a][i]) = 3 * Len(sent[a]) + 2
      BY <1>4, BlockRank
    <3> QED BY <1>4, <3>2, <3>3, <3>4
  <2>9. Queued(a, b)'
    BY <1>2, <2>3, <2>8 DEF Queued
  <2> QED BY <2>2, <2>6, <2>7, <2>9 DEF Stream
<1> QED BY <1>1, <1>2, <1>3, <1>5, <1>6, PutKeeps

LEMMA WritePayloadKeeps ==
  ASSUME IInv, NEW a \in Ends, WritePayload(a)
  PROVE  IInv'
<1>1. PICK b \in Ends : Peer(a) = b /\ a # b
  BY PeerEnds
<1> DEFINE then == IF left[a] = 1 THEN "loop" ELSE "write more"
<1>2. /\ pc[a] \in {"write payload", "write more"} /\ Put(a, "payload")
      /\ pc' = [pc EXCEPT ![a] = then]
      /\ left' = [left EXCEPT ![a] = left[a] - 1]
      /\ UNCHANGED <<open, text, sent, got>>
  BY DEF WritePayload
<1>3. "payload" \in Kind /\ pc[a] \in Writing /\ then \in Writing \cup {"loop"}
  BY <1>2 DEF Kind, Writing
<1>4. /\ a \in open /\ text[a].n = Len(sent[a]) /\ Len(sent[a]) \in Nat \ {0}
      /\ text[a].size \in Nat \ {0}
  BY <1>3, WriterAt
<1>5. left[a] \in 1 .. text[a].size
  BY <1>2 DEF IInv, TypeOK
<1>6. left[a] - 1 \in Nat /\ (left[a] # 1 => left[a] - 1 \in 1 .. text[a].size)
  BY <1>4, <1>5
<1>7. /\ left' \in [Ends -> Nat] /\ left'[b] = left[b]
      /\ left'[a] = left[a] - 1
      /\ then = "write more" => left'[a] \in 1 .. text[a].size
  BY <1>1, <1>2, <1>6 DEF IInv, TypeOK
<1>8. then # "write payload"
  OBVIOUS
<1>9. ASSUME Stream(a, b) PROVE Stream(a, b)'
  <2> DEFINE c == NewCell(a, "payload")
  <2>0. c.kind = "payload" /\ c.text = text[a]
    BY DEF NewCell
  <2> HIDE DEF c
  <2> DEFINE up == UpTo(pipe[a], ReadUpTo(b))
  <2>1. Rank(c) = 3 * Len(sent[a]) + 2
    BY <1>4, <2>0 DEF Rank
  <2>2. pc'[a] = then /\ pc'[b] = pc[b]
    BY <1>1, <1>2 DEF IInv, TypeOK
  <2>4. /\ pipe[a] \in Seq(Cell) /\ Len(pipe[a]) \in Nat
        /\ Len(got[b]) \in Nat /\ ReadUpTo(b) \in Nat
        /\ 3 * Len(got[b]) + 2 <= ReadUpTo(b)
        /\ ReadUpTo(b) <= 3 * Len(got[b]) + 4
    BY TypesAt, ReadUpToType DEF IInv
  <2>5. up = WrittenUpTo(a) /\ ReadUpTo(b) <= up /\ up \in Nat
    BY <1>4, <1>9, <2>4, UpToGrows DEF Stream
  <2>6. pc[a] = "write payload" => up = 3 * Len(sent[a]) + 1
    BY <2>5 DEF WrittenUpTo
  <2>7. pc[a] = "write more" => up = 3 * Len(sent[a]) + 2
    BY <2>5 DEF WrittenUpTo
  <2>8. Len(got[b]) < Len(sent[a])
    <3>1. CASE pc[a] = "write payload"
      <4> HIDE DEF up
      <4>1. PICK m \in Nat, n \in Nat, r \in Nat :
              Len(got[b]) = m /\ Len(sent[a]) = n /\ ReadUpTo(b) = r
        BY <1>4, <2>4
      <4>2. 3 * m + 2 <= r /\ r <= 3 * n + 1
        BY <2>4, <2>5, <2>6, <3>1, <4>1
      <4> QED BY <4>1, <4>2
    <3>2. CASE pc[a] = "write more"
      BY <1>9, <3>2 DEF Stream, Queued
    <3> QED BY <1>2, <3>1, <3>2
  <2>9. \/ Rank(c) = up + 1
        \/ pipe[a] # <<>> /\ Rank(c) = Rank(pipe[a][Len(pipe[a])])
    <3>1. CASE pc[a] = "write payload"
      <4> HIDE DEF up
      <4>1. PICK n \in Nat : Len(sent[a]) = n
        BY <1>4
      <4>2. Rank(c) = 3 * n + 2 /\ up = 3 * n + 1
        BY <2>1, <2>6, <3>1, <4>1
      <4> QED BY <4>2
    <3>2. CASE pc[a] = "write more"
      <4>1. pipe[a] # <<>>
        <5> SUFFICES ASSUME pipe[a] = <<>> PROVE FALSE
          OBVIOUS
        <5>1. ReadUpTo(b) = 3 * Len(sent[a]) + 2
          BY <2>7, <3>2 DEF UpTo
        <5> QED BY <1>4, <2>4, <2>8, <5>1
      <4>2. Rank(pipe[a][Len(pipe[a])]) = 3 * Len(sent[a]) + 2
        BY <2>7, <3>2, <4>1 DEF UpTo
      <4> QED BY <2>1, <4>1, <4>2
    <3> QED BY <1>2, <3>1, <3>2
  <2>10. \A i \in 1 .. Len(pipe[a]) :
           IsBlock(pipe[a][i], text[a]) => Len(pipe[a]) - i < text[a].size - left[a]
    BY <1>2, <1>9 DEF Stream, Queued
  <2>11. \A i \in 1 .. Len(pipe[a]) :
           IsBlock(pipe[a][i], text[a]) => Len(pipe[a]) + 1 - i < text[a].size
    BY <1>4, <1>5, <2>4, <2>10
  <2>12. /\ Run(pipe[a], sent[a], ReadUpTo(b))'
         /\ UpTo(pipe[a], ReadUpTo(b))' = Rank(c)
         /\ Delivered(a, b)'
         /\ Len(pipe'[a]) = Len(pipe[a]) + 1
         /\ \A i \in 1 .. Len(pipe[a]) : pipe'[a][i] = pipe[a][i]
    <3>1. sent' = sent /\ got' = got /\ text' = text
      BY <1>2
    <3>2. MayFollow(pipe[a], ReadUpTo(b), NewCell(a, "payload"))
      BY <2>0, <2>9, <2>11 DEF MayFollow, c
    <3> QED BY <1>1, <1>2, <1>3, <1>9, <2>2, <3>1, <3>2, PutRuns DEF c
  <2>13. WrittenUpTo(a)' = 3 * Len(sent[a]) + 2
    <3>1. pc'[a] \in {"loop", "write more"} /\ sent' = sent
      BY <1>2, <2>2
    <3> QED BY <3>1 DEF WrittenUpTo
  <2>14. \A i \in 1 .. Len(pipe'[a]) :
           IsBlock(pipe'[a][i], text[a]) =>
             Len(pipe'[a]) - i < text[a].size - (left[a] - 1)
    <3> SUFFICES ASSUME NEW i \in 1 .. Len(pipe'[a]), IsBlock(pipe'[a][i], text[a])
                 PROVE  Len(pipe'[a]) - i < text[a].size - (left[a] - 1)
      OBVIOUS
    <3>1. CASE i = Len(pipe[a]) + 1
      BY <3>1, <1>4, <1>5, <2>4, <2>12
    <3>2. CASE i \in 1 .. Len(pipe[a])
      <4>1. Len(pipe[a]) - i < text[a].size - left[a]
        BY <3>2, <2>10, <2>12
      <4>2. PICK l \in Nat, z \in Nat, r \in Nat :
              Len(pipe[a]) = l /\ text[a].size = z /\ left[a] = r
        BY <1>4, <1>5, <2>4
      <4>3. l - i < z - r /\ i \in 1 .. l + 1
        BY <2>12, <4>1, <4>2
      <4>4. l + 1 - i < z - (r - 1)
        BY <4>3
      <4> QED BY <2>12, <4>2, <4>4
    <3> QED BY <3>1, <3>2, <2>4, <2>12
  <2>15. Queued(a, b)'
    BY <1>2, <1>7, <2>8, <2>14 DEF Queued
  <2> QED BY <2>1, <2>12, <2>13, <2>15 DEF Stream
<1> QED BY <1>1, <1>2, <1>3, <1>7, <1>8, <1>9, PutKeeps

(* A write cut short ends between two cells.                               *)
LEMMA WriteShortKeeps ==
  ASSUME IInv, NEW a \in Ends, WriteShort(a)
  PROVE  IInv'
<1>1. PICK b \in Ends : Peer(a) = b /\ a # b
  BY PeerEnds
<1>2. /\ pc[a] = "write more" /\ pc' = [pc EXCEPT ![a] = "loop"]
      /\ UNCHANGED <<open, pipe, text, left, sent, got>>
  BY DEF WriteShort
<1>3. pc'[a] = "loop" /\ pc'[b] = pc[b]
  BY <1>1, <1>2 DEF IInv, TypeOK
<1>4. \A g \in Ends : g = a \/ g = b
  BY <1>1, PeerIs
<1>5. TypeOK'
  <2>1. pc' \in [Ends -> Writing \cup Reading \cup {"astray"}]
    BY <1>2 DEF IInv, TypeOK, Reading
  <2> QED BY <1>2, <1>3, <1>4, <2>1 DEF IInv, TypeOK
<1>6. Numbered' /\ Occupied'
  BY <1>2, <1>3, <1>4 DEF IInv, Numbered, Occupied, Writing
<1>7. Whole(b)' => Stream(a, b)'
  <2> SUFFICES ASSUME Whole(b)' PROVE Stream(a, b)'
    OBVIOUS
  <2>1. Stream(a, b)
    BY <1>1, <1>2 DEF Whole, IInv, Streams
  <2> QED BY <1>2, <1>3, <2>1, WriterIdle DEF Writing
<1>8. Whole(a)' => Stream(b, a)'
  <2> SUFFICES ASSUME Whole(a)' PROVE Stream(b, a)'
    OBVIOUS
  <2>1. Stream(b, a)
    BY <1>1, <1>2 DEF Whole, IInv, Streams
  <2> QED BY <1>2, <1>3, <2>1, ReaderIdle DEF Writing
<1> QED BY <1>1, <1>5, <1>6, <1>7, <1>8, BothStreams DEF IInv

-----------------------------------------------------------------------------
(* Reading. *)

LEMMA TakeType ==
  ASSUME TypeOK, NEW a \in Ends, NEW b \in Ends, a # b, Peer(a) = b,
         NEW k \in 1 .. Len(pipe[b]), Take(a, k)
  PROVE  /\ pipe' \in [Ends -> Seq(Cell)] /\ pipe'[a] = pipe[a]
         /\ pipe'[b] = SubSeq(pipe[b], k + 1, Len(pipe[b]))
         /\ pipe'[b] \in Seq(Cell)
         /\ Len(pipe[b]) \in Nat /\ Len(pipe'[b]) = Len(pipe[b]) - k
         /\ \A i \in 1 .. Len(pipe[b]) - k : pipe'[b][i] = pipe[b][k + i]
         /\ Len(pipe'[b]) <= Room
<1> DEFINE p == pipe[b]
<1> DEFINE q == SubSeq(p, k + 1, Len(p))
<1>1. p \in Seq(Cell) /\ Len(p) \in Nat /\ Len(p) <= Room
  BY TypesAt DEF TypeOK
<1>2. pipe' = [pipe EXCEPT ![b] = q]
  BY DEF Take
<1>3. /\ q \in Seq(Cell) /\ Len(q) = Len(p) - k
      /\ \A i \in 1 .. Len(p) - k : q[i] = p[k + i]
  <2>0. k \in 1 .. Len(p)
    OBVIOUS
  <2> HIDE DEF p
  <2>1. \A i \in k + 1 .. Len(p) : p[i] \in Cell
    <3>1. \A i \in 1 .. Len(p) : p[i] \in Cell
      BY <1>1, ElementOfSeq
    <3>2. \A i \in k + 1 .. Len(p) : i \in 1 .. Len(p)
      BY <1>1, <2>0
    <3> QED BY <3>1, <3>2
  <2>2. /\ q \in Seq(Cell)
        /\ Len(q) = IF k + 1 <= Len(p) THEN Len(p) - (k + 1) + 1 ELSE 0
        /\ \A i \in 1 .. Len(p) - (k + 1) + 1 : q[i] = p[k + 1 + i - 1]
    BY <1>1, <2>0, <2>1, SubSeqProperties
  <2> HIDE DEF q
  <2>3. Len(q) = Len(p) - k
    BY <1>1, <2>0, <2>2
  <2>4. \A i \in 1 .. Len(p) - k : q[i] = p[k + i]
    <3> TAKE i \in 1 .. Len(p) - k
    <3>1. i \in 1 .. Len(p) - (k + 1) + 1 /\ k + 1 + i - 1 = k + i
      BY <1>1, <2>0
    <3> QED BY <2>2, <3>1
  <2> QED BY <2>2, <2>3, <2>4
<1>4. k \in 1 .. Len(p)
  OBVIOUS
<1>5. pipe \in [Ends -> Seq(Cell)]
  BY DEF TypeOK
<1> HIDE DEF q
<1>6. pipe' \in [Ends -> Seq(Cell)] /\ pipe'[a] = pipe[a] /\ pipe'[b] = q
  BY <1>2, <1>3, <1>5
<1>7. Len(q) <= Room
  <2> HIDE DEF p
  <2>1. PICK l \in Nat : Len(p) = l
    BY <1>1
  <2>2. k \in 1 .. l /\ Len(q) = l - k /\ l <= Room
    BY <1>1, <1>3, <1>4, <2>1
  <2>3. Room \in Nat
    BY RoomAssumption
  <2>4. l - k <= Room
    BY <2>2, <2>3
  <2> QED BY <2>2, <2>4
<1> QED BY <1>1, <1>3, <1>6, <1>7 DEF q

(* What the three reads have in common: the stream back is not touched.    *)
LEMMA ReadKeeps ==
  ASSUME IInv, NEW a \in Ends, NEW b \in Ends, a # b, Peer(a) = b,
         NEW k \in 1 .. Len(pipe[b]), Take(a, k),
         NEW then \in Reading \cup {"astray"}, pc[a] \in Reading, a \in open,
         pc' = [pc EXCEPT ![a] = then],
         text' \in [Ends -> Text \cup {NoText}], text'[b] = text[b],
         then = "read payload" => text'[a] \in Text,
         got' \in [Ends -> Seq(Text \cup {Torn})], got'[b] = got[b],
         UNCHANGED <<open, left, sent>>,
         Whole(a)' => Stream(b, a)'
  PROVE  IInv'
<1>1. /\ pipe' \in [Ends -> Seq(Cell)] /\ pipe'[a] = pipe[a]
      /\ Len(pipe'[b]) <= Room
  BY TakeType DEF IInv
<1>2. pc'[a] = then /\ pc'[b] = pc[b]
  BY DEF IInv, TypeOK
<1>3. \A g \in Ends : g = a \/ g = b
  BY PeerIs
<1>4. {pc[a], then} \cap Writing = {}
  BY DEF Reading, Writing
<1>5. TypeOK'
  <2>1. pc' \in [Ends -> Writing \cup Reading \cup {"astray"}]
    BY DEF IInv, TypeOK
  <2>2. Len(pipe'[a]) <= Room
    BY <1>1 DEF IInv, TypeOK
  <2>3. pc'[b] \in {"write payload", "write more"} =>
          text'[b] \in Text /\ left'[b] \in 1 .. text'[b].size
    BY <1>2 DEF IInv, TypeOK
  <2>4. pc'[a] \notin {"write payload", "write more"}
    BY <1>2, <1>4 DEF Writing
  <2> QED BY <1>1, <1>3, <2>1, <2>2, <2>3, <2>4 DEF IInv, TypeOK
<1>6. Numbered'
  BY DEF IInv, Numbered
<1>7. Occupied'
  <2>1. /\ b \notin open => pc'[b] = "loop"
        /\ pc'[b] \in Writing => sent[b] # <<>> /\ text'[b] = sent[b][Len(sent[b])]
        /\ pc'[b] = "read payload" => text'[b] \in Text
    BY <1>2 DEF IInv, Occupied
  <2>2. /\ a \in open /\ pc'[a] \notin Writing
        /\ pc'[a] = "read payload" => text'[a] \in Text
    BY <1>2, <1>4
  <2> QED BY <1>3, <2>1, <2>2 DEF Occupied
<1>8. Whole(b)' => Stream(a, b)'
  <2> SUFFICES ASSUME Whole(b)' PROVE Stream(a, b)'
    OBVIOUS
  <2>1. Stream(a, b)
    BY DEF Whole, IInv, Streams
  <2>2. pc'[a] \notin Writing /\ pc[a] \notin Writing
    BY <1>2, <1>4
  <2> QED BY <1>1, <1>2, <2>1, <2>2, WriterIdle
<1> QED BY <1>5, <1>6, <1>7, <1>8, BothStreams DEF IInv

LEMMA ShiftIndex ==
  \A l \in Nat : \A k \in 1 .. l : \A i \in 1 .. l - k :
    k + i \in 1 .. l /\ (l - k) - i = l - (k + i)
OBVIOUS

(* The stream that is read, behind the cells taken.                        *)
LEMMA TakenStream ==
  ASSUME IInv, NEW a \in Ends, NEW b \in Ends, a # b, Peer(a) = b,
         NEW k \in 1 .. Len(pipe[b]), Take(a, k), Stream(b, a),
         k < Len(pipe[b]) => Rank(pipe[b][k + 1]) = Rank(pipe[b][k]) + 1,
         ReadUpTo(a)' = Rank(pipe[b][k]),
         Delivered(b, a)',
         pc'[b] = pc[b], text'[b] = text[b], UNCHANGED <<open, left, sent>>,
         pc[b] = "write more" => Len(got'[a]) < Len(sent[b])
  PROVE  Stream(b, a)'
<1> DEFINE p == pipe[b]
<1> DEFINE S == sent[b]
<1> DEFINE from == ReadUpTo(a)
<1> DEFINE q == SubSeq(p, k + 1, Len(p))
<1>1. /\ pipe'[b] = q
      /\ Len(p) \in Nat /\ Len(pipe'[b]) = Len(p) - k
      /\ \A i \in 1 .. Len(p) - k : pipe'[b][i] = p[k + i]
  BY TakeType DEF IInv
<1>2. p \in Seq(Cell) /\ from \in Nat /\ Run(p, S, from) /\ k \in 1 .. Len(p)
  BY TypesAt, ReadUpToType DEF IInv, Stream
<1>3. k < Len(p) => Rank(p[k + 1]) = Rank(p[k]) + 1
  OBVIOUS
<1>4. Run(q, S, Rank(p[k])) /\ UpTo(q, Rank(p[k])) = UpTo(p, from)
  <2> HIDE DEF p, S, from
  <2> QED BY <1>2, <1>3, RunTake
<1>5. b \in open => UpTo(p, from) = WrittenUpTo(b)
  BY DEF Stream
<1>6. WrittenUpTo(b)' = WrittenUpTo(b)
  BY DEF WrittenUpTo
<1>7. Run(pipe[b], sent[b], ReadUpTo(a))'
  BY <1>1, <1>4
<1>8. (b \in open => UpTo(pipe[b], ReadUpTo(a)) = WrittenUpTo(b))'
  BY <1>1, <1>4, <1>5, <1>6
<1>9. ASSUME pc[b] \in {"write payload", "write more"}
      PROVE  \A i \in 1 .. Len(pipe'[b]) :
               IsBlock(pipe'[b][i], text[b]) => Len(pipe'[b]) - i < text[b].size - left[b]
  <2> SUFFICES ASSUME NEW i \in 1 .. Len(pipe'[b]), IsBlock(pipe'[b][i], text[b])
               PROVE  Len(pipe'[b]) - i < text[b].size - left[b]
    OBVIOUS
  <2>1. \A j \in 1 .. Len(p) :
          IsBlock(p[j], text[b]) => Len(p) - j < text[b].size - left[b]
    BY <1>9 DEF Stream, Queued
  <2> HIDE DEF p, q
  <2>2. PICK l \in Nat : Len(p) = l
    BY <1>1
  <2>3. /\ i \in 1 .. l - k /\ k + i \in 1 .. l /\ Len(pipe'[b]) - i = l - (k + i)
    <3>1. k \in 1 .. l /\ Len(pipe'[b]) = l - k
      BY <1>1, <1>2, <2>2
    <3>2. i \in 1 .. l - k
      BY <3>1, Zenon
    <3>3. k + i \in 1 .. l /\ (l - k) - i = l - (k + i)
      BY <3>1, <3>2, ShiftIndex, Zenon
    <3> QED BY <3>1, <3>2, <3>3, Zenon
  <2>4. IsBlock(p[k + i], text[b])
    BY <1>1, <2>2, <2>3
  <2>5. l - (k + i) < text[b].size - left[b]
    BY <2>1, <2>2, <2>3, <2>4
  <2> QED BY <2>3, <2>5
<1>10. Queued(b, a)'
  BY <1>9 DEF Queued
<1> QED BY <1>7, <1>8, <1>10 DEF Stream

(* The first cell that has arrived.                                        *)
LEMMA HeadCell ==
  ASSUME TypeOK, NEW b \in Ends, pipe[b] # <<>>
  PROVE  /\ pipe[b] \in Seq(Cell) /\ Len(pipe[b]) \in Nat \ {0}
         /\ 1 \in 1 .. Len(pipe[b])
         /\ Head(pipe[b]) = pipe[b][1]
         /\ pipe[b][1] \in Cell /\ pipe[b][1].text \in Text
<1> DEFINE p == pipe[b]
<1>1. p \in Seq(Cell) /\ p # <<>>
  BY TypesAt
<1> HIDE DEF p
<1>2. Len(p) \in Nat \ {0} /\ 1 \in 1 .. Len(p) /\ Head(p) = p[1]
  BY <1>1, LastIndex
<1>3. p[1] \in Cell
  BY <1>1, <1>2, ElementOfSeq
<1>4. p[1].text \in Text
  BY <1>3 DEF Cell
<1> QED BY <1>1, <1>2, <1>3, <1>4 DEF p

LEMMA NextRank ==
  \A n \in Nat :
    /\ n + 1 \in Nat
    /\ (3 * n + 2) + 1 = 3 * (n + 1) /\ (3 * n + 2) + 1 = 3 * n + 3
    /\ (3 * n + 3) + 1 = 3 * (n + 1) + 1 /\ (3 * n + 3) + 1 = 3 * n + 4
    /\ (3 * n + 4) + 1 = 3 * (n + 1) + 2
OBVIOUS

LEMMA Below ==
  \A l \in Nat : /\ \A n \in Nat : n + 1 \in 1 .. l => n < l
                 /\ \A n \in Nat : n + 1 \in 1 .. l /\ n + 1 # l => n + 1 < l
                 /\ \A k \in 1 .. l : k < l => k \in 1 .. l - 1
OBVIOUS

(* A reader in step finds the part of the header that it waits for.        *)
LEMMA HeaderKeeps ==
  ASSUME IInv, NEW a \in Ends, NEW at, NEW kind, NEW then,
         \/ at = "loop" /\ kind = "type" /\ then = "read length"
         \/ at = "read length" /\ kind = "length" /\ then = "read payload",
         ReadHeader(a, at, kind, then)
  PROVE  IInv'
<1>1. PICK b \in Ends : Peer(a) = b /\ a # b
  BY PeerEnds
<1> DEFINE p == pipe[b]
<1> DEFINE c == p[1]
<1> DEFINE S == sent[b]
<1> DEFINE next == IF c.kind = kind THEN then ELSE "astray"
<1>2. p # <<>> /\ a \in open /\ pc[a] = at /\ Take(a, 1)
  BY <1>1 DEF ReadHeader, Arrived
<1>3. /\ p \in Seq(Cell) /\ Len(p) \in Nat \ {0} /\ 1 \in 1 .. Len(p)
      /\ Head(p) = c /\ c \in Cell /\ c.text \in Text
  BY <1>2, HeadCell DEF IInv
<1>4. /\ pc' = [pc EXCEPT ![a] = next]
      /\ text' = [text EXCEPT ![a] = c.text]
      /\ UNCHANGED <<open, left, sent, got>>
  <2>1. Head(Arrived(a)) = c
    BY <1>1, <1>3 DEF Arrived
  <2> QED BY <2>1 DEF ReadHeader
<1>5. next \in Reading \cup {"astray"} /\ pc[a] \in Reading
  BY <1>2 DEF Reading
<1>6. /\ text' \in [Ends -> Text \cup {NoText}] /\ text'[b] = text[b]
      /\ text'[a] = c.text
      /\ got' \in [Ends -> Seq(Text \cup {Torn})]
  BY <1>1, <1>3, <1>4 DEF IInv, TypeOK
<1>7. pc'[a] = next /\ pc'[b] = pc[b]
  BY <1>1, <1>4 DEF IInv, TypeOK
<1>8. ASSUME Whole(a)' PROVE Stream(b, a)'
  <2>1. Stream(b, a)
    BY <1>1, <1>4, <1>8 DEF Whole, IInv, Streams
  <2>2. PICK n \in Nat : Len(got[a]) = n
    BY TypesAt DEF IInv
  <2>3. Rank(c) = ReadUpTo(a) + 1
    BY <1>2, <2>1 DEF Stream, Run, Starts
  <2>4. c.text.n \in 1 .. Len(S) /\ c.text = S[c.text.n]
    BY <1>3, <2>1 DEF Stream, Run, Carries
  <2>5. /\ c.kind = kind /\ c.text.n = n + 1
        /\ at = "loop" => Rank(c) = 3 * n + 3
        /\ at = "read length" => Rank(c) = 3 * n + 4
    <3> HIDE DEF c
    <3>1. CASE at = "loop"
      <4>1. ReadUpTo(a) = 3 * n + 2
        BY <1>2, <2>2, <3>1 DEF ReadUpTo
      <4>2. Rank(c) = 3 * (n + 1) /\ Rank(c) = 3 * n + 3 /\ n + 1 \in Nat
        BY <2>3, <4>1, NextRank, Zenon
      <4>3. c.kind = "type" /\ c.text.n = n + 1
        BY <1>3, <4>2, RankTells
      <4> QED BY <3>1, <4>2, <4>3
    <3>2. CASE at = "read length"
      <4>1. ReadUpTo(a) = 3 * n + 3
        BY <1>2, <2>2, <3>2 DEF ReadUpTo
      <4>2. Rank(c) = 3 * (n + 1) + 1 /\ Rank(c) = 3 * n + 4 /\ n + 1 \in Nat
        BY <2>3, <4>1, NextRank, Zenon
      <4>3. c.kind = "length" /\ c.text.n = n + 1
        BY <1>3, <4>2, RankTells
      <4> QED BY <3>2, <4>2, <4>3
    <3> QED BY <3>1, <3>2
  <2>6. pc'[a] = then
    BY <1>7, <2>5
  <2>7. ReadUpTo(a)' = Rank(c)
    <3> HIDE DEF c
    <3>1. got'[a] = got[a]
      BY <1>4
    <3> QED BY <2>2, <2>5, <2>6, <3>1 DEF ReadUpTo
  <2>8. Delivered(b, a)'
    <3>1. /\ Len(got[a]) <= Len(sent[b])
          /\ \A i \in 1 .. Len(got[a]) : got[a][i] = sent[b][i]
      BY <2>1 DEF Stream, Delivered
    <3>2. n + 1 \in 1 .. Len(sent[b]) /\ Len(sent[b]) \in Nat
      BY <2>4, <2>5, TypesAt DEF IInv
    <3>3. Len(got[a]) < Len(sent[b])
      BY <2>2, <3>2, Below, Zenon
    <3>4. text'[a] = sent[b][Len(got[a]) + 1]
      BY <1>6, <2>2, <2>4, <2>5
    <3>5. pc'[a] # "astray"
      BY <2>6
    <3>6. sent' = sent /\ got' = got
      BY <1>4
    <3> QED BY <3>1, <3>3, <3>4, <3>5, <3>6 DEF Delivered
  <2>9. 1 < Len(p) => Rank(p[1 + 1]) = Rank(p[1]) + 1
    <3> SUFFICES ASSUME 1 < Len(p) PROVE Rank(p[1 + 1]) = Rank(p[1]) + 1
      OBVIOUS
    <3>1. 1 \in 1 .. Len(p) - 1
      <4> HIDE DEF p
      <4>1. Len(p) \in Nat
        BY <1>3
      <4> QED BY <1>3, <4>1, Below, Zenon
    <3>2. p[1].kind # "payload"
      BY <2>5
    <3>3. Adjacent(p)
      BY <2>1 DEF Stream, Run
    <3> HIDE DEF p
    <3> QED BY <3>1, <3>2, <3>3 DEF Adjacent
  <2>10. pc[b] = "write more" => Len(got'[a]) < Len(sent[b])
    BY <1>4, <2>1 DEF Stream, Queued
  <2> QED
    BY <1>1, <1>2, <1>3, <1>4, <1>6, <1>7, <2>1, <2>7, <2>8, <2>9, <2>10, TakenStream
<1> QED
  BY <1>1, <1>2, <1>3, <1>4, <1>5, <1>6, <1>7, <1>8, ReadKeeps

LEMMA ReadTypeKeeps ==
  ASSUME IInv, NEW a \in Ends, ReadType(a)
  PROVE  IInv'
BY HeaderKeeps DEF ReadType

LEMMA ReadLengthKeeps ==
  ASSUME IInv, NEW a \in Ends, ReadLength(a)
  PROVE  IInv'
BY HeaderKeeps DEF ReadLength

LEMMA MinOfTwo ==
  ASSUME NEW x \in Nat, NEW y \in Nat
  PROVE  /\ Min({x, y}) \in {x, y}
         /\ Min({x, y}) <= x /\ Min({x, y}) <= y
<1>1. CASE x <= y
  BY <1>1 DEF Min
<1>2. CASE y <= x
  BY <1>2 DEF Min
<1> QED BY <1>1, <1>2

LEMMA ToSetAppend ==
  ASSUME NEW S, NEW s \in Seq(S), NEW m \in S
  PROVE  ToSet(Append(s, m)) = ToSet(s) \cup {m}
<1>1. /\ Len(s) \in Nat /\ Len(Append(s, m)) = Len(s) + 1
      /\ DOMAIN s = 1 .. Len(s)
      /\ DOMAIN Append(s, m) = 1 .. Len(s) + 1
      /\ Append(s, m)[Len(s) + 1] = m
      /\ \A i \in 1 .. Len(s) : Append(s, m)[i] = s[i]
  BY AppendProperties, LenProperties
<1>2. 1 .. Len(s) + 1 = (1 .. Len(s)) \cup {Len(s) + 1}
  BY <1>1
<1> DEFINE q == Append(s, m)
<1> HIDE DEF q
<1>3. ToSet(q) = {q[i] : i \in (1 .. Len(s)) \cup {Len(s) + 1}}
  BY <1>1, <1>2 DEF ToSet, q
<1>4. \A i \in 1 .. Len(s) : q[i] = s[i]
  BY <1>1 DEF q
<1>5. q[Len(s) + 1] = m
  BY <1>1 DEF q
<1>6. ToSet(s) = {s[i] : i \in 1 .. Len(s)}
  BY <1>1 DEF ToSet
<1> QED BY <1>3, <1>4, <1>5, <1>6 DEF q

(* What a read of a payload does: it takes the cells it finds, up to the   *)
(* size of the text, and delivers the text or a torn one.                  *)
Cells(b, k, t) == \A i \in 1 .. k : IsBlock(pipe[b][i], t)
Made(b, k, t) == IF k = t.size /\ Cells(b, k, t) THEN t ELSE Torn

LEMMA PayloadRead ==
  ASSUME IInv, NEW a \in Ends, NEW b \in Ends, a # b, Peer(a) = b, ReadPayload(a)
  PROVE  \E k \in 1 .. Len(pipe[b]) :
           /\ k <= text[a].size
           /\ Take(a, k)
           /\ got' = [got EXCEPT ![a] = Append(got[a], Made(b, k, text[a]))]
<1> DEFINE p == pipe[b]
<1> DEFINE t == text[a]
<1> DEFINE k == Min({t.size, Len(p)})
<1>1. p # <<>> /\ pc[a] = "read payload"
  BY DEF ReadPayload, Arrived
<1>2. p \in Seq(Cell) /\ Len(p) \in Nat \ {0} /\ t \in Text /\ t.size \in Nat \ {0}
  BY <1>1, HeadCell, TextType DEF IInv, Occupied
<1>3. k \in {t.size, Len(p)} /\ k <= t.size /\ k <= Len(p)
  <2> HIDE DEF p, t
  <2> QED BY <1>2, MinOfTwo
<1>4. k \in 1 .. Len(p)
  <2> HIDE DEF p, t, k
  <2> QED BY <1>2, <1>3
<1>5. Take(a, k)
  BY DEF ReadPayload, Arrived
<1>6. got' = [got EXCEPT ![a] = Append(got[a],
        IF /\ k = t.size
           /\ \A i \in 1 .. k : p[i] = [kind |-> "payload", text |-> t]
        THEN t ELSE Torn)]
  BY DEF ReadPayload, Arrived
<1>7. ASSUME NEW i \in 1 .. k
      PROVE  p[i] = [kind |-> "payload", text |-> t] <=> IsBlock(p[i], t)
  <2> HIDE DEF p, t, k
  <2>1. i \in 1 .. Len(p)
    BY <1>2, <1>4
  <2>2. p[i] \in Cell
    BY <1>2, <2>1, ElementOfSeq
  <2> QED BY <2>2 DEF Cell, IsBlock
<1> HIDE DEF k
<1>8. (\A i \in 1 .. k : p[i] = [kind |-> "payload", text |-> t]) <=> Cells(b, k, t)
  BY <1>7 DEF Cells
<1>9. got' = [got EXCEPT ![a] = Append(got[a], Made(b, k, t))]
  BY <1>6, <1>8 DEF Made
<1> QED BY <1>3, <1>4, <1>5, <1>9

LEMMA NoneLeft ==
  \A l, z, r \in Nat : r \in 1 .. z /\ z \in 1 .. l => ~(l - 1 < z - r)
OBVIOUS

(* A reader in step finds the payload of the text it waits for; a read cut *)
(* short, or one of a text whose write was, is known by what it delivers.  *)
LEMMA ReadPayloadKeeps ==
  ASSUME IInv, NEW a \in Ends, ReadPayload(a)
  PROVE  IInv'
<1>1. PICK b \in Ends : Peer(a) = b /\ a # b
  BY PeerEnds
<1> DEFINE p == pipe[b]
<1> DEFINE t == text[a]
<1> DEFINE S == sent[b]
<1> DEFINE g == got[a]
<1>2. PICK k \in 1 .. Len(p) :
        /\ k <= t.size
        /\ Take(a, k)
        /\ got' = [got EXCEPT ![a] = Append(g, Made(b, k, t))]
  BY <1>1, PayloadRead
<1> DEFINE m == Made(b, k, t)
<1>3. /\ p # <<>> /\ a \in open /\ pc[a] = "read payload"
      /\ pc' = [pc EXCEPT ![a] = "loop"]
      /\ UNCHANGED <<open, text, left, sent>>
  BY <1>1 DEF ReadPayload, Arrived
<1>4. /\ t \in Text /\ t.size \in Nat \ {0}
      /\ p \in Seq(Cell) /\ Len(p) \in Nat /\ 1 \in 1 .. Len(p)
      /\ g \in Seq(Text \cup {Torn}) /\ Len(g) \in Nat
      /\ S \in Seq(Text) /\ Len(S) \in Nat
  BY <1>3, TextType, HeadCell, TypesAt DEF IInv, Occupied
<1>5. m \in Text \cup {Torn}
  BY <1>4 DEF Made
<1>6. /\ Append(g, m) \in Seq(Text \cup {Torn})
      /\ Len(Append(g, m)) = Len(g) + 1
      /\ Append(g, m)[Len(g) + 1] = m
      /\ \A i \in 1 .. Len(g) : Append(g, m)[i] = g[i]
      /\ ToSet(Append(g, m)) = ToSet(g) \cup {m}
  <2> DEFINE X == Text \cup {Torn}
  <2>1. g \in Seq(X) /\ m \in X
    BY <1>4, <1>5
  <2> HIDE DEF g, m, X
  <2>2. ToSet(Append(g, m)) = ToSet(g) \cup {m}
    BY <2>1, ToSetAppend
  <2>3. /\ Append(g, m) \in Seq(X)
        /\ Len(Append(g, m)) = Len(g) + 1
        /\ Append(g, m)[Len(g) + 1] = m
        /\ \A i \in 1 .. Len(g) : Append(g, m)[i] = g[i]
    BY <2>1, AppendProperties
  <2> QED BY <2>2, <2>3 DEF X
<1> HIDE DEF m
<1>7. /\ got' \in [Ends -> Seq(Text \cup {Torn})]
      /\ got'[b] = got[b] /\ got'[a] = Append(g, m)
  BY <1>1, <1>2, <1>6 DEF IInv, TypeOK, m
<1>8. pc'[a] = "loop" /\ pc'[b] = pc[b]
  BY <1>1, <1>3 DEF IInv, TypeOK
<1>9. ASSUME Whole(a)' PROVE Stream(b, a)'
  <2>1. Torn \notin ToSet(g) /\ m # Torn
    BY <1>6, <1>7, <1>9 DEF Whole
  <2>2. k = t.size /\ Cells(b, k, t) /\ m = t
    BY <2>1 DEF Made, m
  <2>3. Stream(b, a)
    BY <1>1, <1>3, <2>1 DEF Whole, IInv, Streams
  <2>4. PICK n \in Nat : Len(g) = n
    BY <1>4
  <2>5. n < Len(S) /\ t = S[n + 1]
    BY <1>3, <2>3, <2>4 DEF Stream, Delivered
  <2>6. n + 1 \in 1 .. Len(S) /\ t.n = n + 1
    <3>1. n + 1 \in 1 .. Len(S)
      <4> HIDE DEF S
      <4> QED BY <1>4, <2>5
    <3> QED BY <2>5, <3>1 DEF IInv, Numbered
  <2>7. \A i \in 1 .. k : IsBlock(p[i], t) /\ i \in 1 .. Len(p)
    <3> HIDE DEF p
    <3>1. \A i \in 1 .. k : i \in 1 .. Len(p)
      BY <1>2, <1>4
    <3> QED BY <2>2, <3>1 DEF Cells, p
  <2>8. k \in 1 .. k /\ 1 \in 1 .. k
    BY <1>2, <1>4
  <2>9. Rank(p[k]) = 3 * (n + 1) + 2
    BY <2>6, <2>7, <2>8, BlockRank
  <2>10. ReadUpTo(a)' = Rank(p[k])
    <3>1. Len(got'[a]) = n + 1
      BY <1>6, <1>7, <2>4
    <3> QED BY <1>8, <2>9, <3>1 DEF ReadUpTo
  <2>11. k < Len(p) => Rank(p[k + 1]) = Rank(p[k]) + 1
    <3> SUFFICES ASSUME k < Len(p), Rank(p[k + 1]) # Rank(p[k]) + 1
                 PROVE  FALSE
      OBVIOUS
    <3>0. k \in 1 .. Len(p) - 1 /\ k + 1 \in 1 .. Len(p) /\ k \in Nat
      BY <1>2, <1>4
    <3>1. Rank(p[k + 1]) = Rank(p[k])
      <4>1. Adjacent(p)
        BY <2>3 DEF Stream, Run
      <4> HIDE DEF p
      <4> QED BY <3>0, <4>1 DEF Adjacent
    <3>2. p[k + 1].kind = "payload" /\ p[k + 1].text.n = n + 1
      <4> DEFINE c == p[k + 1]
      <4>1. c \in Cell /\ Rank(c) = 3 * (n + 1) + 2 /\ n + 1 \in Nat
        BY <1>4, <2>9, <3>0, <3>1, ElementOfSeq
      <4> HIDE DEF c
      <4>2. c.kind = "payload" /\ c.text.n = n + 1
        BY <4>1, RankTells
      <4> QED BY <4>2 DEF c
    <3>3. p[k + 1].text = t
      <4>1. p[k + 1].text = S[p[k + 1].text.n]
        BY <2>3, <3>0 DEF Stream, Run, Carries
      <4> QED BY <2>5, <3>2, <4>1
    <3>4. p[1].text = t /\ IsBlock(p[1], t) /\ IsBlock(p[k + 1], t)
      BY <2>7, <2>8, <3>2, <3>3 DEF IsBlock
    <3>5. (k + 1) - 1 < t.size
      <4>1. Fits(p)
        BY <2>3 DEF Stream, Run
      <4>2. 1 <= k + 1
        BY <3>0
      <4> HIDE DEF p, t
      <4> QED BY <1>4, <3>0, <3>4, <4>1, <4>2 DEF Fits
    <3> QED
      <4> HIDE DEF p, t
      <4> QED BY <2>2, <3>0, <3>5
  <2>12. pc[b] = "write more" => n + 1 < Len(S)
    <3> SUFFICES ASSUME pc[b] = "write more" PROVE n + 1 < Len(S)
      OBVIOUS
    <3>1. ASSUME n + 1 = Len(S) PROVE FALSE
      <4>1. text[b] = t
        BY <2>5, <3>1 DEF IInv, Occupied, Writing
      <4>2. Len(p) - 1 < t.size - left[b]
        BY <1>4, <2>3, <2>7, <2>8, <4>1 DEF Stream, Queued
      <4>3. left[b] \in 1 .. t.size /\ left[b] \in Nat
        BY <4>1, TypesAt DEF IInv, TypeOK
      <4>4. k \in 1 .. Len(p) /\ k = t.size
        BY <2>2
      <4> HIDE DEF p, t
      <4> QED BY <1>4, <4>2, <4>3, <4>4, NoneLeft, Zenon
    <3>2. n + 1 # Len(S)
      BY <3>1
    <3> QED BY <1>4, <2>6, <3>2, Below, Zenon
  <2>13. Delivered(b, a)'
    <3>1. \A i \in 1 .. Len(g) : g[i] = S[i]
      BY <2>3 DEF Stream, Delivered
    <3>2. \A i \in 1 .. n + 1 : Append(g, m)[i] = S[i]
      <4> TAKE i \in 1 .. n + 1
      <4>1. i \in 1 .. n \/ i = n + 1
        BY <2>4
      <4>2. CASE i \in 1 .. n
        BY <1>6, <2>4, <3>1, <4>2
      <4>3. CASE i = n + 1
        BY <1>6, <2>2, <2>4, <2>5, <4>3
      <4> QED BY <4>1, <4>2, <4>3
    <3>3. Len(Append(g, m)) = n + 1 /\ n + 1 <= Len(S)
      <4> HIDE DEF S
      <4> QED BY <1>4, <1>6, <2>4, <2>6
    <3>4. sent' = sent
      BY <1>3
    <3> QED BY <1>7, <1>8, <3>2, <3>3, <3>4 DEF Delivered
  <2>14. pc[b] = "write more" => Len(got'[a]) < Len(sent[b])
    BY <1>6, <1>7, <2>4, <2>12
  <2> QED
    BY <1>1, <1>2, <1>3, <1>8, <2>3, <2>10, <2>11, <2>13, <2>14, TakenStream
<1> QED
  <2>1. {"loop", "read payload"} \subseteq Reading
    BY DEF Reading
  <2>2. text' \in [Ends -> Text \cup {NoText}] /\ text'[b] = text[b]
    BY <1>3 DEF IInv, TypeOK
  <2> QED BY <1>1, <1>2, <1>3, <1>7, <1>9, <2>1, <2>2, ReadKeeps

-----------------------------------------------------------------------------
(* The invariant. *)

LEMMA IInvInit == Init => IInv
<1> SUFFICES ASSUME Init PROVE IInv
  OBVIOUS
<1>1. \A S : <<>> \in Seq(S)
  BY EmptySeq
<1>2. Len(<<>>) = 0 /\ ToSet(<<>>) = {}
  BY EmptySeq DEF ToSet
<1>3. TypeOK
  BY <1>1, <1>2, RoomAssumption DEF Init, TypeOK, Reading
<1>4. Numbered
  BY <1>2 DEF Init, Numbered
<1>5. Occupied
  BY DEF Init, Occupied, Writing
<1>6. Streams
  <2> SUFFICES ASSUME NEW e \in Ends, NEW f \in Ends PROVE Stream(e, f)
    BY DEF Streams
  <2>1. /\ pipe[e] = <<>> /\ sent[e] = <<>> /\ got[f] = <<>>
        /\ pc[e] = "loop" /\ pc[f] = "loop"
    BY DEF Init
  <2>2. Delivered(e, f)
    BY <1>2, <2>1 DEF Delivered
  <2>3. Run(pipe[e], sent[e], ReadUpTo(f))
    BY <1>2, <2>1 DEF Run, Carries, Starts, Adjacent, Ascends, Fits
  <2>4. UpTo(pipe[e], ReadUpTo(f)) = WrittenUpTo(e)
    BY <2>1 DEF UpTo, ReadUpTo, WrittenUpTo
  <2>5. Queued(e, f)
    BY <2>1 DEF Queued
  <2> QED BY <2>2, <2>3, <2>4, <2>5 DEF Stream
<1> QED BY <1>3, <1>4, <1>5, <1>6 DEF IInv

LEMMA IInvNext == IInv /\ [Next]_vars => IInv'
<1> SUFFICES ASSUME IInv, [Next]_vars PROVE IInv'
  OBVIOUS
<1>1. ASSUME NEW e \in Ends, Copy(e) PROVE IInv'
  BY <1>1, CopyKeeps
<1>2. ASSUME NEW e \in Ends, Die(e) PROVE IInv'
  BY <1>2, CloseKeeps DEF Die
<1>3. ASSUME NEW e \in Ends, Step(e) PROVE IInv'
  <2>1. CASE WriteType(e)
    BY <2>1, WriteTypeKeeps
  <2>2. CASE WriteLength(e)
    BY <2>2, WriteLengthKeeps
  <2>3. CASE WritePayload(e)
    BY <2>3, WritePayloadKeeps
  <2>4. CASE WriteShort(e)
    BY <2>4, WriteShortKeeps
  <2>5. CASE WriteFails(e)
    BY <2>5, CloseKeeps DEF WriteFails
  <2>6. CASE ReadType(e)
    BY <2>6, ReadTypeKeeps
  <2>7. CASE ReadLength(e)
    BY <2>7, ReadLengthKeeps
  <2>8. CASE ReadPayload(e)
    BY <2>8, ReadPayloadKeeps
  <2>9. CASE ReadEof(e)
    BY <2>9, CloseKeeps DEF ReadEof
  <2> QED BY <1>3, <2>1, <2>2, <2>3, <2>4, <2>5, <2>6, <2>7, <2>8, <2>9 DEF Step
<1>4. CASE UNCHANGED vars
  <2>1. /\ open' = open /\ pipe' = pipe /\ pc' = pc /\ text' = text
        /\ left' = left /\ sent' = sent /\ got' = got
    BY <1>4 DEF vars
  <2>2. TypeOK' /\ Numbered' /\ Occupied'
    BY <2>1 DEF IInv, TypeOK, Numbered, Occupied
  <2>3. ASSUME NEW e \in Ends, NEW f \in Ends, Stream(e, f)
        PROVE  Stream(e, f)'
    <3>1. ReadUpTo(f)' = ReadUpTo(f) /\ WrittenUpTo(e)' = WrittenUpTo(e)
      BY <2>1 DEF ReadUpTo, WrittenUpTo
    <3>2. Delivered(e, f)'
      BY <2>1, <2>3 DEF Stream, Delivered
    <3>3. Queued(e, f)'
      BY <2>1, <2>3 DEF Stream, Queued
    <3> QED BY <2>1, <2>3, <3>1, <3>2, <3>3 DEF Stream
  <2>4. Streams'
    BY <2>1, <2>3 DEF IInv, Streams, Whole
  <2> QED BY <2>2, <2>4 DEF IInv
<1> QED BY <1>1, <1>2, <1>3, <1>4 DEF Next

LEMMA IInvInvariant == Spec => []IInv
BY IInvInit, IInvNext, PTL DEF Spec

(* No socket buffer holds more than it can, every cell is of a text that   *)
(* was sent, and the payload being written has some of it left             *)
(* (rf_send_header, send_clipboard_text_msg).                              *)
THEOREM TypeCorrect == Spec => []TypeOK
<1>1. IInv => TypeOK
  BY DEF IInv
<1> QED BY <1>1, IInvInvariant, PTL

(* An end that has delivered whole texts only never takes one kind of cell *)
(* for another, whatever the other end does (on_clipboard_text_msg).       *)
THEOREM StaysInStep == Spec => []AstrayAfterTorn
<1>1. IInv => AstrayAfterTorn
  <2> SUFFICES ASSUME IInv, NEW f \in Ends, pc[f] = "astray"
               PROVE  Torn \in ToSet(got[f])
    BY DEF AstrayAfterTorn
  <2>1. PICK e \in Ends : e # f
    BY PeerEnds
  <2>2. f \in open
    BY DEF IInv, Occupied
  <2>3. Whole(f) => pc[f] # "astray"
    BY <2>1 DEF IInv, Streams, Stream, Delivered
  <2> QED BY <2>2, <2>3 DEF Whole
<1> QED BY <1>1, IInvInvariant, PTL

-----------------------------------------------------------------------------
(* What has been delivered before the first torn text. *)

LEMMA NatMin ==
  ASSUME NEW S \in SUBSET Nat, S # {}
  PROVE  \E x \in S : \A y \in S : x <= y
<1>1. PICK x \in S : \A y \in S : ~(<<y, x>> \in OpToRel(<, Nat))
  BY NatLessThanWellFounded, WFMin
<1>2. ASSUME NEW y \in S PROVE x <= y
  <2>1. ~(y < x)
    BY <1>1 DEF OpToRel
  <2> QED BY <2>1
<1> QED BY <1>2

LEMMA MinIs ==
  ASSUME NEW S \in SUBSET Nat, NEW n \in S, \A y \in S : n <= y
  PROVE  Min(S) = n
<1>1. Min(S) \in S /\ \A y \in S : Min(S) <= y
  BY DEF Min
<1> DEFINE x == Min(S)
<1>2. x \in Nat /\ n \in Nat /\ x <= n /\ n <= x
  BY <1>1
<1> HIDE DEF x
<1>3. x = n
  BY <1>2
<1> QED BY <1>3 DEF x

Before(s) ==
  LET n == Min({i \in DOMAIN s : s[i] = Torn} \cup {Len(s) + 1})
  IN  SubSeq(s, 1, n - 1)

LEMMA BeforeNone ==
  ASSUME NEW S, NEW s \in Seq(S), Torn \notin ToSet(s)
  PROVE  Before(s) = s
<1>1. Len(s) \in Nat /\ DOMAIN s = 1 .. Len(s)
  BY LenProperties
<1>2. {i \in DOMAIN s : s[i] = Torn} \cup {Len(s) + 1} = {Len(s) + 1}
  BY DEF ToSet
<1>3. Min({Len(s) + 1}) = Len(s) + 1
  BY <1>1, MinIs
<1>4. (Len(s) + 1) - 1 = Len(s)
  BY <1>1
<1>5. Before(s) = SubSeq(s, 1, Len(s))
  BY <1>2, <1>3, <1>4 DEF Before
<1> QED BY <1>5, SubSeqFull

LEMMA BeforeFirst ==
  ASSUME NEW S, NEW s \in Seq(S), NEW n \in 1 .. Len(s),
         s[n] = Torn, \A i \in 1 .. n - 1 : s[i] # Torn
  PROVE  Before(s) = SubSeq(s, 1, n - 1)
<1> DEFINE P == {i \in DOMAIN s : s[i] = Torn} \cup {Len(s) + 1}
<1>1. Len(s) \in Nat /\ DOMAIN s = 1 .. Len(s)
  BY LenProperties
<1>2. P \in SUBSET Nat /\ n \in P
  BY <1>1
<1>3. ASSUME NEW y \in P PROVE n <= y
  <2>1. CASE y = Len(s) + 1
    BY <1>1, <2>1
  <2>2. CASE y \in 1 .. Len(s) /\ s[y] = Torn
    BY <1>1, <2>2
  <2> QED BY <1>1, <2>1, <2>2
<1> HIDE DEF P
<1>4. Min(P) = n
  BY <1>2, <1>3, MinIs
<1> QED BY <1>4 DEF Before, P

LEMMA FirstTorn ==
  ASSUME NEW S, NEW s \in Seq(S), Torn \in ToSet(s)
  PROVE  \E n \in 1 .. Len(s) : s[n] = Torn /\ \A i \in 1 .. n - 1 : s[i] # Torn
<1> DEFINE P == {i \in 1 .. Len(s) : s[i] = Torn}
<1>1. Len(s) \in Nat /\ DOMAIN s = 1 .. Len(s)
  BY LenProperties
<1>2. P \in SUBSET Nat /\ P # {}
  BY <1>1 DEF ToSet
<1>3. PICK n \in P : \A y \in P : n <= y
  BY <1>2, NatMin
<1>4. ASSUME NEW i \in 1 .. n - 1 PROVE s[i] # Torn
  <2>1. i \in 1 .. Len(s) /\ ~(n <= i)
    BY <1>1
  <2> QED BY <1>3, <2>1
<1> QED BY <1>4

(* Nothing delivered after a torn text counts, nor does the torn text.     *)
LEMMA BeforeAppend ==
  ASSUME NEW S, NEW s \in Seq(S), NEW m \in S, Torn \in ToSet(s) \/ m = Torn
  PROVE  Before(Append(s, m)) = Before(s)
<1> DEFINE q == Append(s, m)
<1>1. /\ q \in Seq(S) /\ Len(q) = Len(s) + 1 /\ Len(s) \in Nat
      /\ q[Len(s) + 1] = m
      /\ \A i \in 1 .. Len(s) : q[i] = s[i]
  BY AppendProperties, LenProperties
<1>2. \A n \in 1 .. Len(s) + 1 : SubSeq(q, 1, n - 1) = SubSeq(s, 1, n - 1)
  <2> TAKE n \in 1 .. Len(s) + 1
  <2>1. q = s \o <<m>> /\ <<m>> \in Seq(S)
    BY AppendIsConcat
  <2>2. n - 1 \in 1 - 1 .. Len(s) /\ 1 \in 1 .. Len(s) + 1
    BY <1>1
  <2> QED BY <2>1, <2>2, SubSeqOfConcat1
<1> HIDE DEF q
<1>3. CASE Torn \in ToSet(s)
  <2>1. PICK n \in 1 .. Len(s) :
          s[n] = Torn /\ \A i \in 1 .. n - 1 : s[i] # Torn
    BY <1>3, FirstTorn
  <2>2. n \in 1 .. Len(q) /\ \A i \in 1 .. n - 1 : i \in 1 .. Len(s)
    BY <1>1
  <2>3. q[n] = Torn /\ \A i \in 1 .. n - 1 : q[i] # Torn
    BY <1>1, <2>1, <2>2
  <2>4. Before(q) = SubSeq(q, 1, n - 1) /\ Before(s) = SubSeq(s, 1, n - 1)
    BY <1>1, <2>1, <2>2, <2>3, BeforeFirst
  <2>5. n \in 1 .. Len(s) + 1
    BY <1>1
  <2> QED BY <1>2, <2>4, <2>5 DEF q
<1>4. CASE Torn \notin ToSet(s) /\ m = Torn
  <2> DEFINE n == Len(s) + 1
  <2>1. n \in 1 .. Len(q) /\ q[n] = Torn /\ n - 1 = Len(s) /\ n \in 1 .. Len(s) + 1
    BY <1>1, <1>4
  <2>2. \A i \in 1 .. Len(s) : q[i] # Torn
    <3>1. \A i \in 1 .. Len(s) : s[i] # Torn
      BY <1>4, LenProperties DEF ToSet
    <3> QED BY <1>1, <3>1
  <2> HIDE DEF n
  <2>3. Before(q) = SubSeq(q, 1, n - 1)
    BY <1>1, <2>1, <2>2, BeforeFirst
  <2>4. SubSeq(q, 1, n - 1) = SubSeq(s, 1, n - 1)
    BY <1>2, <2>1
  <2>5. SubSeq(s, 1, n - 1) = s
    BY <2>1, SubSeqFull
  <2>6. Before(s) = s
    BY <1>4, BeforeNone
  <2> QED BY <2>3, <2>4, <2>5, <2>6 DEF q
<1> QED BY <1>3, <1>4

-----------------------------------------------------------------------------
(* Each direction is a Channel. *)

Lost(f) == f \notin open \/ Torn \in ToSet(got[f])

Same(e, f) ==
  sent'[e] = sent[e] /\ got'[f] = got[f] /\ (f \in open' <=> f \in open)

(* The steps of Channel, from e to f.                                      *)
Sends(e, f) ==
  /\ \E m \in Text : sent'[e] = Append(sent[e], m)
  /\ Exact(f)' = Exact(f) /\ Lost(f)' = Lost(f)
Delivers(e, f) ==
  /\ ~Lost(f)
  /\ Len(Exact(f)) < Len(sent[e])
  /\ Exact(f)' = Append(Exact(f), sent[e][Len(Exact(f)) + 1])
  /\ sent'[e] = sent[e] /\ Lost(f)' = Lost(f)
Cuts(e, f) ==
  Lost(f)' = TRUE /\ sent'[e] = sent[e] /\ Exact(f)' = Exact(f)
Stays(e, f) ==
  sent'[e] = sent[e] /\ Exact(f)' = Exact(f) /\ Lost(f)' = Lost(f)
Keeps(e, f) == Sends(e, f) \/ Delivers(e, f) \/ Cuts(e, f) \/ Stays(e, f)

LEMMA ExactIsBefore ==
  \A f : Exact(f) = Before(got[f]) /\ Exact(f)' = Before(got'[f])
BY DEF Exact, Before

LEMMA SameKeeps ==
  ASSUME NEW e \in Ends, NEW f \in Ends, Same(e, f)
  PROVE  Keeps(e, f)
BY ExactIsBefore DEF Same, Keeps, Stays, Lost

LEMMA CloseCuts ==
  ASSUME NEW e \in Ends, NEW f \in Ends, e # f, NEW a \in Ends,
         Close(a), UNCHANGED <<sent, got>>
  PROVE  Keeps(e, f)
<1>1. CASE a = f
  BY <1>1, ExactIsBefore DEF Close, Keeps, Cuts, Lost
<1>2. CASE a # f
  BY <1>2, SameKeeps DEF Close, Same
<1> QED BY <1>1, <1>2

LEMMA CopySends ==
  ASSUME IInv, IInv', NEW e \in Ends, NEW f \in Ends, e # f, NEW a \in Ends, Copy(a)
  PROVE  Keeps(e, f)
<1>1. PICK s \in Sizes :
        sent' = [sent EXCEPT ![a] = Append(sent[a],
          [by |-> a, n |-> Len(sent[a]) + 1, size |-> s])]
  BY DEF Copy
<1>2. open' = open /\ got' = got
  BY DEF Copy
<1>3. CASE a = e
  <2> DEFINE t == [by |-> a, n |-> Len(sent[a]) + 1, size |-> s]
  <2>1. sent'[e] = Append(sent[e], t)
    BY <1>1, <1>3 DEF IInv, TypeOK
  <2>2. t \in Text
    <3>1. sent[e] \in Seq(Text) /\ Len(sent[e]) \in Nat /\ sent'[e] \in Seq(Text)
      BY TypesAt DEF IInv, TypeOK
    <3>2. Len(sent[a]) < Copies /\ a = e
      BY <1>3 DEF Copy
    <3>3. PICK n \in Nat : Len(sent[a]) = n
      BY <3>1, <3>2
    <3>4. n < Copies
      BY <3>2, <3>3
    <3>5. n + 1 \in 1 .. Copies
      BY <3>4, CopiesAssumption
    <3> QED BY <3>3, <3>5 DEF Text
  <2>3. Exact(f)' = Exact(f) /\ Lost(f)' = Lost(f)
    BY <1>2, ExactIsBefore DEF Lost
  <2> QED BY <2>1, <2>2, <2>3 DEF Keeps, Sends
<1>4. CASE a # e
  BY <1>1, <1>2, <1>4, SameKeeps DEF Same, IInv, TypeOK
<1> QED BY <1>3, <1>4

LEMMA ReadDelivers ==
  ASSUME IInv, IInv', NEW e \in Ends, NEW f \in Ends, e # f, ReadPayload(f)
  PROVE  Keeps(e, f)
<1> DEFINE g == got[f]
<1>1. PICK k \in 1 .. Len(pipe[e]) :
        got' = [got EXCEPT ![f] = Append(g, Made(e, k, text[f]))]
  BY PeerIs, PayloadRead
<1> DEFINE m == Made(e, k, text[f])
<1> HIDE DEF m
<1>2. /\ f \in open /\ pc[f] = "read payload"
      /\ open' = open /\ sent' = sent
  BY DEF ReadPayload
<1>3. /\ g \in Seq(Text \cup {Torn}) /\ Len(g) \in Nat
      /\ m \in Text \cup {Torn}
  BY <1>2, TypesAt DEF IInv, Occupied, Made, m
<1>4. got'[f] = Append(g, m)
  BY <1>1 DEF IInv, TypeOK, m
<1>5. /\ ToSet(Append(g, m)) = ToSet(g) \cup {m}
      /\ Len(Append(g, m)) = Len(g) + 1 /\ Append(g, m)[Len(g) + 1] = m
      /\ Torn \in ToSet(g) \/ m = Torn => Before(Append(g, m)) = Before(g)
      /\ Torn \notin ToSet(g) => Before(g) = g
      /\ Torn \notin ToSet(Append(g, m)) => Before(Append(g, m)) = Append(g, m)
  <2> DEFINE X == Text \cup {Torn}
  <2>1. g \in Seq(X) /\ m \in X
    BY <1>3
  <2> HIDE DEF g, X
  <2>2. Append(g, m) \in Seq(X) /\ Len(Append(g, m)) = Len(g) + 1
        /\ Append(g, m)[Len(g) + 1] = m
    BY <2>1, AppendProperties
  <2>3. ToSet(Append(g, m)) = ToSet(g) \cup {m}
    BY <2>1, ToSetAppend
  <2>4. Torn \in ToSet(g) \/ m = Torn => Before(Append(g, m)) = Before(g)
    BY <2>1, BeforeAppend
  <2>5. Torn \notin ToSet(g) => Before(g) = g
    BY <2>1, BeforeNone
  <2>6. Torn \notin ToSet(Append(g, m)) => Before(Append(g, m)) = Append(g, m)
    BY <2>2, BeforeNone
  <2> QED BY <2>2, <2>3, <2>4, <2>5, <2>6
<1>6. CASE Torn \in ToSet(g) \/ m = Torn
  <2>1. Lost(f)' = TRUE
    BY <1>4, <1>5, <1>6 DEF Lost
  <2>2. Exact(f)' = Exact(f)
    BY <1>4, <1>5, <1>6, ExactIsBefore
  <2> QED BY <1>2, <2>1, <2>2 DEF Keeps, Cuts
<1>7. CASE Torn \notin ToSet(g) /\ m # Torn
  <2>1. ~Lost(f) /\ ~Lost(f)' /\ Lost(f)' = Lost(f)
    <3>1. Torn \notin ToSet(Append(g, m))
      BY <1>5, <1>7
    <3>2. f \in open' /\ Torn \notin ToSet(got'[f])
      BY <1>2, <1>4, <3>1
    <3>3. f \in open /\ Torn \notin ToSet(got[f])
      BY <1>2, <1>7
    <3> QED BY <3>2, <3>3 DEF Lost
  <2>2. Exact(f) = g /\ Exact(f)' = Append(g, m)
    BY <1>4, <1>5, <1>7, ExactIsBefore
  <2>3. Delivered(e, f)'
    BY <2>1 DEF Lost, Whole, IInv, Streams, Stream
  <2>4. /\ Len(g) + 1 <= Len(sent[e])
        /\ \A i \in 1 .. Len(g) + 1 : Append(g, m)[i] = sent[e][i]
    BY <1>2, <1>4, <1>5, <2>3 DEF Delivered
  <2>5. Len(sent[e]) \in Nat
    BY TypesAt DEF IInv
  <2>6. Len(g) < Len(sent[e]) /\ m = sent[e][Len(g) + 1]
    <3> HIDE DEF g
    <3>1. PICK n \in Nat, l \in Nat : Len(g) = n /\ Len(sent[e]) = l
      BY <1>3, <2>5
    <3>2. n + 1 <= l /\ \A i \in 1 .. n + 1 : Append(g, m)[i] = sent[e][i]
      BY <2>4, <3>1
    <3>3. n < l /\ n + 1 \in 1 .. n + 1
      BY <3>2
    <3> QED BY <1>5, <3>1, <3>2, <3>3
  <2>7. Exact(f)' = Append(Exact(f), sent[e][Len(Exact(f)) + 1])
    BY <2>2, <2>6
  <2> QED BY <1>2, <2>1, <2>2, <2>6, <2>7 DEF Keeps, Delivers
<1> QED BY <1>6, <1>7

LEMMA StepKeeps ==
  ASSUME IInv, IInv', NEW e \in Ends, NEW f \in Ends, e # f, [Next]_vars
  PROVE  Keeps(e, f)
<1>1. ASSUME NEW a \in Ends, Copy(a) PROVE Keeps(e, f)
  BY <1>1, CopySends
<1>2. ASSUME NEW a \in Ends, Die(a) PROVE Keeps(e, f)
  BY <1>2, CloseCuts DEF Die
<1>3. ASSUME NEW a \in Ends, Step(a) PROVE Keeps(e, f)
  <2>1. CASE WriteType(a)
    BY <2>1, SameKeeps DEF WriteType, Same
  <2>2. CASE WriteLength(a)
    BY <2>2, SameKeeps DEF WriteLength, Same
  <2>3. CASE WritePayload(a)
    BY <2>3, SameKeeps DEF WritePayload, Same
  <2>4. CASE WriteShort(a)
    BY <2>4, SameKeeps DEF WriteShort, Same
  <2>5. CASE WriteFails(a)
    BY <2>5, CloseCuts DEF WriteFails
  <2>6. CASE ReadType(a)
    BY <2>6, SameKeeps DEF ReadType, ReadHeader, Same
  <2>7. CASE ReadLength(a)
    BY <2>7, SameKeeps DEF ReadLength, ReadHeader, Same
  <2>8. CASE ReadPayload(a)
    <3>1. CASE a = f
      BY <2>8, <3>1, ReadDelivers
    <3>2. CASE a = e
      BY <2>8, <3>2, SameKeeps DEF ReadPayload, Same, IInv, TypeOK
    <3> QED BY <3>1, <3>2, PeerIs
  <2>9. CASE ReadEof(a)
    BY <2>9, CloseCuts DEF ReadEof
  <2> QED BY <1>3, <2>1, <2>2, <2>3, <2>4, <2>5, <2>6, <2>7, <2>8, <2>9 DEF Step
<1>4. CASE UNCHANGED vars
  BY <1>4, SameKeeps DEF vars, Same
<1> QED BY <1>1, <1>2, <1>3, <1>4 DEF Next

(* What each end delivers of the other is what was sent, whole and in      *)
(* order, up to a first torn text or the loss of the connection: both      *)
(* directions of the socket keep the promise of Channel (rf_send_header,   *)
(* on_socket_in, on_clipboard_text_msg).                                   *)
THEOREM Implements == Spec => MessagesWhole
<1>0. "server" \in Ends /\ "session" \in Ends
  BY DEF Ends
<1>1. Init => ToSession!Init /\ ToServer!Init
  <2> SUFFICES ASSUME Init PROVE ToSession!Init /\ ToServer!Init
    OBVIOUS
  <2>1. \A f \in Ends : Exact(f) = <<>> /\ Lost(f) = FALSE
    <3> TAKE f \in Ends
    <3>1. got[f] = <<>> /\ f \in open
      BY DEF Init
    <3>2. <<>> \in Seq({}) /\ ToSet(<<>>) = {}
      BY EmptySeq DEF ToSet
    <3>3. Before(<<>>) = <<>>
      BY <3>2, BeforeNone
    <3> QED BY <3>1, <3>2, <3>3, ExactIsBefore DEF Lost
  <2> QED BY <1>0, <2>1 DEF Init, ToSession!Init, ToServer!Init, Lost
<1>2. IInv /\ IInv' /\ [Next]_vars => [ToSession!Next]_(ToSession!vars)
  <2> SUFFICES ASSUME IInv, IInv', [Next]_vars
               PROVE  [ToSession!Next]_(ToSession!vars)
    OBVIOUS
  <2>1. Keeps("server", "session")
    BY <1>0, StepKeeps
  <2> QED
    BY <2>1 DEF Keeps, Sends, Delivers, Cuts, Stays, Lost, ToSession!Next,
       ToSession!Send, ToSession!Deliver, ToSession!Cut, ToSession!vars
<1>3. IInv /\ IInv' /\ [Next]_vars => [ToServer!Next]_(ToServer!vars)
  <2> SUFFICES ASSUME IInv, IInv', [Next]_vars
               PROVE  [ToServer!Next]_(ToServer!vars)
    OBVIOUS
  <2>1. Keeps("session", "server")
    BY <1>0, StepKeeps
  <2> QED
    BY <2>1 DEF Keeps, Sends, Delivers, Cuts, Stays, Lost, ToServer!Next,
       ToServer!Send, ToServer!Deliver, ToServer!Cut, ToServer!vars
<1> QED
  BY <1>1, <1>2, <1>3, IInvInvariant, PTL
  DEF Spec, MessagesWhole, ToSession!Spec, ToServer!Spec

=============================================================================
