-------------------------- MODULE DamageTrackProofs --------------------------
(***************************************************************************)
(* Type correctness of DamageTrack for every choice of sizes, pictures,    *)
(* tile sizes, detector and VNC library, and with LibVNCServer the         *)
(* exactness of the detectors: with the CPU's no client misses a pixel and *)
(* the first update is a full one, with any a tile of a client is that of  *)
(* a picture which the detector cannot tell from the buffer.               *)
(***************************************************************************)
EXTENDS DamageTrack, WellFoundedInduction, TLAPS

-----------------------------------------------------------------------------
(* Least and greatest numbers. *)

LEMMA NatMin ==
  ASSUME NEW S \in SUBSET Nat, S # {}
  PROVE  \E x \in S : \A y \in S : x <= y
<1>1. IsWellFoundedOn(OpToRel(<, Nat), Nat)
  BY NatLessThanWellFounded
<1>2. PICK x \in S : \A y \in S : ~(<<y, x>> \in OpToRel(<, Nat))
  BY <1>1, WFMin
<1>3. ASSUME NEW y \in S PROVE x <= y
  <2>1. ~(y < x)
    BY <1>2 DEF OpToRel
  <2> QED BY <2>1
<1> QED BY <1>3

LEMMA MinProperty ==
  ASSUME NEW S \in SUBSET Nat, S # {}
  PROVE  Min(S) \in S /\ \A y \in S : Min(S) <= y
BY NatMin DEF Min

(* A bounded set has a greatest element: the one least far from the bound. *)
LEMMA MaxProperty ==
  ASSUME NEW N \in Nat, NEW S \in SUBSET (0 .. N), S # {}
  PROVE  Max(S) \in S /\ \A y \in S : y <= Max(S)
<1> DEFINE D == {N - x : x \in S}
<1>1. D \in SUBSET Nat /\ D # {}
  <2>1. \A x \in S : N - x \in Nat
    OBVIOUS
  <2> QED BY <2>1
<1>2. PICK d \in D : \A e \in D : d <= e
  BY <1>1, NatMin
<1>3. PICK x \in S : d = N - x
  OBVIOUS
<1>4. \A y \in S : N - y \in D
  OBVIOUS
<1>5. ASSUME NEW y \in S PROVE x >= y
  <2>1. d <= N - y
    BY <1>2, <1>4
  <2>2. x \in Nat /\ y \in Nat
    OBVIOUS
  <2> QED BY <1>3, <2>1, <2>2
<1> QED BY <1>5 DEF Max

LEMMA Division ==
  ASSUME NEW a \in Nat, NEW n \in Nat \ {0}
  PROVE  /\ a \div n \in Nat
         /\ a % n \in 0 .. n - 1
         /\ a = n * (a \div n) + (a % n)
OBVIOUS

LEMMA TimesMonotone ==
  ASSUME NEW a \in Nat, NEW b \in Nat, NEW n \in Nat, a <= b
  PROVE  a * n \in Nat /\ b * n \in Nat /\ a * n <= b * n
<1>1. b * n = a * n + (b - a) * n
  OBVIOUS
<1>2. (b - a) * n \in Nat /\ a * n \in Nat
  OBVIOUS
<1> QED BY <1>1, <1>2

(* One dimension: a cut tile starts inside and ends inside. *)
LEMMA CutInside ==
  ASSUME NEW len \in Nat \ {0}, NEW n \in Nat \ {0},
         NEW i \in 0 .. (len - 1) \div n
  PROVE  /\ i * n \in Nat
         /\ i * n < len
<1>1. len - 1 = n * ((len - 1) \div n) + ((len - 1) % n)
      /\ (len - 1) \div n \in Nat /\ (len - 1) % n \in Nat
  BY Division
<1>2. i * n <= ((len - 1) \div n) * n /\ i * n \in Nat
  BY <1>1, TimesMonotone
<1>3. n * ((len - 1) \div n) = ((len - 1) \div n) * n
      /\ n * ((len - 1) \div n) \in Nat
  BY <1>1
<1> QED BY <1>1, <1>2, <1>3

(* One dimension: every pixel is in the tile of its quotient. *)
LEMMA CutCovers ==
  ASSUME NEW len \in Nat \ {0}, NEW n \in Nat \ {0},
         NEW a \in Nat, a < len
  PROVE  /\ a \div n \in 0 .. (len - 1) \div n
         /\ (a \div n) * n <= a
         /\ a < (a \div n) * n + n
<1>1. /\ a = n * (a \div n) + (a % n)
      /\ a \div n \in Nat /\ a % n \in 0 .. n - 1
  BY Division
<1>2. a \div n <= (len - 1) \div n
  OBVIOUS
<1>3. (len - 1) \div n \in Nat
  OBVIOUS
<1>4. n * (a \div n) = (a \div n) * n /\ (a \div n) * n \in Nat
  BY <1>1
<1> QED BY <1>1, <1>2, <1>3, <1>4

-----------------------------------------------------------------------------
(* Tiles and rectangles. *)

LEMMA SizeType ==
  ASSUME NEW s \in Sizes
  PROVE  s.w \in Nat \ {0} /\ s.h \in Nat \ {0}
BY SizesAssumption

TileWidth(s) == IF DamageType = "gpu" THEN Tile(s) ELSE s.w

LEMMA TileInside ==
  ASSUME NEW s \in Sizes, NEW r \in Tiles(s)
  PROVE  /\ {r.x, r.y} \subseteq Nat
         /\ {r.w, r.h} \subseteq Nat \ {0}
         /\ r.x + r.w <= s.w
         /\ r.y + r.h <= s.h
<1> DEFINE w == TileWidth(s)
<1> DEFINE Cut(a, b) == IF a <= b THEN a ELSE b
<1>1. w \in Nat \ {0} /\ Tile(s) \in Nat \ {0} /\ s.w \in Nat \ {0} /\ s.h \in Nat \ {0}
  BY SizeType, SizesAssumption DEF TileWidth
<1>2. PICK i \in 0 .. (s.w - 1) \div w, j \in 0 .. (s.h - 1) \div Tile(s) :
        r = [x |-> i * w, y |-> j * Tile(s),
             w |-> Cut(w, s.w - i * w), h |-> Cut(Tile(s), s.h - j * Tile(s))]
  BY DEF Tiles, TileWidth
<1>3. i * w \in Nat /\ i * w < s.w
  BY <1>1, CutInside
<1>4. j * Tile(s) \in Nat /\ j * Tile(s) < s.h
  BY <1>1, CutInside
<1>5. r.x = i * w /\ r.y = j * Tile(s)
      /\ r.w = Cut(w, s.w - i * w) /\ r.h = Cut(Tile(s), s.h - j * Tile(s))
  BY <1>2
<1> HIDE DEF w
<1> QED BY <1>1, <1>3, <1>4, <1>5

(* Every pixel is in a tile (damage_width and damage_height round up). *)
LEMMA TilesCover ==
  ASSUME NEW s \in Sizes, NEW p \in Px(s)
  PROVE  \E r \in Tiles(s) : p \in Rect(r)
<1> DEFINE w == TileWidth(s)
<1> DEFINE Cut(a, b) == IF a <= b THEN a ELSE b
<1> DEFINE i == p[1] \div w
<1> DEFINE j == p[2] \div Tile(s)
<1> DEFINE r == [x |-> i * w, y |-> j * Tile(s),
                 w |-> Cut(w, s.w - i * w), h |-> Cut(Tile(s), s.h - j * Tile(s))]
<1>1. w \in Nat \ {0} /\ Tile(s) \in Nat \ {0} /\ s.w \in Nat \ {0} /\ s.h \in Nat \ {0}
  BY SizeType, SizesAssumption DEF TileWidth
<1>2. /\ p[1] \in Nat /\ p[1] < s.w
      /\ p[2] \in Nat /\ p[2] < s.h
      /\ p = <<p[1], p[2]>>
  BY <1>1 DEF Px
<1>3. /\ i \in 0 .. (s.w - 1) \div w
      /\ i * w <= p[1]
      /\ p[1] < i * w + w
  BY <1>1, <1>2, CutCovers
<1>4. /\ j \in 0 .. (s.h - 1) \div Tile(s)
      /\ j * Tile(s) <= p[2]
      /\ p[2] < j * Tile(s) + Tile(s)
  BY <1>1, <1>2, CutCovers
<1>5. r \in Tiles(s)
  BY <1>3, <1>4 DEF Tiles, TileWidth
<1>6. i * w \in Nat /\ j * Tile(s) \in Nat
  BY <1>1, <1>3, <1>4, CutInside
<1>7. p[1] \in r.x .. r.x + r.w - 1 /\ p[2] \in r.y .. r.y + r.h - 1
  <2> HIDE DEF i, j, w
  <2> QED BY <1>1, <1>2, <1>3, <1>4, <1>6
<1> QED BY <1>2, <1>5, <1>7 DEF Rect

(* The rectangle around some tiles contains each of them. *)
LEMMA AroundCovers ==
  ASSUME NEW s \in Sizes, NEW R \in SUBSET Tiles(s), R # {}
  PROVE  /\ \A r \in R : Rect(r) \subseteq Rect(Around(R))
         /\ Rect(Around(R)) \subseteq Px(s)
<1> DEFINE X1 == {r.x : r \in R}
<1> DEFINE Y1 == {r.y : r \in R}
<1> DEFINE X2 == {r.x + r.w : r \in R}
<1> DEFINE Y2 == {r.y + r.h : r \in R}
<1>1. \A r \in R : /\ {r.x, r.y} \subseteq Nat
                   /\ {r.w, r.h} \subseteq Nat \ {0}
                   /\ r.x + r.w <= s.w
                   /\ r.y + r.h <= s.h
  BY TileInside
<1>2. s.w \in Nat /\ s.h \in Nat
  BY SizeType
<1>3. /\ X1 \in SUBSET Nat /\ X1 # {}
      /\ Y1 \in SUBSET Nat /\ Y1 # {}
  BY <1>1
<1>4. /\ X2 \in SUBSET (0 .. s.w) /\ X2 # {}
      /\ Y2 \in SUBSET (0 .. s.h) /\ Y2 # {}
  BY <1>1, <1>2
<1>5. /\ Min(X1) \in Nat /\ \A x \in X1 : Min(X1) <= x
      /\ Min(Y1) \in Nat /\ \A y \in Y1 : Min(Y1) <= y
  BY <1>3, MinProperty
<1>6. /\ Max(X2) \in 0 .. s.w /\ \A x \in X2 : x <= Max(X2)
      /\ Max(Y2) \in 0 .. s.h /\ \A y \in Y2 : y <= Max(Y2)
  BY <1>2, <1>4, MaxProperty
<1>7. Around(R) = [x |-> Min(X1), y |-> Min(Y1),
                   w |-> Max(X2) - Min(X1), h |-> Max(Y2) - Min(Y1)]
  BY DEF Around
<1>8. Rect(Around(R)) = (Min(X1) .. Min(X1) + (Max(X2) - Min(X1)) - 1)
                        \X (Min(Y1) .. Min(Y1) + (Max(Y2) - Min(Y1)) - 1)
  BY <1>7 DEF Rect
<1>9. Rect(Around(R)) = (Min(X1) .. Max(X2) - 1) \X (Min(Y1) .. Max(Y2) - 1)
  <2> HIDE DEF X1, X2, Y1, Y2
  <2> QED BY <1>5, <1>6, <1>8, <1>2
<1>10. ASSUME NEW r \in R PROVE Rect(r) \subseteq Rect(Around(R))
  <2>1. r.x \in X1 /\ r.y \in Y1 /\ r.x + r.w \in X2 /\ r.y + r.h \in Y2
    OBVIOUS
  <2>2. /\ Min(X1) <= r.x /\ r.x + r.w <= Max(X2)
        /\ Min(Y1) <= r.y /\ r.y + r.h <= Max(Y2)
    BY <2>1, <1>5, <1>6
  <2>3. r.x .. r.x + r.w - 1 \subseteq Min(X1) .. Max(X2) - 1
    <3> HIDE DEF X1, X2
    <3> QED BY <2>2, <1>1, <1>2, <1>5, <1>6
  <2>4. r.y .. r.y + r.h - 1 \subseteq Min(Y1) .. Max(Y2) - 1
    <3> HIDE DEF Y1, Y2
    <3> QED BY <2>2, <1>1, <1>2, <1>5, <1>6
  <2> HIDE DEF X1, X2, Y1, Y2
  <2> QED BY <2>3, <2>4, <1>9 DEF Rect
<1>11. Rect(Around(R)) \subseteq Px(s)
  <2> HIDE DEF X1, X2, Y1, Y2
  <2> QED BY <1>2, <1>5, <1>6, <1>9 DEF Px
<1> QED BY <1>10, <1>11

LEMMA DamageInside ==
  ASSUME NEW s \in Sizes, NEW a, NEW b
  PROVE  Damage(s, a, b) \subseteq Px(s)
<1>1. Changed(s, a, b) \in SUBSET Tiles(s)
  BY DEF Changed
<1> QED BY <1>1, AroundCovers DEF Damage

(* With the CPU detector a pixel outside of the damage has not changed     *)
(* (detect_damage_cpu compares every byte of every strip).                 *)
LEMMA DamageCovers ==
  ASSUME DamageType = "cpu",
         NEW s \in Sizes, NEW a \in Picture(s), NEW b \in Picture(s),
         NEW p \in Px(s) \ Damage(s, a, b)
  PROVE  a[p] = b[p]
<1>1. PICK r \in Tiles(s) : p \in Rect(r)
  BY TilesCover
<1>2. CASE r \in Changed(s, a, b)
  <2>1. Changed(s, a, b) \in SUBSET Tiles(s) /\ Changed(s, a, b) # {}
    BY <1>2 DEF Changed
  <2>2. p \in Rect(Around(Changed(s, a, b)))
    BY <1>1, <1>2, <2>1, AroundCovers
  <2> QED BY <2>1, <2>2 DEF Damage
<1>3. CASE r \notin Changed(s, a, b)
  <2>1. Part(a, r) = Part(b, r)
    BY <1>3 DEF Changed, Sample
  <2>2. Part(a, r)[p] = a[p] /\ Part(b, r)[p] = b[p]
    BY <1>1 DEF Part
  <2> QED BY <2>1, <2>2
<1> QED BY <1>2, <1>3

-----------------------------------------------------------------------------
(* What a conversion starts from and draws are pictures of its size.       *)
LEMMA InputsType ==
  ASSUME ConverterOK, NEW s \in Sizes
  PROVE  /\ TexBefore(s) \subseteq Picture(s)
         /\ PrevBefore(s) \subseteq Picture(s)
         /\ Pictures(s) \subseteq Picture(s)
         /\ Undefined(s) \subseteq Picture(s)
         /\ Cleared(s) \in Picture(s)
<1>1. Pictures(s) \subseteq Picture(s) /\ Undefined(s) \subseteq Picture(s)
  BY PicturesAssumption DEF Picture
<1>2. Cleared(s) \in Picture(s)
  BY DEF Cleared, Picture
<1>3. ~Fresh(s) => {tex, prev} \subseteq Picture(s)
  BY DEF Fresh, ConverterOK
<1>4. TexBefore(s) \subseteq Picture(s)
  BY <1>1, <1>3 DEF TexBefore
<1>5. PrevBefore(s) \subseteq Picture(s)
  <2>1. CASE ~Fresh(s)
    BY <2>1, <1>3 DEF PrevBefore
  <2>2. CASE Fresh(s) /\ DamageType = "gpu"
    BY <2>2, <1>1 DEF PrevBefore
  <2>3. CASE Fresh(s) /\ DamageType # "gpu"
    BY <2>3, <1>2 DEF PrevBefore
  <2> QED BY <2>1, <2>2, <2>3
<1> QED BY <1>1, <1>2, <1>4, <1>5

(* A buffer the VNC server keeps for itself.                               *)
LEMMA DetachedType ==
  ASSUME ConverterOK, ServerOK, HasFb
  PROVE  /\ Detached # None
         /\ Detached.size = FbSize /\ FbSize \in Sizes
         /\ Detached \in [size : {FbSize}, pic : Picture(FbSize)]
<1>1. CASE shared
  <2>1. size \in Sizes /\ curr \in Picture(size)
    BY <1>1 DEF ServerOK, ConverterOK
  <2>2. Detached \in [size : {size}, pic : Picture(size)]
    BY <1>1, <2>1 DEF Detached
  <2>3. None \notin [size : {size}, pic : Picture(size)]
    BY <2>1, NoneAssumption DEF Picture
  <2>4. Detached.size = size /\ FbSize = size
    BY <1>1 DEF Detached, FbSize
  <2> QED BY <2>1, <2>2, <2>3, <2>4
<1>2. CASE ~shared
  BY <1>2 DEF HasFb, Detached, FbSize, ServerOK
<1> QED BY <1>1, <1>2

(* Without an update the server keeps what it sends from, and its size.    *)
LEMMA NoUpdateType ==
  ASSUME ConverterOK, ServerOK, ClientsOK, NEW s \in Sizes,
         NoUpdate(s), running' = TRUE, size' = s
  PROVE  ServerOK' /\ ClientsOK'
<1>1. CASE Fresh(s) /\ HasFb
  <2>1. shared' = FALSE /\ old' = Detached /\ UNCHANGED clients
    BY <1>1 DEF NoUpdate, ServerOK
  <2>2. /\ old' # None /\ old'.size = FbSize /\ FbSize \in Sizes
        /\ old' \in [size : {FbSize}, pic : Picture(FbSize)]
    BY <1>1, <2>1, DetachedType
  <2>3. HasFb' /\ FbSize' = FbSize
    BY <2>1, <2>2 DEF HasFb, FbSize
  <2>4. ServerOK'
    BY <2>1, <2>2 DEF ServerOK
  <2>5. ClientsOK'
    BY <1>1, <2>1, <2>3 DEF ClientsOK, clients
  <2> QED BY <2>4, <2>5
<1>2. CASE Fresh(s) /\ ~HasFb
  <2>1. shared' = FALSE /\ old' = None /\ shared = FALSE /\ UNCHANGED clients
    BY <1>2 DEF NoUpdate, Detached, HasFb, ServerOK
  <2>2. ~HasFb'
    BY <2>1 DEF HasFb
  <2> QED BY <1>2, <2>1, <2>2 DEF ServerOK, ClientsOK, clients
<1>3. CASE ~Fresh(s)
  <2>1. shared' = shared /\ old' = old /\ UNCHANGED clients /\ size' = size
    BY <1>3 DEF NoUpdate, Fresh, ServerOK
  <2>2. HasFb' = HasFb /\ FbSize' = FbSize
    BY <2>1 DEF HasFb, FbSize
  <2> QED BY <2>1, <2>2 DEF ServerOK, ClientsOK, clients
<1> QED BY <1>1, <1>2, <1>3

(* An update gives every client the new size, or leaves it that size.      *)
LEMMA UpdateType ==
  ASSUME ConverterOK, ServerOK, ClientsOK, NEW s \in Sizes,
         NEW damage \in SUBSET Px(s),
         Update(s, damage), running' = TRUE, size' = s
  PROVE  ServerOK' /\ ClientsOK'
<1> DEFINE resized == ~HasFb \/ FbSize # s
<1> DEFINE whole == resized \/ (LibVNC /\ (~shared \/ Fresh(s)))
<1>1. /\ shared' = TRUE /\ old' = None /\ watching' = watching
      /\ marked' = [c \in Clients |->
                  CASE c \notin watching -> {}
                    [] c \in watching /\ whole -> Px(s)
                    [] OTHER -> marked[c] \cup damage]
      /\ view' = [c \in Clients |->
                IF c \in watching /\ resized THEN Cleared(s) ELSE view[c]]
      /\ stale' = [c \in Clients |-> IF resized THEN {} ELSE stale[c]]
  BY DEF Update
<1>2. HasFb' /\ FbSize' = s
  BY <1>1 DEF HasFb, FbSize
<1>3. ServerOK'
  BY <1>1 DEF ServerOK
<1>4. Cleared(s) \in Picture(s)
  BY DEF Cleared, Picture
<1>5. ASSUME NEW c \in Clients, c \in watching
      PROVE  view'[c] \in Picture(s) /\ marked'[c] \cup stale'[c] \subseteq Px(s)
  <2>1. CASE resized
    <3>1. view'[c] = Cleared(s) /\ stale'[c] = {} /\ marked'[c] = Px(s)
      BY <1>1, <1>5, <2>1
    <3> QED BY <3>1, <1>4
  <2>2. CASE ~resized
    <3>1. view[c] \in Picture(s) /\ marked[c] \cup stale[c] \subseteq Px(s)
      BY <1>5, <2>2 DEF ClientsOK
    <3>2. view'[c] = view[c] /\ stale'[c] = stale[c]
      BY <1>1, <2>2
    <3>3. marked'[c] = Px(s) \/ marked'[c] = marked[c] \cup damage
      BY <1>1, <1>5
    <3> QED BY <3>1, <3>2, <3>3
  <2> QED BY <2>1, <2>2
<1>6. ASSUME NEW c \in Clients, c \notin watching
      PROVE  view'[c] = None /\ marked'[c] = {} /\ stale'[c] = {}
  BY <1>1, <1>6 DEF ClientsOK
<1>7. ClientsOK'
  <2> HIDE DEF resized, whole
  <2>1. /\ view' = [c \in Clients |-> view'[c]]
        /\ marked' = [c \in Clients |-> marked'[c]]
        /\ stale' = [c \in Clients |-> stale'[c]]
    BY <1>1
  <2>2. watching' \subseteq Clients
    BY <1>1 DEF ClientsOK
  <2> QED BY <1>1, <1>2, <1>5, <1>6, <2>1, <2>2 DEF ClientsOK
<1> QED BY <1>3, <1>7

LEMMA GoneType ==
  ASSUME ClientsOK, NEW S, Gone(S), UNCHANGED <<converter, server>>
  PROVE  ClientsOK'
<1>1. HasFb' = HasFb /\ FbSize' = FbSize
  BY DEF HasFb, FbSize, converter, server
<1> QED BY <1>1 DEF Gone, ClientsOK

LEMMA FrameType ==
  ASSUME TypeOK, NEW s \in Sizes, Frame(s)
  PROVE  TypeOK'
<1>1. PICK texture \in TexBefore(s), before \in PrevBefore(s) :
      \E new \in Pictures(s) \cup {texture} :
        /\ streaming
        /\ Draw(s, texture, new)
        /\ running' = TRUE /\ size' = s
        /\ curr' = new
        /\ torn' = FALSE
        /\ Remember(new, before)
        /\ IF Damage(s, new, before) = {} THEN NoUpdate(s)
           ELSE Update(s, Damage(s, new, before))
        /\ UNCHANGED streaming
  BY DEF Frame
<1>2. PICK new \in Pictures(s) \cup {texture} :
        /\ Draw(s, texture, new)
        /\ running' = TRUE /\ size' = s
        /\ curr' = new
        /\ torn' = FALSE
        /\ Remember(new, before)
        /\ IF Damage(s, new, before) = {} THEN NoUpdate(s)
           ELSE Update(s, Damage(s, new, before))
        /\ UNCHANGED streaming
  BY <1>1
<1>3. /\ texture \in Picture(s) /\ before \in Picture(s) /\ new \in Picture(s)
  BY InputsType DEF TypeOK
<1>4. ConverterOK'
  <2>1. {tex', prev', curr'} \subseteq Picture(s)
    BY <1>2, <1>3 DEF Remember
  <2>2. drawn' # None => drawn' \in Picture(s)
    BY <1>2, <1>3 DEF Draw, Fresh, TypeOK, ConverterOK
  <2> QED BY <1>2, <2>1, <2>2 DEF ConverterOK
<1>5. ServerOK' /\ ClientsOK'
  <2>1. CASE Damage(s, new, before) = {}
    BY <1>2, <2>1, NoUpdateType DEF TypeOK
  <2>2. CASE Damage(s, new, before) # {}
    BY <1>2, <2>2, DamageInside, UpdateType DEF TypeOK
  <2> QED BY <2>1, <2>2
<1> QED BY <1>2, <1>4, <1>5 DEF TypeOK

LEMMA DamageReadFailsType ==
  ASSUME TypeOK, NEW s \in Sizes, DamageReadFails(s)
  PROVE  TypeOK'
<1>1. PICK texture \in TexBefore(s), before \in PrevBefore(s) :
      \E new \in Pictures(s) \cup {texture} :
        Draw(s, texture, new) /\ curr' = new /\ Remember(new, before)
  BY DEF DamageReadFails
<1>2. PICK new \in Pictures(s) \cup {texture} :
        Draw(s, texture, new) /\ curr' = new /\ Remember(new, before)
  BY <1>1
<1>3. /\ running' = TRUE /\ size' = s /\ torn' = FALSE
      /\ Update(s, Px(s)) /\ UNCHANGED streaming
  BY DEF DamageReadFails
<1>4. /\ texture \in Picture(s) /\ before \in Picture(s) /\ new \in Picture(s)
  BY InputsType DEF TypeOK
<1>5. ConverterOK'
  <2>1. {tex', prev', curr'} \subseteq Picture(s)
    BY <1>2, <1>4 DEF Remember
  <2>2. drawn' # None => drawn' \in Picture(s)
    BY <1>2, <1>4 DEF Draw, Fresh, TypeOK, ConverterOK
  <2> QED BY <1>3, <2>1, <2>2 DEF ConverterOK
<1>6. ServerOK' /\ ClientsOK'
  BY <1>3, UpdateType DEF TypeOK
<1> QED BY <1>3, <1>5, <1>6 DEF TypeOK

LEMMA ReadFailsType ==
  ASSUME TypeOK, NEW s \in Sizes, ReadFails(s)
  PROVE  TypeOK'
<1>1. PICK texture \in TexBefore(s), before \in PrevBefore(s) :
      \E new \in Pictures(s) \cup {texture} :
        Draw(s, texture, new) /\ tex' = new /\ prev' = before
  BY DEF ReadFails
<1>2. PICK new \in Pictures(s) \cup {texture} :
        Draw(s, texture, new) /\ tex' = new /\ prev' = before
  BY <1>1
<1>3. /\ running' = TRUE /\ size' = s /\ curr' \in Undefined(s)
      /\ torn' = TRUE /\ NoUpdate(s) /\ UNCHANGED streaming
  BY DEF ReadFails
<1>4. /\ before \in Picture(s) /\ new \in Picture(s)
      /\ Undefined(s) \subseteq Picture(s)
  BY InputsType DEF TypeOK
<1>5. ConverterOK'
  <2>1. {tex', prev', curr'} \subseteq Picture(s)
    BY <1>2, <1>3, <1>4
  <2>2. drawn' # None => drawn' \in Picture(s)
    BY <1>2, <1>4 DEF Draw, Fresh, TypeOK, ConverterOK
  <2> QED BY <1>3, <2>1, <2>2 DEF ConverterOK
<1>6. ServerOK' /\ ClientsOK'
  BY <1>3, NoUpdateType DEF TypeOK
<1> QED BY <1>3, <1>5, <1>6 DEF TypeOK

LEMMA SendType ==
  ASSUME TypeOK, NEW c \in Clients, Send(c)
  PROVE  /\ TypeOK'
         /\ c \in watching /\ HasFb
         /\ \A p \in Px(FbSize) :
              view'[c][p] = IF p \in marked[c] THEN Fb[p] ELSE view[c][p]
<1>1. c \in watching /\ HasFb
  BY DEF Send, TypeOK, ClientsOK
<1>2. /\ view[c] \in Picture(FbSize)
      /\ marked[c] \cup stale[c] \subseteq Px(FbSize)
  BY <1>1 DEF TypeOK, ClientsOK
<1>3. /\ view' = [view EXCEPT ![c] =
                   [p \in Px(FbSize) |-> IF p \in marked[c] THEN Fb[p] ELSE view[c][p]]]
      /\ marked' = [marked EXCEPT ![c] = {}]
      /\ stale' = [stale EXCEPT ![c] = IF shared /\ torn THEN stale[c] \cup marked[c]
                                       ELSE stale[c] \ marked[c]]
      /\ UNCHANGED <<watching, streaming, converter, server>>
  BY <1>2 DEF Send, Picture
<1>4. HasFb' = HasFb /\ FbSize' = FbSize
  BY <1>3 DEF HasFb, FbSize, converter, server
<1>5. Fb \in Picture(FbSize)
  <2>1. CASE shared
    BY <2>1 DEF Fb, FbSize, TypeOK, ServerOK, ConverterOK
  <2>2. CASE ~shared
    BY <1>1, <2>2 DEF HasFb, Fb, FbSize, TypeOK, ServerOK
  <2> QED BY <2>1, <2>2
<1>6. view'[c] = [p \in Px(FbSize) |-> IF p \in marked[c] THEN Fb[p] ELSE view[c][p]]
  BY <1>3 DEF TypeOK, ClientsOK
<1>7. view'[c] \in Picture(FbSize)
  BY <1>2, <1>5, <1>6 DEF Picture
<1>8. ClientsOK'
  <2>1. marked'[c] = {} /\ stale'[c] \subseteq Px(FbSize)
    BY <1>2, <1>3 DEF TypeOK, ClientsOK
  <2>2. \A d \in Clients \ {c} :
          view'[d] = view[d] /\ marked'[d] = marked[d] /\ stale'[d] = stale[d]
    BY <1>3 DEF TypeOK, ClientsOK
  <2>3. /\ view' = [d \in Clients |-> view'[d]]
        /\ marked' = [d \in Clients |-> marked'[d]]
        /\ stale' = [d \in Clients |-> stale'[d]]
    BY <1>3 DEF TypeOK, ClientsOK
  <2> QED BY <1>1, <1>3, <1>4, <1>7, <2>1, <2>2, <2>3 DEF TypeOK, ClientsOK
<1>9. ConverterOK' /\ ServerOK' /\ streaming' \in BOOLEAN
  BY <1>3 DEF TypeOK, ConverterOK, ServerOK, converter, server
<1> QED BY <1>1, <1>6, <1>8, <1>9 DEF TypeOK

LEMMA JoinType ==
  ASSUME TypeOK, NEW c \in Clients, Join(c)
  PROVE  TypeOK'
<1>1. HasFb' = HasFb /\ FbSize' = FbSize
  BY DEF Join, HasFb, FbSize, converter, server
<1>2. ConverterOK' /\ ServerOK' /\ streaming' \in BOOLEAN
  BY DEF Join, TypeOK, ConverterOK, ServerOK, converter, server
<1>3. HasFb => Cleared(FbSize) \in Picture(FbSize)
  BY DEF Cleared, Picture
<1>4. ClientsOK'
  <2>1. /\ view'[c] = IF HasFb THEN Cleared(FbSize) ELSE None
        /\ marked'[c] = IF HasFb THEN Px(FbSize) ELSE {}
        /\ stale'[c] = {}
    BY DEF Join, TypeOK, ClientsOK
  <2>2. \A d \in Clients \ {c} :
          view'[d] = view[d] /\ marked'[d] = marked[d] /\ stale'[d] = stale[d]
    BY DEF Join, TypeOK, ClientsOK
  <2>3. /\ view' = [d \in Clients |-> view'[d]]
        /\ marked' = [d \in Clients |-> marked'[d]]
        /\ stale' = [d \in Clients |-> stale'[d]]
    BY DEF Join, TypeOK, ClientsOK
  <2>4. watching' = watching \cup {c}
    BY DEF Join
  <2> QED BY <1>1, <1>3, <2>1, <2>2, <2>3, <2>4 DEF TypeOK, ClientsOK
<1> QED BY <1>2, <1>4 DEF TypeOK

LEMMA LastClientType ==
  ASSUME TypeOK, LastClient
  PROVE  TypeOK'
<1>1. ConverterOK'
  BY DEF LastClient, ConverterOK
<1>2. ServerOK'
  <2>1. CASE HasFb
    BY <2>1, DetachedType DEF LastClient, ServerOK, TypeOK
  <2>2. CASE ~HasFb
    BY <2>2 DEF LastClient, ServerOK, HasFb, Detached
  <2> QED BY <2>1, <2>2
<1>3. ClientsOK'
  BY DEF LastClient, clients, TypeOK, ClientsOK
<1> QED BY <1>1, <1>2, <1>3 DEF LastClient, TypeOK

(* Every reachable state is well typed: buffers have the size of the       *)
(* converter or of the VNC server's copy, the VNC server shares a buffer   *)
(* only with a running converter, and clients are marked inside of it      *)
(* (rf_converter_convert, update, rf_converter_stop).                      *)
THEOREM TypeCorrect == Spec => []TypeOK
<1>1. Init => TypeOK
  <2> SUFFICES ASSUME Init PROVE TypeOK
    OBVIOUS
  <2>1. ConverterOK
    BY DEF Init, ConverterOK
  <2>2. ServerOK
    <3>1. CASE LibVNC
      BY <3>1 DEF Init, ServerOK
    <3>2. CASE ~LibVNC
      <4>1. PICK s \in Sizes : old = [size |-> s, pic |-> Cleared(s)]
        BY <3>2 DEF Init
      <4>2. Cleared(s) \in Picture(s) /\ old.size = s
        BY <4>1 DEF Cleared, Picture
      <4> QED BY <4>1, <4>2 DEF Init, ServerOK
    <3> QED BY <3>1, <3>2
  <2>3. ClientsOK
    BY DEF Init, ClientsOK
  <2> QED BY <2>1, <2>2, <2>3 DEF Init, TypeOK
<1>2. TypeOK /\ [Next]_vars => TypeOK'
  <2> SUFFICES ASSUME TypeOK, [Next]_vars PROVE TypeOK'
    OBVIOUS
  <2>1. ASSUME NEW s \in Sizes, Frame(s) PROVE TypeOK'
    BY <2>1, FrameType
  <2>10. ASSUME NEW s \in Sizes, DamageReadFails(s) PROVE TypeOK'
    BY <2>10, DamageReadFailsType
  <2>2. ASSUME NEW s \in Sizes, ReadFails(s) PROVE TypeOK'
    BY <2>2, ReadFailsType
  <2>3. ASSUME NEW c \in Clients, Join(c) PROVE TypeOK'
    BY <2>3, JoinType
  <2>4. ASSUME NEW c \in Clients, Leave(c) PROVE TypeOK'
    <3>1. ClientsOK'
      BY <2>4, GoneType DEF Leave, TypeOK
    <3> QED BY <2>4, <3>1
        DEF Leave, TypeOK, ConverterOK, ServerOK, converter, server
  <2>5. ASSUME NEW c \in Clients, Send(c) PROVE TypeOK'
    BY <2>5, SendType
  <2>6. CASE FirstClient
    BY <2>6 DEF FirstClient, converter, server, clients,
                TypeOK, ConverterOK, ServerOK, ClientsOK, HasFb, FbSize
  <2>7. CASE StreamerLost
    <3>1. ClientsOK'
      BY <2>7, GoneType DEF StreamerLost, TypeOK
    <3> QED BY <2>7, <3>1
        DEF StreamerLost, TypeOK, ConverterOK, ServerOK, converter, server
  <2>8. CASE LastClient
    BY <2>8, LastClientType
  <2>9. CASE UNCHANGED vars
    BY <2>9 DEF vars, converter, server, clients,
                TypeOK, ConverterOK, ServerOK, ClientsOK, HasFb, FbSize
  <2> QED BY <2>1, <2>2, <2>3, <2>4, <2>5, <2>6, <2>7, <2>8, <2>9, <2>10 DEF Next
<1> QED BY <1>1, <1>2, PTL DEF Spec

-----------------------------------------------------------------------------
(* What is compared with next is what the clients have been told: the      *)
(* previous picture with the CPU detector, and without one, as everything  *)
(* is sent again, the buffer.                                              *)
Told == IF DamageType = "cpu" THEN prev ELSE curr

PrevIsCurr == DamageType = "cpu" /\ running /\ ~torn => prev = curr

ClientsTold ==
  shared /\ (DamageType = "cpu" \/ ~torn) =>
    \A c \in watching : \A p \in Px(size) \ (marked[c] \cup stale[c]) :
      view[c][p] = Told[p]

Exact == TypeOK /\ PrevIsCurr /\ ClientsTold

(* A frame keeps clients exact: what is not marked has not changed.        *)
LEMMA FrameExact ==
  ASSUME DamageType # "gpu", LibVNC, Exact, NEW s \in Sizes, Frame(s)
  PROVE  PrevIsCurr' /\ ClientsTold'
<1>1. PICK texture \in TexBefore(s), before \in PrevBefore(s) :
      \E new \in Pictures(s) \cup {texture} :
        /\ running' = TRUE /\ size' = s
        /\ curr' = new
        /\ torn' = FALSE
        /\ Remember(new, before)
        /\ IF Damage(s, new, before) = {} THEN NoUpdate(s)
           ELSE Update(s, Damage(s, new, before))
  BY DEF Frame
<1>2. PICK new \in Pictures(s) \cup {texture} :
        /\ running' = TRUE /\ size' = s
        /\ curr' = new
        /\ torn' = FALSE
        /\ Remember(new, before)
        /\ IF Damage(s, new, before) = {} THEN NoUpdate(s)
           ELSE Update(s, Damage(s, new, before))
  BY <1>1
<1>3. before \in Picture(s) /\ new \in Picture(s)
  BY InputsType DEF Exact, TypeOK
<1>4. PrevIsCurr' /\ Told' = new
  BY <1>2 DEF PrevIsCurr, Told, Remember
<1>5. ~Fresh(s) => before = prev /\ size = s /\ running
  BY DEF PrevBefore, Fresh
<1>6. Px(s) # {}
  <2>1. <<0, 0>> \in Px(s)
    BY SizeType DEF Px
  <2> QED BY <2>1
<1>7. ClientsTold'
  <2> SUFFICES ASSUME shared', NEW c \in watching',
                      NEW p \in Px(s), p \notin marked'[c] \cup stale'[c]
               PROVE  view'[c][p] = new[p]
    BY <1>2, <1>4 DEF ClientsTold
  <2>1. CASE Damage(s, new, before) = {}
    <3>1. DamageType = "cpu"
      BY <2>1, <1>6, KindAssumption DEF Damage
    <3>2. NoUpdate(s)
      BY <1>2, <2>1
    <3>3. ~Fresh(s) /\ shared /\ UNCHANGED clients
      BY <3>2 DEF NoUpdate, Exact, TypeOK, ServerOK
    <3>4. view[c][p] = prev[p]
      BY <3>1, <3>3, <1>5 DEF Exact, ClientsTold, Told, clients
    <3>5. new[p] = before[p]
      BY <3>1, <2>1, <1>3, DamageCovers
    <3> QED BY <3>3, <3>4, <3>5, <1>5 DEF clients
  <2>2. CASE Damage(s, new, before) # {}
    <3> DEFINE damage == Damage(s, new, before)
    <3> DEFINE resized == ~HasFb \/ FbSize # s
    <3> DEFINE whole == resized \/ (LibVNC /\ (~shared \/ Fresh(s)))
    <3>1. Update(s, damage)
      BY <1>2, <2>2
    <3>2. watching' = watching /\ c \in Clients /\ c \in watching
      BY <3>1 DEF Update, Exact, TypeOK, ClientsOK
    <3>3. /\ marked'[c] = IF whole THEN Px(s) ELSE marked[c] \cup damage
          /\ view'[c] = IF resized THEN Cleared(s) ELSE view[c]
          /\ stale'[c] = IF resized THEN {} ELSE stale[c]
      BY <3>1, <3>2 DEF Update
    <3>4. ~whole
      BY <3>3
    <3>5. shared /\ ~Fresh(s) /\ ~resized
      BY <3>4
    <3>6. p \notin damage /\ p \notin marked[c] /\ p \notin stale[c] /\ view'[c] = view[c]
      BY <3>3, <3>4, <3>5
    <3>7. CASE DamageType = "cpu"
      <4>1. view[c][p] = prev[p]
        BY <3>2, <3>5, <3>6, <3>7, <1>5 DEF Exact, ClientsTold, Told
      <4>2. new[p] = before[p]
        BY <3>6, <3>7, <1>3, DamageCovers
      <4> QED BY <4>1, <4>2, <3>5, <3>6, <1>5
    <3>8. CASE DamageType = "none"
      BY <3>6, <3>8 DEF Damage
    <3> QED BY <3>7, <3>8, KindAssumption
  <2> QED BY <2>1, <2>2
<1> QED BY <1>4, <1>7

(* A failed read tells nobody anything.                                    *)
LEMMA ReadFailsExact ==
  ASSUME DamageType # "gpu", Exact, NEW s \in Sizes, ReadFails(s)
  PROVE  PrevIsCurr' /\ ClientsTold'
<1>1. /\ torn' = TRUE /\ size' = s /\ NoUpdate(s)
      /\ prev' \in PrevBefore(s)
  BY DEF ReadFails
<1>2. ASSUME shared', DamageType = "cpu"
      PROVE  ~Fresh(s) /\ shared /\ prev' = prev /\ size = s /\ UNCHANGED clients
  BY <1>1, <1>2 DEF NoUpdate, PrevBefore, Fresh, Exact, TypeOK, ServerOK
<1>3. PrevIsCurr'
  BY <1>1 DEF PrevIsCurr
<1>4. ClientsTold'
  BY <1>1, <1>2 DEF ClientsTold, Told, Exact, clients
<1> QED BY <1>3, <1>4

(* Sending brings the pixels of the buffer, which are those told unless    *)
(* the buffer is torn; then they count as stale.                           *)
LEMMA SendExact ==
  ASSUME DamageType # "gpu", Exact, NEW c \in Clients, Send(c)
  PROVE  PrevIsCurr' /\ ClientsTold'
<1>1. /\ c \in watching
      /\ \A p \in Px(FbSize) :
           view'[c][p] = IF p \in marked[c] THEN Fb[p] ELSE view[c][p]
  BY SendType DEF Exact
<1>2. /\ UNCHANGED <<watching, streaming, converter, server>>
      /\ marked'[c] = {}
      /\ stale'[c] = IF shared /\ torn THEN stale[c] \cup marked[c]
                     ELSE stale[c] \ marked[c]
  BY DEF Send, Exact, TypeOK, ClientsOK
<1>3. \A d \in Clients \ {c} :
        view'[d] = view[d] /\ marked'[d] = marked[d] /\ stale'[d] = stale[d]
  BY DEF Send, Exact, TypeOK, ClientsOK
<1>4. PrevIsCurr'
  BY <1>2 DEF PrevIsCurr, converter, Exact
<1>5. ClientsTold'
  <2> SUFFICES ASSUME shared, DamageType = "cpu" \/ ~torn,
                      NEW d \in watching, NEW p \in Px(size),
                      p \notin marked'[d] \cup stale'[d]
               PROVE  view'[d][p] = Told[p]
    BY <1>2 DEF ClientsTold, Told, converter, server
  <2>1. CASE d # c
    BY <2>1, <1>3 DEF ClientsTold, Exact, TypeOK, ClientsOK
  <2>2. CASE d = c /\ p \notin marked[c]
    <3>1. p \notin stale[c]
      BY <2>2, <1>2
    <3>2. view'[c][p] = view[c][p]
      BY <2>2, <1>1 DEF FbSize
    <3> QED BY <2>2, <3>1, <3>2 DEF ClientsTold, Exact
  <2>3. CASE d = c /\ p \in marked[c]
    <3>1. ~torn
      BY <2>3, <1>2
    <3>2. view'[c][p] = curr[p]
      BY <2>3, <1>1 DEF FbSize, Fb
    <3>3. Told = curr
      BY <3>1 DEF Told, PrevIsCurr, Exact, TypeOK, ServerOK
    <3> QED BY <2>3, <3>2, <3>3
  <2> QED BY <2>1, <2>2, <2>3
<1> QED BY <1>4, <1>5

LEMMA JoinExact ==
  ASSUME Exact, NEW c \in Clients, Join(c)
  PROVE  PrevIsCurr' /\ ClientsTold'
<1>1. /\ watching' = watching \cup {c}
      /\ marked'[c] = IF HasFb THEN Px(FbSize) ELSE {}
      /\ UNCHANGED <<streaming, converter, server>>
  BY DEF Join, Exact, TypeOK, ClientsOK
<1>2. \A d \in Clients \ {c} :
        view'[d] = view[d] /\ marked'[d] = marked[d] /\ stale'[d] = stale[d]
  BY DEF Join, Exact, TypeOK, ClientsOK
<1>3. PrevIsCurr'
  BY <1>1 DEF PrevIsCurr, converter, Exact
<1>4. shared => marked'[c] = Px(size)
  BY <1>1 DEF HasFb, FbSize
<1>5. ClientsTold'
  BY <1>1, <1>2, <1>4
  DEF ClientsTold, Told, converter, server, Exact, TypeOK, ClientsOK
<1> QED BY <1>3, <1>5

LEMMA GoneExact ==
  ASSUME Exact, NEW S, Gone(S), UNCHANGED <<converter, server>>
  PROVE  PrevIsCurr' /\ ClientsTold'
<1>1. PrevIsCurr'
  BY DEF PrevIsCurr, converter, Exact
<1>2. \A d \in watching' : /\ d \in watching /\ d \in Clients
                           /\ view'[d] = view[d] /\ marked'[d] = marked[d]
                           /\ stale'[d] = stale[d]
  BY DEF Gone, Exact, TypeOK, ClientsOK
<1>3. ClientsTold'
  BY <1>2 DEF ClientsTold, Told, converter, server, Exact
<1> QED BY <1>1, <1>3

LEMMA ExactInvariant ==
  ASSUME DamageType # "gpu", LibVNC
  PROVE  Spec => []Exact
<1>1. Init => Exact
  <2>1. Init => PrevIsCurr /\ ClientsTold
    BY DEF Init, PrevIsCurr, ClientsTold
  <2>2. Init => TypeOK
    <3> SUFFICES ASSUME Init PROVE TypeOK
      OBVIOUS
    <3>1. ConverterOK /\ ServerOK /\ ClientsOK
      BY DEF Init, ConverterOK, ServerOK, ClientsOK
    <3> QED BY <3>1 DEF Init, TypeOK
  <2> QED BY <2>1, <2>2 DEF Exact
<1>2. TypeOK /\ TypeOK' /\ Exact /\ [Next]_vars => Exact'
  <2> SUFFICES ASSUME TypeOK', Exact, [Next]_vars
               PROVE  PrevIsCurr' /\ ClientsTold'
    BY DEF Exact
  <2>1. ASSUME NEW s \in Sizes, Frame(s) PROVE PrevIsCurr' /\ ClientsTold'
    BY <2>1, FrameExact
  <2>2. ASSUME NEW s \in Sizes, ReadFails(s) PROVE PrevIsCurr' /\ ClientsTold'
    BY <2>2, ReadFailsExact
  <2>3. ASSUME NEW c \in Clients, Join(c) PROVE PrevIsCurr' /\ ClientsTold'
    BY <2>3, JoinExact
  <2>4. ASSUME NEW c \in Clients, Leave(c) PROVE PrevIsCurr' /\ ClientsTold'
    BY <2>4, GoneExact DEF Leave
  <2>5. ASSUME NEW c \in Clients, Send(c) PROVE PrevIsCurr' /\ ClientsTold'
    BY <2>5, SendExact
  <2>6. CASE FirstClient
    BY <2>6 DEF FirstClient, converter, server, clients,
                Exact, PrevIsCurr, ClientsTold, Told
  <2>7. CASE StreamerLost
    BY <2>7, GoneExact DEF StreamerLost
  <2>8. CASE LastClient
    BY <2>8 DEF LastClient, PrevIsCurr, ClientsTold
  <2>9. CASE UNCHANGED vars
    BY <2>9 DEF vars, converter, server, clients,
                Exact, PrevIsCurr, ClientsTold, Told
  <2> QED BY <2>1, <2>2, <2>3, <2>4, <2>5, <2>6, <2>7, <2>8, <2>9 DEF Next, DamageReadFails
<1> QED BY <1>1, <1>2, TypeCorrect, PTL DEF Spec

(* With the CPU detector, or none, and LibVNCServer no client misses a     *)
(* pixel, whatever is drawn, fails, is resized or is stopped.  The         *)
(* strengthening says what is compared with next (rf_converter_convert,    *)
(* detect_damage, update).                                                 *)
THEOREM NothingLostByCpu ==
  ASSUME DamageType # "gpu", LibVNC
  PROVE  Spec => []NothingLost
<1>1. Exact => NothingLost
  BY DEF Exact, NothingLost, ClientsTold, Told, PrevIsCurr, TypeOK, ServerOK
<1> QED BY <1>1, ExactInvariant, PTL

-----------------------------------------------------------------------------
(* Without the swap of the GPU detector a frame draws over its own         *)
(* predecessor, so that a failed import leaves the newest picture.         *)
DrawnOver ==
  running => /\ drawn # None => tex = drawn
             /\ ~torn => curr = tex

(* With the CPU detector, or none, a successful conversion delivers the    *)
(* newest picture drawn (convert_buffers, detect_damage).                  *)
THEOREM NewestByCpu ==
  ASSUME DamageType # "gpu"
  PROVE  Spec => []NewestPicture
<1>1. Init => DrawnOver
  BY DEF Init, DrawnOver
<1>2. DrawnOver /\ [Next]_vars => DrawnOver'
  <2> SUFFICES ASSUME DrawnOver, [Next]_vars PROVE DrawnOver'
    OBVIOUS
  <2>1. ASSUME NEW s \in Sizes, Frame(s) PROVE DrawnOver'
    <3>1. PICK texture \in TexBefore(s), new \in Pictures(s) \cup TexBefore(s) :
            /\ Draw(s, texture, new)
            /\ curr' = new /\ tex' = new
      BY <2>1 DEF Frame, Remember
    <3> QED BY <3>1 DEF Draw, TexBefore, Fresh, DrawnOver
  <2>2. ASSUME NEW s \in Sizes, ReadFails(s) PROVE DrawnOver'
    <3>1. PICK texture \in TexBefore(s), new \in Pictures(s) \cup TexBefore(s) :
            Draw(s, texture, new) /\ tex' = new /\ torn' = TRUE
      BY <2>2 DEF ReadFails
    <3> QED BY <3>1 DEF Draw, TexBefore, Fresh, DrawnOver
  <2>3. CASE LastClient
    BY <2>3 DEF LastClient, DrawnOver
  <2>4. CASE UNCHANGED converter
    BY <2>4 DEF converter, DrawnOver
  <2> QED BY <2>1, <2>2, <2>3, <2>4
      DEF Next, DamageReadFails, Join, Leave, Send, FirstClient, StreamerLost, vars
<1>3. DrawnOver => NewestPicture
  BY DEF DrawnOver, NewestPicture
<1> QED BY <1>1, <1>2, <1>3, PTL DEF Spec

-----------------------------------------------------------------------------
(* The GPU detector: a tile that is not marked is, in whole, that of a     *)
(* picture which reads there as the picture compared with next.  What is   *)
(* marked are always whole tiles, else sending a part of one would mix two *)
(* pictures.                                                               *)
Aligned(s, S) == \A r \in Tiles(s) : Rect(r) \subseteq S \/ Rect(r) \cap S = {}

MarksAligned ==
  HasFb => \A c \in watching : Aligned(FbSize, marked[c]) /\ Aligned(FbSize, stale[c])

PrevIsDrawn == running /\ ~torn => prev = curr

TilesOfPrev ==
  shared =>
    \A c \in watching : \A r \in Tiles(size) :
      Rect(r) \cap (marked[c] \cup stale[c]) = {} =>
        \E q \in Delivered(size) : /\ Part(q, r) = Part(view[c], r)
                                  /\ Sample(size, q, r) = Sample(size, prev, r)

(* What the textures and the buffer hold is drawn, or was there before.    *)
FromPictures ==
  running => /\ tex \in Delivered(size)
             /\ torn \/ curr \in Delivered(size)
             /\ DamageType = "gpu" => prev \in Delivered(size)

TileExact == TypeOK /\ FromPictures /\ MarksAligned /\ PrevIsDrawn /\ TilesOfPrev

LEMMA FromPicturesInvariant == Spec => []FromPictures
<1>1. Init => FromPictures
  BY DEF Init, FromPictures
<1>2. FromPictures /\ [Next]_vars => FromPictures'
  <2> SUFFICES ASSUME FromPictures, [Next]_vars PROVE FromPictures'
    OBVIOUS
  <2>1. ASSUME NEW s \in Sizes
        PROVE  /\ TexBefore(s) \subseteq Delivered(s)
               /\ Pictures(s) \subseteq Delivered(s)
               /\ DamageType = "gpu" => PrevBefore(s) \subseteq Delivered(s)
    <3>1. CASE Fresh(s)
      BY <3>1 DEF TexBefore, PrevBefore, Delivered
    <3>2. CASE ~Fresh(s)
      BY <3>2 DEF TexBefore, PrevBefore, Delivered, FromPictures, Fresh
    <3> QED BY <3>1, <3>2
  <2>2. ASSUME NEW s \in Sizes, Frame(s) PROVE FromPictures'
    <3>1. PICK texture \in TexBefore(s), before \in PrevBefore(s) :
          \E new \in Pictures(s) \cup {texture} :
            running' = TRUE /\ size' = s /\ curr' = new /\ Remember(new, before)
      BY <2>2 DEF Frame
    <3>2. PICK new \in Pictures(s) \cup {texture} :
            running' = TRUE /\ size' = s /\ curr' = new /\ Remember(new, before)
      BY <3>1
    <3>3. new \in Delivered(s) /\ (DamageType = "gpu" => before \in Delivered(s))
      BY <2>1
    <3> QED BY <3>2, <3>3 DEF Remember, FromPictures
  <2>6. ASSUME NEW s \in Sizes, DamageReadFails(s) PROVE FromPictures'
    <3>1. PICK texture \in TexBefore(s), before \in PrevBefore(s) :
          \E new \in Pictures(s) \cup {texture} : curr' = new /\ Remember(new, before)
      BY <2>6 DEF DamageReadFails
    <3>2. running' = TRUE /\ size' = s
      BY <2>6 DEF DamageReadFails
    <3>3. PICK new \in Pictures(s) \cup {texture} : curr' = new /\ Remember(new, before)
      BY <3>1
    <3>4. new \in Delivered(s) /\ (DamageType = "gpu" => before \in Delivered(s))
      BY <2>1
    <3> QED BY <3>2, <3>3, <3>4 DEF Remember, FromPictures
  <2>3. ASSUME NEW s \in Sizes, ReadFails(s) PROVE FromPictures'
    <3>1. PICK texture \in TexBefore(s), before \in PrevBefore(s) :
          \E new \in Pictures(s) \cup {texture} : tex' = new /\ prev' = before
      BY <2>3 DEF ReadFails
    <3>2. running' = TRUE /\ size' = s /\ torn' = TRUE
      BY <2>3 DEF ReadFails
    <3> QED BY <2>1, <3>1, <3>2 DEF FromPictures
  <2>4. CASE LastClient
    BY <2>4 DEF LastClient, FromPictures
  <2>5. CASE UNCHANGED converter
    BY <2>5 DEF converter, FromPictures
  <2> QED BY <2>2, <2>3, <2>4, <2>5, <2>6
      DEF Next, Join, Leave, Send, FirstClient, StreamerLost, vars
<1> QED BY <1>1, <1>2, PTL DEF Spec

(* One dimension: a tile that starts before another one ends ends before   *)
(* it or with it.                                                          *)
LEMMA AxisAligned ==
  ASSUME NEW len \in Nat \ {0}, NEW n \in Nat \ {0},
         NEW i1 \in 0 .. (len - 1) \div n, NEW i \in 0 .. (len - 1) \div n,
         NEW i2 \in 0 .. (len - 1) \div n,
         NEW a \in Nat,
         NEW cut, cut = (IF n <= len - i * n THEN n ELSE len - i * n),
         NEW cut2, cut2 = (IF n <= len - i2 * n THEN n ELSE len - i2 * n),
         i * n <= a, a < i * n + cut,
         i1 * n <= a, a < i2 * n + cut2
  PROVE  i1 * n <= i * n /\ i * n + cut <= i2 * n + cut2
<1>1. (len - 1) \div n \in Nat
  BY Division
<1>2. i1 \in Nat /\ i \in Nat /\ i2 \in Nat
  BY <1>1
<1>3. /\ i1 * n \in Nat /\ i * n \in Nat /\ i2 * n \in Nat
      /\ i * n < len /\ i2 * n < len
  BY CutInside
<1>4. (i + 1) * n = i * n + n /\ (i2 + 1) * n = i2 * n + n
  BY <1>2
<1>5. cut <= n /\ cut2 <= n /\ cut2 >= 1 /\ cut \in Nat /\ cut2 \in Nat
  BY <1>3
<1>6. ~(i + 1 <= i1)
  <2> SUFFICES ASSUME i + 1 <= i1 PROVE FALSE
    OBVIOUS
  <2>1. (i + 1) * n <= i1 * n
    BY <1>2, TimesMonotone
  <2> QED BY <2>1, <1>3, <1>4, <1>5
<1>7. i1 * n <= i * n
  BY <1>2, <1>6, TimesMonotone
<1>8. ~(i2 + 1 <= i)
  <2> SUFFICES ASSUME i2 + 1 <= i PROVE FALSE
    OBVIOUS
  <2>1. (i2 + 1) * n <= i * n
    BY <1>2, TimesMonotone
  <2> QED BY <2>1, <1>3, <1>4, <1>5
<1>9. CASE i = i2
  BY <1>7, <1>9, <1>3, <1>5
<1>10. CASE i + 1 <= i2
  <2>1. (i + 1) * n <= i2 * n
    BY <1>2, <1>10, TimesMonotone
  <2> QED BY <2>1, <1>3, <1>4, <1>5, <1>7
<1> QED BY <1>2, <1>8, <1>9, <1>10

(* The edges of the rectangle around some tiles are edges of these tiles.  *)
LEMMA AroundEdges ==
  ASSUME NEW s \in Sizes, NEW R \in SUBSET Tiles(s), R # {}
  PROVE  \E left \in R, top \in R, right \in R, bottom \in R :
           Rect(Around(R)) = (left.x .. right.x + right.w - 1)
                             \X (top.y .. bottom.y + bottom.h - 1)
<1> DEFINE X1 == {r.x : r \in R}
<1> DEFINE Y1 == {r.y : r \in R}
<1> DEFINE X2 == {r.x + r.w : r \in R}
<1> DEFINE Y2 == {r.y + r.h : r \in R}
<1>1. \A r \in R : /\ {r.x, r.y} \subseteq Nat
                   /\ {r.w, r.h} \subseteq Nat \ {0}
                   /\ r.x + r.w <= s.w
                   /\ r.y + r.h <= s.h
  BY TileInside
<1>2. s.w \in Nat /\ s.h \in Nat
  BY SizeType
<1>3. /\ X1 \in SUBSET Nat /\ X1 # {} /\ Y1 \in SUBSET Nat /\ Y1 # {}
      /\ X2 \in SUBSET (0 .. s.w) /\ X2 # {}
      /\ Y2 \in SUBSET (0 .. s.h) /\ Y2 # {}
  BY <1>1, <1>2
<1>4. Min(X1) \in X1 /\ Min(Y1) \in Y1
  BY <1>3, MinProperty
<1>5. Max(X2) \in X2 /\ Max(Y2) \in Y2
  BY <1>2, <1>3, MaxProperty
<1>6. Rect(Around(R)) = (Min(X1) .. Min(X1) + (Max(X2) - Min(X1)) - 1)
                        \X (Min(Y1) .. Min(Y1) + (Max(Y2) - Min(Y1)) - 1)
  BY DEF Around, Rect
<1>7. Rect(Around(R)) = (Min(X1) .. Max(X2) - 1) \X (Min(Y1) .. Max(Y2) - 1)
  <2>1. /\ Min(X1) \in Nat /\ Min(Y1) \in Nat
        /\ Max(X2) \in Nat /\ Max(Y2) \in Nat
    BY <1>2, <1>3, <1>4, <1>5
  <2> HIDE DEF X1, X2, Y1, Y2
  <2> QED BY <2>1, <1>6
<1>8. PICK left \in R, top \in R : Min(X1) = left.x /\ Min(Y1) = top.y
  BY <1>4
<1>9. PICK right \in R, bottom \in R :
        Max(X2) = right.x + right.w /\ Max(Y2) = bottom.y + bottom.h
  BY <1>5
<1>10. Rect(Around(R)) = (left.x .. right.x + right.w - 1)
                         \X (top.y .. bottom.y + bottom.h - 1)
  <2>1. /\ {left.x, top.y, right.x, bottom.y} \subseteq Nat
        /\ {right.w, bottom.h} \subseteq Nat
    BY <1>1
  <2> HIDE DEF X1, X2, Y1, Y2
  <2> QED BY <1>7, <1>8, <1>9, <2>1
<1> QED BY <1>10

(* A rectangle around tiles is made of whole tiles.                        *)
LEMMA AroundAligned ==
  ASSUME NEW s \in Sizes, NEW R \in SUBSET Tiles(s), R # {}
  PROVE  Aligned(s, Rect(Around(R)))
<1> DEFINE w == TileWidth(s)
<1> DEFINE Cut(a, b) == IF a <= b THEN a ELSE b
<1> DEFINE I == 0 .. (s.w - 1) \div w
<1> DEFINE J == 0 .. (s.h - 1) \div Tile(s)
<1>1. w \in Nat \ {0} /\ Tile(s) \in Nat \ {0} /\ s.w \in Nat \ {0} /\ s.h \in Nat \ {0}
  BY SizeType, SizesAssumption DEF TileWidth
<1>2. PICK left \in R, top \in R, right \in R, bottom \in R :
        Rect(Around(R)) = (left.x .. right.x + right.w - 1)
                          \X (top.y .. bottom.y + bottom.h - 1)
  BY AroundEdges
<1>3. \A r \in Tiles(s) :
        \E i \in I, j \in J :
          /\ r.x = i * w /\ r.w = Cut(w, s.w - i * w)
          /\ r.y = j * Tile(s) /\ r.h = Cut(Tile(s), s.h - j * Tile(s))
  BY DEF Tiles, TileWidth
<1>4. SUFFICES ASSUME NEW r \in Tiles(s), NEW q \in Rect(r), q \in Rect(Around(R))
               PROVE  Rect(r) \subseteq Rect(Around(R))
  BY DEF Aligned
<1>5. PICK i \in I, j \in J :
          /\ r.x = i * w /\ r.w = Cut(w, s.w - i * w)
          /\ r.y = j * Tile(s) /\ r.h = Cut(Tile(s), s.h - j * Tile(s))
  BY <1>3
<1>6. PICK i1 \in I : left.x = i1 * w
  BY <1>3
<1>7. PICK j1 \in J : top.y = j1 * Tile(s)
  BY <1>3
<1>8. PICK i2 \in I : right.x = i2 * w /\ right.w = Cut(w, s.w - i2 * w)
  BY <1>3
<1>9. PICK j2 \in J : bottom.y = j2 * Tile(s) /\ bottom.h = Cut(Tile(s), s.h - j2 * Tile(s))
  BY <1>3
<1>10. \A k \in {r, left, top, right, bottom} :
         /\ {k.x, k.y} \subseteq Nat
         /\ {k.w, k.h} \subseteq Nat \ {0}
  BY TileInside
<1>11. /\ q[1] \in r.x .. r.x + r.w - 1 /\ q[2] \in r.y .. r.y + r.h - 1
       /\ q[1] \in left.x .. right.x + right.w - 1
       /\ q[2] \in top.y .. bottom.y + bottom.h - 1
  BY <1>2, <1>4 DEF Rect
<1>12. left.x <= r.x /\ r.x + r.w <= right.x + right.w
  <2>1. /\ q[1] \in Nat /\ r.x <= q[1] /\ q[1] < r.x + r.w
        /\ left.x <= q[1] /\ q[1] < right.x + right.w
    BY <1>10, <1>11
  <2>2. /\ i1 \in 0 .. (s.w - 1) \div w /\ i \in 0 .. (s.w - 1) \div w
        /\ i2 \in 0 .. (s.w - 1) \div w
    OBVIOUS
  <2>3. /\ r.w = (IF w <= s.w - i * w THEN w ELSE s.w - i * w)
        /\ right.w = (IF w <= s.w - i2 * w THEN w ELSE s.w - i2 * w)
    BY <1>5, <1>8
  <2>4. /\ i * w <= q[1] /\ q[1] < i * w + r.w
        /\ i1 * w <= q[1] /\ q[1] < i2 * w + right.w
    BY <2>1, <1>5, <1>6, <1>8
  <2> HIDE DEF w, I
  <2>5. i1 * w <= i * w /\ i * w + r.w <= i2 * w + right.w
    BY <1>1, <2>1, <2>2, <2>3, <2>4, AxisAligned
  <2> QED BY <2>5, <1>5, <1>6, <1>8
<1>13. top.y <= r.y /\ r.y + r.h <= bottom.y + bottom.h
  <2>1. /\ q[2] \in Nat /\ r.y <= q[2] /\ q[2] < r.y + r.h
        /\ top.y <= q[2] /\ q[2] < bottom.y + bottom.h
    BY <1>10, <1>11
  <2>2. /\ j1 \in 0 .. (s.h - 1) \div Tile(s) /\ j \in 0 .. (s.h - 1) \div Tile(s)
        /\ j2 \in 0 .. (s.h - 1) \div Tile(s)
    OBVIOUS
  <2>3. /\ r.h = (IF Tile(s) <= s.h - j * Tile(s) THEN Tile(s) ELSE s.h - j * Tile(s))
        /\ bottom.h = (IF Tile(s) <= s.h - j2 * Tile(s) THEN Tile(s) ELSE s.h - j2 * Tile(s))
    BY <1>5, <1>9
  <2>4. /\ j * Tile(s) <= q[2] /\ q[2] < j * Tile(s) + r.h
        /\ j1 * Tile(s) <= q[2] /\ q[2] < j2 * Tile(s) + bottom.h
    BY <2>1, <1>5, <1>7, <1>9
  <2> HIDE DEF J
  <2>5. j1 * Tile(s) <= j * Tile(s) /\ j * Tile(s) + r.h <= j2 * Tile(s) + bottom.h
    BY <1>1, <2>1, <2>2, <2>3, <2>4, AxisAligned
  <2> QED BY <2>5, <1>5, <1>7, <1>9
<1>14. /\ r.x .. r.x + r.w - 1 \subseteq left.x .. right.x + right.w - 1
       /\ r.y .. r.y + r.h - 1 \subseteq top.y .. bottom.y + bottom.h - 1
  BY <1>10, <1>12, <1>13
<1> QED BY <1>2, <1>14 DEF Rect

(* A tile has pixels, all inside of the picture.                           *)
LEMMA TilePixels ==
  ASSUME NEW s \in Sizes, NEW r \in Tiles(s)
  PROVE  Rect(r) # {} /\ Rect(r) \subseteq Px(s)
<1>1. /\ {r.x, r.y} \subseteq Nat
      /\ {r.w, r.h} \subseteq Nat \ {0}
      /\ r.x + r.w <= s.w
      /\ r.y + r.h <= s.h
  BY TileInside
<1>2. s.w \in Nat /\ s.h \in Nat
  BY SizeType
<1>3. <<r.x, r.y>> \in Rect(r)
  BY <1>1 DEF Rect
<1>4. /\ r.x .. r.x + r.w - 1 \subseteq 0 .. s.w - 1
      /\ r.y .. r.y + r.h - 1 \subseteq 0 .. s.h - 1
  BY <1>1, <1>2
<1> QED BY <1>3, <1>4 DEF Rect, Px

LEMMA AlignedWhole ==
  ASSUME NEW s \in Sizes
  PROVE  Aligned(s, {}) /\ Aligned(s, Px(s))
BY TilePixels DEF Aligned

LEMMA AlignedMixed ==
  ASSUME NEW s \in Sizes, NEW S, NEW T, Aligned(s, S), Aligned(s, T)
  PROVE  Aligned(s, S \cup T) /\ Aligned(s, S \ T)
BY DEF Aligned

LEMMA DamageAligned ==
  ASSUME NEW s \in Sizes, NEW a, NEW b
  PROVE  Aligned(s, Damage(s, a, b))
<1>1. Changed(s, a, b) \in SUBSET Tiles(s)
  BY DEF Changed
<1> QED BY <1>1, AroundAligned, AlignedWhole DEF Damage

(* A tile outside of the damage reads as before.                           *)
LEMMA DamageTells ==
  ASSUME DamageType = "gpu", NEW s \in Sizes, NEW a, NEW b,
         NEW r \in Tiles(s), Rect(r) \cap Damage(s, a, b) = {}
  PROVE  Sample(s, a, r) = Sample(s, b, r)
<1> SUFFICES ASSUME r \in Changed(s, a, b) PROVE FALSE
  BY DEF Changed
<1>1. Changed(s, a, b) \in SUBSET Tiles(s) /\ Changed(s, a, b) # {}
  BY DEF Changed
<1>2. Rect(r) \subseteq Rect(Around(Changed(s, a, b)))
  BY <1>1, AroundCovers
<1>3. Damage(s, a, b) = Rect(Around(Changed(s, a, b)))
  BY <1>1 DEF Damage
<1> QED BY <1>2, <1>3, TilePixels

LEMMA SamePart ==
  ASSUME NEW a, NEW b, NEW r, \A p \in Rect(r) : a[p] = b[p]
  PROVE  Part(a, r) = Part(b, r)
BY DEF Part

(* Without an update the server keeps its buffer and the clients theirs.   *)
LEMMA NoUpdateAligned ==
  ASSUME TileExact, NEW s \in Sizes, NoUpdate(s), running' = TRUE, size' = s
  PROVE  MarksAligned'
<1>1. CASE Fresh(s) /\ HasFb
  <2>1. shared' = FALSE /\ old' = Detached /\ UNCHANGED clients
    BY <1>1 DEF NoUpdate, TileExact, TypeOK, ServerOK
  <2>2. old' # None /\ old'.size = FbSize
    BY <1>1, <2>1, DetachedType DEF TileExact, TypeOK
  <2>3. FbSize' = FbSize
    BY <2>1, <2>2 DEF FbSize
  <2> QED BY <1>1, <2>1, <2>3 DEF TileExact, MarksAligned, clients
<1>2. CASE Fresh(s) /\ ~HasFb
  <2>1. shared' = FALSE /\ old' = None
    BY <1>2 DEF NoUpdate, Detached, HasFb, TileExact, TypeOK, ServerOK
  <2> QED BY <2>1 DEF HasFb, MarksAligned
<1>3. CASE ~Fresh(s)
  <2>1. shared' = shared /\ old' = old /\ UNCHANGED clients /\ size' = size
    BY <1>3 DEF NoUpdate, Fresh, TileExact, TypeOK, ServerOK
  <2>2. HasFb' = HasFb /\ FbSize' = FbSize
    BY <2>1 DEF HasFb, FbSize
  <2> QED BY <2>1, <2>2 DEF TileExact, MarksAligned, clients
<1> QED BY <1>1, <1>2, <1>3

(* A frame marks whole tiles, and every one that reads otherwise.          *)
LEMMA FrameTiles ==
  ASSUME DamageType = "gpu", LibVNC, TileExact, NEW s \in Sizes, Frame(s)
  PROVE  MarksAligned' /\ PrevIsDrawn' /\ TilesOfPrev'
<1>1. PICK texture \in TexBefore(s), before \in PrevBefore(s) :
      \E new \in Pictures(s) \cup {texture} :
        /\ running' = TRUE /\ size' = s
        /\ curr' = new
        /\ Remember(new, before)
        /\ IF Damage(s, new, before) = {} THEN NoUpdate(s)
           ELSE Update(s, Damage(s, new, before))
  BY DEF Frame
<1>2. PICK new \in Pictures(s) \cup {texture} :
        /\ running' = TRUE /\ size' = s
        /\ curr' = new
        /\ Remember(new, before)
        /\ IF Damage(s, new, before) = {} THEN NoUpdate(s)
           ELSE Update(s, Damage(s, new, before))
  BY <1>1
<1>3. prev' = new /\ curr' = new
  BY <1>2 DEF Remember
<1>4. PrevIsDrawn'
  BY <1>3 DEF PrevIsDrawn
<1>5. ~Fresh(s) => before = prev /\ size = s /\ running
  BY DEF PrevBefore, Fresh
<1>6. CASE Damage(s, new, before) = {}
  <2>1. NoUpdate(s)
    BY <1>2, <1>6
  <2>2. MarksAligned'
    BY <1>2, <2>1, NoUpdateAligned
  <2>3. TilesOfPrev'
    <3> SUFFICES ASSUME shared', NEW c \in watching', NEW r \in Tiles(s),
                        Rect(r) \cap (marked'[c] \cup stale'[c]) = {}
                 PROVE  \E q \in Delivered(s) : /\ Part(q, r) = Part(view'[c], r)
                                                /\ Sample(s, q, r) = Sample(s, new, r)
      BY <1>2, <1>3 DEF TilesOfPrev
    <3>1. ~Fresh(s) /\ shared /\ UNCHANGED clients
      BY <2>1 DEF NoUpdate, TileExact, TypeOK, ServerOK
    <3>2. \E q \in Delivered(s) : /\ Part(q, r) = Part(view[c], r)
                                  /\ Sample(s, q, r) = Sample(s, prev, r)
      BY <3>1, <1>5 DEF TileExact, TilesOfPrev, clients
    <3>3. Sample(s, new, r) = Sample(s, before, r)
      BY <1>6, DamageTells
    <3>4. view' = view
      BY <3>1 DEF clients
    <3> QED BY <3>1, <3>2, <3>3, <3>4, <1>5
  <2> QED BY <1>4, <2>2, <2>3
<1>7. CASE Damage(s, new, before) # {}
  <2> DEFINE damage == Damage(s, new, before)
  <2> DEFINE resized == ~HasFb \/ FbSize # s
  <2> DEFINE whole == resized \/ (LibVNC /\ (~shared \/ Fresh(s)))
  <2>1. Update(s, damage)
    BY <1>2, <1>7
  <2>2. watching' = watching /\ watching \subseteq Clients
    BY <2>1 DEF Update, TileExact, TypeOK, ClientsOK
  <2>3. ASSUME NEW c \in watching
        PROVE  /\ marked'[c] = IF whole THEN Px(s) ELSE marked[c] \cup damage
               /\ view'[c] = IF resized THEN Cleared(s) ELSE view[c]
               /\ stale'[c] = IF resized THEN {} ELSE stale[c]
    BY <2>1, <2>2 DEF Update
  <2>4. HasFb' /\ FbSize' = s
    BY <2>1, <1>2 DEF Update, HasFb, FbSize
  <2> HIDE DEF resized, whole, damage
  <2>5. resized = (~HasFb \/ FbSize # s)
        /\ whole = (resized \/ (LibVNC /\ (~shared \/ Fresh(s))))
        /\ damage = Damage(s, new, before)
    BY DEF resized, whole, damage
  <2>6. MarksAligned'
    <3> SUFFICES ASSUME NEW c \in watching
                 PROVE  Aligned(s, marked'[c]) /\ Aligned(s, stale'[c])
      BY <2>2, <2>4 DEF MarksAligned
    <3>1. ~resized => Aligned(s, marked[c]) /\ Aligned(s, stale[c])
      BY <2>5 DEF TileExact, MarksAligned
    <3>2. Aligned(s, {}) /\ Aligned(s, Px(s)) /\ Aligned(s, damage)
      BY <2>5, AlignedWhole, DamageAligned
    <3>3. ~resized => Aligned(s, marked[c] \cup damage)
      BY <3>1, <3>2, AlignedMixed
    <3>4. Aligned(s, marked'[c])
      <4>1. CASE whole
        BY <4>1, <2>3, <3>2
      <4>2. CASE ~whole
        <5>1. ~resized
          BY <4>2, <2>5
        <5> QED BY <4>2, <5>1, <2>3, <3>3
      <4> QED BY <4>1, <4>2
    <3>5. Aligned(s, stale'[c])
      BY <2>3, <3>1, <3>2
    <3> QED BY <3>4, <3>5
  <2>7. TilesOfPrev'
    <3> SUFFICES ASSUME NEW c \in watching, NEW r \in Tiles(s),
                        Rect(r) \cap (marked'[c] \cup stale'[c]) = {}
                 PROVE  \E q \in Delivered(s) : /\ Part(q, r) = Part(view'[c], r)
                                                /\ Sample(s, q, r) = Sample(s, new, r)
      BY <1>2, <1>3, <2>2 DEF TilesOfPrev
    <3>1. Rect(r) # {} /\ Rect(r) \subseteq Px(s)
      BY TilePixels
    <3>2. ~whole
      BY <2>3, <3>1
    <3>3. shared /\ ~Fresh(s) /\ ~resized
      BY <3>2, <2>5
    <3>4. /\ Rect(r) \cap damage = {}
          /\ Rect(r) \cap (marked[c] \cup stale[c]) = {}
          /\ view'[c] = view[c]
      BY <2>3, <3>2, <3>3
    <3>5. \E q \in Delivered(s) : /\ Part(q, r) = Part(view[c], r)
                                  /\ Sample(s, q, r) = Sample(s, prev, r)
      BY <3>3, <3>4, <1>5 DEF TileExact, TilesOfPrev
    <3>6. Sample(s, new, r) = Sample(s, before, r)
      BY <3>4, <2>5, DamageTells
    <3> QED BY <3>3, <3>4, <3>5, <3>6, <1>5
  <2> QED BY <1>4, <2>6, <2>7
<1> QED BY <1>6, <1>7

(* If the damage cannot be read everything is marked.                      *)
LEMMA DamageReadFailsTiles ==
  ASSUME LibVNC, TileExact, NEW s \in Sizes, DamageReadFails(s)
  PROVE  MarksAligned' /\ PrevIsDrawn' /\ TilesOfPrev'
<1>1. /\ DamageType = "gpu" /\ running' = TRUE /\ size' = s /\ Update(s, Px(s))
      /\ curr' = prev'
  BY DEF DamageReadFails, Remember
<1>2. watching' = watching /\ watching \subseteq Clients
  BY <1>1 DEF Update, TileExact, TypeOK, ClientsOK
<1>3. HasFb' /\ FbSize' = s
  BY <1>1 DEF Update, HasFb, FbSize
<1>4. ASSUME NEW c \in watching
      PROVE  /\ marked'[c] = Px(s)
             /\ stale'[c] = {} \/ (HasFb /\ FbSize = s /\ stale'[c] = stale[c])
  <2>1. /\ marked'[c] = Px(s) \/ marked'[c] = marked[c] \cup Px(s)
        /\ HasFb /\ FbSize = s => marked[c] \subseteq Px(s)
        /\ ~(HasFb /\ FbSize = s) => marked'[c] = Px(s)
        /\ stale'[c] = IF ~HasFb \/ FbSize # s THEN {} ELSE stale[c]
    BY <1>1, <1>2 DEF Update, TileExact, TypeOK, ClientsOK
  <2> QED BY <2>1
<1>5. MarksAligned'
  <2> SUFFICES ASSUME NEW c \in watching
               PROVE  Aligned(s, marked'[c]) /\ Aligned(s, stale'[c])
    BY <1>2, <1>3 DEF MarksAligned
  <2> QED BY <1>4, AlignedWhole DEF TileExact, MarksAligned
<1>6. TilesOfPrev'
  <2> SUFFICES ASSUME NEW c \in watching, NEW r \in Tiles(s),
                      Rect(r) \cap (marked'[c] \cup stale'[c]) = {}
               PROVE  FALSE
    BY <1>1, <1>2 DEF TilesOfPrev
  <2> QED BY <1>4, TilePixels
<1> QED BY <1>1, <1>5, <1>6 DEF PrevIsDrawn

(* A failed read leaves what is compared with next, or the server has lost *)
(* the buffer.                                                             *)
LEMMA ReadFailsTiles ==
  ASSUME TileExact, NEW s \in Sizes, ReadFails(s)
  PROVE  MarksAligned' /\ PrevIsDrawn' /\ TilesOfPrev'
<1>1. /\ running' = TRUE /\ torn' = TRUE /\ size' = s /\ NoUpdate(s)
      /\ prev' \in PrevBefore(s)
  BY DEF ReadFails
<1>2. MarksAligned'
  BY <1>1, NoUpdateAligned
<1>3. ASSUME shared'
      PROVE  ~Fresh(s) /\ shared /\ prev' = prev /\ size = s /\ UNCHANGED clients
  BY <1>1, <1>3 DEF NoUpdate, PrevBefore, Fresh, TileExact, TypeOK, ServerOK
<1>4. TilesOfPrev'
  BY <1>1, <1>3 DEF TilesOfPrev, TileExact, clients
<1> QED BY <1>1, <1>2, <1>4 DEF PrevIsDrawn

(* Sending brings the whole of a tile or nothing of it.                    *)
LEMMA SendTiles ==
  ASSUME TileExact, NEW c \in Clients, Send(c)
  PROVE  MarksAligned' /\ PrevIsDrawn' /\ TilesOfPrev'
<1>1. /\ c \in watching /\ HasFb
      /\ \A p \in Px(FbSize) :
           view'[c][p] = IF p \in marked[c] THEN Fb[p] ELSE view[c][p]
  BY SendType DEF TileExact
<1>2. /\ UNCHANGED <<watching, streaming, converter, server>>
      /\ marked'[c] = {}
      /\ stale'[c] = IF shared /\ torn THEN stale[c] \cup marked[c]
                     ELSE stale[c] \ marked[c]
  BY DEF Send, TileExact, TypeOK, ClientsOK
<1>3. \A d \in Clients \ {c} :
        view'[d] = view[d] /\ marked'[d] = marked[d] /\ stale'[d] = stale[d]
  BY DEF Send, TileExact, TypeOK, ClientsOK
<1>4. FbSize \in Sizes
  BY <1>1, DetachedType DEF TileExact, TypeOK
<1>5. HasFb' = HasFb /\ FbSize' = FbSize
  BY <1>2 DEF HasFb, FbSize, converter, server
<1>6. watching \subseteq Clients
  BY DEF TileExact, TypeOK, ClientsOK
<1>7. Aligned(FbSize, marked[c]) /\ Aligned(FbSize, stale[c])
  BY <1>1 DEF TileExact, MarksAligned
<1>8. MarksAligned'
  <2>1. Aligned(FbSize, stale[c] \cup marked[c])
        /\ Aligned(FbSize, stale[c] \ marked[c])
    BY <1>4, <1>7, AlignedMixed
  <2>2. Aligned(FbSize, marked'[c]) /\ Aligned(FbSize, stale'[c])
    BY <1>2, <1>4, <2>1, AlignedWhole
  <2>3. \A d \in watching \ {c} :
          Aligned(FbSize, marked'[d]) /\ Aligned(FbSize, stale'[d])
    BY <1>1, <1>3, <1>6 DEF TileExact, MarksAligned
  <2> QED BY <1>2, <1>5, <2>2, <2>3 DEF MarksAligned
<1>9. PrevIsDrawn'
  BY <1>2 DEF PrevIsDrawn, converter, TileExact
<1>10. TilesOfPrev'
  <2> SUFFICES ASSUME shared, NEW d \in watching, NEW r \in Tiles(size),
                      Rect(r) \cap (marked'[d] \cup stale'[d]) = {}
               PROVE  \E q \in Delivered(size) : /\ Part(q, r) = Part(view'[d], r)
                                                 /\ Sample(size, q, r) = Sample(size, prev, r)
    BY <1>2 DEF TilesOfPrev, converter, server
  <2>1. size \in Sizes /\ FbSize = size /\ running /\ Fb = curr
    BY DEF FbSize, Fb, TileExact, TypeOK, ServerOK, ConverterOK
  <2>2. Rect(r) # {} /\ Rect(r) \subseteq Px(size)
    BY <2>1, TilePixels
  <2>3. CASE d # c
    <3>1. view'[d] = view[d] /\ marked'[d] = marked[d] /\ stale'[d] = stale[d]
      BY <2>3, <1>3, <1>6
    <3> QED BY <3>1 DEF TileExact, TilesOfPrev
  <2>4. CASE d = c /\ Rect(r) \cap marked[c] = {}
    <3>1. Rect(r) \cap (marked[c] \cup stale[c]) = {}
      BY <2>4, <1>2
    <3>2. \E q \in Delivered(size) : /\ Part(q, r) = Part(view[c], r)
                                     /\ Sample(size, q, r) = Sample(size, prev, r)
      BY <2>4, <3>1 DEF TileExact, TilesOfPrev
    <3>3. \A p \in Rect(r) : view'[c][p] = view[c][p]
      BY <2>1, <2>2, <2>4, <1>1
    <3>4. Part(view'[c], r) = Part(view[c], r)
      BY <3>3, SamePart
    <3> QED BY <2>4, <3>2, <3>4
  <2>5. CASE d = c /\ Rect(r) \cap marked[c] # {}
    <3>1. Rect(r) \subseteq marked[c]
      BY <2>1, <2>5, <1>7 DEF Aligned
    <3>2. ~torn
      BY <2>2, <2>5, <3>1, <1>2
    <3>3. \A p \in Rect(r) : view'[c][p] = curr[p]
      BY <2>1, <2>2, <3>1, <1>1
    <3>4. Part(curr, r) = Part(view'[c], r)
      BY <3>3, SamePart
    <3>5. prev = curr /\ curr \in Delivered(size)
      BY <2>1, <3>2 DEF TileExact, PrevIsDrawn, FromPictures
    <3> QED BY <2>5, <3>4, <3>5
  <2> QED BY <2>3, <2>4, <2>5
<1> QED BY <1>8, <1>9, <1>10

LEMMA JoinTiles ==
  ASSUME TileExact, NEW c \in Clients, Join(c)
  PROVE  MarksAligned' /\ PrevIsDrawn' /\ TilesOfPrev'
<1>1. /\ watching' = watching \cup {c}
      /\ marked'[c] = IF HasFb THEN Px(FbSize) ELSE {}
      /\ stale'[c] = {}
      /\ UNCHANGED <<streaming, converter, server>>
  BY DEF Join, TileExact, TypeOK, ClientsOK
<1>2. \A d \in Clients \ {c} :
        view'[d] = view[d] /\ marked'[d] = marked[d] /\ stale'[d] = stale[d]
  BY DEF Join, TileExact, TypeOK, ClientsOK
<1>3. HasFb' = HasFb /\ FbSize' = FbSize
  BY <1>1 DEF HasFb, FbSize, converter, server
<1>4. watching \subseteq Clients
  BY DEF TileExact, TypeOK, ClientsOK
<1>5. HasFb => FbSize \in Sizes
  BY DetachedType DEF TileExact, TypeOK
<1>6. MarksAligned'
  <2>1. HasFb => Aligned(FbSize, marked'[c]) /\ Aligned(FbSize, stale'[c])
    BY <1>1, <1>5, AlignedWhole
  <2>2. HasFb => \A d \in watching \ {c} :
          Aligned(FbSize, marked'[d]) /\ Aligned(FbSize, stale'[d])
    BY <1>2, <1>4 DEF TileExact, MarksAligned
  <2> QED BY <1>1, <1>3, <2>1, <2>2 DEF MarksAligned
<1>7. PrevIsDrawn'
  BY <1>1 DEF PrevIsDrawn, converter, TileExact
<1>8. TilesOfPrev'
  <2> SUFFICES ASSUME shared, NEW d \in watching \cup {c}, NEW r \in Tiles(size),
                      Rect(r) \cap (marked'[d] \cup stale'[d]) = {}
               PROVE  \E q \in Delivered(size) : /\ Part(q, r) = Part(view'[d], r)
                                                 /\ Sample(size, q, r) = Sample(size, prev, r)
    BY <1>1 DEF TilesOfPrev, converter, server
  <2>1. CASE d = c
    <3>1. marked'[c] = Px(size) /\ size \in Sizes
      BY <1>1 DEF HasFb, FbSize, TileExact, TypeOK, ServerOK, ConverterOK
    <3> QED BY <2>1, <3>1, TilePixels
  <2>2. CASE d # c
    <3>1. /\ d \in watching
          /\ view'[d] = view[d] /\ marked'[d] = marked[d] /\ stale'[d] = stale[d]
      BY <2>2, <1>2, <1>4
    <3> QED BY <3>1 DEF TileExact, TilesOfPrev
  <2> QED BY <2>1, <2>2
<1> QED BY <1>6, <1>7, <1>8

LEMMA GoneTiles ==
  ASSUME TileExact, NEW S, Gone(S), UNCHANGED <<converter, server>>
  PROVE  MarksAligned' /\ PrevIsDrawn' /\ TilesOfPrev'
<1>1. \A d \in watching' : /\ d \in watching
                           /\ view'[d] = view[d] /\ marked'[d] = marked[d]
                           /\ stale'[d] = stale[d]
  BY DEF Gone, TileExact, TypeOK, ClientsOK
<1>2. HasFb' = HasFb /\ FbSize' = FbSize
  BY DEF HasFb, FbSize, converter, server
<1>3. MarksAligned'
  BY <1>1, <1>2 DEF MarksAligned, TileExact
<1>4. PrevIsDrawn'
  BY DEF PrevIsDrawn, converter, TileExact
<1>5. TilesOfPrev'
  BY <1>1 DEF TilesOfPrev, converter, server, TileExact
<1> QED BY <1>3, <1>4, <1>5

LEMMA LastClientTiles ==
  ASSUME LastClient
  PROVE  MarksAligned' /\ PrevIsDrawn' /\ TilesOfPrev'
<1>1. watching' = {} /\ running' = FALSE /\ shared' = FALSE
  BY DEF LastClient, clients
<1> QED BY <1>1 DEF MarksAligned, PrevIsDrawn, TilesOfPrev

LEMMA TileExactInvariant ==
  ASSUME DamageType = "gpu", LibVNC
  PROVE  Spec => []TileExact
<1> DEFINE Rest == MarksAligned /\ PrevIsDrawn /\ TilesOfPrev
<1>1. Init => Rest
  BY DEF Init, MarksAligned, PrevIsDrawn, TilesOfPrev
<1>2. TypeOK /\ FromPictures /\ Rest /\ [Next]_vars => Rest'
  <2> SUFFICES ASSUME TileExact, [Next]_vars
               PROVE  MarksAligned' /\ PrevIsDrawn' /\ TilesOfPrev'
    BY DEF TileExact
  <2>1. ASSUME NEW s \in Sizes, Frame(s)
        PROVE  MarksAligned' /\ PrevIsDrawn' /\ TilesOfPrev'
    BY <2>1, FrameTiles
  <2>9. ASSUME NEW s \in Sizes, DamageReadFails(s)
        PROVE  MarksAligned' /\ PrevIsDrawn' /\ TilesOfPrev'
    BY <2>9, DamageReadFailsTiles
  <2>2. ASSUME NEW s \in Sizes, ReadFails(s)
        PROVE  MarksAligned' /\ PrevIsDrawn' /\ TilesOfPrev'
    BY <2>2, ReadFailsTiles
  <2>3. ASSUME NEW c \in Clients, Join(c)
        PROVE  MarksAligned' /\ PrevIsDrawn' /\ TilesOfPrev'
    BY <2>3, JoinTiles
  <2>4. ASSUME NEW c \in Clients, Leave(c)
        PROVE  MarksAligned' /\ PrevIsDrawn' /\ TilesOfPrev'
    BY <2>4, GoneTiles DEF Leave
  <2>5. ASSUME NEW c \in Clients, Send(c)
        PROVE  MarksAligned' /\ PrevIsDrawn' /\ TilesOfPrev'
    BY <2>5, SendTiles
  <2>6. CASE StreamerLost
    BY <2>6, GoneTiles DEF StreamerLost
  <2>7. CASE LastClient
    BY <2>7, LastClientTiles
  <2>8. CASE UNCHANGED <<converter, server, clients>>
    BY <2>8 DEF converter, server, clients, TileExact,
                MarksAligned, PrevIsDrawn, TilesOfPrev, HasFb, FbSize
  <2> QED BY <2>1, <2>2, <2>3, <2>4, <2>5, <2>6, <2>7, <2>8, <2>9
      DEF Next, FirstClient, vars
<1>3. TypeOK /\ FromPictures /\ Rest => TileExact
  BY DEF TileExact
<1> HIDE DEF Rest
<1> QED BY <1>1, <1>2, <1>3, TypeCorrect, FromPicturesInvariant, PTL DEF Spec

(* With LibVNCServer, whatever the detector and the sizes, a tile that is  *)
(* neither marked nor stale is in the view of a client that of a picture   *)
(* which the detector reads there as it reads the buffer's: errors too     *)
(* small for it do not add up from frame to frame, neither in whole tiles  *)
(* nor in those cut at an edge (detect_damage_gpu and the swap in          *)
(* detect_damage; update).                                                 *)
THEOREM TilesAreTold ==
  ASSUME LibVNC
  PROVE  Spec => []TilesTold
<1>1. CASE DamageType = "gpu"
  <2>1. TileExact => TilesTold
    BY DEF TileExact, TilesTold, TilesOfPrev, PrevIsDrawn, TypeOK, ServerOK
  <2> QED BY <1>1, <2>1, TileExactInvariant, PTL
<1>2. CASE DamageType # "gpu"
  <2>1. TypeOK /\ FromPictures /\ NothingLost => TilesTold
    <3> SUFFICES ASSUME TypeOK, FromPictures, NothingLost, shared, ~torn,
                        NEW c \in watching, NEW r \in Tiles(size),
                        Rect(r) \cap (marked[c] \cup stale[c]) = {}
                 PROVE  \E q \in Delivered(size) : /\ Part(q, r) = Part(view[c], r)
                                                   /\ Sample(size, q, r) = Sample(size, curr, r)
      BY DEF TilesTold
    <3>1. size \in Sizes /\ curr \in Delivered(size)
      BY DEF TypeOK, ServerOK, ConverterOK, FromPictures
    <3>2. Rect(r) \subseteq Px(size)
      BY <3>1, TilePixels
    <3>3. \A p \in Rect(r) : curr[p] = view[c][p]
      BY <3>2 DEF NothingLost
    <3> QED BY <3>1, <3>3, SamePart
  <2> QED BY <1>2, <2>1, TypeCorrect, FromPicturesInvariant, NothingLostByCpu, PTL
<1> QED BY <1>1, <1>2

(* Where what the detector reads for a tile is a function of the tile, as  *)
(* with sizes that are multiples of the tile, it reads the same of what a  *)
(* client shows and of the buffer.                                         *)
COROLLARY WholeTilesRead ==
  ASSUME LibVNC
  PROVE  Spec => [](shared /\ ~torn =>
           \A c \in watching : \A r \in Tiles(size) :
             /\ Rect(r) \cap (marked[c] \cup stale[c]) = {}
             /\ \A a \in Picture(size), b \in Picture(size) :
                  Part(a, r) = Part(b, r) => Sample(size, a, r) = Sample(size, b, r)
             => Sample(size, view[c], r) = Sample(size, curr, r))
<1>1. TypeOK /\ TilesTold =>
        (shared /\ ~torn =>
           \A c \in watching : \A r \in Tiles(size) :
             /\ Rect(r) \cap (marked[c] \cup stale[c]) = {}
             /\ \A a \in Picture(size), b \in Picture(size) :
                  Part(a, r) = Part(b, r) => Sample(size, a, r) = Sample(size, b, r)
             => Sample(size, view[c], r) = Sample(size, curr, r))
  <2> SUFFICES ASSUME TypeOK, TilesTold, shared, ~torn,
                      NEW c \in watching, NEW r \in Tiles(size),
                      Rect(r) \cap (marked[c] \cup stale[c]) = {},
                      \A a \in Picture(size), b \in Picture(size) :
                        Part(a, r) = Part(b, r) => Sample(size, a, r) = Sample(size, b, r)
               PROVE  Sample(size, view[c], r) = Sample(size, curr, r)
    OBVIOUS
  <2>1. size \in Sizes
    BY DEF TypeOK, ServerOK, ConverterOK
  <2>2. Delivered(size) \subseteq Picture(size)
    BY <2>1, PicturesAssumption DEF Delivered, Picture
  <2>3. view[c] \in Picture(size)
    BY DEF TypeOK, ClientsOK, HasFb, FbSize
  <2>4. PICK q \in Delivered(size) : /\ Part(q, r) = Part(view[c], r)
                                    /\ Sample(size, q, r) = Sample(size, curr, r)
    BY DEF TilesTold
  <2>5. Sample(size, q, r) = Sample(size, view[c], r)
    BY <2>2, <2>3, <2>4
  <2> QED BY <2>4, <2>5
<1> QED BY <1>1, TypeCorrect, TilesAreTold, PTL

-----------------------------------------------------------------------------
(* With the CPU detector and LibVNCServer the first conversion after the   *)
(* buffers were made reaches every client as a full update: the previous   *)
(* picture is blank, so that any other picture damages it, and a new       *)
(* framebuffer marks all (gen_buffers, detect_damage_cpu, update).         *)
THEOREM FirstIsFull ==
  ASSUME DamageType = "cpu", LibVNC
  PROVE  Spec => FirstUpdateIsFull
<1> DEFINE First == running' /\ (~running \/ size' # size) /\ ~torn'
                    /\ curr' # Cleared(size')
<1> DEFINE Full == shared' /\ \A c \in watching : marked'[c] = Px(size')
<1>1. TypeOK /\ [Next]_vars => [First => Full]_vars
  <2> SUFFICES ASSUME TypeOK, Next, First PROVE Full
    BY DEF vars
  <2>1. PICK s \in Sizes : Frame(s) \/ ReadFails(s)
    <3>1. ~(UNCHANGED converter) /\ running'
      BY DEF converter
    <3> QED BY <3>1 DEF Next, DamageReadFails, Join, Leave, Send, FirstClient,
                        StreamerLost, LastClient
  <2>2. Frame(s)
    BY <2>1 DEF ReadFails
  <2>3. PICK texture \in TexBefore(s), before \in PrevBefore(s) :
        \E new \in Pictures(s) \cup {texture} :
          /\ size' = s
          /\ curr' = new
          /\ IF Damage(s, new, before) = {} THEN NoUpdate(s)
             ELSE Update(s, Damage(s, new, before))
    BY <2>2 DEF Frame
  <2>4. PICK new \in Pictures(s) \cup {texture} :
          /\ size' = s
          /\ curr' = new
          /\ IF Damage(s, new, before) = {} THEN NoUpdate(s)
             ELSE Update(s, Damage(s, new, before))
    BY <2>3
  <2>5. Fresh(s) /\ before = Cleared(s)
    BY <2>4 DEF Fresh, PrevBefore
  <2>6. new \in Picture(s) /\ before \in Picture(s)
    BY InputsType DEF TypeOK
  <2>7. Damage(s, new, before) # {}
    <3> SUFFICES ASSUME Damage(s, new, before) = {} PROVE FALSE
      OBVIOUS
    <3>1. \A p \in Px(s) : new[p] = before[p]
      BY <2>6, DamageCovers
    <3>2. new = before
      BY <3>1, <2>6 DEF Picture
    <3> QED BY <2>4, <2>5, <3>2
  <2>8. Update(s, Damage(s, new, before))
    BY <2>4, <2>7
  <2>9. watching \subseteq Clients
    BY DEF TypeOK, ClientsOK
  <2> QED BY <2>4, <2>5, <2>8, <2>9 DEF Update
<1> QED BY <1>1, TypeCorrect, PTL DEF Spec, FirstUpdateIsFull

=============================================================================
