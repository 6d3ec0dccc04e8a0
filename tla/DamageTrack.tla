----------------------------- MODULE DamageTrack -----------------------------
(***************************************************************************)
(* From the monitor's picture to the viewers' screens: the converter draws *)
(* the planes of a frame into a texture, reads the pixels back, compares   *)
(* them with the previous ones by tiles and hands the damaged rectangle to *)
(* the VNC server, which sends only what is marked (rf-converter.c,        *)
(* on_frame in reframe-server/main.c and the update operations of          *)
(* rf-lvnc-server.c and rf-nvnc-server.c).                                 *)
(*                                                                         *)
(* One action is one dispatch of the main loop.  A picture is a function   *)
(* from pixels to colours; what is drawn is any member of Pictures.        *)
(***************************************************************************)
EXTENDS Integers, FiniteSets, FiniteSetsExt

CONSTANTS
  Clients,       \* VNC clients
  Sizes,         \* sizes of the framebuffer, records [w, h]
  Pictures(_),   \* pictures of a size that may be drawn
  Undefined(_),  \* pictures that uninitialised memory may show
  DamageType,    \* damage=cpu, gpu or none (which --skip-damage equals)
  Tile(_),       \* this->tile_size, which depends on the size
  Digest(_, _, _), \* what a fragment of the damage shader reads for a tile
                 \* out of a picture of some size
  LibVNC,        \* TRUE: rf-lvnc-server.c, FALSE: rf-nvnc-server.c
  ImportMayFail, \* eglCreateImage of the primary plane may fail
  ReadMayFail,   \* glReadPixels may fail, of the picture and of the damage
  None           \* no buffer, no picture

Px(s) == (0 .. s.w - 1) \X (0 .. s.h - 1)
Cleared(s) == [p \in Px(s) |-> 0]

ASSUME SizesAssumption ==
  /\ Sizes \subseteq [w : Nat \ {0}, h : Nat \ {0}]
  /\ \A s \in Sizes : Tile(s) \in Nat \ {0}
ASSUME PicturesAssumption ==
  \A s \in Sizes : /\ Pictures(s) \cup Undefined(s) \subseteq [Px(s) -> Nat]
                   /\ Undefined(s) # {}
ASSUME KindAssumption ==
  /\ DamageType \in {"cpu", "gpu", "none"}
  /\ {LibVNC, ImportMayFail, ReadMayFail} \subseteq BOOLEAN
ASSUME NoneAssumption ==
  \A s \in Sizes : None \notin {s} \cup [Px(s) -> Nat]
                            \cup [size : {s}, pic : [Px(s) -> Nat]]

VARIABLES
  streaming, \* RfStreamer.running: frames may come
  running,  \* RfConverter.running
  size,     \* width and height of the converter
  tex,      \* contents of curr_texture, which the next frame draws on
  prev,     \* what the detector compares with: the bytes of this->prev or
            \* the contents of prev_texture
  curr,     \* contents of this->curr, what convert returns
  shared,   \* the VNC server's buf is this->curr
  old,      \* otherwise what it holds: [size, pic], or None
  torn,     \* the last conversion failed after it had written into curr
  drawn,    \* history: the newest picture drawn since the last reset
  watching, \* connected clients
  view,     \* what a client shows
  marked,   \* modified region of a client, not sent yet
  stale     \* history: pixels a client got while curr was torn

converter == <<running, size, tex, prev, curr, torn, drawn>>
server == <<shared, old>>
clients == <<watching, view, marked, stale>>
vars == <<streaming, converter, server, clients>>

-----------------------------------------------------------------------------
(* Variant with a bug: the last, cut tile is left out. *)
TilesWhole(s) ==
  LET h == Tile(s)
      w == IF DamageType = "gpu" THEN h ELSE s.w
  IN {[x |-> i * w, y |-> j * h, w |-> w, h |-> h] :
        i \in 0 .. (s.w \div w) - 1, j \in 0 .. (s.h \div h) - 1}

(* The tiles of a size: squares for the GPU, strips of the whole width for *)
(* the CPU, the last ones cut at the edge.                                 *)
Tiles(s) ==
  LET h == Tile(s)
      w == IF DamageType = "gpu" THEN h ELSE s.w
      Cut(a, b) == IF a <= b THEN a ELSE b
  IN {[x |-> i * w, y |-> j * h,
       w |-> Cut(w, s.w - i * w), h |-> Cut(h, s.h - j * h)] :
        i \in 0 .. (s.w - 1) \div w, j \in 0 .. (s.h - 1) \div h}

Rect(r) == (r.x .. r.x + r.w - 1) \X (r.y .. r.y + r.h - 1)
Part(p, r) == [q \in Rect(r) |-> p[q]]

(* memcmp compares a strip.  The shader compares what it reads out of a    *)
(* mipmap of the whole picture: where the size is not a multiple of the    *)
(* tile that is not the average of the tile.                               *)
Sample(s, p, r) ==
  IF DamageType = "gpu" THEN Digest(s, p, r) ELSE Part(p, r)

(* The tiles in which two pictures differ. *)
Changed(s, a, b) == {r \in Tiles(s) : Sample(s, a, r) # Sample(s, b, r)}

(* x1, y1, x2, y2: the least rectangle around some tiles. *)
Around(R) ==
  LET x1 == Min({r.x : r \in R})
      y1 == Min({r.y : r \in R})
      x2 == Max({r.x + r.w : r \in R})
      y2 == Max({r.y + r.h : r \in R})
  IN [x |-> x1, y |-> y1, w |-> x2 - x1, h |-> y2 - y1]

(* detect_damage: the pixels of the damaged rectangle, {} for none. *)
Damage(s, new, before) ==
  LET R == Changed(s, new, before) IN
  IF DamageType = "none" THEN Px(s)
  ELSE IF R = {} THEN {} ELSE Rect(Around(R))

-----------------------------------------------------------------------------
(* rf_converter_start has just reset the size, or the frame has another    *)
(* one: textures and buffers are generated again.                          *)
Fresh(s) == ~running \/ size # s

TexBefore(s) == IF Fresh(s) THEN Undefined(s) ELSE {tex}

(* Variant with a bug: the buffer compared with is not cleared. *)
PrevUncleared(s) == IF Fresh(s) THEN Undefined(s) ELSE {prev}

PrevBefore(s) ==
  CASE ~Fresh(s) -> {prev}
    [] Fresh(s) /\ DamageType = "gpu" -> Undefined(s)
    [] OTHER -> {Cleared(s)}

(* What the VNC server would send from, and its size. *)
HasFb == shared \/ old # None
FbSize == IF shared THEN size ELSE old.size
Fb == IF shared THEN curr ELSE old.pic

(* The VNC server keeps its reference when the converter drops its own.    *)
Detached == IF shared THEN [size |-> size, pic |-> curr] ELSE old

(* rf_vnc_server_update.  LibVNCServer is given a new framebuffer, and     *)
(* marks all of it, when the buffer or its size is another one; NeatVNC    *)
(* compares the size with that of the frame before.                        *)
Update(s, damage) ==
  LET resized == ~HasFb \/ FbSize # s
      whole == resized \/ (LibVNC /\ (~shared \/ Fresh(s)))
  IN
  /\ shared' = TRUE
  /\ old' = None
  /\ marked' = [c \in Clients |->
                  CASE c \notin watching -> {}
                    [] c \in watching /\ whole -> Px(s)
                    [] OTHER -> marked[c] \cup damage]
  /\ view' = [c \in Clients |->
                IF c \in watching /\ resized THEN Cleared(s) ELSE view[c]]
  /\ stale' = [c \in Clients |-> IF resized THEN {} ELSE stale[c]]
  /\ UNCHANGED watching

(* Without an update the server stays with the buffer it has. *)
NoUpdate(s) ==
  /\ shared' = (shared /\ ~Fresh(s))
  /\ old' = IF Fresh(s) THEN Detached ELSE old
  /\ UNCHANGED clients

(* Variant with a bug: the previous picture is not taken over. *)
RememberNothing(new, before) ==
  /\ tex' = IF DamageType = "gpu" THEN before ELSE new
  /\ prev' = before

(* Variant with a bug: the textures are swapped in any case. *)
RememberSwapped(new, before) ==
  /\ tex' = before
  /\ prev' = IF DamageType = "none" THEN before ELSE new

(* detect_damage, afterwards: the GPU detector swaps the two textures, the *)
(* CPU detector copies the bytes.                                          *)
Remember(new, before) ==
  /\ tex' = IF DamageType = "gpu" THEN before ELSE new
  /\ prev' = IF DamageType = "none" THEN before ELSE new

(* convert_buffers up to glReadPixels: the planes are drawn over what the  *)
(* texture shows, or the import fails and it is left alone.                *)
Draw(s, texture, new) ==
  \/ new \in Pictures(s) /\ drawn' = new
  \/ ImportMayFail /\ new = texture
     /\ drawn' = IF Fresh(s) THEN None ELSE drawn

(* on_frame, rf_converter_start, rf_converter_convert and                  *)
(* rf_vnc_server_update.                                                   *)
Frame(s) ==
  \E texture \in TexBefore(s), before \in PrevBefore(s) :
  \E new \in Pictures(s) \cup {texture} :
    LET damage == Damage(s, new, before) IN
    /\ streaming
    /\ Draw(s, texture, new)
    /\ running' = TRUE /\ size' = s
    /\ curr' = new
    /\ torn' = FALSE
    /\ Remember(new, before)
    /\ IF damage = {} THEN NoUpdate(s) ELSE Update(s, damage)
    /\ UNCHANGED streaming

(* The same, and what the GPU compared cannot be read: all is damaged.     *)
DamageReadFails(s) ==
  /\ DamageType = "gpu" /\ ReadMayFail /\ streaming
  /\ \E texture \in TexBefore(s), before \in PrevBefore(s) :
     \E new \in Pictures(s) \cup {texture} :
       /\ Draw(s, texture, new)
       /\ curr' = new
       /\ Remember(new, before)
  /\ running' = TRUE /\ size' = s
  /\ torn' = FALSE
  /\ Update(s, Px(s))
  /\ UNCHANGED streaming

(* The same, and the picture cannot be read: nothing is compared, and      *)
(* the buffer holds whatever was written.                                  *)
ReadFails(s) ==
  /\ ReadMayFail /\ streaming
  /\ \E texture \in TexBefore(s), before \in PrevBefore(s) :
     \E new \in Pictures(s) \cup {texture} :
       /\ Draw(s, texture, new)
       /\ tex' = new /\ prev' = before
  /\ running' = TRUE /\ size' = s
  /\ curr' \in Undefined(s)
  /\ torn' = TRUE
  /\ NoUpdate(s)
  /\ UNCHANGED streaming

(* A client connects: it has nothing and wants all of what there is. *)
Join(c) ==
  /\ c \notin watching
  /\ watching' = watching \cup {c}
  /\ view' = [view EXCEPT ![c] = IF HasFb THEN Cleared(FbSize) ELSE None]
  /\ marked' = [marked EXCEPT ![c] = IF HasFb THEN Px(FbSize) ELSE {}]
  /\ stale' = [stale EXCEPT ![c] = {}]
  /\ UNCHANGED <<streaming, converter, server>>

Gone(S) ==
  /\ watching' = watching \ S
  /\ view' = [c \in Clients |-> IF c \in S THEN None ELSE view[c]]
  /\ marked' = [c \in Clients |-> IF c \in S THEN {} ELSE marked[c]]
  /\ stale' = [c \in Clients |-> IF c \in S THEN {} ELSE stale[c]]

(* A client disconnects. *)
Leave(c) ==
  /\ c \in watching
  /\ Gone({c})
  /\ UNCHANGED <<streaming, converter, server>>

(* The VNC library sends the modified region, from what the buffer holds   *)
(* by then.                                                                *)
Send(c) ==
  /\ marked[c] # {}
  /\ view' = [view EXCEPT ![c] =
                [p \in DOMAIN @ |-> IF p \in marked[c] THEN Fb[p] ELSE @[p]]]
  /\ stale' = [stale EXCEPT ![c] = IF shared /\ torn THEN @ \cup marked[c]
                                   ELSE @ \ marked[c]]
  /\ marked' = [marked EXCEPT ![c] = {}]
  /\ UNCHANGED <<watching, streaming, converter, server>>

(* on_first_client, some time after the client has come. *)
FirstClient ==
  /\ watching # {} /\ ~streaming
  /\ streaming' = TRUE
  /\ UNCHANGED <<converter, server, clients>>

(* The streamer is lost, which flushes the clients; the converter goes on. *)
StreamerLost ==
  /\ streaming
  /\ streaming' = FALSE
  /\ Gone(watching)
  /\ UNCHANGED <<converter, server>>

(* Variant with a bug: the buffer is taken for that of the next run. *)
LastClientKeepsShared ==
  /\ watching = {} /\ (streaming \/ running)
  /\ streaming' = FALSE /\ running' = FALSE
  /\ size' = None /\ tex' = None /\ prev' = None /\ curr' = None
  /\ torn' = FALSE /\ drawn' = None
  /\ UNCHANGED <<server, clients>>

(* on_last_client: the converter releases its buffers. *)
LastClient ==
  /\ watching = {} /\ (streaming \/ running)
  /\ streaming' = FALSE /\ running' = FALSE
  /\ size' = None /\ tex' = None /\ prev' = None /\ curr' = None
  /\ torn' = FALSE /\ drawn' = None
  /\ shared' = FALSE /\ old' = Detached
  /\ UNCHANGED clients

(* LibVNCServer is given a buffer with the first update only; NeatVNC gets *)
(* a cleared one when it starts.                                           *)
Init ==
  /\ streaming = FALSE /\ running = FALSE /\ size = None
  /\ tex = None /\ prev = None /\ curr = None
  /\ torn = FALSE /\ drawn = None
  /\ shared = FALSE
  /\ IF LibVNC THEN old = None
     ELSE \E s \in Sizes : old = [size |-> s, pic |-> Cleared(s)]
  /\ watching = {}
  /\ view = [c \in Clients |-> None]
  /\ marked = [c \in Clients |-> {}]
  /\ stale = [c \in Clients |-> {}]

Next ==
  \/ \E s \in Sizes : Frame(s) \/ DamageReadFails(s) \/ ReadFails(s)
  \/ \E c \in Clients : Join(c) \/ Leave(c) \/ Send(c)
  \/ FirstClient \/ StreamerLost \/ LastClient

Spec == Init /\ [][Next]_vars

-----------------------------------------------------------------------------
Picture(s) == [Px(s) -> Nat]

ConverterOK ==
  /\ {running, torn} \subseteq BOOLEAN
  /\ IF running
       THEN size \in Sizes /\ {tex, prev, curr} \subseteq Picture(size)
       ELSE size = None
  /\ drawn # None => running /\ drawn \in Picture(size)

ServerOK ==
  /\ shared \in BOOLEAN
  /\ shared => running /\ old = None
  /\ old # None =>
       /\ old.size \in Sizes
       /\ old \in [size : {old.size}, pic : Picture(old.size)]

ClientsOK ==
  /\ watching \subseteq Clients
  /\ view = [c \in Clients |-> view[c]]
  /\ marked = [c \in Clients |-> marked[c]]
  /\ stale = [c \in Clients |-> stale[c]]
  /\ \A c \in Clients :
       IF c \in watching /\ HasFb
         THEN /\ view[c] \in Picture(FbSize)
              /\ marked[c] \cup stale[c] \subseteq Px(FbSize)
         ELSE view[c] = None /\ marked[c] = {} /\ stale[c] = {}

TypeOK == streaming \in BOOLEAN /\ ConverterOK /\ ServerOK /\ ClientsOK

(* No pixel is lost with the CPU detector: what a client shows and is not  *)
(* going to be sent is what the buffer holds, however conversions failed,  *)
(* sizes changed and the converter was stopped in between (detect_damage,  *)
(* update).  Excepted are pixels sent while a failed conversion had        *)
(* already overwritten the buffer, until they are marked again.            *)
NothingLost ==
  shared /\ ~torn =>
    \A c \in watching : \A p \in Px(size) \ (marked[c] \cup stale[c]) :
      view[c][p] = curr[p]

(* What the converter may have delivered. *)
Delivered(s) == Pictures(s) \cup Undefined(s)

(* With the GPU detector the same holds as far as it can tell, for any     *)
(* size, the tiles cut at the edges included: what a client shows of a     *)
(* tile is that of a picture which the detector reads there as it reads    *)
(* the buffer's.  Errors do not add up from frame to frame, however        *)
(* conversions failed and sizes changed (detect_damage_gpu, the swap in    *)
(* detect_damage).                                                         *)
TilesTold ==
  shared /\ ~torn =>
    \A c \in watching : \A r \in Tiles(size) :
      Rect(r) \cap (marked[c] \cup stale[c]) = {} =>
        \E q \in Delivered(size) : /\ Part(q, r) = Part(view[c], r)
                                  /\ Sample(size, q, r) = Sample(size, curr, r)

(* A conversion that succeeds delivers the newest picture drawn since the  *)
(* buffers were made, if not always that of the present frame              *)
(* (convert_buffers draws over what the texture shows).                    *)
NewestPicture == running /\ ~torn /\ drawn # None => curr = drawn

(* The first conversion after the buffers were made reaches every client   *)
(* as a full update (gen_buffers clears the previous picture for that),    *)
(* unless the import failed and left a picture as blank as the previous.   *)
FirstUpdateIsFull ==
  [][running' /\ (~running \/ size' # size) /\ ~torn' /\ curr' # Cleared(size') =>
       shared' /\ \A c \in watching : marked'[c] = Px(size')]_vars

=============================================================================
