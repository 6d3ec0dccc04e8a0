---------------------------- MODULE MCDamageTrack ----------------------------
(* Small pictures for DamageTrack: columns of three rows for the CPU       *)
(* detector (a whole tile and a cut one), rows of five and of four for the *)
(* GPU's.                                                                  *)
EXTENDS DamageTrack, Functions

CONSTANTS v1, v2

Column == {[w |-> 1, h |-> 3], [w |-> 1, h |-> 2]}
Row == {[w |-> 5, h |-> 1], [w |-> 4, h |-> 1]}

TilePx(s) == 2

(* Every picture in two opaque colours. *)
Opaque(s) == [Px(s) -> {1, 2}]

(* Pictures of vertical bars; the second differs from the first by less    *)
(* than an average can tell, the last in a column that a size of five      *)
(* leaves over.                                                            *)
Bars(s) == {[p \in Px(s) |-> bars[p[1] + 1]] :
              bars \in {<<1, 1, 1, 1, 1>>, <<1, 2, 1, 1, 1>>,
                        <<3, 3, 1, 1, 1>>, <<1, 1, 1, 1, 3>>}}

(* Memory is as it was cleared once, or holds a picture of before. *)
Garbage(s) == {Cleared(s), [p \in Px(s) |-> 1]}

SumOf(part) == FoldFunction(+, 0, part)

(* The average of some pixels, rounded down. *)
Average(part) == SumOf(part) \div Cardinality(DOMAIN part)

(* A texel of the mipmap of a row, whose width is rounded down.            *)
Texel(s, p, i) ==
  Average(Part(p, [x |-> i * TilePx(s), y |-> 0, w |-> TilePx(s), h |-> 1]))

(* What a driver that filters like this reads for a tile: the fragment is  *)
(* one of the damage size, rounded up, and its middle falls between two    *)
(* texels unless the width is a multiple of the tile.                      *)
Filtered(s, p, r) ==
  LET T == TilePx(s)
      W == s.w \div T
      D == (s.w + T - 1) \div T
      at == (2 * (r.x \div T) + 1) * W - D  \* in texels, times 2 * D
      a == IF at < 0 THEN 0 ELSE at \div (2 * D)
      part == IF at < 0 THEN 0 ELSE at % (2 * D)
      b == IF a + 1 < W THEN a + 1 ELSE a
  IN Texel(s, p, a) * (2 * D - part) + Texel(s, p, b) * part

(* The same as a table, which TLC computes once. *)
Table == [s \in Row |-> [p \in Delivered(s) |-> [r \in Tiles(s) |-> Filtered(s, p, r)]]]
Lookup(s, p, r) == Table[s][p][r]
=============================================================================
