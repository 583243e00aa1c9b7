------------------------------ MODULE Hcompress ------------------------------
(***************************************************************************)
(* The HCOMPRESS_1 codec of zimage/hcompress.rs without loss (scale 0 or   *)
(* 1): the H-transform of a tile, and the quadtree code of its             *)
(* coefficients' bit planes.  A tile is a function from its positions      *)
(* <<row, column>>, counted from 0, to its pixels.                         *)
(***************************************************************************)
EXTENDS Rice    \* for BitsOf, ValueOf and Take

Positions(nx, ny) == (0..(nx - 1)) \X (0..(ny - 1))

Half(n) == (n + 1) \div 2

Halves[n \in Nat, k \in Nat] == IF k = 0 THEN n ELSE Half(Halves[n, k - 1])

\* ceil(log2(n)); 0 for n = 0, where the code's f64 logarithm saturates.
Log2(n) == CHOOSE k \in 0..n : 2^k >= n /\ (k > 0 => 2^(k - 1) < n)

FloorTo(v, unit) == (v \div unit) * unit

Extended(a, p) == IF p \in DOMAIN a THEN a[p] ELSE 0

(***************************************************************************)
(* htrans: one level turns every 2 by 2 block into a sum and three         *)
(* differences.  The code's arms for odd edges double what is there, which *)
(* is the full block with its edge repeated.  shuffle gathers the even     *)
(* positions before the odd ones.                                          *)
(***************************************************************************)
Shuffled(i, n) == IF i < Half(n) THEN 2 * i ELSE 2 * (i - Half(n)) + 1

Unshuffled(i, n) == IF i % 2 = 0 THEN i \div 2 ELSE Half(n) + i \div 2

Coefficient(a, nx, ny, k, p) ==
    LET r   == 2 * (p[1] \div 2)
        c   == 2 * (p[2] \div 2)
        r1  == IF r + 1 < nx THEN r + 1 ELSE r
        c1  == IF c + 1 < ny THEN c + 1 ELSE c
        at(s10, s01, s00) ==
            (a[<<r1, c1>>] + s10 * a[<<r1, c>>] + s01 * a[<<r, c1>>]
                + s00 * a[<<r, c>>]) \div (IF k = 0 THEN 1 ELSE 2)
        rounded(h) == FloorTo(IF h >= 0 THEN h + 2^k ELSE h, 2^(k + 1))
        h0 == at(1, 1, 1)
    IN  CASE p = <<r, c>> ->
                FloorTo(h0 + 2^(k + 1) - (IF h0 >= 0 THEN 0 ELSE 1), 2^(k + 2))
          [] p = <<r + 1, c>>     -> rounded(at(1, -1, -1))
          [] p = <<r, c + 1>>     -> rounded(at(-1, 1, -1))
          [] p = <<r + 1, c + 1>> -> at(-1, -1, 1)

HTransLevel(a, k, nx, ny) ==
    [p \in DOMAIN a |->
        IF p[1] < nx /\ p[2] < ny
        THEN Coefficient(a, nx, ny, k, <<Shuffled(p[1], nx), Shuffled(p[2], ny)>>)
        ELSE a[p]]

Levels(nx, ny) == [k \in 1..Log2(Max({nx, ny})) |-> k - 1]

HTrans(a, nx, ny) ==
    FoldLeft(LAMBDA b, k : HTransLevel(b, k, Halves[nx, k], Halves[ny, k]),
             a, Levels(nx, ny))

(***************************************************************************)
(* hinv, from the coarsest level to the finest.  The low bits htrans       *)
(* rounded away are put back from the parities of the differences.         *)
(***************************************************************************)
Bit(v, k) == (v \div 2^k) % 2

\* Mutant: the low bits rounded away are not put back.
HInvBlockRounded(h0, hx0, hy0, hc0, k) ==
    [d \in {0, 1} \X {0, 1} |->
        LET sx == 2 * d[1] - 1
            sy == 2 * d[2] - 1
        IN  (h0 + sx * hx0 + sy * hy0 + sx * sy * hc0) \div (IF k = 0 THEN 4 ELSE 2)]

HInvBlock(h0, hx0, hy0, hc0, k) ==
    LET near(h, j, n) ==
            FloorTo(h + (IF h >= 0 THEN 2^j \div 2 ELSE n), 2^j)
        signed(h, low) == IF h >= 0 THEN h - low ELSE h + low
        hc   == near(hc0, k, IF k = 0 THEN 0 ELSE 2^k \div 2 - 1)
        low0 == Bit(hc, k) * 2^k
        hx   == signed(near(hx0, k + 1, 2^k - 1), low0)
        hy   == signed(near(hy0, k + 1, 2^k - 1), low0)
        low1 == ((Bit(hc, k + 1) + Bit(hx, k + 1) + Bit(hy, k + 1)) % 2) * 2^(k + 1)
        sum  == IF h0 >= 0 THEN h0 + low0 - low1
                ELSE IF low0 = 0 THEN h0 + low1 ELSE h0 + (low0 - low1)
    IN  [d \in {0, 1} \X {0, 1} |->
            LET sx == 2 * d[1] - 1
                sy == 2 * d[2] - 1
            IN  (sum + sx * hx + sy * hy + sx * sy * hc)
                    \div (IF k = 0 THEN 4 ELSE 2)]

HInvLevel(a, k, nx, ny) ==
    LET top == Positions(nx, ny)
        b   == [p \in top |-> a[<<Unshuffled(p[1], nx), Unshuffled(p[2], ny)>>]]
        blocks == [q \in Positions(Half(nx), Half(ny)) |->
            LET r == 2 * q[1]
                c == 2 * q[2]
            IN  HInvBlock(b[<<r, c>>], Extended(b, <<r + 1, c>>),
                          Extended(b, <<r, c + 1>>), Extended(b, <<r + 1, c + 1>>), k)]
    IN  [p \in DOMAIN a |->
            IF p \in top
            THEN blocks[<<p[1] \div 2, p[2] \div 2>>][<<p[1] % 2, p[2] % 2>>]
            ELSE a[p]]

HInv(a, nx, ny) ==
    LET levels == Levels(nx, ny)
        unit   == 2^(Len(levels) + 1)
        h0     == a[<<0, 0>>]
        start  == FloorTo(h0 + unit \div 2 - (IF h0 >= 0 THEN 0 ELSE 1), unit)
    IN  FoldLeft(LAMBDA b, k : HInvLevel(b, k, Halves[nx, k], Halves[ny, k]),
                 [a EXCEPT ![<<0, 0>>] = start], Reverse(levels))

(***************************************************************************)
(* The quadtree code of a bit plane, packed four positions to a code:      *)
(* qtree_onebit, then qtree_reduce of which codes are not zero, up to one  *)
(* code.  bufcopy keeps the codes lowest bit first and qtree_encode writes *)
(* its buffer back to front: the root comes out first.                     *)
(***************************************************************************)
HCode == <<62, 0, 1, 8, 2, 9, 26, 27, 3, 28, 10, 29, 11, 30, 63, 12>>

HNCode == <<6, 3, 3, 4, 3, 4, 5, 5, 3, 5, 4, 5, 4, 5, 6, 4>>

Huffman(v) == BitsOf(HCode[v + 1], HNCode[v + 1])

Packed(b, nx, ny) ==
    [q \in Positions(Half(nx), Half(ny)) |->
        LET at(i, j) == Extended(b, <<2 * q[1] + i, 2 * q[2] + j>>)
        IN  8 * at(0, 0) + 4 * at(0, 1) + 2 * at(1, 0) + at(1, 1)]

NonZero(codes) == [q \in DOMAIN codes |-> IF codes[q] = 0 THEN 0 ELSE 1]

RowMajor(nx, ny) == [k \in 1..(nx * ny) |-> <<(k - 1) \div ny, (k - 1) % ny>>]

Depth(nx, ny) == Max({Log2(Max({nx, ny})), 1})

\* The codes of every level of the tree over plane b, the finest first.
Tree(b, nx, ny) ==
    LET tree[k \in 1..Depth(nx, ny)] ==
            Packed(IF k = 1 THEN b ELSE NonZero(tree[k - 1]),
                   Halves[nx, k - 1], Halves[ny, k - 1])
    IN  tree

LevelBits(codes, nx, ny) ==
    FlattenSeq([k \in 1..(nx * ny) |->
        LET v == codes[RowMajor(nx, ny)[nx * ny + 1 - k]]
        IN  IF v = 0 THEN <<>> ELSE Huffman(v)])

DirectCode(codes, nx, ny) ==
    <<0, 0, 0, 0>> \o FlattenSeq([k \in 1..(nx * ny) |->
                                    BitsOf(codes[RowMajor(nx, ny)[k]], 4)])

PlaneCode(b, nx, ny) ==
    LET tree == Tree(b, nx, ny)
        bits == FlattenSeq([k \in 1..Depth(nx, ny) |->
                    LET j == Depth(nx, ny) + 1 - k
                    IN  LevelBits(tree[j], Halves[nx, j], Halves[ny, j])])
        bmax == Half(Half(nx) * Half(ny))
    IN  IF bits # <<>> /\ Len(bits) >= 8 * bmax
        THEN DirectCode(tree[1], Half(nx), Half(ny))
        ELSE <<1, 1, 1, 1>> \o (IF bits = <<>> THEN Huffman(0) ELSE bits)

(***************************************************************************)
(* encode: the sum, the number of planes of the quadrants, their planes    *)
(* from the highest, an end mark, and the signs of what is not zero.       *)
(***************************************************************************)
Quadrants(nx, ny) ==
    <<[r |-> 0, c |-> 0, nx |-> Half(nx), ny |-> Half(ny), class |-> 1],
      [r |-> 0, c |-> Half(ny), nx |-> Half(nx), ny |-> ny \div 2, class |-> 2],
      [r |-> Half(nx), c |-> 0, nx |-> nx \div 2, ny |-> Half(ny), class |-> 2],
      [r |-> Half(nx), c |-> Half(ny), nx |-> nx \div 2, ny |-> ny \div 2, class |-> 3]>>

InQuadrant(q) == {<<q.r + p[1], q.c + p[2]>> : p \in Positions(q.nx, q.ny)}

Abs(v) == IF v < 0 THEN -v ELSE v

Planes(a, nx, ny, class) ==
    LET qs == {q \in Range(Quadrants(nx, ny)) : q.class = class}
        m  == Max({0} \cup {Abs(a[p]) : p \in UNION {InQuadrant(q) : q \in qs}})
    IN  Log2(m + 1)

QuadrantCode(a, q, planes) ==
    FlattenSeq([k \in 1..planes |->
        PlaneCode([p \in Positions(q.nx, q.ny) |->
                        Bit(Abs(a[<<q.r + p[1], q.c + p[2]>>]), planes - k)],
                  q.nx, q.ny)])

EncodeHcompress(tile, nx, ny) ==
    LET h  == HTrans(tile, nx, ny)
        a  == [h EXCEPT ![<<0, 0>>] = 0]
        qs == Quadrants(nx, ny)
        planes == [k \in 1..3 |-> Planes(a, nx, ny, k)]
        rows   == RowMajor(nx, ny)
        signed == SelectSeq(rows, LAMBDA p : a[p] # 0)
    IN  [sum |-> h[<<0, 0>>], planes |-> planes,
         bits |-> FlattenSeq([k \in 1..4 |->
                        QuadrantCode(a, qs[k], planes[qs[k].class])])
                    \o <<0, 0, 0, 0>>,
         signs |-> [k \in DOMAIN signed |-> IF a[signed[k]] < 0 THEN 1 ELSE 0]]

(***************************************************************************)
(* The way back: qtree_expand spreads a level's codes over the next and    *)
(* reads a new code for each that is not zero, last position first.  s is  *)
(* how far the bits are read, and what the plane's codes are so far.       *)
(***************************************************************************)
ReadHuffman(c, pos) ==
    LET b(n) == ValueOf(Take(c, pos, n))
    IN  IF b(3) < 4 THEN [v |-> 2^b(3), n |-> 3]
        ELSE IF b(4) < 13 THEN [v |-> <<3, 5, 10, 12, 15>>[b(4) - 7], n |-> 4]
        ELSE IF b(5) < 31 THEN [v |-> <<6, 7, 9, 11, 13>>[b(5) - 25], n |-> 5]
        ELSE [v |-> IF b(6) = 62 THEN 0 ELSE 14, n |-> 6]

Spread(codes, nx, ny) ==
    [p \in Positions(nx, ny) |->
        Bit(codes[<<p[1] \div 2, p[2] \div 2>>], 3 - 2 * (p[1] % 2) - (p[2] % 2))]

Expand(c, s, nx, ny) ==
    FoldLeft(LAMBDA t, p : IF t.codes[p] = 0 THEN t
                           ELSE LET h == ReadHuffman(c, t.pos)
                                IN  [pos |-> t.pos + h.n, codes |-> [t.codes EXCEPT ![p] = h.v]],
             [pos |-> s.pos, codes |-> Spread(s.codes, nx, ny)],
             Reverse(RowMajor(nx, ny)))

ReadTree(c, pos, nx, ny) ==
    LET h == ReadHuffman(c, pos)
    IN  FoldLeft(LAMBDA s, k : Expand(c, s, Halves[nx, k], Halves[ny, k]),
                 [pos |-> pos + h.n, codes |-> [p \in {<<0, 0>>} |-> h.v]],
                 [k \in 1..(Depth(nx, ny) - 1) |-> Depth(nx, ny) - k])

ReadDirect(c, pos, nx, ny) ==
    [pos |-> pos + 4 * nx * ny,
     codes |-> [p \in Positions(nx, ny) |->
                    ValueOf(Take(c, pos + 4 * (p[1] * ny + p[2]), 4))]]

\* A plane of an empty quadrant has no code to keep: scratch[0] is out of range.
ReadPlane(c, q, s, k) ==
    LET mark == ValueOf(Take(c, s.pos, 4))
        t    == IF mark = 0 THEN ReadDirect(c, s.pos + 4, Half(q.nx), Half(q.ny))
                ELSE ReadTree(c, s.pos + 4, q.nx, q.ny)
        b    == Spread(t.codes, q.nx, q.ny)
    IN  IF ~s.ok \/ mark \notin {0, 15} \/ (mark = 15 /\ q.nx * q.ny = 0)
        THEN [s EXCEPT !.ok = FALSE]
        ELSE [s EXCEPT !.pos = t.pos,
                       !.a = [p \in DOMAIN @ |->
                                IF p \in InQuadrant(q)
                                THEN @[p] + 2^k * b[<<p[1] - q.r, p[2] - q.c>>]
                                ELSE @[p]]]

ReadQuadrant(c, q, s, planes) ==
    FoldLeft(LAMBDA t, k : ReadPlane(c, q, t, planes - k), s, [k \in 1..planes |-> k])

DecodeHcompress(code, nx, ny) ==
    LET end == FoldLeft(LAMBDA s, q : ReadQuadrant(code.bits, q, s, code.planes[q.class]),
                        [pos |-> 0, ok |-> TRUE, a |-> [p \in Positions(nx, ny) |-> 0]],
                        Quadrants(nx, ny))
        rows == SelectSeq(RowMajor(nx, ny), LAMBDA p : end.a[p] # 0)
        negative == {rows[k] : k \in {j \in DOMAIN rows : code.signs[j] = 1}}
        a == [p \in Positions(nx, ny) |->
                IF p = <<0, 0>> THEN code.sum
                ELSE IF p \in negative THEN -end.a[p] ELSE end.a[p]]
    IN  IF end.ok /\ ValueOf(Take(code.bits, end.pos, 4)) = 0
        THEN HInv(a, nx, ny) ELSE <<>>
=============================================================================
