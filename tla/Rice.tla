-------------------------------- MODULE Rice --------------------------------
(***************************************************************************)
(* The RICE_1 codec of zimage/rice.rs.  A tile is a sequence of signed     *)
(* pixels; its code is a sequence of bits, filled up to whole bytes.  The  *)
(* differences between neighbours are mapped to naturals, and every block  *)
(* of BlockSize of them is written with the split width the block's mean   *)
(* suggests.                                                               *)
(***************************************************************************)
EXTENDS Integers, Sequences, SequencesExt

CONSTANTS
    BBits,      \* bits of a pixel: 8, 16 or 32
    FsBits,     \* bits of a block's header
    FsMax,      \* the split width that stands for "written raw"
    BlockSize,  \* pixels of a block
    UnaryCap    \* the longest unary prefix the decoder accepts (1024)

(***************************************************************************)
(* Bits, most significant first, as BitWriter and BitReader move them.     *)
(***************************************************************************)
BitsOf(v, n) == [k \in 1..n |-> (v \div 2^(n - k)) % 2]

ValueOf(bits) == FoldLeft(LAMBDA acc, b : 2 * acc + b, 0, bits)

Filled8(bits) == bits \o [k \in 1..((8 - (Len(bits) % 8)) % 8) |-> 0]

Narrowed(v) ==
    LET u == v % 2^BBits IN IF u < 2^(BBits - 1) THEN u ELSE u - 2^BBits

ZigZag(d) == IF d < 0 THEN -(2 * d) - 1 ELSE 2 * d

UnZigZag(z) == IF z % 2 = 0 THEN z \div 2 ELSE -((z + 1) \div 2)

(***************************************************************************)
(* encode_rice.                                                            *)
(***************************************************************************)
BlockDiffs(pixels, i) ==
    [j \in 1..Min({BlockSize, Len(pixels) - i + 1}) |->
        LET k == i + j - 1
        IN  ZigZag(Narrowed(pixels[k] - pixels[Max({k - 1, 1})]))]

SplitWidth(diffs) ==
    LET n     == Len(diffs)
        mean  == (FoldLeft(+, 0, diffs) - n \div 2 - 1) \div n
        psum  == Min({Max({mean, 0}), 2^BBits - 1}) \div 2
    IN  CHOOSE fs \in 0..BBits : 2^fs > psum /\ (fs > 0 => 2^(fs - 1) <= psum)

\* Mutant: the low bits of a difference written one short.
SplitCodeShort(d, fs) ==
    [k \in 1..(d \div 2^fs) |-> 0] \o <<1>> \o BitsOf((d % 2^fs) \div 2, fs)

SplitCode(d, fs) ==
    [k \in 1..(d \div 2^fs) |-> 0] \o <<1>> \o BitsOf(d % 2^fs, fs)

BlockCode(diffs) ==
    LET fs == SplitWidth(diffs)
    IN  IF fs >= FsMax
        THEN BitsOf(FsMax + 1, FsBits)
                \o FlattenSeq([j \in DOMAIN diffs |-> BitsOf(diffs[j], BBits)])
        ELSE IF \A j \in DOMAIN diffs : diffs[j] = 0
        THEN BitsOf(0, FsBits)
        ELSE BitsOf(fs + 1, FsBits)
                \o FlattenSeq([j \in DOMAIN diffs |-> SplitCode(diffs[j], fs)])

EncodeRice(pixels) ==
    LET blocks == (Len(pixels) + BlockSize - 1) \div BlockSize
    IN  Filled8(BitsOf(pixels[1] % 2^BBits, BBits)
                \o FlattenSeq([b \in 1..blocks |->
                        BlockCode(BlockDiffs(pixels, (b - 1) * BlockSize + 1))]))

(***************************************************************************)
(* decode_rice, one pixel at a time: pos bits are read, fs is the current  *)
(* block's width, last the pixel before.  ok falls when the stream ends    *)
(* early or a unary prefix is too long.                                    *)
(***************************************************************************)
Take(c, pos, n) == SubSeq(c, pos + 1, pos + n)

ReadHeader(c, s) ==
    IF s.ok /\ Len(s.out) % BlockSize = 0
    THEN [s EXCEPT !.ok = s.pos + FsBits <= Len(c),
                   !.pos = @ + FsBits,
                   !.fs = ValueOf(Take(c, s.pos, FsBits)) - 1]
    ELSE s

WithPixel(s, n, diff) ==
    LET v == s.last + UnZigZag(diff)
    IN  [s EXCEPT !.pos = @ + n, !.last = v, !.out = Append(@, Narrowed(v))]

ReadRaw(c, s) ==
    IF s.pos + BBits <= Len(c)
    THEN WithPixel(s, BBits, ValueOf(Take(c, s.pos, BBits)))
    ELSE [s EXCEPT !.ok = FALSE]

ReadSplit(c, s) ==
    LET ones == {k \in (s.pos + 1)..Len(c) : c[k] = 1}
        top  == Min(ones) - s.pos - 1
    IN  IF ones # {} /\ top <= UnaryCap /\ Min(ones) + s.fs <= Len(c)
        THEN WithPixel(s, top + 1 + s.fs,
                       top * 2^s.fs + ValueOf(Take(c, Min(ones), s.fs)))
        ELSE [s EXCEPT !.ok = FALSE]

ReadPixel(c, s0) ==
    LET s == ReadHeader(c, s0)
    IN  IF ~s.ok THEN s
        ELSE IF s.fs < 0 THEN WithPixel(s, 0, 0)
        ELSE IF s.fs = FsMax THEN ReadRaw(c, s)
        ELSE ReadSplit(c, s)

DecodeRice(c, n) ==
    LET seed == [pos |-> BBits, fs |-> 0, out |-> <<>>,
                 last |-> Narrowed(ValueOf(Take(c, 0, BBits))), ok |-> Len(c) > BBits]
        end  == FoldLeft(LAMBDA s, i : ReadPixel(c, s), seed, [i \in 1..n |-> i])
    IN  IF end.ok THEN end.out ELSE <<>>
=============================================================================
