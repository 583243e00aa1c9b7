------------------------------ MODULE Checksum ------------------------------
(***************************************************************************)
(* DATASUM and CHECKSUM of an HDU, checksum.rs: a ones' complement sum of  *)
(* four-byte words kept as two halves, streamed over chunks of any length, *)
(* and written into the header as sixteen characters that make the sum of  *)
(* the whole HDU all ones.  A byte is a number below Base (256), a 32-bit  *)
(* sum a pair of halves below Base^2.                                      *)
(***************************************************************************)
EXTENDS Integers, Sequences, SequencesExt

CONSTANTS
    Base,       \* values of a byte
    Zero,       \* the character "0": offset of the encoding
    Exclude     \* the characters that are no letters or digits

HalfWord == Base * Base

Padded4(bytes) == bytes \o [k \in 1..((4 - (Len(bytes) % 4)) % 4) |-> 0]

HalfSum(bytes, at) ==
    FoldLeft(LAMBDA acc, k : acc + bytes[4 * k + at] * Base + bytes[4 * k + at + 1],
             0, [k \in 1..(Len(bytes) \div 4) |-> k - 1])

\* End-around carry of the two halves.
Carried[hi \in Nat, lo \in Nat] ==
    IF hi < HalfWord /\ lo < HalfWord THEN <<hi, lo>>
    ELSE Carried[(hi % HalfWord) + lo \div HalfWord, (lo % HalfWord) + hi \div HalfWord]

(***************************************************************************)
(* compute_checksum_bytes: both halves are u32 and only fold at the end,   *)
(* so what a chunk adds beyond 2^32 is lost (a debug build panics).        *)
(***************************************************************************)
ChecksumBytes(seed, bytes) ==
    LET b == Padded4(bytes)
        u32(v) == v % (HalfWord * HalfWord)
    IN  Carried[u32(seed[1] + HalfSum(b, 1)), u32(seed[2] + HalfSum(b, 3))]

(***************************************************************************)
(* ChecksumStream: up to three bytes wait for the rest of their word.      *)
(***************************************************************************)
\* Mutant: a chunk boundary inside a word, forgotten.
FeedUncarried(s, bytes) == [seed |-> ChecksumBytes(s.seed, bytes), carry |-> <<>>]

Feed(s, bytes) ==
    LET need == (4 - Len(s.carry)) % 4
        rest == SubSeq(bytes, need + 1, Len(bytes))
        seed == IF s.carry = <<>> THEN s.seed
                ELSE ChecksumBytes(s.seed, s.carry \o SubSeq(bytes, 1, need))
        full == (Len(rest) \div 4) * 4
    IN  IF s.carry # <<>> /\ Len(bytes) < need
        THEN [s EXCEPT !.carry = @ \o bytes]
        ELSE [seed |-> ChecksumBytes(seed, SubSeq(rest, 1, full)),
              carry |-> SubSeq(rest, full + 1, Len(rest))]

StreamSum(seed, chunks) ==
    LET s == FoldLeft(Feed, [seed |-> seed, carry |-> <<>>], chunks)
    IN  ChecksumBytes(s.seed, s.carry)

BytesOf(sum) ==
    <<sum[1] \div Base, sum[1] % Base, sum[2] \div Base, sum[2] % Base>>

OnesComplementAdd(a, b) == ChecksumBytes(a, BytesOf(b))

(***************************************************************************)
(* encode_checksum_ascii: a byte becomes four characters of that sum; a    *)
(* pair with an excluded character is moved apart until it has none.  The  *)
(* string is rotated because its card puts it one byte before a word.      *)
(***************************************************************************)
Apart(x, y) ==
    LET m == CHOOSE m \in 0..Base :
                /\ {x + m, y - m} \cap Exclude = {}
                /\ \A k \in 0..(m - 1) : {x + k, y - k} \cap Exclude # {}
    IN  <<x + m, y - m>>

CharsOf(byte) ==
    LET q == byte \div 4 + Zero IN Apart(q + (byte % 4), q) \o Apart(q, q)

EncodeAscii(sum) ==
    LET bytes == BytesOf(<<HalfWord - 1 - sum[1], HalfWord - 1 - sum[2]>>)
        asc   == [k \in 1..16 |-> CharsOf(bytes[((k - 1) % 4) + 1])[(k - 1) \div 4 + 1]]
    IN  [k \in 1..16 |-> asc[((k + 14) % 16) + 1]]

(***************************************************************************)
(* cards_with_checksum and verify_checksum.  A header is its bytes before  *)
(* and after the sixteen characters, the first three short of a word.      *)
(***************************************************************************)
HeaderBytes(hdu, chars) == hdu.before \o chars \o hdu.after

AddChecksum(hdu) ==
    LET datasum == StreamSum(<<0, 0>>, hdu.chunks)
        hsum    == ChecksumBytes(<<0, 0>>, HeaderBytes(hdu, [k \in 1..16 |-> Zero]))
    IN  [datasum |-> datasum, chars |-> EncodeAscii(OnesComplementAdd(hsum, datasum))]

VerifyChecksum(hdu, chars) ==
    StreamSum(ChecksumBytes(<<0, 0>>, HeaderBytes(hdu, chars)), hdu.chunks)

(***************************************************************************)
(* The chunks whose halves stay within a u32 whatever sum came before.     *)
(* Up to 2^16 words always do; of the 2^18 words of a 1 MiB chunk the      *)
(* half-words must average below 0x4000.                                   *)
(***************************************************************************)
InWidth(chunks) ==
    \A k \in DOMAIN chunks :
        LET start  == Len(FlattenSeq(SubSeq(chunks, 1, k - 1)))
            padded == Padded4([i \in 1..(start % 4) |-> 0] \o chunks[k])
        IN  \A at \in {1, 3} :
                HalfSum(padded, at) + HalfWord <= HalfWord * HalfWord

(***************************************************************************)
(* What the sums should be: the words added modulo all ones.               *)
(***************************************************************************)
OnesSum(bytes) ==
    LET b == Padded4(bytes)
        w(k) == ((b[4 * k + 1] * Base + b[4 * k + 2]) * Base + b[4 * k + 3]) * Base
                    + b[4 * k + 4]
        top == HalfWord * HalfWord - 1
        t == FoldLeft(LAMBDA acc, k : (LET v == acc + w(k) IN IF v > top THEN v - top ELSE v),
                      0, [k \in 1..(Len(b) \div 4) |-> k - 1])
    IN  <<t \div HalfWord, t % HalfWord>>
=============================================================================
