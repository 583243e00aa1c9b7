------------------------------ MODULE MCCodecs ------------------------------
EXTENDS Codecs

None == {}

\* Ends, wraps, steps and plateaus of 8-bit pixels, one to four blocks of two.
SmallRice == UNION {[1..n -> {-128, -3, 0, 1, 127}] : n \in 1..4}
                \cup [1..7 -> {0, 1, -90}]

\* Without the lone pixels that PlioLossless.cfg is about.
LoneAt(t, i) ==
    /\ t[i] > 0
    /\ i > 1 => t[i - 1] # t[i]
    /\ i < Len(t) => t[i + 1] # t[i]
ZerosBefore(t, i) ==
    Cardinality({j \in 1..(i - 1) : \A k \in j..(i - 1) : t[k] = 0})
SetBefore(t, i) ==
    LET up == {j \in 1..(i - 1) : t[j] > 0} IN IF up = {} THEN 1 ELSE t[Max(up)]
Awkward(t) ==
    \E i \in DOMAIN t :
        /\ LoneAt(t, i)
        /\ IF ZerosBefore(t, i) = 0 THEN Abs(t[i] - SetBefore(t, i)) > LongestRun
           ELSE ZerosBefore(t, i) % LongestRun = 0
AllPlio == UNION {[1..n -> {0, 1, 3, 9}] : n \in 1..5} \cup [1..8 -> {0, 7}]
TamePlio == {t \in AllPlio : ~Awkward(t)}

Tile(nx, ny, f(_, _)) ==
    [nx |-> nx, ny |-> ny, pixels |-> [p \in Positions(nx, ny) |-> f(p[1], p[2])]]
Textures(nx, ny) ==
    {Tile(nx, ny, LAMBDA i, j : ((u * i + v * j + w * i * j) % m) - o) :
        u \in 0..2, v \in {0, 3}, w \in 0..2, m \in {2, 7, 50}, o \in {0, 5}}
SmallHcompress ==
    UNION {Textures(nx, ny) : nx \in {2, 3, 4, 5}, ny \in {4, 5, 7}}
    \cup {[nx |-> 2, ny |-> 4, pixels |-> f] : f \in [Positions(2, 4) -> {-1, 2}]}
OneRow == {Tile(1, 4, LAMBDA i, j : j)}

Top == Base - 1
Words4 == {<<0, 0, 0, 0>>, <<Top, Top, Top, Top>>, <<0, 1, Top, 3>>, <<5, 0, 0, Top>>,
           <<0, 0, 0, 1>>, <<Top, Top, Top, Top - 1>>}
CutAt(s, n) == <<SubSeq(s, 1, n), SubSeq(s, n + 1, Len(s))>>
ShortHdus ==
    {[before |-> <<4, b, 5>>, after |-> <<a>>, chunks |-> CutAt(x \o y \o z, n)] :
        b \in {0, Top}, a \in 0..Top, x \in Words4, y \in Words4,
        z \in {<<>>, <<3, 6>>}, n \in {0, 3, 4, 5, 6, 8}}

\* n times the bytes of s.
Repeated(n, s) == [k \in 1..(n * Len(s)) |-> s[((k - 1) % Len(s)) + 1]]

\* As many words to a chunk as the 1 MiB chunks of a data section have, on
\* either side of what a half holds, and the longest chunk that always fits.
FullWords == 4 * HalfWord
LongHdus ==
    {[before |-> <<1, 0, 2>>, after |-> <<3>>, chunks |-> <<c, t>>] :
        c \in {Repeated(FullWords, w) : w \in {<<Base \div 4 - 1, Top, 0, 1>>, <<0, 1, Base \div 4, 0>>}}
             \cup {Repeated(HalfWord + n, <<0, 1, Top, Top>>) : n \in {0, 1}},
        t \in {<<>>, <<Top, 1, 2>>}}
SmallHdus == ShortHdus \cup LongHdus
=============================================================================
