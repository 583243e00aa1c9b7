-------------------------------- MODULE Plio --------------------------------
(***************************************************************************)
(* The PLIO_1 codec of zimage/plio.rs: runs of equal non-negative pixels.  *)
(* A word is 4 bits of operation above LowBits bits of operand (12 in the  *)
(* code): Low = 2^LowBits, and op * Low + data is a word.  The seven       *)
(* header words, which only carry the stream's length, are left out.       *)
(***************************************************************************)
EXTENDS Integers, Sequences, SequencesExt

CONSTANT Low    \* one more than the largest operand: 4096

LongestRun == Low - 1

(***************************************************************************)
(* encode_plio_i32.  pv is the value of the current run, hi the last value *)
(* set, x1 where the run begins and iz where the zeros before it begin     *)
(* (from 0, as in the code).  A tile with a pixel below 0 or above 2^27-1  *)
(* is refused before anything is encoded: the tiles here are the others.   *)
(***************************************************************************)
SetWords(pv, hi) ==
    LET dv == pv - hi
    IN  IF pv = 0 \/ dv = 0 THEN <<>>
        ELSE IF dv > LongestRun \/ -dv > LongestRun
        THEN <<(pv % Low) + Low, pv \div Low>>
        ELSE IF dv < 0 THEN <<3 * Low - dv>> ELSE <<2 * Low + dv>>

\* `word | 16384`: turns "set" into "set and write one pixel".
WithWriteBit(w) == IF (w \div (4 * Low)) % 2 = 0 THEN w + 4 * Low ELSE w

\* Mutant: a run longer than one operand can say, cut.
RunWordsOnce(n, op) == IF n = 0 THEN <<>> ELSE <<Min({LongestRun, n}) + op>>

RunWords(n, op) ==
    [k \in 1..((n + LongestRun - 1) \div LongestRun) |->
        Min({LongestRun, n - (k - 1) * LongestRun}) + op]

WithLast(s, w) == [s EXCEPT ![Len(s)] = w]

Emitted(pv, hi, np, nz) ==
    LET set   == SetWords(pv, hi)
        zeros == RunWords(nz, 0)
    IN  IF set # <<>> /\ np = 1 /\ nz = 0 THEN WithLast(set, WithWriteBit(Last(set)))
        ELSE IF zeros # <<>> /\ np = 1 /\ pv > 0
        THEN set \o WithLast(zeros, Last(zeros) + 5 * Low + 1)
        ELSE set \o zeros \o RunWords(np, 4 * Low)

EncodeAt(pixels, s, ip) ==
    LET n    == Len(pixels)
        last == ip = n - 1
        next == pixels[Min({ip + 2, n})]
        x1   == IF last /\ s.pv = 0 THEN n ELSE s.x1
        np   == Max({ip + 1 - x1, 0})
    IN  IF ~last /\ next = s.pv THEN s
        ELSE IF ~last /\ s.pv = 0 THEN [s EXCEPT !.pv = next, !.x1 = ip + 1]
        ELSE [pv |-> next, x1 |-> ip + 1, iz |-> ip + 1,
              hi |-> IF s.pv > 0 THEN s.pv ELSE s.hi,
              out |-> s.out \o Emitted(s.pv, s.hi, np, x1 - s.iz)]

EncodePlio(pixels) ==
    FoldLeft(LAMBDA s, ip : EncodeAt(pixels, s, ip),
             [pv |-> pixels[1], hi |-> 1, x1 |-> 0, iz |-> 0, out |-> <<>>],
             [k \in 1..Len(pixels) |-> k - 1]).out

(***************************************************************************)
(* decode_plio.  A run that would pass the end of the tile is cut, and its *)
(* last pixel is set only when it was not.  What is never written is zero. *)
(***************************************************************************)
Fill(s, n, data, v, last) ==
    LET np == Min({data, n - Len(s.out)})
    IN  s.out \o [k \in 1..np |-> IF k = data THEN last ELSE v]

DecodeWord(c, n, s, ip) ==
    LET op   == c[ip] \div Low
        data == c[ip] % Low
    IN  IF ~s.ok \/ Len(s.out) >= n THEN s
        ELSE IF s.skip THEN [s EXCEPT !.skip = FALSE]
        ELSE CASE op = 0 -> [s EXCEPT !.out = Fill(s, n, data, 0, 0)]
               [] op = 4 -> [s EXCEPT !.out = Fill(s, n, data, s.pv, s.pv)]
               [] op = 5 -> [s EXCEPT !.out = Fill(s, n, data, 0, s.pv)]
               [] op = 1 -> IF ip = Len(c) THEN [s EXCEPT !.ok = FALSE]
                            ELSE [s EXCEPT !.pv = c[ip + 1] * Low + data, !.skip = TRUE]
               [] op = 2 -> [s EXCEPT !.pv = @ + data]
               [] op = 3 -> [s EXCEPT !.pv = @ - data]
               [] op = 6 -> [s EXCEPT !.pv = @ + data, !.out = Append(@, s.pv + data)]
               [] op = 7 -> [s EXCEPT !.pv = @ - data, !.out = Append(@, s.pv - data)]
               [] OTHER  -> [s EXCEPT !.ok = FALSE]

DecodePlio(c, n) ==
    LET end == FoldLeft(LAMBDA s, ip : DecodeWord(c, n, s, ip),
                        [pv |-> 1, skip |-> FALSE, out |-> <<>>, ok |-> TRUE],
                        [k \in 1..Len(c) |-> k])
    IN  IF end.ok THEN end.out \o [k \in 1..(n - Len(end.out)) |-> 0] ELSE <<>>
=============================================================================
