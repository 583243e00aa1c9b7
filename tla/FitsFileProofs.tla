-------------------------- MODULE FitsFileProofs --------------------------
(***************************************************************************)
(* FitsFile for every number of HDUs, every header and section size and    *)
(* every block geometry.  The first part places every section: LayoutInv   *)
(* is inductive, since what a stage may rely on is what the stages before  *)
(* it secured (JobFits), and once memory has lost track of the file it is  *)
(* never trusted again.  The second part is about the blocks themselves: a *)
(* stage carries those of the other HDUs along with their records, leaves  *)
(* in the section of its own HDU nothing but that HDU's data and zeros,    *)
(* and keeps on the disk the header that the records speak of, so that a   *)
(* parse of the disk alone finds what memory has.                          *)
(***************************************************************************)
EXTENDS FitsFile, PrefixSumTheorems, SequenceTheorems

\* What LayoutInv says of a trusted handle.
Core ==
    /\ flen \in Nat /\ hdus \in Seq(HduRec) /\ job \in JobRec
    /\ HeadersFit /\ Disjoint /\ JobFits

-----------------------------------------------------------------------------
(* Sizes.                                                                  *)

\* DataBlocks is monotone, and positive on a section that is not empty.
LEMMA DataBlocksMono ==
  ASSUME NEW a \in Nat, NEW b \in Nat, a <= b
  PROVE  /\ DataBlocks(a) \in Nat /\ DataBlocks(b) \in Nat
         /\ DataBlocks(a) <= DataBlocks(b)
         /\ a > 0 => DataBlocks(a) > 0
  BY UpbAssumption DEF DataBlocks, CeilDiv

\* Extent is a natural number and monotone in the units of the section.
LEMMA ExtentMono ==
  ASSUME NEW c \in Cards, NEW d \in Cards
  PROVE  /\ Extent(c) \in Nat
         /\ c.main + c.heap <= d.main + d.heap => Extent(c) <= Extent(d)
         /\ c.main + c.heap > 0 => Extent(c) > 0
  <1>1. c.main + c.heap \in Nat /\ d.main + d.heap \in Nat
    BY DEF Cards
  <1> QED BY <1>1, DataBlocksMono DEF Extent

\* A header occupies at least one block.
LEMMA HeaderBlocksType ==
  ASSUME NEW c \in Cards
  PROVE  HeaderBlocks(c) \in Nat \ {0}
  <1>1. c.n \in Nat \ {0}
    BY DEF Cards
  <1> QED BY <1>1, CpbAssumption DEF HeaderBlocks, CeilDiv

-----------------------------------------------------------------------------
(* Layouts.                                                                *)

\* A trusted layout: the records are typed and in file order.
LEMMA LayoutFacts ==
  ASSUME hdus \in Seq(HduRec)
  PROVE  /\ Len(hdus) \in Nat /\ DOMAIN hdus = 1..Len(hdus)
         /\ \A k \in DOMAIN hdus :
              /\ hdus[k] \in HduRec /\ hdus[k].hoff \in Nat /\ hdus[k].doff \in Nat
              /\ hdus[k].hblk \in Nat \ {0} /\ hdus[k].c \in Cards
              /\ Extent(hdus[k].c) \in Nat
  <1>1. Len(hdus) \in Nat /\ DOMAIN hdus = 1..Len(hdus)
    OBVIOUS
  <1>2. ASSUME NEW k \in DOMAIN hdus
        PROVE  /\ hdus[k] \in HduRec /\ hdus[k].hoff \in Nat /\ hdus[k].doff \in Nat
               /\ hdus[k].hblk \in Nat \ {0} /\ hdus[k].c \in Cards
    <2>1. hdus[k] \in HduRec
      BY <1>1
    <2> QED BY <2>1 DEF HduRec
  <1> QED BY <1>1, <1>2, ExtentMono

\* A sequence stays one when its elements are replaced.
LEMMA SameShape ==
  ASSUME NEW S, NEW s \in Seq(S), NEW t, DOMAIN t = DOMAIN s, t = [i \in DOMAIN s |-> t[i]],
         \A i \in DOMAIN s : t[i] \in S
  PROVE  t \in Seq(S) /\ Len(t) = Len(s)
  <1>1. Len(s) \in Nat /\ DOMAIN s = 1..Len(s)
    OBVIOUS
  <1>2. t \in [1..Len(s) -> S]
    BY <1>1
  <1>3. t \in Seq(S)
    BY <1>1, <1>2, SeqDef
  <1> QED BY <1>1, <1>3

\* a lies between k's header and the next HDU, and a move by d stays in the file.
Cut(k, a, d) ==
    /\ k \in DOMAIN hdus /\ a \in Int /\ d \in Int
    /\ \A l \in DOMAIN hdus :
         /\ l <= k => hdus[l].hoff < a
         /\ k < l => hdus[l].hoff >= a /\ hdus[l].hoff + d >= 0 /\ hdus[l].doff + d >= 0

\* m is the layout in which the HDUs after k have moved by d.
Slid(m, k, d) ==
    /\ m \in Seq(HduRec) /\ DOMAIN m = DOMAIN hdus /\ m = [l \in DOMAIN hdus |-> m[l]]
    /\ \A l \in DOMAIN hdus :
         /\ m[l].hblk = hdus[l].hblk /\ m[l].c = hdus[l].c
         /\ l <= k => m[l] = hdus[l]
         /\ k < l => m[l].hoff = hdus[l].hoff + d /\ m[l].doff = hdus[l].doff + d

\* Moved(a, d) displaces exactly the HDUs after k.
LEMMA MovedTail ==
  ASSUME hdus \in Seq(HduRec), NEW k, NEW a, NEW d, Cut(k, a, d)
  PROVE  Slid(Moved(a, d), k, d)
  <1> DEFINE m == Moved(a, d)
  <1>0. DOMAIN hdus = 1..Len(hdus) /\ Len(hdus) \in Nat
    BY LayoutFacts
  <1>1. m = [i \in DOMAIN hdus |-> m[i]] /\ DOMAIN m = DOMAIN hdus
    BY DEF Moved
  <1>2. ASSUME NEW l \in DOMAIN hdus, l <= k
        PROVE  m[l] = hdus[l]
    BY <1>2, LayoutFacts DEF Moved, Cut
  <1>3. ASSUME NEW l \in DOMAIN hdus, k < l
        PROVE  m[l] = [hdus[l] EXCEPT !.hoff = @ + d, !.doff = @ + d]
    BY <1>3, LayoutFacts DEF Moved, Cut
  <1>4. ASSUME NEW l \in DOMAIN hdus
        PROVE  m[l] \in HduRec
    <2>1. CASE l <= k
      BY <1>2, <2>1, LayoutFacts
    <2>2. CASE k < l
      <3>1. hdus[l] \in HduRec /\ hdus[l].hoff + d \in Nat /\ hdus[l].doff + d \in Nat
        BY <2>2, LayoutFacts DEF Cut
      <3> QED BY <1>3, <2>2, <3>1 DEF HduRec
    <2> QED BY <1>0, <2>1, <2>2 DEF Cut
  <1>5. m \in Seq(HduRec) /\ Len(m) = Len(hdus)
    BY <1>1, <1>4, SameShape
  <1>6. ASSUME NEW l \in DOMAIN hdus
        PROVE  /\ m[l].hblk = hdus[l].hblk /\ m[l].c = hdus[l].c
               /\ l <= k => m[l] = hdus[l]
               /\ k < l => m[l].hoff = hdus[l].hoff + d /\ m[l].doff = hdus[l].doff + d
    <2>1. CASE l <= k
      BY <1>0, <1>2, <2>1 DEF Cut
    <2>2. CASE k < l
      <3>1. hdus[l] \in HduRec /\ ~(l <= k)
        BY <1>0, <2>2, LayoutFacts DEF Cut
      <3>2. m[l] = [hdus[l] EXCEPT !.hoff = @ + d, !.doff = @ + d]
        BY <1>3, <2>2
      <3> HIDE DEF m
      <3> QED BY <3>1, <3>2 DEF HduRec
    <2> QED BY <1>0, <2>1, <2>2 DEF Cut
  <1> HIDE DEF m
  <1>7. Slid(m, k, d)
    BY <1>1, <1>5, <1>6 DEF Slid
  <1> QED BY <1>7 DEF m

-----------------------------------------------------------------------------
(* The stages an operation can be at, and what its HDU claims there.       *)

Grow == {"extend", "append", "vla", "setitem"}

\* Which operation runs, and how far it is, when a stage is next.
LEMMA Phases ==
  ASSUME job \in JobRec, JobFits, NEW s, At(s)
  PROVE  /\ job # NoJob
         /\ s = "primary" => job.op = "create_first" /\ job.pc = 1
         /\ s = "append" => \/ job.op = "create" /\ job.pc = 1
                            \/ job.op = "create_first" /\ job.pc = 2
         /\ s = "headroom" => job.op \in {"header", "insert", "delete"} /\ job.pc = 1
         /\ s = "rewrite" => job.op \in {"header", "insert", "delete"} /\ job.pc = 2
         /\ s = "puthdr" => \/ job.op \in {"extend", "append"} /\ job.pc = 2
                            \/ job.op \in {"vla", "setitem", "repack"} /\ job.pc = 3
                            \/ job.op = "repack_staged" /\ job.pc = 4
         /\ s = "room" => \/ job.op \in Grow /\ job.pc = 1
                          \/ job.op = "insert" /\ job.pc = 3
         /\ s = "staging" => job.op = "repack_staged" /\ job.pc = 1
         /\ s = "data" => \/ job.op \in {"write", "repack"} /\ job.pc = 1
                          \/ job.op \in {"extend", "append", "insert"} /\ job.pc = 4
                          \/ job.op \in {"vla", "setitem", "repack_staged"} /\ job.pc = 2
                          \/ job.op = "delete" /\ job.pc = 3
         /\ s = "shrink" => \/ job.op = "repack" /\ job.pc = 2
                            \/ job.op = "repack_staged" /\ job.pc = 3
                            \/ job.op = "delete" /\ job.pc = 4
         /\ s = "commit" => \/ job.op = "header" /\ job.pc = 3
                            \/ job.op \in {"extend", "append"} /\ job.pc = 3
                            \/ job.op \in {"vla", "setitem", "repack"} /\ job.pc = 4
                            \/ job.op \in {"repack_staged", "insert", "delete"} /\ job.pc = 5
  BY DEF JobRec, Op, JobFits, At, Program, Grow

\* The value of Claim in every phase.
ClaimFacts ==
  (hdus \in Seq(HduRec) /\ job \in JobRec) =>
    \A k \in DOMAIN hdus :
      /\ k # job.h => Claim(k) = Extent(hdus[k].c)
      /\ (job.op \in {"header", "write"} /\ job.pc \in 1..3) =>
           Claim(k) = IF k = job.h /\ Extent(job.c) > Extent(hdus[k].c)
                      THEN Extent(job.c) ELSE Extent(hdus[k].c)
      /\ (job.op \in Grow /\ job.pc = 1) \/ (job.op = "insert" /\ job.pc \in 1..3) =>
           Claim(k) = Extent(hdus[k].c)
      /\ (job.op \in Grow /\ job.pc \in 2..4) \/ (job.op = "insert" /\ job.pc \in 4..5) =>
           Claim(k) = IF k = job.h /\ Extent(job.c) > Extent(hdus[k].c)
                      THEN Extent(job.c) ELSE Extent(hdus[k].c)
      /\ \/ job.op = "delete" /\ job.pc \in 1..4
         \/ job.op = "repack" /\ job.pc \in 1..2
         \/ job.op = "repack_staged" /\ job.pc = 1
         => Claim(k) = Extent(hdus[k].c)
      /\ (job.op = "repack_staged" /\ job.pc \in 2..3 /\ k = job.h) =>
           Claim(k) = StagedExtent(k)
      /\ /\ k = job.h
         /\ \/ job.op = "delete" /\ job.pc = 5
            \/ job.op = "repack" /\ job.pc \in 3..4
            \/ job.op = "repack_staged" /\ job.pc \in 4..5
         => Claim(k) = Extent(job.c)
      /\ job.op # "repack_staged" => StagedExtent(k) = Extent(hdus[k].c)

\* ClaimFacts follows from the definition of Claim, phase by phase.
LEMMA ClaimValues == ClaimFacts
  <1> SUFFICES ASSUME hdus \in Seq(HduRec), job \in JobRec, NEW k \in DOMAIN hdus
               PROVE  ClaimFacts!2!(k)
    BY DEF ClaimFacts
  <1>1. hdus[k].c.main + hdus[k].c.heap \in Nat
    BY LayoutFacts DEF Cards
  <1>2. job.op # "repack_staged" => StagedExtent(k) = Extent(hdus[k].c)
    BY <1>1 DEF StagedExtent, Extent
  <1>3. k # job.h => Claim(k) = Extent(hdus[k].c)
    BY DEF Claim
  <1>4. job.op \in {"header", "write"} /\ job.pc \in 1..3 => Done("room")
    BY DEF Done, Program
  <1>5. (job.op \in Grow /\ job.pc = 1) \/ (job.op = "insert" /\ job.pc \in 1..3) => ~Done("room")
    BY DEF Done, Program, Grow
  <1>6. (job.op \in Grow /\ job.pc \in 2..4) \/ (job.op = "insert" /\ job.pc \in 4..5) => Done("room")
    BY DEF Done, Program, Grow
  <1>7. \/ job.op = "delete" /\ job.pc \in 1..4
        \/ job.op = "repack" /\ job.pc \in 1..2
        => ~Done("shrink") /\ Done("staging")
    BY DEF Done, Program
  <1>8. job.op = "repack_staged" /\ job.pc = 1 => ~Done("shrink") /\ ~Done("staging")
    BY DEF Done, Program
  <1>9. job.op = "repack_staged" /\ job.pc \in 2..3 => ~Done("shrink") /\ Done("staging")
    BY DEF Done, Program
  <1>10. \/ job.op = "delete" /\ job.pc = 5
         \/ job.op = "repack" /\ job.pc \in 3..4
         \/ job.op = "repack_staged" /\ job.pc \in 4..5
         => Done("shrink")
    BY DEF Done, Program
  <1> QED BY <1>2, <1>3, <1>4, <1>5, <1>6, <1>7, <1>8, <1>9, <1>10 DEF Claim, Grow

\* An HDU's header comes before its data, and sections follow each other.
LEMMA Order ==
  ASSUME Core, NEW k \in DOMAIN hdus
  PROVE  /\ hdus[k].hoff < hdus[k].doff /\ hdus[k].doff + Claim(k) <= flen
         /\ \A l \in DOMAIN hdus : k < l => hdus[k].doff + Claim(k) <= hdus[l].hoff
  BY LayoutFacts DEF Core, HeadersFit, Disjoint

\* Every header up to k's lies before k's data.
LEMMA Before ==
  ASSUME Core, NEW k \in DOMAIN hdus, NEW l \in DOMAIN hdus, l <= k,
         \A m \in DOMAIN hdus : Claim(m) \in Nat
  PROVE  hdus[l].hoff < hdus[k].doff
  <1>1. /\ hdus[k].hoff \in Nat /\ hdus[k].doff \in Nat /\ hdus[l].hoff \in Nat
        /\ hdus[l].doff \in Nat /\ k \in Nat /\ l \in Nat
    BY LayoutFacts DEF Core
  <1>2. hdus[k].hoff < hdus[k].doff /\ hdus[l].hoff < hdus[l].doff
    BY Order
  <1>3. CASE l < k
    <2>1. hdus[l].doff + Claim(l) <= hdus[k].hoff
      BY <1>3, Order
    <2> QED BY <1>1, <1>2, <2>1
  <1> QED BY <1>1, <1>2, <1>3

\* An operation in progress, at stage s of its program.
LEMMA Running ==
  ASSUME Core, NEW s, At(s)
  PROVE  /\ job # NoJob /\ job \in JobRec /\ job.c \in Cards /\ Extent(job.c) \in Nat
         /\ hdus \in Seq(HduRec) /\ flen \in Nat
         /\ job.op \notin {"create", "create_first"} =>
              /\ job.h \in DOMAIN hdus /\ hdus[job.h].hblk \in Nat \ {0}
              /\ hdus[job.h].hoff \in Nat /\ hdus[job.h].doff \in Nat
              /\ hdus[job.h].c \in Cards /\ Extent(hdus[job.h].c) \in Nat
  <1>1. job # NoJob /\ job \in JobRec /\ job.c \in Cards
    BY DEF Core, At, JobRec
  <1>2. job.op \notin {"create", "create_first"} => job.h \in DOMAIN hdus
    BY <1>1 DEF Core, JobFits
  <1> QED BY <1>1, <1>2, LayoutFacts, ExtentMono DEF Core

\* The two ways in which a stage ends.
LEMMA Advanced ==
  ASSUME job \in JobRec, JobFits, job # NoJob, Advance
  PROVE  /\ job' \in JobRec
         /\ job.pc = Len(Program(job.op)) => job' = NoJob
         /\ job.pc # Len(Program(job.op)) =>
              /\ job' # NoJob /\ job'.op = job.op /\ job'.h = job.h /\ job'.c = job.c
              /\ job'.pc = job.pc + 1 /\ job'.pc \in 1..Len(Program(job'.op))
  <1>1. CASE job.pc = Len(Program(job.op))
    BY <1>1 DEF Advance, NoJob, JobRec, NoCards, Cards, Kind, Op
  <1>2. CASE job.pc # Len(Program(job.op))
    <2>1. job' = [job EXCEPT !.pc = @ + 1] /\ job.op \in Op \ {"none"} /\ job.pc \in Nat
          /\ job.pc \in 1..Len(Program(job.op))
      BY <1>2 DEF Advance, JobRec, JobFits
    <2>2. Len(Program(job.op)) \in 1..5
      BY <2>1 DEF Program, Op
    <2>3. job.pc + 1 \in 1..Len(Program(job.op)) /\ job.pc + 1 \in 0..5
      <3> DEFINE n == Len(Program(job.op))
      <3>1. n \in 1..5 /\ job.pc \in 1..n /\ job.pc # n
        BY <1>2, <2>1, <2>2
      <3> HIDE DEF n
      <3>2. job.pc + 1 \in 1..n /\ job.pc + 1 \in 0..5
        BY <3>1
      <3> QED BY <3>2 DEF n
    <2>4. /\ job'.op = job.op /\ job'.h = job.h /\ job'.c = job.c
          /\ job'.pc = job.pc + 1 /\ job' \in JobRec
      BY <2>1, <2>3 DEF JobRec
    <2> QED BY <1>2, <2>1, <2>3, <2>4 DEF NoJob
  <1> QED BY <1>1, <1>2

\* A stage that leaves the cards in place, and reserves what the new cards need when
\* it is the one for the header's room, keeps what JobFits says.
LEMMA StillFits ==
  ASSUME Core, job # NoJob, job.op \notin {"create", "create_first"}, Advance,
         DOMAIN hdus' = DOMAIN hdus, hdus'[job.h].c = hdus[job.h].c,
         hdus'[job.h].hblk \in Nat, hdus'[job.h].hblk >= hdus[job.h].hblk,
         At("headroom") => HeaderBlocks(job.c) <= hdus'[job.h].hblk
  PROVE  JobFits'
  <1>1. job \in JobRec /\ JobFits /\ job.h \in DOMAIN hdus
    BY DEF Core, JobFits
  <1>2. CASE job.pc = Len(Program(job.op))
    BY <1>1, <1>2, Advanced DEF JobFits
  <1>3. CASE job.pc # Len(Program(job.op))
    <2>1. /\ job' # NoJob /\ job'.op = job.op /\ job'.h = job.h /\ job'.c = job.c
          /\ job'.pc = job.pc + 1 /\ job'.pc \in 1..Len(Program(job'.op))
      BY <1>1, <1>3, Advanced
    <2>2. Done("headroom")' => Done("headroom") \/ At("headroom")
      BY <1>1, <2>1 DEF Done, At, JobFits, JobRec
    <2>3. Done("headroom")' => HeaderBlocks(job.c) <= hdus'[job.h].hblk
      <3>1. HeaderBlocks(job.c) \in Nat
        BY <1>1, HeaderBlocksType DEF JobRec
      <3>2. hdus[job.h].hblk \in Nat
        BY <1>1, LayoutFacts DEF Core
      <3> QED BY <1>1, <2>2, <3>1, <3>2 DEF JobFits
    <2> QED BY <1>1, <2>1, <2>3 DEF JobFits
  <1> QED BY <1>2, <1>3

\* Nothing moves, the file does not shrink and no HDU claims more.
LEMMA SameLayout ==
  ASSUME Core, hdus' = hdus, flen' \in Nat, flen' >= flen,
         \A k \in DOMAIN hdus : Claim(k)' \in Nat /\ Claim(k) \in Nat /\ Claim(k)' <= Claim(k)
  PROVE  HeadersFit' /\ Disjoint'
  <1>1. HeadersFit'
    BY DEF Core, HeadersFit
  <1>2. Disjoint'
    BY SMTT(30), LayoutFacts DEF Core, Disjoint
  <1> QED BY <1>1, <1>2

\* The HDUs after k have moved by d and k's own data by e, and k's new claim ends
\* before the next HDU and before the end of the file.
Displaced(k, d, e) ==
    /\ k \in DOMAIN hdus /\ d \in Int /\ e \in Nat
    /\ hdus' \in Seq(HduRec) /\ DOMAIN hdus' = DOMAIN hdus
    /\ flen' \in Nat /\ flen' = flen + d
    /\ \A l \in DOMAIN hdus :
         /\ hdus'[l].c = hdus[l].c
         /\ Claim(l) \in Nat /\ Claim(l)' \in Nat
         /\ l < k => hdus'[l] = hdus[l] /\ Claim(l)' = Claim(l)
         /\ k < l => /\ hdus'[l].hoff = hdus[l].hoff + d
                     /\ hdus'[l].doff = hdus[l].doff + d
                     /\ hdus'[l].hblk = hdus[l].hblk
                     /\ Claim(l)' = Claim(l)
                     /\ hdus'[k].doff + Claim(k)' <= hdus[l].hoff + d
    /\ hdus'[k].hoff = hdus[k].hoff /\ hdus'[k].hblk = hdus[k].hblk + e
    /\ hdus'[k].doff = hdus[k].doff + e
    /\ hdus'[k].doff + Claim(k)' <= flen + d

\* A displacement keeps the layout in order.
LEMMA ShiftedLayout ==
  ASSUME Core, NEW k, NEW d, NEW e, Displaced(k, d, e)
  PROVE  HeadersFit' /\ Disjoint'
  <1>1. /\ Len(hdus) \in Nat /\ DOMAIN hdus = 1..Len(hdus) /\ flen \in Nat
        /\ k \in DOMAIN hdus /\ d \in Int /\ e \in Nat /\ DOMAIN hdus' = DOMAIN hdus
        /\ flen' = flen + d
    BY LayoutFacts DEF Core, Displaced
  <1>2. ASSUME NEW l \in DOMAIN hdus
        PROVE  /\ hdus[l].hoff \in Nat /\ hdus[l].doff \in Nat /\ hdus[l].hblk \in Nat
               /\ HeaderBlocks(hdus[l].c) \in Nat /\ Claim(l) \in Nat /\ Claim(l)' \in Nat
               /\ hdus[l].doff = hdus[l].hoff + hdus[l].hblk
               /\ HeaderBlocks(hdus[l].c) <= hdus[l].hblk
               /\ hdus[l].hoff < hdus[l].doff /\ hdus[l].doff + Claim(l) <= flen
    <2>1. hdus[l].c \in Cards /\ Claim(l) \in Nat /\ Claim(l)' \in Nat
      BY LayoutFacts DEF Core, Displaced
    <2>2. HeaderBlocks(hdus[l].c) \in Nat
      BY <2>1, HeaderBlocksType
    <2>3. hdus[l].hoff \in Nat /\ hdus[l].doff \in Nat /\ hdus[l].hblk \in Nat
      BY LayoutFacts DEF Core
    <2> QED BY <2>1, <2>2, <2>3, Order DEF Core, HeadersFit
  <1>3. ASSUME NEW l \in DOMAIN hdus, NEW m \in DOMAIN hdus, l < m
        PROVE  hdus[l].doff + Claim(l) <= hdus[m].hoff
    BY <1>3, Order
  <1>4. ASSUME NEW l \in DOMAIN hdus, l < k
        PROVE  hdus'[l] = hdus[l] /\ Claim(l)' = Claim(l)
    BY <1>4 DEF Displaced
  <1>5. ASSUME NEW l \in DOMAIN hdus, k < l
        PROVE  /\ hdus'[l].hoff = hdus[l].hoff + d /\ hdus'[l].doff = hdus[l].doff + d
               /\ hdus'[l].hblk = hdus[l].hblk /\ Claim(l)' = Claim(l)
               /\ hdus'[k].doff + Claim(k)' <= hdus[l].hoff + d
    BY <1>5 DEF Displaced
  <1>6. /\ hdus'[k].hoff = hdus[k].hoff /\ hdus'[k].hblk = hdus[k].hblk + e
        /\ hdus'[k].doff = hdus[k].doff + e /\ hdus'[k].doff + Claim(k)' <= flen + d
    BY DEF Displaced
  <1>7. ASSUME NEW l \in DOMAIN hdus
        PROVE  l < k \/ l = k \/ k < l
    BY <1>1
  <1>8. HeadersFit'
    <2> SUFFICES ASSUME NEW l \in DOMAIN hdus
                 PROVE  /\ hdus'[l].doff = hdus'[l].hoff + hdus'[l].hblk
                        /\ HeaderBlocks(hdus[l].c) <= hdus'[l].hblk
      <3>1. \A l \in DOMAIN hdus : hdus'[l].c = hdus[l].c
        BY DEF Displaced
      <3> QED BY <1>1, <3>1 DEF HeadersFit, HeaderBlocks
    <2>1. CASE l < k
      BY <1>2, <1>4, <2>1
    <2>2. CASE l = k
      BY SMTT(30), <1>1, <1>2, <1>6, <2>2
    <2>3. CASE k < l
      BY SMTT(30), <1>1, <1>2, <1>5, <2>3
    <2> QED BY <1>7, <2>1, <2>2, <2>3
  <1>9. ASSUME NEW l \in DOMAIN hdus
        PROVE  hdus'[l].doff + Claim(l)' <= flen'
    <2>1. CASE l < k
      <3>1. hdus[l].doff + Claim(l) <= hdus[k].hoff
        BY <1>1, <1>3, <2>1
      <3>2. hdus'[l].doff + Claim(l)' = hdus[l].doff + Claim(l)
        BY <1>4, <2>1
      <3>3. /\ hdus[l].doff + Claim(l) \in Nat /\ hdus[k].hoff \in Nat /\ hdus[k].doff \in Nat
            /\ hdus[k].hoff < hdus[k].doff /\ Claim(k)' \in Nat
        BY <1>1, <1>2
      <3> QED BY <1>1, <1>6, <3>1, <3>2, <3>3
    <2>2. CASE l = k
      BY <1>1, <1>6, <2>2
    <2>3. CASE k < l
      <3>1. hdus'[l].doff = hdus[l].doff + d /\ Claim(l)' = Claim(l)
        BY <1>5, <2>3
      <3>2. hdus[l].doff \in Nat /\ Claim(l) \in Nat /\ hdus[l].doff + Claim(l) <= flen
        BY <1>2
      <3> QED BY <1>1, <3>1, <3>2
    <2> QED BY <1>7, <2>1, <2>2, <2>3
  <1>10. ASSUME NEW l \in DOMAIN hdus, NEW m \in DOMAIN hdus, l < m
         PROVE  hdus'[l].doff + Claim(l)' <= hdus'[m].hoff
    <2>1. hdus[l].doff + Claim(l) <= hdus[m].hoff
      BY <1>3, <1>10
    <2>2. CASE m < k
      <3>1. l < k
        BY <1>1, <1>10, <2>2
      <3> QED BY <1>4, <2>1, <2>2, <3>1
    <2>3. CASE m = k
      BY <1>4, <1>6, <1>10, <2>1, <2>3
    <2>4. CASE l < k /\ k < m
      <3>1. hdus[l].doff + Claim(l) <= hdus[k].hoff
        BY <1>1, <1>3, <2>4
      <3>2. hdus'[k].doff + Claim(k)' <= hdus'[m].hoff
        BY <1>5, <2>4
      <3>3. hdus'[l].doff + Claim(l)' = hdus[l].doff + Claim(l)
        BY <1>4, <2>4
      <3>4. hdus'[k].doff = hdus[k].doff + e /\ hdus'[m].hoff = hdus[m].hoff + d
        BY <1>5, <1>6, <2>4
      <3>5. hdus[l].doff + Claim(l) \in Nat /\ hdus[m].hoff \in Nat
        BY <1>2
      <3>6. /\ hdus[k].hoff \in Nat /\ hdus[k].doff \in Nat
            /\ hdus[k].hoff < hdus[k].doff /\ Claim(k)' \in Nat
        BY <1>1, <1>2
      <3> QED BY SMTT(30), <1>1, <3>1, <3>2, <3>3, <3>4, <3>5, <3>6
    <2>5. CASE l = k
      BY <1>5, <1>10, <2>5
    <2>6. CASE k < l
      <3>1. k < m
        BY <1>1, <1>10, <2>6
      <3>2. /\ hdus'[l].doff = hdus[l].doff + d /\ Claim(l)' = Claim(l)
            /\ hdus'[m].hoff = hdus[m].hoff + d
        BY <1>5, <2>6, <3>1
      <3>3. hdus[l].doff \in Nat /\ Claim(l) \in Nat /\ hdus[m].hoff \in Nat
        BY <1>2
      <3> QED BY <1>1, <2>1, <3>2, <3>3
    <2> QED BY <1>1, <1>10, <2>2, <2>3, <2>4, <2>5, <2>6
  <1>11. Disjoint'
    BY <1>1, <1>9, <1>10 DEF Disjoint
  <1> QED BY <1>8, <1>11

\* The records after a shift at a, k's own data and header room growing by e.
Slipped(k, d, e) ==
    /\ hdus' \in Seq(HduRec) /\ DOMAIN hdus' = DOMAIN hdus
    /\ \A l \in DOMAIN hdus :
         /\ hdus'[l].c = hdus[l].c
         /\ l < k => hdus'[l] = hdus[l]
         /\ k < l => /\ hdus'[l].hoff = hdus[l].hoff + d
                     /\ hdus'[l].doff = hdus[l].doff + d
                     /\ hdus'[l].hblk = hdus[l].hblk
    /\ hdus'[k].hoff = hdus[k].hoff /\ hdus'[k].hblk = hdus[k].hblk + e
    /\ hdus'[k].doff = hdus[k].doff + e

\* The record of an HDU whose header has grown by e blocks.
LEMMA GrownRecord ==
  ASSUME NEW r \in HduRec, NEW e \in Nat, NEW t, t = [r EXCEPT !.hblk = @ + e, !.doff = @ + e]
  PROVE  /\ t \in HduRec /\ t.hoff = r.hoff /\ t.c = r.c
         /\ t.hblk = r.hblk + e /\ t.doff = r.doff + e
  <1>1. /\ r.hoff \in Nat /\ r.hblk \in Nat \ {0} /\ r.doff \in Nat /\ r.c \in Cards
        /\ r = [hoff |-> r.hoff, hblk |-> r.hblk, doff |-> r.doff, c |-> r.c]
    BY DEF HduRec
  <1>2. t = [hoff |-> r.hoff, hblk |-> r.hblk + e, doff |-> r.doff + e, c |-> r.c]
    BY <1>1
  <1>3. r.hblk + e \in Nat \ {0} /\ r.doff + e \in Nat
    BY <1>1
  <1>4. t \in HduRec
    BY <1>1, <1>2, <1>3 DEF HduRec
  <1> QED BY <1>2, <1>4

Grown(m, k, e) == [m EXCEPT ![k].hblk = @ + e, ![k].doff = @ + e]

\* What Moved makes of the other records, and the growth of k's own.
LEMMA SlippedRecords ==
  ASSUME hdus \in Seq(HduRec), NEW k, NEW a, NEW d, NEW e \in Nat, Cut(k, a, d),
         hdus' = Grown(Moved(a, d), k, e)
  PROVE  Slipped(k, d, e)
  <1> DEFINE m == Moved(a, d)
  <1>1. Slid(m, k, d)
    BY MovedTail
  <1>2. hdus' = Grown(m, k, e)
    OBVIOUS
  <1> HIDE DEF m
  <1>3. /\ k \in DOMAIN hdus /\ k \in Nat /\ DOMAIN hdus = 1..Len(hdus) /\ Len(hdus) \in Nat
        /\ hdus[k] \in HduRec /\ d \in Int
    BY LayoutFacts DEF Cut
  <1>4. m \in Seq(HduRec) /\ DOMAIN m = DOMAIN hdus /\ m[k] = hdus[k]
    BY <1>1, <1>3 DEF Slid
  <1>5. /\ DOMAIN hdus' = DOMAIN hdus /\ hdus' = [l \in DOMAIN hdus |-> hdus'[l]]
        /\ hdus'[k] = [hdus[k] EXCEPT !.hblk = @ + e, !.doff = @ + e]
    BY <1>2, <1>3, <1>4 DEF Grown
  <1>6. ASSUME NEW l \in DOMAIN hdus, l # k
        PROVE  hdus'[l] = m[l]
    BY <1>2, <1>4, <1>6 DEF Grown
  <1>7. /\ hdus'[k] \in HduRec /\ hdus'[k].hoff = hdus[k].hoff /\ hdus'[k].c = hdus[k].c
        /\ hdus'[k].hblk = hdus[k].hblk + e /\ hdus'[k].doff = hdus[k].doff + e
    <2>1. hdus'[k] = [hdus[k] EXCEPT !.hblk = @ + e, !.doff = @ + e]
      BY <1>5
    <2> QED BY ZenonT(30), <1>3, <2>1, GrownRecord
  <1>8. hdus' \in Seq(HduRec)
    <2>1. \A l \in DOMAIN hdus : hdus'[l] \in HduRec
      BY <1>4, <1>6, <1>7
    <2> QED BY <1>5, <2>1, SameShape
  <1>9. ASSUME NEW l \in DOMAIN hdus
        PROVE  /\ hdus'[l].c = hdus[l].c
               /\ l < k => hdus'[l] = hdus[l]
               /\ k < l => /\ hdus'[l].hoff = hdus[l].hoff + d
                           /\ hdus'[l].doff = hdus[l].doff + d
                           /\ hdus'[l].hblk = hdus[l].hblk
    <2>1. CASE l = k
      BY <1>3, <1>7, <2>1
    <2>2. CASE l # k
      <3>1. hdus'[l] = m[l]
        BY <1>6, <2>2
      <3>2. l \in Nat
        BY <1>3
      <3> QED BY <1>1, <1>3, <3>1, <3>2 DEF Slid
    <2> QED BY <2>1, <2>2
  <1> QED BY <1>5, <1>7, <1>8, <1>9 DEF Slipped

\* A plain Moved is the case without growth.
LEMMA SlippedPlain ==
  ASSUME hdus \in Seq(HduRec), NEW k, NEW a, NEW d, Cut(k, a, d), hdus' = Moved(a, d)
  PROVE  Slipped(k, d, 0)
  <1>1. Slid(hdus', k, d)
    BY MovedTail
  <1>2. k \in DOMAIN hdus /\ k \in Nat /\ DOMAIN hdus = 1..Len(hdus)
        /\ hdus[k].hblk \in Nat /\ hdus[k].doff \in Nat
    BY LayoutFacts DEF Cut
  <1>3. hdus'[k] = hdus[k]
    BY <1>1, <1>2 DEF Slid
  <1>4. /\ hdus'[k].hoff = hdus[k].hoff /\ hdus'[k].hblk = hdus[k].hblk + 0
        /\ hdus'[k].doff = hdus[k].doff + 0
    BY <1>2, <1>3
  <1> QED BY <1>1, <1>2, <1>4 DEF Slid, Slipped

\* The claims are those of before, but for k's.
Claims(k) ==
    \A l \in DOMAIN hdus : /\ Claim(l) \in Nat /\ Claim(l)' \in Nat
                           /\ l # k => Claim(l)' = Claim(l)

\* A slip of the later HDUs, with room for k's new claim, keeps the layout sound.
LEMMA SlippedLayout ==
  ASSUME Core, NEW k, NEW a, NEW d, NEW e \in Nat, Cut(k, a, d), Slipped(k, d, e), Claims(k),
         flen' \in Nat, flen' = flen + d,
         hdus[k].doff + e + Claim(k)' <= flen + d,
         \A l \in DOMAIN hdus : k < l => hdus[k].doff + e + Claim(k)' <= hdus[l].hoff + d
  PROVE  HeadersFit' /\ Disjoint'
  <1>1. /\ k \in DOMAIN hdus /\ k \in Nat /\ DOMAIN hdus = 1..Len(hdus) /\ Len(hdus) \in Nat
        /\ a \in Int /\ d \in Int /\ hdus[k].doff \in Nat /\ Claim(k)' \in Nat
        /\ hdus'[k].doff = hdus[k].doff + e
    BY LayoutFacts DEF Cut, Core, Claims, Slipped
  <1>2. ASSUME NEW l \in DOMAIN hdus, k < l
        PROVE  hdus'[k].doff + Claim(k)' <= hdus[l].hoff + d
    BY <1>1, <1>2
  <1>3. ASSUME NEW l \in DOMAIN hdus
        PROVE  (l < k \/ k < l) => Claim(l)' = Claim(l)
    <2>1. l \in Nat
      BY <1>1
    <2> QED BY <1>1, <2>1 DEF Claims
  <1>4. Displaced(k, d, e)
    BY <1>1, <1>2, <1>3 DEF Displaced, Slipped, Claims
  <1> QED BY <1>4, ShiftedLayout

\* The end of k's claim, or any point up to the next header, is a place to cut.
LEMMA CutAfter ==
  ASSUME Core, NEW k \in DOMAIN hdus, NEW a \in Int, NEW d \in Int,
         \A l \in DOMAIN hdus : Claim(l) \in Nat,
         hdus[k].doff <= a, a + d >= 0, \A l \in DOMAIN hdus : k < l => a <= hdus[l].hoff
  PROVE  Cut(k, a, d)
  <1>1. ASSUME NEW l \in DOMAIN hdus, l <= k
        PROVE  hdus[l].hoff < a
    <2>1. hdus[l].hoff < hdus[k].doff
      BY <1>1, Before
    <2>2. hdus[l].hoff \in Nat /\ hdus[k].doff \in Nat
      BY LayoutFacts DEF Core
    <2> QED BY <2>1, <2>2
  <1>2. ASSUME NEW l \in DOMAIN hdus, k < l
        PROVE  hdus[l].hoff >= a /\ hdus[l].hoff + d >= 0 /\ hdus[l].doff + d >= 0
    <2>1. a <= hdus[l].hoff /\ hdus[l].hoff < hdus[l].doff
      BY <1>2, Order
    <2>2. hdus[l].hoff \in Nat /\ hdus[l].doff \in Nat
      BY LayoutFacts DEF Core
    <2> QED BY <2>1, <2>2
  <1> QED BY <1>1, <1>2 DEF Cut

\* What the stages between start and commit have in common.
LEMMA Working ==
  ASSUME Core, NEW s, At(s), s \notin {"primary", "append"}, Advance
  PROVE  /\ job.op \notin {"create", "create_first"} /\ job # NoJob /\ job \in JobRec
         /\ JobFits /\ ClaimFacts /\ ClaimFacts' /\ job' \in JobRec
  <1>1. job.op \notin {"create", "create_first"} /\ job # NoJob /\ job \in JobRec /\ JobFits
    <2>1. job # NoJob /\ job \in JobRec /\ JobFits
      BY DEF Core, At
    <2>2. job.op = "create" => job.pc = 1 /\ s = "append"
      BY <2>1 DEF JobFits, Program, At, JobRec
    <2>3. job.op = "create_first" => s \in {"primary", "append"}
      BY <2>1 DEF JobFits, Program, At, JobRec
    <2> QED BY <2>1, <2>2, <2>3
  <1>2. ClaimFacts /\ ClaimFacts'
    BY ClaimValues, PTL
  <1> QED BY <1>1, <1>2, Advanced

\* A data section is resized at a, the tail moving by d or, when nothing follows,
\* the end of the file.
Resized(a, d) ==
    \/ flen' = flen + d /\ hdus' = Moved(a, d)
    \/ flen <= a /\ flen' = a + d /\ hdus' = hdus

\* a lies between the start of k's data and the next HDU or the end of the file.
Boundary(k, a) ==
    /\ k \in DOMAIN hdus /\ a \in Nat /\ hdus[k].doff <= a /\ a <= flen
    /\ \A l \in DOMAIN hdus : Claim(l) \in Nat
    /\ \A l \in DOMAIN hdus : k < l => a <= hdus[l].hoff

\* What resizing a section at its boundary does to the records.
LEMMA ResizedRecords ==
  ASSUME Core, NEW k, NEW a, NEW d \in Int, Boundary(k, a), Resized(a, d), a + d >= 0
  PROVE  Cut(k, a, d) /\ Slipped(k, d, 0) /\ flen' = flen + d /\ flen' \in Nat
  <1>0. /\ k \in DOMAIN hdus /\ a \in Nat /\ hdus[k].doff <= a /\ a <= flen
        /\ \A l \in DOMAIN hdus : Claim(l) \in Nat
        /\ \A l \in DOMAIN hdus : k < l => a <= hdus[l].hoff
    BY DEF Boundary
  <1>1. Cut(k, a, d) /\ hdus \in Seq(HduRec) /\ flen \in Nat
    BY <1>0, CutAfter DEF Core
  <1>2. CASE flen' = flen + d /\ hdus' = Moved(a, d)
    BY <1>0, <1>1, <1>2, SlippedPlain
  <1>3. CASE flen <= a /\ flen' = a + d /\ hdus' = hdus
    <2>1. flen' = flen + d
      BY <1>0, <1>1, <1>3
    <2>2. ASSUME NEW l \in DOMAIN hdus, k < l
          PROVE  FALSE
      <3>1. a <= hdus[l].hoff
        BY <1>0, <2>2
      <3>2. /\ hdus[l].hoff \in Nat /\ hdus[l].doff \in Nat /\ hdus[l].hoff < hdus[l].doff
            /\ hdus[l].doff + Claim(l) <= flen /\ Claim(l) \in Nat
        BY <1>0, Order, LayoutFacts DEF Core
      <3> QED BY <1>0, <1>1, <1>3, <3>1, <3>2
    <2>3. hdus[k].hblk \in Nat /\ hdus[k].doff \in Nat
      BY <1>0, <1>1, LayoutFacts
    <2>4. Slipped(k, d, 0)
      BY <1>1, <1>3, <2>2, <2>3 DEF Slipped
    <2> QED BY <1>0, <1>1, <1>3, <2>1, <2>4
  <1> QED BY <1>2, <1>3 DEF Resized

\* Resizing a section at its boundary keeps the layout sound.
LEMMA ResizedLayout ==
  ASSUME Core, NEW k, NEW a, NEW d \in Int, Boundary(k, a), Cut(k, a, d),
         Slipped(k, d, 0), flen' = flen + d, flen' \in Nat, Claims(k),
         hdus[k].doff + Claim(k)' <= a + d
  PROVE  HeadersFit' /\ Disjoint'
  <1>1. hdus[k].doff \in Nat /\ Claim(k)' \in Nat /\ flen \in Nat /\ a \in Nat /\ a <= flen
    BY LayoutFacts DEF Core, Claims, Boundary
  <1>2. hdus[k].doff + 0 + Claim(k)' <= flen + d
    BY <1>1
  <1>3. ASSUME NEW l \in DOMAIN hdus, k < l
        PROVE  hdus[k].doff + 0 + Claim(k)' <= hdus[l].hoff + d
    <2>1. a <= hdus[l].hoff /\ hdus[l].hoff \in Nat
      BY <1>3, LayoutFacts DEF Core, Boundary
    <2> QED BY <1>1, <2>1
  <1> QED BY <1>2, <1>3, SlippedLayout

-----------------------------------------------------------------------------
(* The stages.                                                             *)

\* rewrite_header_to_disk inserts header blocks before k's data.
LEMMA HeadroomStep ==
  ASSUME Core, StageHeadroom
  PROVE  Core'
  <1> SUFFICES ASSUME NEW k, k = job.h
               PROVE  Core'
    OBVIOUS
  <1> DEFINE d == HeadDelta
             a == hdus[k].doff
  <1>1. /\ job.op \in {"header", "insert", "delete"} /\ job.pc = 1 /\ JobFits
        /\ At("headroom") /\ Advance
    BY Phases DEF Core, StageHeadroom
  <1>2. /\ k \in DOMAIN hdus /\ job # NoJob /\ job \in JobRec /\ HeaderBlocks(job.c) \in Nat
        /\ hdus \in Seq(HduRec) /\ flen \in Nat /\ hdus[k].hblk \in Nat /\ a \in Nat
        /\ d \in Int /\ d = HeaderBlocks(job.c) - hdus[k].hblk
    BY <1>1, Running, HeaderBlocksType DEF HeadDelta
  <1>3. /\ job' \in JobRec /\ job'.op = job.op /\ job'.h = k /\ job'.c = job.c /\ job'.pc = 2
    BY <1>1, <1>2, Advanced DEF Program
  <1>4. ClaimFacts /\ ClaimFacts'
    BY <1>1, Working
  <1>5. \A l \in DOMAIN hdus : Claim(l) = Extent(hdus[l].c) /\ Claim(l) \in Nat
    BY <1>1, <1>2, <1>4, LayoutFacts DEF ClaimFacts, JobFits, Grow
  <1>6. CASE d <= 0
    <2>1. UNCHANGED <<flen, hdus>>
      <3>1. ~(HeadDelta > 0)
        BY <1>2, <1>6
      <3> QED BY <3>1 DEF StageHeadroom
    <2>2. \A l \in DOMAIN hdus : Claim(l)' = Claim(l) /\ Claim(l) \in Nat
      BY <1>1, <1>2, <1>3, <1>4, <2>1, Running, LayoutFacts DEF ClaimFacts
    <2>3. HeadersFit' /\ Disjoint'
      BY <1>2, <2>1, <2>2, SameLayout
    <2>4. JobFits'
      BY <1>1, <1>2, <1>6, <2>1, StillFits
    <2> QED BY <1>2, <1>3, <2>1, <2>3, <2>4 DEF Core
  <1>7. CASE d > 0
    <2>1. a + Claim(k) <= flen /\ Claim(k) \in Nat
      BY <1>2, <1>5, Order
    <2>2. hdus' = Grown(Moved(a, d), k, d) /\ ShiftTail(a, d, FALSE)
      BY <1>7 DEF StageHeadroom, Grown
    <2>3. flen' = flen + d /\ flen' \in Nat
      <3>1. a <= flen
        BY <1>2, <2>1
      <3> QED BY <1>2, <1>7, <2>2, <3>1 DEF ShiftTail
    <2>4. \A l \in DOMAIN hdus : k < l => a <= hdus[l].hoff
      <3> SUFFICES ASSUME NEW l \in DOMAIN hdus, k < l PROVE a <= hdus[l].hoff
        OBVIOUS
      <3>1. a + Claim(k) <= hdus[l].hoff /\ hdus[l].hoff \in Nat
        BY <1>2, Order, LayoutFacts
      <3> QED BY <1>2, <2>1, <3>1
    <2> HIDE DEF a, d
    <2>5. d \in Nat /\ a + d >= 0
      BY <1>2, <1>7
    <2>6. Cut(k, a, d)
      BY SMTT(30), <1>2, <1>5, <2>4, <2>5, CutAfter DEF a
    <2>7. Slipped(k, d, d)
      BY <1>2, <2>2, <2>5, <2>6, SlippedRecords
    <2>8. /\ hdus' \in Seq(HduRec) /\ DOMAIN hdus' = DOMAIN hdus
          /\ \A l \in DOMAIN hdus : hdus'[l].c = hdus[l].c
          /\ hdus'[k].hblk = hdus[k].hblk + d
      BY <2>7 DEF Slipped
    <2>9. \A l \in DOMAIN hdus : Claim(l)' = Claim(l)
      <3>1. \A l \in DOMAIN hdus : Claim(l)' = Extent(hdus'[l].c)
        BY <1>1, <1>2, <1>3, <1>4, <2>8 DEF ClaimFacts, JobFits, Grow
      <3> QED BY <1>5, <2>8, <3>1
    <2>10. Claims(k)
      BY <1>5, <2>9 DEF Claims
    <2>11. HeadersFit' /\ Disjoint'
      <3>1. hdus[k].doff + d + Claim(k)' <= flen + d
        BY <1>2, <2>1, <2>5, <2>9 DEF a
      <3>2. ASSUME NEW l \in DOMAIN hdus, k < l
            PROVE  hdus[k].doff + d + Claim(k)' <= hdus[l].hoff + d
        <4>1. hdus[k].doff + Claim(k) <= hdus[l].hoff /\ hdus[l].hoff \in Nat
          BY <1>2, <3>2, Order, LayoutFacts
        <4>2. Claim(k)' = Claim(k) /\ hdus[k].doff \in Nat
          BY <1>2, <2>9 DEF a
        <4> QED BY <2>1, <2>5, <4>1, <4>2
      <3> QED BY <2>3, <2>5, <2>6, <2>7, <2>10, <3>1, <3>2, SlippedLayout
    <2>12. JobFits'
      <3>1. hdus'[k].hblk \in Nat /\ hdus'[k].hblk >= hdus[k].hblk
            /\ HeaderBlocks(job.c) <= hdus'[k].hblk
        BY <1>2, <2>5, <2>8
      <3> QED BY <1>1, <1>2, <2>8, <3>1, StillFits
    <2> QED BY <1>3, <2>3, <2>8, <2>11, <2>12 DEF Core
  <1> QED BY <1>2, <1>6, <1>7

\* The sections an operation that grows its HDU reckons with are the whole ones.
LEMMA RoomValues ==
  ASSUME Core, At("room")
  PROVE  /\ RoomAt = hdus[job.h].doff + Extent(hdus[job.h].c)
         /\ RoomDelta = Extent(job.c) - Extent(hdus[job.h].c)
  <1>1. /\ job # NoJob /\ job.op \notin {"create", "create_first"}
        /\ job.c \in Cards /\ hdus[job.h].c \in Cards
    BY Phases, Running DEF Core, Grow
  <1>2. CASE job.op = "append"
    <2>1. hdus[job.h].c.heap = 0 /\ job.c.heap = 0
      BY <1>1, <1>2 DEF Core, JobFits
    <2>2. hdus[job.h].c.main \in Nat /\ job.c.main \in Nat
      BY <1>1 DEF Cards
    <2> QED BY <1>2, <2>1, <2>2 DEF RoomAt, RoomDelta, Section, Extent
  <1>3. CASE job.op # "append"
    BY <1>3 DEF RoomAt, RoomDelta, Section
  <1> QED BY <1>2, <1>3

\* The data section grows.
LEMMA RoomStep ==
  ASSUME Core, StageRoom
  PROVE  Core'
  <1> SUFFICES ASSUME NEW k, k = job.h
               PROVE  Core'
    OBVIOUS
  <1> DEFINE d == Extent(job.c) - Extent(hdus[k].c)
             a == hdus[k].doff + Extent(hdus[k].c)
  <1>1. /\ At("room") /\ Advance /\ JobFits
        /\ (job.op \in Grow /\ job.pc = 1) \/ (job.op = "insert" /\ job.pc = 3)
    BY Phases DEF Core, StageRoom
  <1>2. /\ k \in DOMAIN hdus /\ job # NoJob /\ job \in JobRec /\ hdus \in Seq(HduRec)
        /\ flen \in Nat /\ hdus[k].doff \in Nat /\ Extent(job.c) \in Nat
        /\ Extent(hdus[k].c) \in Nat /\ d \in Int /\ a \in Nat
        /\ hdus[k].hblk \in Nat
    BY <1>1, Running DEF Grow
  <1>3. /\ job' \in JobRec /\ job'.op = job.op /\ job'.h = k /\ job'.c = job.c
        /\ job'.pc = job.pc + 1
    BY <1>1, <1>2, Advanced DEF Program, Grow
  <1>4. ClaimFacts /\ ClaimFacts'
    BY <1>1, Working
  <1>5. \A l \in DOMAIN hdus : Claim(l) = Extent(hdus[l].c) /\ Claim(l) \in Nat
    BY <1>1, <1>2, <1>4, LayoutFacts DEF ClaimFacts
  <1>6. Boundary(k, a)
    BY SMTT(30), <1>2, <1>5, Order DEF Boundary
  <1>7. \/ d <= 0 /\ UNCHANGED <<flen, hdus>>
        \/ d > 0 /\ Resized(a, d)
    <2>1. RoomAt = a /\ RoomDelta = d
      BY <1>1, RoomValues
    <2>2. CASE d <= 0
      BY <1>2, <2>1, <2>2 DEF StageRoom, ShiftTail, SetLen
    <2>3. CASE d > 0 /\ flen > a
      <3>0. ~(RoomDelta <= 0) /\ flen > RoomAt
        BY <1>2, <2>1, <2>3
      <3>1. ShiftTail(a, d, TRUE) /\ hdus' = Moved(a, d)
        BY <2>1, <3>0 DEF StageRoom
      <3>2. flen' = flen + d
        BY <1>2, <2>3, <3>1 DEF ShiftTail
      <3> QED BY <2>3, <3>1, <3>2 DEF Resized
    <2>4. CASE d > 0 /\ flen <= a
      <3>0. ~(RoomDelta <= 0) /\ ~(flen > RoomAt)
        BY <1>2, <2>1, <2>4
      <3>1. SetLen(a + d) /\ hdus' = hdus
        BY <2>1, <3>0 DEF StageRoom
      <3> QED BY <2>4, <3>1 DEF Resized, SetLen
    <2> QED BY <1>2, <2>2, <2>3, <2>4
  <1>8. CASE d <= 0 /\ UNCHANGED <<flen, hdus>>
    <2>1. \A l \in DOMAIN hdus : Claim(l)' = Claim(l)
      BY <1>1, <1>2, <1>3, <1>4, <1>5, <1>8 DEF ClaimFacts
    <2>2. HeadersFit' /\ Disjoint'
      BY <1>2, <1>5, <1>8, <2>1, SameLayout
    <2>3. JobFits'
      <3>1. ~At("headroom") /\ job.op \notin {"create", "create_first"}
        BY <1>1, Phases DEF At, Grow
      <3> QED BY <1>1, <1>2, <1>8, <3>1, StillFits
    <2> QED BY <1>2, <1>3, <1>8, <2>2, <2>3 DEF Core
  <1>9. CASE d > 0 /\ Resized(a, d)
    <2>1. a + d >= 0 /\ hdus[k].doff <= a
      BY <1>2, <1>9
    <2>2. Cut(k, a, d) /\ Slipped(k, d, 0) /\ flen' = flen + d /\ flen' \in Nat
      <3> HIDE DEF a, d
      <3> QED BY <1>2, <1>6, <1>9, <2>1, ResizedRecords
    <2>3. /\ hdus' \in Seq(HduRec) /\ DOMAIN hdus' = DOMAIN hdus
          /\ \A l \in DOMAIN hdus : hdus'[l].c = hdus[l].c
          /\ hdus'[k].hblk = hdus[k].hblk + 0
      BY <2>2 DEF Slipped
    <2>4. Claim(k)' = Extent(job.c) /\ \A l \in DOMAIN hdus : l # k => Claim(l)' = Claim(l)
      BY <1>1, <1>2, <1>3, <1>4, <1>5, <1>9, <2>3 DEF ClaimFacts
    <2>5. Claims(k)
      BY <1>2, <1>5, <2>4 DEF Claims
    <2>6. HeadersFit' /\ Disjoint'
      <3>1. hdus[k].doff + Claim(k)' <= a + d
        BY <1>2, <2>4
      <3> HIDE DEF a, d
      <3> QED BY <1>2, <1>6, <2>2, <2>5, <3>1, ResizedLayout
    <2>7. JobFits'
      <3>1. hdus'[k].hblk \in Nat /\ hdus'[k].hblk >= hdus[k].hblk
        BY <1>2, <2>3
      <3>2. ~At("headroom") /\ job.op \notin {"create", "create_first"}
        BY <1>1, Phases DEF At, Grow
      <3> QED BY <1>1, <1>2, <2>3, <3>1, <3>2, StillFits
    <2> QED BY <1>3, <2>2, <2>3, <2>6, <2>7 DEF Core
  <1> QED BY <1>7, <1>8, <1>9

\* grow_file_to_at_least finds the next HDU, or the end of the file.
LEMMA StagingBoundary ==
  ASSUME Core, NEW k \in DOMAIN hdus, hdus[k].c.heap > 0,
         \A l \in DOMAIN hdus : Claim(l) \in Nat, Claim(k) = Extent(hdus[k].c)
  PROVE  /\ Boundary(k, FreeUpTo(k)) /\ (Following(k) = {} => FreeUpTo(k) = flen)
         /\ hdus[k].doff + Claim(k) <= FreeUpTo(k)
  <1>1. /\ flen \in Nat /\ DOMAIN hdus = 1..Len(hdus) /\ Len(hdus) \in Nat /\ k \in Nat
        /\ hdus[k].c \in Cards /\ hdus[k].doff \in Nat
    BY LayoutFacts DEF Core
  <1>2. Claim(k) > 0 /\ Claim(k) \in Nat
    <2>1. hdus[k].c.main \in Nat /\ hdus[k].c.heap \in Nat
      BY <1>1 DEF Cards
    <2>2. hdus[k].c.main + hdus[k].c.heap > 0
      BY <2>1
    <2> QED BY <1>1, <2>2, ExtentMono
  <1>3. ASSUME NEW l \in DOMAIN hdus
        PROVE  /\ hdus[l].hoff \in Nat /\ hdus[l].hoff <= flen
               /\ k < l <=> hdus[l].hoff > hdus[k].doff
    <2>1. /\ hdus[l].hoff \in Nat /\ hdus[l].doff \in Nat /\ l \in Nat
          /\ hdus[l].hoff < hdus[l].doff /\ hdus[l].doff + Claim(l) <= flen /\ Claim(l) \in Nat
      BY <1>1, Order, LayoutFacts DEF Core
    <2>2. CASE k < l
      <3>1. hdus[k].doff + Claim(k) <= hdus[l].hoff
        BY <2>2, Order
      <3> QED BY <1>1, <1>2, <2>1, <2>2, <3>1
    <2>3. CASE l <= k
      <3>1. hdus[l].hoff < hdus[k].doff
        BY <2>3, Before
      <3> QED BY <1>1, <2>1, <2>3, <3>1
    <2> QED BY <1>1, <2>1, <2>2, <2>3
  <1>4. CASE Following(k) = {}
    <2>1. ASSUME NEW l \in DOMAIN hdus, k < l
          PROVE  FALSE
      BY <1>3, <1>4, <2>1 DEF Following
    <2>2. FreeUpTo(k) = flen
      BY <1>4 DEF FreeUpTo
    <2>3. hdus[k].doff <= flen /\ hdus[k].doff + Claim(k) <= flen
      <3>1. hdus[k].doff + Claim(k) <= flen
        BY Order
      <3> QED BY <1>1, <1>2, <3>1
    <2> QED BY <1>1, <2>1, <2>2, <2>3 DEF Boundary
  <1>5. CASE Following(k) # {}
    <2>1. PICK i \in DOMAIN hdus : hdus[i].hoff > hdus[k].doff
      BY <1>5 DEF Following
    <2>2. k + 1 \in DOMAIN hdus /\ k < k + 1
      BY <1>1, <1>3, <2>1
    <2>3. ASSUME NEW q \in Following(k)
          PROVE  hdus[k + 1].hoff <= q
      <3>1. PICK j \in DOMAIN hdus : q = hdus[j].hoff /\ hdus[j].hoff > hdus[k].doff
        BY DEF Following
      <3>2. j = k + 1 \/ k + 1 < j
        BY <1>1, <1>3, <3>1
      <3>3. CASE k + 1 < j
        <4>1. hdus[k + 1].doff + Claim(k + 1) <= hdus[j].hoff /\ hdus[k + 1].hoff < hdus[k + 1].doff
          BY <2>2, <3>3, Order
        <4>2. hdus[k + 1].doff \in Nat /\ Claim(k + 1) \in Nat /\ hdus[j].hoff \in Nat
              /\ hdus[k + 1].hoff \in Nat
          BY <2>2, LayoutFacts DEF Core
        <4> QED BY <3>1, <4>1, <4>2
      <3>4. CASE j = k + 1
        BY <1>3, <3>1, <3>4
      <3> QED BY <3>2, <3>3, <3>4
    <2>4. hdus[k + 1].hoff \in Following(k)
      BY <1>3, <2>2 DEF Following
    <2>5. FreeUpTo(k) \in Following(k) /\ \A q \in Following(k) : FreeUpTo(k) <= q
      BY <1>5, <2>3, <2>4 DEF FreeUpTo
    <2>6. PICK j \in DOMAIN hdus : FreeUpTo(k) = hdus[j].hoff /\ hdus[j].hoff > hdus[k].doff
      BY <2>5 DEF Following
    <2>7. ASSUME NEW l \in DOMAIN hdus, k < l
          PROVE  FreeUpTo(k) <= hdus[l].hoff
      <3>1. hdus[l].hoff \in Following(k)
        BY <1>3, <2>7 DEF Following
      <3> QED BY <2>5, <3>1
    <2>8. FreeUpTo(k) \in Nat /\ hdus[k].doff <= FreeUpTo(k) /\ FreeUpTo(k) <= flen
      BY <1>1, <1>3, <2>6
    <2>9. hdus[k].doff + Claim(k) <= FreeUpTo(k)
      BY <1>3, <2>6, Order
    <2> QED BY <1>5, <2>7, <2>8, <2>9 DEF Boundary
  <1> QED BY <1>4, <1>5

\* Nothing moves.
LEMMA NothingSlips ==
  ASSUME Core, NEW k, NEW a, Boundary(k, a), hdus' = hdus
  PROVE  Cut(k, a, 0) /\ Slipped(k, 0, 0)
  <1>1. /\ k \in DOMAIN hdus /\ a \in Nat /\ hdus[k].doff <= a
        /\ \A l \in DOMAIN hdus : Claim(l) \in Nat
        /\ \A l \in DOMAIN hdus : k < l => a <= hdus[l].hoff
    BY DEF Boundary
  <1>2. Cut(k, a, 0)
    BY <1>1, CutAfter
  <1>3. \A l \in DOMAIN hdus : /\ hdus[l].hoff = hdus[l].hoff + 0
                               /\ hdus[l].doff = hdus[l].doff + 0
                               /\ hdus[l].hblk = hdus[l].hblk + 0
    BY LayoutFacts DEF Core
  <1> QED BY <1>1, <1>2, <1>3 DEF Slipped, Core

\* A staged repack's section holds at least the old heap and the new one.
LEMMA StagedValues ==
  ASSUME Core, NEW s, At(s), job.op \notin {"create", "create_first"}
  PROVE  StagedExtent(job.h) \in Nat /\ Extent(hdus[job.h].c) <= StagedExtent(job.h)
  <1>1. job.c \in Cards /\ hdus[job.h].c \in Cards
    BY Running
  <1>2. job.c.heap \in Nat /\ hdus[job.h].c.main \in Nat /\ hdus[job.h].c.heap \in Nat
    BY <1>1 DEF Cards
  <1> QED BY <1>2, DataBlocksMono DEF StagedExtent, Extent

\* The staging area of a repack.
LEMMA StagingStep ==
  ASSUME Core, StageStaging
  PROVE  Core'
  <1> SUFFICES ASSUME NEW k, k = job.h
               PROVE  Core'
    OBVIOUS
  <1> DEFINE a == FreeUpTo(k)
             d == hdus[k].doff + StagedExtent(k) - a
  <1>1. At("staging") /\ Advance /\ JobFits /\ job.op = "repack_staged" /\ job.pc = 1
    BY Phases DEF Core, StageStaging
  <1>2. /\ k \in DOMAIN hdus /\ job # NoJob /\ job \in JobRec /\ hdus \in Seq(HduRec)
        /\ flen \in Nat /\ hdus[k].doff \in Nat /\ hdus[k].hblk \in Nat
        /\ hdus[k].c.heap > 0 /\ StagedExtent(k) \in Nat
    BY <1>1, Running, StagedValues DEF JobFits
  <1>3. /\ job' \in JobRec /\ job'.op = job.op /\ job'.h = k /\ job'.c = job.c /\ job'.pc = 2
    BY <1>1, <1>2, Advanced DEF Program
  <1>4. ClaimFacts /\ ClaimFacts'
    BY <1>1, Working
  <1>5. \A l \in DOMAIN hdus : Claim(l) = Extent(hdus[l].c) /\ Claim(l) \in Nat
    BY <1>1, <1>2, <1>4, LayoutFacts DEF ClaimFacts
  <1>6. Boundary(k, a) /\ a \in Nat /\ a <= flen /\ (Following(k) = {} => a = flen)
    BY <1>2, <1>5, StagingBoundary DEF Boundary
  <1>7. d \in Int /\ StagingDelta = d
    BY <1>2, <1>6 DEF StagingDelta
  <1>8. \/ d <= 0 /\ hdus' = hdus /\ flen' = flen
        \/ d > 0 /\ Resized(a, d)
    <2>1. CASE d <= 0
      <3>1. StagingDelta <= 0
        BY <1>7, <2>1
      <3>2. UNCHANGED <<disk, flen, hdus>>
        BY <3>1 DEF StageStaging
      <3> QED BY <2>1, <3>2
    <2>2. CASE d > 0 /\ Following(k) = {}
      <3>1. ~(StagingDelta <= 0)
        BY <1>7, <2>2
      <3>2. SetLen(a + d) /\ hdus' = hdus
        BY <1>7, <2>2, <3>1 DEF StageStaging
      <3> HIDE DEF d, a
      <3> QED BY <1>2, <1>6, <2>2, <3>2 DEF Resized, SetLen
    <2>3. CASE d > 0 /\ Following(k) # {}
      <3>1. ~(StagingDelta <= 0)
        BY <1>7, <2>3
      <3>2. ShiftTail(a, d, FALSE) /\ hdus' = Moved(a, d)
        BY <1>7, <2>3, <3>1 DEF StageStaging
      <3> HIDE DEF d, a
      <3>3. flen' = flen + d
        BY <1>2, <1>6, <3>2 DEF ShiftTail
      <3> QED BY <2>3, <3>2, <3>3 DEF Resized
    <2> QED BY <1>7, <2>1, <2>2, <2>3
  <1>9. PICK e \in Int : /\ Cut(k, a, e) /\ Slipped(k, e, 0) /\ flen' = flen + e /\ flen' \in Nat
                         /\ hdus[k].doff + StagedExtent(k) <= a + e
    <2>1. CASE d <= 0 /\ hdus' = hdus /\ flen' = flen
      <3>1. Cut(k, a, 0) /\ Slipped(k, 0, 0)
        BY <1>6, <2>1, NothingSlips
      <3>2. flen' = flen + 0 /\ flen' \in Nat /\ hdus[k].doff + StagedExtent(k) <= a + 0
        BY <1>2, <1>6, <2>1
      <3> QED BY <3>1, <3>2
    <2>2. CASE d > 0 /\ Resized(a, d)
      <3>1. a + d >= 0 /\ hdus[k].doff + StagedExtent(k) <= a + d
        BY <1>2, <1>6
      <3> HIDE DEF d, a
      <3> QED BY <1>6, <1>7, <2>2, <3>1, ResizedRecords
    <2> QED BY <1>8, <2>1, <2>2
  <1>10. /\ hdus' \in Seq(HduRec) /\ DOMAIN hdus' = DOMAIN hdus
         /\ \A l \in DOMAIN hdus : hdus'[l].c = hdus[l].c
         /\ hdus'[k].hblk = hdus[k].hblk + 0
    BY <1>9 DEF Slipped
  <1>11. Claim(k)' = StagedExtent(k) /\ \A l \in DOMAIN hdus : l # k => Claim(l)' = Claim(l)
    <2>1. StagedExtent(k)' = StagedExtent(k)
      BY <1>2, <1>3, <1>10 DEF StagedExtent
    <2>2. Claim(k)' = StagedExtent(k)'
      BY <1>1, <1>2, <1>3, <1>4, <1>10 DEF ClaimFacts
    <2>3. \A l \in DOMAIN hdus : l # k => Claim(l)' = Extent(hdus'[l].c)
      BY <1>1, <1>2, <1>3, <1>4, <1>10 DEF ClaimFacts
    <2> QED BY <1>5, <1>10, <2>1, <2>2, <2>3
  <1>12. Claims(k)
    BY <1>2, <1>5, <1>11 DEF Claims
  <1>13. HeadersFit' /\ Disjoint'
    <2>1. hdus[k].doff + Claim(k)' <= a + e
      BY <1>9, <1>11
    <2> HIDE DEF a, d
    <2> QED BY <1>6, <1>9, <1>12, <2>1, ResizedLayout
  <1>14. JobFits'
    <2>1. ~At("headroom") /\ job.op \notin {"create", "create_first"}
      BY <1>1 DEF At
    <2>2. hdus'[k].hblk \in Nat /\ hdus'[k].hblk >= hdus[k].hblk
      BY <1>2, <1>10
    <2> QED BY <1>1, <1>2, <1>10, <2>1, <2>2, StillFits
  <1> QED BY <1>3, <1>9, <1>10, <1>13, <1>14 DEF Core

\* The data section shrinks.
LEMMA ShrinkStep ==
  ASSUME Core, StageShrink
  PROVE  Core'
  <1> SUFFICES ASSUME NEW k, k = job.h
               PROVE  Core'
    OBVIOUS
  <1> DEFINE a == hdus[k].doff + StagedExtent(k)
             d == StagedExtent(k) - Extent(job.c)
  <1>1. /\ At("shrink") /\ Advance /\ JobFits
        /\ \/ job.op = "repack" /\ job.pc = 2
           \/ job.op = "repack_staged" /\ job.pc = 3
           \/ job.op = "delete" /\ job.pc = 4
    BY Phases DEF Core, StageShrink
  <1>2. /\ k \in DOMAIN hdus /\ job # NoJob /\ job \in JobRec /\ hdus \in Seq(HduRec)
        /\ flen \in Nat /\ hdus[k].doff \in Nat /\ hdus[k].hblk \in Nat
        /\ StagedExtent(k) \in Nat /\ Extent(job.c) \in Nat /\ Extent(hdus[k].c) \in Nat
        /\ Extent(hdus[k].c) <= StagedExtent(k) /\ Extent(job.c) <= Extent(hdus[k].c)
    BY <1>1, Running, StagedValues DEF JobFits
  <1>3. /\ job' \in JobRec /\ job'.op = job.op /\ job'.h = k /\ job'.c = job.c
        /\ job'.pc = job.pc + 1
    BY <1>1, <1>2, Advanced DEF Program
  <1>4. ClaimFacts /\ ClaimFacts'
    BY <1>1, Working
  <1>5. /\ Claim(k) = StagedExtent(k)
        /\ \A l \in DOMAIN hdus : l # k => Claim(l) = Extent(hdus[l].c)
        /\ \A l \in DOMAIN hdus : Claim(l) \in Nat
    <2>1. Claim(k) = StagedExtent(k)
      BY <1>1, <1>2, <1>4 DEF ClaimFacts
    <2>2. \A l \in DOMAIN hdus : l # k => Claim(l) = Extent(hdus[l].c) /\ Claim(l) \in Nat
      BY <1>2, <1>4, LayoutFacts DEF ClaimFacts
    <2> QED BY <1>2, <2>1, <2>2
  <1>6. d \in Nat /\ a \in Nat /\ Boundary(k, a) /\ a - d = hdus[k].doff + Extent(job.c)
    <2>1. d \in Nat /\ a \in Nat /\ hdus[k].doff <= a /\ a - d = hdus[k].doff + Extent(job.c)
      BY <1>2
    <2>2. a <= flen /\ \A l \in DOMAIN hdus : k < l => a <= hdus[l].hoff
      BY <1>2, <1>5, Order
    <2> HIDE DEF a, d
    <2> QED BY <1>2, <1>5, <2>1, <2>2 DEF Boundary
  <1>7. \/ d = 0 /\ hdus' = hdus /\ flen' = flen
        \/ d > 0 /\ Resized(a, -d)
    <2>1. ShrinkDelta = d
      BY DEF ShrinkDelta
    <2>2. CASE d = 0
      <3>1. UNCHANGED <<disk, flen, hdus>>
        BY <2>1, <2>2 DEF StageShrink, SetLen
      <3> QED BY <2>2, <3>1
    <2>3. CASE d > 0 /\ flen > a
      <3>1. ~(ShrinkDelta <= 0)
        BY <1>6, <2>1, <2>3
      <3>2. flen' = flen - d /\ hdus' = Moved(a, -d)
        BY <2>1, <2>3, <3>1 DEF StageShrink
      <3> HIDE DEF d, a
      <3> QED BY <1>2, <1>6, <2>3, <3>2 DEF Resized
    <2>4. CASE d > 0 /\ flen <= a
      <3>1. ~(ShrinkDelta <= 0) /\ ~(flen > a)
        BY <1>2, <1>6, <2>1, <2>4
      <3>2. SetLen(a - d) /\ hdus' = hdus
        BY <2>1, <3>1 DEF StageShrink
      <3> HIDE DEF d, a
      <3> QED BY <1>2, <1>6, <2>4, <3>2 DEF Resized, SetLen
    <2> QED BY <1>2, <1>6, <2>2, <2>3, <2>4
  <1>8. PICK e \in Int : /\ Cut(k, a, e) /\ Slipped(k, e, 0) /\ flen' = flen + e /\ flen' \in Nat
                         /\ hdus[k].doff + Extent(job.c) <= a + e
    <2>1. CASE d = 0 /\ hdus' = hdus /\ flen' = flen
      <3>1. Cut(k, a, 0) /\ Slipped(k, 0, 0)
        BY <1>6, <2>1, NothingSlips
      <3>2. flen' = flen + 0 /\ flen' \in Nat /\ hdus[k].doff + Extent(job.c) <= a + 0
        BY <1>2, <1>6, <2>1
      <3> QED BY <3>1, <3>2
    <2>2. CASE d > 0 /\ Resized(a, -d)
      <3>1. a + (-d) >= 0 /\ hdus[k].doff + Extent(job.c) <= a + (-d) /\ -d \in Int
        BY SMTT(30), <1>2, <1>6
      <3> HIDE DEF d, a
      <3> QED BY <1>6, <2>2, <3>1, ResizedRecords
    <2> QED BY <1>7, <2>1, <2>2
  <1>9. /\ hdus' \in Seq(HduRec) /\ DOMAIN hdus' = DOMAIN hdus
        /\ \A l \in DOMAIN hdus : hdus'[l].c = hdus[l].c
        /\ hdus'[k].hblk = hdus[k].hblk + 0
    BY <1>8 DEF Slipped
  <1>10. Claim(k)' = Extent(job.c) /\ \A l \in DOMAIN hdus : l # k => Claim(l)' = Claim(l)
    <2>1. Claim(k)' = Extent(job.c)
      BY <1>1, <1>2, <1>3, <1>4, <1>9 DEF ClaimFacts
    <2>2. \A l \in DOMAIN hdus : l # k => Claim(l)' = Extent(hdus'[l].c)
      BY <1>1, <1>2, <1>3, <1>4, <1>9 DEF ClaimFacts
    <2> QED BY <1>5, <1>9, <2>1, <2>2
  <1>11. Claims(k)
    BY <1>2, <1>5, <1>10 DEF Claims
  <1>12. HeadersFit' /\ Disjoint'
    <2>1. hdus[k].doff + Claim(k)' <= a + e
      BY <1>8, <1>10
    <2> HIDE DEF a, d
    <2> QED BY <1>6, <1>8, <1>11, <2>1, ResizedLayout
  <1>13. JobFits'
    <2>1. ~At("headroom") /\ job.op \notin {"create", "create_first"}
      BY <1>1 DEF At
    <2>2. hdus'[k].hblk \in Nat /\ hdus'[k].hblk >= hdus[k].hblk
      BY <1>2, <1>9
    <2> QED BY <1>1, <1>2, <1>9, <2>1, <2>2, StillFits
  <1> QED BY <1>3, <1>8, <1>9, <1>12, <1>13 DEF Core

\* A write never shortens the file.
LEMMA PutGrows ==
  ASSUME flen \in Nat, NEW p \in Int, NEW m \in Int, NEW b, Put(p, m, b)
  PROVE  flen' \in Nat /\ flen' >= flen
  <1>1. flen' = IF m > 0 /\ p + m > flen THEN p + m ELSE flen
    BY DEF Put
  <1> QED BY <1>1

\* A stage that only writes bytes claims nothing.
LEMMA WriteClaims ==
  ASSUME Core, NEW s \in {"rewrite", "puthdr", "data"}, At(s), Advance, hdus' = hdus
  PROVE  \A l \in DOMAIN hdus : Claim(l)' \in Nat /\ Claim(l) \in Nat /\ Claim(l)' <= Claim(l)
  <1> SUFFICES ASSUME NEW k, k = job.h
               PROVE  \A l \in DOMAIN hdus : Claim(l)' \in Nat /\ Claim(l) \in Nat /\ Claim(l)' <= Claim(l)
    OBVIOUS
  <1>1. /\ job # NoJob /\ job \in JobRec /\ JobFits /\ ClaimFacts /\ ClaimFacts' /\ job' \in JobRec
        /\ job.op \notin {"create", "create_first"} /\ k \in DOMAIN hdus /\ hdus \in Seq(HduRec)
        /\ Extent(job.c) \in Nat /\ Extent(hdus[k].c) \in Nat
    BY Working, Running DEF Core
  <1>2. \/ job.op \in {"header", "insert", "delete"} /\ job.pc = 2
        \/ job.op \in {"extend", "append"} /\ job.pc \in {2, 4}
        \/ job.op \in {"vla", "setitem"} /\ job.pc \in {2, 3}
        \/ job.op = "repack" /\ job.pc \in {1, 3}
        \/ job.op = "repack_staged" /\ job.pc \in {2, 4}
        \/ job.op = "write" /\ job.pc = 1
        \/ job.op = "insert" /\ job.pc = 4
        \/ job.op = "delete" /\ job.pc = 3
    BY <1>1, Phases
  <1>3. \A l \in DOMAIN hdus : l # k => Claim(l)' = Claim(l) /\ Claim(l) \in Nat
    <2>1. \A l \in DOMAIN hdus : l # k => Claim(l) = Extent(hdus[l].c) /\ Claim(l) \in Nat
      BY <1>1, LayoutFacts DEF ClaimFacts
    <2>2. job'.h = k \/ job'.h = 0
      BY <1>1, Advanced DEF NoJob
    <2>3. 0 \notin DOMAIN hdus
      BY <1>1, LayoutFacts
    <2>4. \A l \in DOMAIN hdus : l # k => Claim(l)' = Extent(hdus[l].c)
      BY <1>1, <2>2, <2>3 DEF ClaimFacts
    <2> QED BY <2>1, <2>4
  <1>4. Claim(k) \in Nat /\ Claim(k)' \in Nat /\ Claim(k)' <= Claim(k)
    <2>1. CASE job.op = "write" \/ (job.op \in {"extend", "append"} /\ job.pc = 4)
      <3>1. job.pc = Len(Program(job.op))
        BY <1>1, <1>2, <2>1 DEF Program
      <3>2. job' = NoJob
        BY <1>1, <3>1, Advanced
      <3>3. k # job'.h
        BY <1>1, <3>2, LayoutFacts DEF NoJob
      <3>4. Claim(k)' = Extent(hdus[k].c)
        BY <1>1, <3>3 DEF ClaimFacts
      <3>5. Claim(k) = IF Extent(job.c) > Extent(hdus[k].c) THEN Extent(job.c)
                       ELSE Extent(hdus[k].c)
        BY <1>1, <1>2, <2>1 DEF ClaimFacts, Grow
      <3> QED BY <1>1, <3>4, <3>5
    <2>2. CASE ~(job.op = "write" \/ (job.op \in {"extend", "append"} /\ job.pc = 4))
      <3>1. job.pc # Len(Program(job.op))
        BY <1>1, <1>2, <2>2 DEF Program
      <3>2. job'.op = job.op /\ job'.h = k /\ job'.c = job.c /\ job'.pc = job.pc + 1
        BY <1>1, <3>1, Advanced
      <3>3. CASE job.op \in {"header", "insert"} \cup Grow
        BY <1>1, <1>2, <2>2, <3>2, <3>3 DEF ClaimFacts, Grow
      <3>4. CASE job.op \in {"delete", "repack"}
        BY <1>1, <1>2, <2>2, <3>2, <3>4 DEF ClaimFacts
      <3>5. CASE job.op = "repack_staged" /\ job.pc = 2
        <4>1. StagedExtent(k) \in Nat
          BY <1>1, StagedValues
        <4>2. StagedExtent(k)' = StagedExtent(k)
          BY <3>2 DEF StagedExtent
        <4>3. Claim(k) = StagedExtent(k) /\ Claim(k)' = StagedExtent(k)'
          BY <1>1, <3>2, <3>5 DEF ClaimFacts
        <4> QED BY <4>1, <4>2, <4>3
      <3>6. CASE job.op = "repack_staged" /\ job.pc = 4
        BY <1>1, <3>2, <3>6 DEF ClaimFacts
      <3> QED BY <1>2, <2>2, <3>3, <3>4, <3>5, <3>6 DEF Grow
    <2> QED BY <2>1, <2>2
  <1> QED BY <1>3, <1>4

\* Such a stage keeps the layout sound.
LEMMA WriteStep ==
  ASSUME Core, NEW s \in {"rewrite", "puthdr", "data"}, At(s), Advance, hdus' = hdus,
         flen' \in Nat, flen' >= flen
  PROVE  Core'
  <1>1. /\ job # NoJob /\ job' \in JobRec /\ job.op \notin {"create", "create_first"}
        /\ job.h \in DOMAIN hdus /\ hdus \in Seq(HduRec)
    BY Working, Running DEF Core
  <1>2. HeadersFit' /\ Disjoint'
    <2>1. \A l \in DOMAIN hdus : Claim(l)' \in Nat /\ Claim(l) \in Nat /\ Claim(l)' <= Claim(l)
      BY WriteClaims
    <2> QED BY <2>1, SameLayout
  <1>3. JobFits'
    <2>1. ~At("headroom") /\ hdus[job.h].hblk \in Nat
      BY <1>1, LayoutFacts DEF At
    <2> QED BY <1>1, <2>1, StillFits
  <1> QED BY <1>1, <1>2, <1>3 DEF Core

\* The second half of rewrite_header_to_disk stays inside the reserved blocks.
LEMMA RewriteStep ==
  ASSUME Core, StageRewrite
  PROVE  Core'
  <1>1. At("rewrite") /\ Advance /\ hdus' = hdus
    BY DEF StageRewrite
  <1>2. flen \in Nat /\ hdus[job.h].hoff \in Int /\ hdus[job.h].hblk \in Int
    <2>1. job.op \notin {"create", "create_first"}
      BY <1>1, Working
    <2> QED BY <1>1, <2>1, Running
  <1>3. flen' \in Nat /\ flen' >= flen
    <2>1. \E b : Put(hdus[job.h].hoff, hdus[job.h].hblk, b)
      BY DEF StageRewrite
    <2> QED BY <1>2, <2>1, PutGrows
  <1> QED BY <1>1, <1>3, WriteStep

\* A header written back from the data offset stays inside the reserved blocks.
LEMMA PutHeaderStep ==
  ASSUME Core, StagePutHeader
  PROVE  Core'
  <1>1. At("puthdr") /\ Advance /\ hdus' = hdus
    BY DEF StagePutHeader
  <1>2. flen \in Nat /\ hdus[job.h].doff \in Int /\ HeaderBlocks(job.c) \in Int
    <2>1. job.op \notin {"create", "create_first"}
      BY <1>1, Working
    <2> QED BY <1>1, <2>1, Running, HeaderBlocksType
  <1>3. flen' \in Nat /\ flen' >= flen
    <2>1. \E b : Put(hdus[job.h].doff - HeaderBlocks(job.c), HeaderBlocks(job.c), b)
      BY DEF StagePutHeader
    <2> QED BY <1>2, <2>1, PutGrows
  <1> QED BY <1>1, <1>3, WriteStep

\* Data is written inside the section its stages have claimed.
LEMMA DataStep ==
  ASSUME Core, StageData
  PROVE  Core'
  <1>1. At("data") /\ Advance /\ hdus' = hdus
    BY DEF StageData
  <1>2. job.op \notin {"create", "create_first"}
    BY <1>1, Working
  <1>3. /\ flen \in Nat /\ hdus[job.h].doff \in Int /\ Extent(job.c) \in Nat
        /\ StagedExtent(job.h) \in Nat /\ DataBlocks(job.c.main) \in Nat
        /\ hdus[job.h].c.main \in Nat /\ hdus[job.h].c.heap \in Nat
    <2>1. job.c.main \in Nat
      BY <1>1, Running DEF Cards
    <2>2. hdus[job.h].c.main \in Nat /\ hdus[job.h].c.heap \in Nat
      BY <1>1, <1>2, Running DEF Cards
    <2>3. DataBlocks(job.c.main) \in Nat
      BY <2>1, DataBlocksMono
    <2>4. StagedExtent(job.h) \in Nat
      BY <1>1, <1>2, StagedValues
    <2> QED BY <1>1, <1>2, <2>2, <2>3, <2>4, Running
  <1>4. PICK m \in Nat : \E lo \in FirstBlock(m) : \E b : Put(hdus[job.h].doff + lo, m - lo, b)
    <2> DEFINE m == CASE job.op = "repack_staged" -> StagedExtent(job.h)
                      [] job.op \in {"write", "extend", "append"} -> DataBlocks(job.c.main)
                      [] OTHER -> Extent(job.c)
    <2>1. m \in Nat
      BY <1>3
    <2>2. \E lo \in FirstBlock(m) : \E b : Put(hdus[job.h].doff + lo, m - lo, b)
      BY DEF StageData
    <2> QED BY <2>1, <2>2
  <1>5. PICK lo \in FirstBlock(m) : \E b : Put(hdus[job.h].doff + lo, m - lo, b)
    BY <1>4
  <1>6. lo \in Int
    BY <1>3, UpbAssumption DEF FirstBlock
  <1>7. flen' \in Nat /\ flen' >= flen
    <2>1. hdus[job.h].doff + lo \in Int /\ m - lo \in Int
      BY <1>3, <1>6
    <2> QED BY <1>3, <1>5, <2>1, PutGrows
  <1> QED BY <1>1, <1>7, WriteStep

\* The cards in memory become the new ones, whose section is no longer than the claim.
LEMMA Committed ==
  ASSUME Core, StageCommit, NEW k, k = job.h
  PROVE  /\ DOMAIN hdus' = DOMAIN hdus /\ hdus' \in Seq(HduRec) /\ Len(hdus') = Len(hdus)
         /\ \A l \in DOMAIN hdus : l # k => hdus'[l] = hdus[l]
         /\ hdus'[k].hoff = hdus[k].hoff /\ hdus'[k].doff = hdus[k].doff
         /\ hdus'[k].hblk = hdus[k].hblk /\ hdus'[k].c = job.c
         /\ Claim(k) \in Nat /\ Extent(job.c) <= Claim(k) /\ Claim(k)' = Extent(job.c)
  <1>1. At("commit") /\ Advance /\ hdus' = [hdus EXCEPT ![k].c = job.c] /\ flen' = flen
    BY DEF StageCommit
  <1>2. /\ job # NoJob /\ job \in JobRec /\ JobFits /\ ClaimFacts /\ ClaimFacts' /\ job' \in JobRec
        /\ job.op \notin {"create", "create_first"} /\ k \in DOMAIN hdus /\ hdus \in Seq(HduRec)
        /\ Extent(job.c) \in Nat /\ Extent(hdus[k].c) \in Nat /\ job.c \in Cards /\ flen \in Nat
    BY <1>1, Working, Running DEF Core
  <1>3. \/ job.op = "header" /\ job.pc = 3
        \/ job.op \in {"extend", "append"} /\ job.pc = 3
        \/ job.op \in {"vla", "setitem", "repack"} /\ job.pc = 4
        \/ job.op \in {"repack_staged", "insert", "delete"} /\ job.pc = 5
    BY <1>1, <1>2, Phases
  <1>4. /\ DOMAIN hdus' = DOMAIN hdus /\ hdus' = [l \in DOMAIN hdus |-> hdus'[l]]
        /\ \A l \in DOMAIN hdus : l # k => hdus'[l] = hdus[l]
        /\ hdus'[k] = [hdus[k] EXCEPT !.c = job.c]
    BY <1>1, <1>2
  <1>5. /\ hdus'[k] \in HduRec /\ hdus'[k].hoff = hdus[k].hoff /\ hdus'[k].doff = hdus[k].doff
        /\ hdus'[k].hblk = hdus[k].hblk /\ hdus'[k].c = job.c
    <2>1. hdus[k] \in HduRec /\ hdus'[k] = [hdus[k] EXCEPT !.c = job.c]
      BY <1>2, <1>4, LayoutFacts
    <2> QED BY <1>2, <2>1 DEF HduRec
  <1>6. hdus' \in Seq(HduRec) /\ Len(hdus') = Len(hdus)
    <2>1. \A l \in DOMAIN hdus : hdus'[l] \in HduRec
      BY <1>2, <1>4, <1>5, LayoutFacts
    <2> QED BY <1>2, <1>4, <2>1, SameShape
  <1>7. Claim(k) \in Nat /\ Extent(job.c) <= Claim(k)
    <2>1. CASE job.op \in {"header", "insert"} \cup Grow
      BY <1>2, <1>3, <2>1 DEF ClaimFacts, Grow
    <2>2. CASE job.op \in {"delete", "repack", "repack_staged"}
      BY <1>2, <1>3, <2>2 DEF ClaimFacts
    <2> QED BY <1>3, <2>1, <2>2 DEF Grow
  <1>8. Claim(k)' = Extent(job.c)
    <2>1. CASE job.op \in {"extend", "append"}
      <3>1. job'.op = job.op /\ job'.h = k /\ job'.c = job.c /\ job'.pc = 4
        <4>1. job.pc = 3 /\ Len(Program(job.op)) = 4
          BY <1>3, <2>1 DEF Program
        <4> QED BY <1>1, <1>2, <4>1, Advanced
      <3>2. job'.op \in Grow /\ job'.pc \in 2..4
        BY <2>1, <3>1 DEF Grow
      <3>3. Claim(k)' = IF k = job'.h /\ Extent(job'.c) > Extent(hdus'[k].c)
                        THEN Extent(job'.c) ELSE Extent(hdus'[k].c)
        BY <1>2, <1>4, <1>6, <3>2 DEF ClaimFacts
      <3> QED BY <1>5, <3>1, <3>3
    <2>2. CASE job.op \notin {"extend", "append"}
      <3>1. job.pc = Len(Program(job.op))
        BY <1>3, <2>2 DEF Program
      <3>2. job'.h = 0 /\ 0 \notin DOMAIN hdus
        BY <1>1, <1>2, <3>1, Advanced, LayoutFacts DEF NoJob
      <3> QED BY <1>2, <1>4, <1>5, <1>6, <3>2 DEF ClaimFacts
    <2> QED BY <2>1, <2>2
  <1> QED BY <1>4, <1>5, <1>6, <1>7, <1>8

\* A commit keeps the layout sound.
LEMMA CommitStep ==
  ASSUME Core, StageCommit
  PROVE  Core'
  <1> SUFFICES ASSUME NEW k, k = job.h
               PROVE  Core'
    OBVIOUS
  <1>1. At("commit") /\ Advance /\ hdus' = [hdus EXCEPT ![k].c = job.c] /\ flen' = flen
    BY DEF StageCommit
  <1>2. /\ job # NoJob /\ job \in JobRec /\ JobFits /\ ClaimFacts /\ ClaimFacts' /\ job' \in JobRec
        /\ job.op \notin {"create", "create_first"} /\ k \in DOMAIN hdus /\ hdus \in Seq(HduRec)
        /\ Extent(job.c) \in Nat /\ Extent(hdus[k].c) \in Nat /\ job.c \in Cards /\ flen \in Nat
    BY <1>1, Working, Running DEF Core
  <1>3. \/ job.op = "header" /\ job.pc = 3
        \/ job.op \in {"extend", "append"} /\ job.pc = 3
        \/ job.op \in {"vla", "setitem", "repack"} /\ job.pc = 4
        \/ job.op \in {"repack_staged", "insert", "delete"} /\ job.pc = 5
    BY <1>1, <1>2, Phases
  <1>4. DOMAIN hdus' = DOMAIN hdus /\ \A l \in DOMAIN hdus : l # k => hdus'[l] = hdus[l]
    BY Committed
  <1>5. /\ hdus'[k].hoff = hdus[k].hoff /\ hdus'[k].doff = hdus[k].doff
        /\ hdus'[k].hblk = hdus[k].hblk /\ hdus'[k].c = job.c
    BY Committed
  <1>6. hdus' \in Seq(HduRec) /\ Len(hdus') = Len(hdus)
    BY Committed
  <1>7. HeaderBlocks(job.c) <= hdus[k].hblk
    <2>1. Done("headroom")
      BY <1>3 DEF Done, Program
    <2> QED BY <1>2, <2>1 DEF JobFits
  <1>8. \A l \in DOMAIN hdus : /\ hdus'[l].hoff = hdus[l].hoff /\ hdus'[l].doff = hdus[l].doff
                               /\ hdus'[l].hblk = hdus[l].hblk
    BY <1>4, <1>5
  <1>9. HeadersFit'
    <2> SUFFICES ASSUME NEW l \in DOMAIN hdus
                 PROVE  /\ hdus'[l].doff = hdus'[l].hoff + hdus'[l].hblk
                        /\ HeaderBlocks(hdus'[l].c) <= hdus'[l].hblk
      BY <1>4 DEF HeadersFit, HeaderBlocks
    <2>1. hdus[l].doff = hdus[l].hoff + hdus[l].hblk /\ HeaderBlocks(hdus[l].c) <= hdus[l].hblk
      BY DEF Core, HeadersFit
    <2> QED BY <1>4, <1>5, <1>7, <1>8, <2>1
  <1>10. Claim(k) \in Nat /\ Extent(job.c) <= Claim(k) /\ Claim(k)' = Extent(job.c)
    BY Committed
  <1>12. \A l \in DOMAIN hdus : l # k => Claim(l)' = Claim(l) /\ Claim(l) \in Nat
    <2>1. \A l \in DOMAIN hdus : l # k => Claim(l) = Extent(hdus[l].c) /\ Claim(l) \in Nat
      BY <1>2, LayoutFacts DEF ClaimFacts
    <2>2. job'.h = k \/ job'.h = 0
      BY <1>1, <1>2, Advanced DEF NoJob
    <2>3. 0 \notin DOMAIN hdus
      BY <1>2, LayoutFacts
    <2>4. \A l \in DOMAIN hdus : l # k => Claim(l)' = Extent(hdus'[l].c)
      BY <1>2, <1>4, <1>6, <2>2, <2>3 DEF ClaimFacts
    <2> QED BY <1>4, <2>1, <2>4
  <1>13. \A l \in DOMAIN hdus : Claim(l) \in Nat /\ Claim(l)' \in Nat /\ Claim(l)' <= Claim(l)
    BY <1>2, <1>10, <1>12
  <1>14. Disjoint'
    <2>1. ASSUME NEW l \in DOMAIN hdus
          PROVE  hdus'[l].doff + Claim(l)' <= flen'
      <3>1. hdus[l].doff + Claim(l) <= flen /\ hdus[l].doff \in Nat
        BY <1>2, Order, LayoutFacts
      <3> QED BY <1>1, <1>2, <1>8, <1>13, <3>1
    <2>2. ASSUME NEW l \in DOMAIN hdus, NEW m \in DOMAIN hdus, l < m
          PROVE  hdus'[l].doff + Claim(l)' <= hdus'[m].hoff
      <3>1. hdus[l].doff + Claim(l) <= hdus[m].hoff /\ hdus[l].doff \in Nat /\ hdus[m].hoff \in Nat
        BY <1>2, <2>2, Order, LayoutFacts
      <3>2. Claim(l) \in Nat /\ Claim(l)' \in Nat /\ Claim(l)' <= Claim(l)
        BY <1>13
      <3>3. hdus'[l].doff = hdus[l].doff /\ hdus'[m].hoff = hdus[m].hoff
        BY <1>8
      <3> QED BY <3>1, <3>2, <3>3
    <2> QED BY <1>4, <2>1, <2>2 DEF Disjoint
  <1>15. JobFits'
    <2>1. CASE job.op \in {"extend", "append"}
      <3>1. /\ job' # NoJob /\ job'.op = job.op /\ job'.h = k /\ job'.c = job.c
            /\ job'.pc \in 1..Len(Program(job'.op))
        <4>1. job.pc = 3 /\ Len(Program(job.op)) = 4
          BY <1>3, <2>1 DEF Program
        <4> QED BY <1>1, <1>2, <4>1, Advanced
      <3>2. job.op = "append" => job.c.heap = 0
        BY <1>2 DEF JobFits
      <3> QED BY <1>2, <1>4, <1>5, <1>7, <2>1, <3>1, <3>2 DEF JobFits, HeaderBlocks
    <2>2. CASE job.op \notin {"extend", "append"}
      <3>1. job.pc = Len(Program(job.op))
        BY <1>3, <2>2 DEF Program
      <3> QED BY <1>1, <1>2, <3>1, Advanced DEF JobFits
    <2> QED BY <2>1, <2>2
  <1> QED BY <1>1, <1>2, <1>6, <1>9, <1>14, <1>15 DEF Core

\* A new HDU at the end of the file.
LEMMA AppendHduLayout ==
  ASSUME Core, NEW k, NEW c \in Cards, AppendHdu(k, c), job' \in JobRec,
         job.op \in {"create", "create_first"}, job # NoJob, JobFits',
         job' = NoJob \/ job'.h = Len(hdus) + 2
  PROVE  Core'
  <1> DEFINE n == Len(hdus)
             r == [hoff |-> flen, hblk |-> HeaderBlocks(c), doff |-> flen + HeaderBlocks(c), c |-> c]
  <1>1. /\ flen \in Nat /\ hdus \in Seq(HduRec) /\ n \in Nat /\ DOMAIN hdus = 1..n
        /\ HeaderBlocks(c) \in Nat \ {0} /\ Extent(c) \in Nat /\ job.h = n + 1
    BY LayoutFacts, HeaderBlocksType, ExtentMono DEF Core, JobFits
  <1>2. r \in HduRec
    BY <1>1 DEF HduRec
  <1>3. hdus' = Append(hdus, r) /\ flen' = flen + HeaderBlocks(c) + Extent(c)
    BY DEF AppendHdu
  <1> HIDE DEF r
  <1>4. /\ hdus' \in Seq(HduRec) /\ Len(hdus') = n + 1 /\ DOMAIN hdus' = 1..(n + 1)
        /\ hdus'[n + 1] = r /\ \A l \in 1..n : hdus'[l] = hdus[l]
    BY <1>1, <1>2, <1>3
  <1>5. /\ r.hoff = flen /\ r.hblk = HeaderBlocks(c) /\ r.doff = flen + HeaderBlocks(c) /\ r.c = c
    BY DEF r
  <1>6. ClaimFacts /\ ClaimFacts'
    BY ClaimValues, PTL
  <1>7. \A l \in 1..n : Claim(l) = Extent(hdus[l].c) /\ Claim(l) \in Nat
    <2>1. \A l \in 1..n : l # job.h
      BY <1>1
    <2> QED BY <1>1, <1>6, <2>1, LayoutFacts DEF ClaimFacts, Core
  <1>8. \A l \in 1..(n + 1) : Claim(l)' = Extent(hdus'[l].c)
    <2>1. \A l \in 1..(n + 1) : l # job'.h
      BY <1>1 DEF NoJob
    <2> QED BY <1>4, <1>6, <2>1 DEF ClaimFacts
  <1>9. flen' \in Nat
    BY <1>1, <1>3
  <1>10. HeadersFit'
    <2> SUFFICES ASSUME NEW l \in 1..(n + 1)
                 PROVE  /\ hdus'[l].doff = hdus'[l].hoff + hdus'[l].hblk
                        /\ HeaderBlocks(hdus'[l].c) <= hdus'[l].hblk
      BY <1>4 DEF HeadersFit, HeaderBlocks
    <2>1. CASE l \in 1..n
      BY <1>1, <1>4, <2>1 DEF Core, HeadersFit
    <2>2. CASE l = n + 1
      BY <1>1, <1>4, <1>5, <2>2
    <2> QED BY <1>1, <2>1, <2>2
  <1>11. Disjoint'
    <2>1. ASSUME NEW l \in 1..(n + 1)
          PROVE  hdus'[l].doff + Claim(l)' <= flen'
      <3>1. CASE l \in 1..n
        <4>1. hdus[l].doff + Claim(l) <= flen /\ hdus[l].doff \in Nat /\ Claim(l) \in Nat
          BY <1>1, <1>7, <3>1, Order, LayoutFacts
        <4>2. hdus'[l].doff = hdus[l].doff /\ Claim(l)' = Claim(l)
          BY <1>4, <1>7, <1>8, <3>1
        <4> QED BY <1>1, <1>3, <4>1, <4>2
      <3>2. CASE l = n + 1
        <4>1. Claim(l)' = Extent(c) /\ hdus'[l].doff = flen + HeaderBlocks(c)
          BY <1>4, <1>5, <1>8, <3>2
        <4> QED BY <1>1, <1>3, <4>1
      <3> QED BY <1>1, <3>1, <3>2
    <2>2. ASSUME NEW l \in 1..(n + 1), NEW m \in 1..(n + 1), l < m
          PROVE  hdus'[l].doff + Claim(l)' <= hdus'[m].hoff
      <3>1. l \in 1..n
        BY <1>1, <2>2
      <3>2. hdus'[l].doff = hdus[l].doff /\ Claim(l)' = Claim(l)
        BY <1>4, <1>7, <1>8, <3>1
      <3>3. CASE m \in 1..n
        <4>1. hdus[l].doff + Claim(l) <= hdus[m].hoff
          BY <1>1, <2>2, <3>1, <3>3, Order
        <4>2. hdus'[m] = hdus[m]
          BY <1>4, <3>3
        <4> QED BY <3>2, <4>1, <4>2
      <3>4. CASE m = n + 1
        <4>1. hdus[l].doff + Claim(l) <= flen
          BY <1>1, <3>1, Order
        <4>2. hdus'[m].hoff = flen
          BY <1>4, <1>5, <3>4
        <4> QED BY <3>2, <4>1, <4>2
      <3> QED BY <1>1, <3>3, <3>4
    <2> QED BY <1>4, <2>1, <2>2 DEF Disjoint
  <1> QED BY <1>4, <1>9, <1>10, <1>11 DEF Core

\* append_header_and_data_to_file and finalize_hdu.
LEMMA AppendStep ==
  ASSUME Core, StageAppend
  PROVE  Core'
  <1>1. At("append") /\ AppendHdu(job.h, job.c) /\ Advance
    BY DEF StageAppend
  <1>2. /\ job # NoJob /\ job \in JobRec /\ JobFits /\ job.c \in Cards
        /\ \/ job.op = "create" /\ job.pc = 1
           \/ job.op = "create_first" /\ job.pc = 2
    BY <1>1, Running, Phases DEF Core
  <1>3. job' = NoJob /\ job' \in JobRec
    <2>1. job.pc = Len(Program(job.op))
      BY <1>2 DEF Program
    <2> QED BY <1>1, <1>2, <2>1, Advanced
  <1>4. JobFits'
    BY <1>3 DEF JobFits
  <1> QED BY <1>1, <1>2, <1>3, <1>4, AppendHduLayout

\* The job after ensure_primary goes on with the second HDU.
LEMMA PrimaryRecord ==
  ASSUME NEW j \in JobRec, NEW t, t = [j EXCEPT !.h = 2, !.pc = 2]
  PROVE  t \in JobRec /\ t.op = j.op /\ t.h = 2 /\ t.pc = 2
  <1>1. /\ j.op \in Op /\ j.c \in Cards
        /\ j = [op |-> j.op, h |-> j.h, c |-> j.c, pc |-> j.pc]
    BY DEF JobRec
  <1>2. t = [op |-> j.op, h |-> 2, c |-> j.c, pc |-> 2]
    BY <1>1
  <1>3. t \in JobRec
    BY <1>1, <1>2 DEF JobRec
  <1> QED BY <1>2, <1>3

\* ensure_primary.
LEMMA PrimaryStep ==
  ASSUME Core, StagePrimary
  PROVE  Core'
  <1> DEFINE c == Card("image", MinCards, 0, 0)
  <1>1. At("primary") /\ AppendHdu(1, c) /\ job' = [job EXCEPT !.h = 2, !.pc = 2]
    BY DEF StagePrimary
  <1>2. /\ job # NoJob /\ job \in JobRec /\ JobFits /\ job.op = "create_first" /\ job.pc = 1
    BY <1>1, Running, Phases DEF Core
  <1>3. c \in Cards
    BY CardsAssumption DEF Card, Cards, Kind
  <1>4. /\ job' \in JobRec /\ job'.op = "create_first" /\ job'.h = 2 /\ job'.pc = 2
    <2>1. job' = [job EXCEPT !.h = 2, !.pc = 2]
      BY <1>1
    <2> QED BY <1>2, <2>1, PrimaryRecord
  <1>5. Len(hdus) = 0 /\ hdus \in Seq(HduRec)
    BY <1>2 DEF JobFits, Core
  <1>6. JobFits'
    <2>1. Len(hdus') = 1
      BY <1>1, <1>5 DEF AppendHdu
    <2> QED BY <1>4, <2>1 DEF JobFits, Program
  <1> QED BY <1>1, <1>2, <1>3, <1>4, <1>5, <1>6, AppendHduLayout

-----------------------------------------------------------------------------
(* The operations begin.                                                   *)

\* The new cards c of operation op on HDU k are of the shape op makes them.
Sound(op, k, c) ==
    LET o == hdus[k].c IN
    /\ op \in Op \ {"none", "create", "create_first"} /\ k \in DOMAIN hdus /\ c \in Cards
    /\ op \notin {"header", "insert", "delete"} => c.n = o.n
    /\ op \in {"header", "write"} => c.main = o.main /\ c.heap = o.heap
    /\ op \in {"repack", "repack_staged", "delete"} => c.main <= o.main /\ c.heap <= o.heap
    /\ op = "repack_staged" => o.heap > 0
    /\ op = "append" => c.heap = o.heap

\* An operation that starts with sound cards finds what JobFits asks for.
LEMMA StartStep ==
  ASSUME Core, NEW op, NEW k, NEW c, Sound(op, k, c), Start(op, k, c), flaws' = {}
  PROVE  Core'
  <1>1. /\ op \in Op \ {"none", "create", "create_first"} /\ k \in DOMAIN hdus /\ c \in Cards
        /\ hdus \in Seq(HduRec) /\ flen \in Nat /\ k \in Nat
    BY LayoutFacts DEF Sound, Core
  <1>2. job = NoJob /\ hdus' = hdus /\ flen' = flen /\ job' = [op |-> op, h |-> k, c |-> c, pc |-> 1]
    BY DEF Start
  <1>3. /\ job' \in JobRec /\ job \in JobRec /\ job' # NoJob /\ job'.op = op /\ job'.h = k
        /\ job'.c = c /\ job'.pc = 1
    BY <1>1, <1>2 DEF JobRec, Core, NoJob
  <1>4. ClaimFacts /\ ClaimFacts'
    BY ClaimValues, PTL
  <1>5. /\ Extent(c) \in Nat /\ Extent(hdus[k].c) \in Nat
        /\ op \in {"header", "write"} => Extent(c) = Extent(hdus[k].c)
        /\ op \in {"repack", "repack_staged", "delete"} => Extent(c) <= Extent(hdus[k].c)
    <2>1. /\ hdus[k].c \in Cards /\ c.main \in Nat /\ c.heap \in Nat
          /\ hdus[k].c.main \in Nat /\ hdus[k].c.heap \in Nat
      BY <1>1, LayoutFacts DEF Cards
    <2>2. op \in {"header", "write"} => Extent(c) = Extent(hdus[k].c)
      BY DEF Sound, Extent
    <2>3. op \in {"repack", "repack_staged", "delete"} =>
            c.main + c.heap <= hdus[k].c.main + hdus[k].c.heap
      BY <2>1 DEF Sound
    <2> QED BY <1>1, <2>1, <2>2, <2>3, ExtentMono
  <1>6. \A l \in DOMAIN hdus : Claim(l)' = Claim(l) /\ Claim(l) \in Nat
    <2>1. \A l \in DOMAIN hdus : l # job.h
      BY <1>1, <1>2, LayoutFacts DEF NoJob
    <2>2. \A l \in DOMAIN hdus : Claim(l) = Extent(hdus[l].c) /\ Claim(l) \in Nat
      BY <1>1, <1>3, <1>4, <2>1, LayoutFacts DEF ClaimFacts
    <2>3. \A l \in DOMAIN hdus : l # k => Claim(l)' = Extent(hdus[l].c)
      BY <1>1, <1>2, <1>3, <1>4 DEF ClaimFacts
    <2>4. Claim(k)' = Extent(hdus[k].c)
      <3>1. CASE op \in {"header", "write"}
        BY <1>1, <1>2, <1>3, <1>4, <1>5, <3>1 DEF ClaimFacts
      <3>2. CASE op \in Grow \cup {"insert"}
        BY <1>1, <1>2, <1>3, <1>4, <3>2 DEF ClaimFacts
      <3>3. CASE op \in {"repack", "repack_staged", "delete"}
        BY <1>1, <1>2, <1>3, <1>4, <3>3 DEF ClaimFacts
      <3> QED BY <1>1, <3>1, <3>2, <3>3 DEF Op, Grow
    <2> QED BY <2>2, <2>3, <2>4
  <1>7. HeadersFit' /\ Disjoint'
    BY <1>1, <1>2, <1>6, SameLayout
  <1>8. Done("headroom")' => HeaderBlocks(c) <= hdus[k].hblk
    <2>1. op \in {"header", "insert", "delete"} => ~Done("headroom")'
      BY <1>3 DEF Done, Program
    <2>2. op \notin {"header", "insert", "delete"} => HeaderBlocks(c) = HeaderBlocks(hdus[k].c)
      BY DEF Sound, HeaderBlocks
    <2> QED BY <1>1, <2>1, <2>2 DEF Core, HeadersFit
  <1>9. op = "append" => hdus[k].c.heap = 0 /\ c.heap = 0
    <2>1. op = "append" => ~(c.heap > 0)
      BY DEF Start
    <2>2. c.heap \in Nat
      BY <1>1 DEF Cards
    <2> QED BY <2>1, <2>2 DEF Sound
  <1>10. 1 \in 1..Len(Program(op))
    BY <1>1 DEF Op, Program
  <1>11. op = "repack_staged" => hdus[k].c.heap > 0
    BY DEF Sound
  <1>12. JobFits'
    BY <1>1, <1>2, <1>3, <1>5, <1>8, <1>9, <1>10, <1>11 DEF JobFits, HeaderBlocks
  <1> QED BY <1>1, <1>2, <1>3, <1>7, <1>12 DEF Core

\* A create touches no HDU yet.
LEMMA CreateStep ==
  ASSUME Core, NEW kind \in Kinds, NEW n \in MinCards..MaxCards, NEW main \in 0..MaxMain,
         Create(kind, n, main)
  PROVE  Core'
  <1> DEFINE c == Card(kind, n, main, 0)
  <1>1. c \in Cards
    <2>1. kind \in Kind /\ n \in Nat \ {0} /\ main \in Nat
      BY KindsAssumption, CardsAssumption, BoundAssumption DEF Kind
    <2> QED BY <2>1 DEF Card, Cards
  <1>2. PICK op \in {"create", "create_first"} : Start(op, Len(hdus) + 1, c)
                                                /\ (op = "create_first" => hdus = <<>>)
    <2>1. CASE hdus = <<>> /\ kind # "image"
      BY <2>1 DEF Create
    <2>2. CASE ~(hdus = <<>> /\ kind # "image")
      BY <2>2 DEF Create
    <2> QED BY <2>1, <2>2
  <1> HIDE DEF c
  <1>3. /\ job = NoJob /\ hdus' = hdus /\ flen' = flen
        /\ job' = [op |-> op, h |-> Len(hdus) + 1, c |-> c, pc |-> 1]
    BY <1>2 DEF Start
  <1>4. /\ hdus \in Seq(HduRec) /\ flen \in Nat /\ Len(hdus) \in Nat /\ DOMAIN hdus = 1..Len(hdus)
        /\ job \in JobRec
    BY LayoutFacts DEF Core
  <1>5. /\ job' \in JobRec /\ job'.op = op /\ job'.h = Len(hdus) + 1 /\ job'.pc = 1
    BY <1>1, <1>3, <1>4 DEF JobRec, Op
  <1>6. ClaimFacts /\ ClaimFacts'
    BY ClaimValues, PTL
  <1>7. \A l \in DOMAIN hdus : Claim(l)' = Claim(l) /\ Claim(l) \in Nat
    <2>1. \A l \in DOMAIN hdus : l # job.h /\ l # job'.h
      BY <1>3, <1>4, <1>5 DEF NoJob
    <2> QED BY <1>3, <1>4, <1>5, <1>6, <2>1, LayoutFacts DEF ClaimFacts
  <1>8. HeadersFit' /\ Disjoint'
    BY <1>3, <1>4, <1>7, SameLayout
  <1>9. JobFits'
    <2>1. op = "create_first" => Len(hdus) = 0
      BY <1>2
    <2> QED BY <1>3, <1>5, <2>1 DEF JobFits, Program
  <1> QED BY <1>3, <1>4, <1>5, <1>8, <1>9 DEF Core

\* What Begin needs of the operations on an existing HDU: each hands it cards of the
\* shape Sound asks for.
LEMMA BeginStep ==
  ASSUME Core, NEW op, NEW k, NEW c, Sound(op, k, c), Begin(op, k, c), flaws' = {}
  PROVE  Core'
  <1>1. Start(op, k, c)
    BY DEF Begin
  <1> QED BY <1>1, StartStep

\* Every operation starts from a layout it leaves alone.
LEMMA OperationStep ==
  ASSUME Core, Operation, flaws' = {}
  PROVE  Core'
  <1>0. /\ MinCards \in Nat \ {0} /\ MaxMain \in Nat /\ MaxHeap \in Nat
        /\ \A n \in MinCards..MaxCards : n \in Nat \ {0}
        /\ \A m \in 0..MaxMain : m \in Nat
        /\ \A h \in 0..MaxHeap : h \in Nat
    BY CardsAssumption, BoundAssumption
  <1>1. CASE \E kind \in Kinds, n \in MinCards..MaxCards, main \in 0..MaxMain :
               Create(kind, n, main)
    BY <1>1, CreateStep
  <1>2. ASSUME NEW k \in DOMAIN hdus, NEW op, NEW c, Begin(op, k, c), Sound(op, k, c)
        PROVE  Core'
    BY <1>2, BeginStep
  <1>3. ASSUME NEW k \in DOMAIN hdus
        PROVE  hdus[k].c \in Cards /\ hdus[k].c.main \in Nat /\ hdus[k].c.heap \in Nat
    BY LayoutFacts DEF Core, Cards
  <1>4. CASE \E k \in DOMAIN hdus : WriteData(k)
    <2>1. PICK k \in DOMAIN hdus : Begin("write", k, hdus[k].c)
      BY <1>4 DEF WriteData
    <2>2. Sound("write", k, hdus[k].c)
      BY <1>3 DEF Sound, Op
    <2> QED BY <1>2, <2>1, <2>2
  <1>5. CASE \E k \in DOMAIN hdus : \E n \in MinCards..MaxCards : EditHeader(k, n)
    <2>1. PICK k \in DOMAIN hdus, n \in MinCards..MaxCards :
            Begin("header", k, [hdus[k].c EXCEPT !.n = n])
      BY <1>5 DEF EditHeader
    <2>2. [hdus[k].c EXCEPT !.n = n] \in Cards
      BY <1>0, <1>3 DEF Cards
    <2>3. Sound("header", k, [hdus[k].c EXCEPT !.n = n])
      BY <1>3, <2>2 DEF Sound, Op, Cards
    <2> QED BY <1>2, <2>1, <2>3
  <1>6. CASE \E k \in DOMAIN hdus : \E main \in 0..MaxMain : ExtendImage(k, main) \/ AppendRows(k, main)
    <2>1. PICK k \in DOMAIN hdus, main \in 0..MaxMain, op \in {"extend", "append"} :
            Begin(op, k, [hdus[k].c EXCEPT !.main = main])
      BY <1>6 DEF ExtendImage, AppendRows
    <2>2. [hdus[k].c EXCEPT !.main = main] \in Cards
      BY <1>0, <1>3 DEF Cards
    <2>3. Sound(op, k, [hdus[k].c EXCEPT !.main = main])
      BY <1>3, <2>2 DEF Sound, Op, Cards
    <2> QED BY <1>2, <2>1, <2>3
  <1>7. CASE \E k \in DOMAIN hdus : \E heap \in 0..MaxHeap :
               \/ WriteVla(k, heap) \/ SetItemVla(k, heap)
               \/ Repack(k, heap, "repack") \/ Repack(k, heap, "repack_staged")
    <2>1. PICK k \in DOMAIN hdus, heap \in 0..MaxHeap :
            \E op \in {"vla", "setitem", "repack", "repack_staged"} :
               /\ Begin(op, k, [hdus[k].c EXCEPT !.heap = heap])
               /\ op \in {"repack", "repack_staged"} => heap < hdus[k].c.heap
      BY <1>7 DEF WriteVla, SetItemVla, Repack
    <2>2. PICK op \in {"vla", "setitem", "repack", "repack_staged"} :
               /\ Begin(op, k, [hdus[k].c EXCEPT !.heap = heap])
               /\ op \in {"repack", "repack_staged"} => heap < hdus[k].c.heap
      BY <2>1
    <2>3. [hdus[k].c EXCEPT !.heap = heap] \in Cards
      BY <1>0, <1>3 DEF Cards
    <2>4. Sound(op, k, [hdus[k].c EXCEPT !.heap = heap])
      BY <1>0, <1>3, <2>2, <2>3 DEF Sound, Op, Cards
    <2> QED BY <1>2, <2>2, <2>4
  <1>8. CASE \E k \in DOMAIN hdus : \E main \in 0..MaxMain, heap \in 0..MaxHeap : AppendVla(k, main, heap)
    <2>1. PICK k \in DOMAIN hdus, main \in 0..MaxMain, heap \in 0..MaxHeap :
            Begin("vla", k, Card("vla", hdus[k].c.n, main, heap))
      BY <1>8 DEF AppendVla
    <2>2. Sound("vla", k, Card("vla", hdus[k].c.n, main, heap))
      BY <1>0, <1>3, <2>1 DEF Sound, Op, Cards, Card, Kind
    <2> QED BY <1>2, <2>1, <2>2
  <1>9. CASE \E k \in DOMAIN hdus :
               \E n \in MinCards..MaxCards, main \in 0..MaxMain, kind \in Kind : DeleteColumn(k, n, main, kind)
    <2>1. PICK k \in DOMAIN hdus, n \in MinCards..MaxCards, main \in 0..MaxMain, kind \in Kind :
            DeleteColumn(k, n, main, kind)
      BY <1>9
    <2>2. Begin("delete", k, Card(kind, n, main, hdus[k].c.heap)) /\ main <= hdus[k].c.main
      BY <1>0, <1>3, <2>1 DEF DeleteColumn
    <2>3. Sound("delete", k, Card(kind, n, main, hdus[k].c.heap))
      BY <1>0, <1>3, <2>2 DEF Sound, Op, Cards, Card
    <2> QED BY <1>2, <2>2, <2>3
  <1>10. CASE \E k \in DOMAIN hdus :
               \E n \in MinCards..MaxCards, main \in 0..MaxMain, kind \in Kind :
                 \E heap \in 0..MaxHeap : InsertColumn(k, n, main, heap, kind)
    <2>1. PICK k \in DOMAIN hdus, n \in MinCards..MaxCards, main \in 0..MaxMain, kind \in Kind,
               heap \in 0..MaxHeap : Begin("insert", k, Card(kind, n, main, heap))
      BY <1>10 DEF InsertColumn
    <2>2. Sound("insert", k, Card(kind, n, main, heap))
      BY <1>0, <2>1 DEF Sound, Op, Cards, Card
    <2> QED BY <1>2, <2>1, <2>2
  <1> QED BY <1>1, <1>4, <1>5, <1>6, <1>7, <1>8, <1>9, <1>10 DEF Operation

-----------------------------------------------------------------------------
(* Failures, close and open.                                               *)

\* No HDU claims less than its cards say.
Ample == \A k \in DOMAIN hdus : Claim(k) \in Nat /\ Extent(hdus[k].c) <= Claim(k)

\* An operation given up while every section is at least as long as its cards say
\* leaves a sound layout.
LEMMA GivenUp ==
  ASSUME Core, Ample, job' = NoJob, hdus' = hdus, flen' \in Nat, flen' >= flen
  PROVE  Core'
  <1>1. job' \in JobRec
    BY DEF NoJob, JobRec, NoCards, Cards, Kind, Op
  <1>2. JobFits'
    BY DEF JobFits
  <1>3. ClaimFacts'
    BY ClaimValues, PTL
  <1>4. \A k \in DOMAIN hdus : Extent(hdus[k].c) \in Nat /\ k \in Nat \ {0} /\ hdus \in Seq(HduRec)
    BY LayoutFacts DEF Core
  <1>5. \A k \in DOMAIN hdus : Claim(k)' = Extent(hdus[k].c)
    BY <1>1, <1>3, <1>4 DEF ClaimFacts, NoJob
  <1>6. HeadersFit' /\ Disjoint'
    BY <1>4, <1>5, SameLayout DEF Ample
  <1> QED BY <1>1, <1>2, <1>6 DEF Core

\* Before the shrink of its section an operation can be given up anywhere.
LEMMA AmpleUntilShrink ==
  ASSUME Core, job # NoJob,
         \/ job.op \in {"create", "create_first"} \cup Grow \cup {"header", "write", "insert"}
         \/ job.op = "delete" /\ job.pc = 1
         \/ job.op = "repack_staged" /\ job.pc = 1
  PROVE  Ample
  <1>1. /\ hdus \in Seq(HduRec) /\ job \in JobRec /\ ClaimFacts /\ JobFits
        /\ Extent(job.c) \in Nat /\ \A k \in DOMAIN hdus : Extent(hdus[k].c) \in Nat
    BY ClaimValues, LayoutFacts, ExtentMono DEF Core, JobRec
  <1>2. CASE job.op \in {"create", "create_first"}
    <2>1. \A k \in DOMAIN hdus : k # job.h
      BY <1>1, <1>2, LayoutFacts DEF JobFits
    <2> QED BY <1>1, <2>1 DEF Ample, ClaimFacts
  <1>3. CASE job.op \in Grow \cup {"header", "write", "insert"}
    <2>1. \/ job.op \in Grow /\ (job.pc = 1 \/ job.pc \in 2..4)
          \/ job.op \in {"header", "write"} /\ job.pc \in 1..3
          \/ job.op = "insert" /\ (job.pc \in 1..3 \/ job.pc \in 4..5)
      BY <1>1, <1>3 DEF JobFits, Program, JobRec, Grow
    <2> QED BY <1>1, <2>1 DEF Ample, ClaimFacts, Grow
  <1>4. CASE job.op \in {"delete", "repack_staged"}
    BY <1>1, <1>4 DEF Ample, ClaimFacts, Grow
  <1> QED BY <1>2, <1>3, <1>4

\* An error that does not taint the file ends the operation while every section is at
\* least as long as its cards say, and leaves the blocks that were there.
LEMMA FailureLeaves ==
  ASSUME Core, Failure, ~tainted'
  PROVE  /\ Ample /\ job' = NoJob /\ hdus' = hdus /\ flen' \in Nat /\ flen' >= flen
         /\ \A p \in 0..(flen - 1) : disk'[p] = disk[p]
  <1>1. CASE FailTainted \/ RejectLate
    BY <1>1 DEF FailTainted, RejectLate
  <1>2. flen \in Nat /\ job \in JobRec /\ JobFits
    BY DEF Core
  <1>3. CASE FailSetLen
    <2>1. ShiftsTail \/ SetsLength
      BY <1>3 DEF FailSetLen
    <2>2. PICK s \in {"headroom", "room", "staging"} : At(s)
      BY <2>1 DEF ShiftsTail, SetsLength
    <2>3. /\ job # NoJob
          /\ \/ job.op \in Grow \cup {"header", "insert"}
             \/ job.op \in {"delete", "repack_staged"} /\ job.pc = 1
      BY <1>2, <2>2, Phases
    <2>4. Ample
      BY <2>3, AmpleUntilShrink
    <2>5. job' = NoJob /\ hdus' = hdus /\ flen' = flen /\ disk' = disk
      BY <1>3 DEF FailSetLen, Stop
    <2> QED BY <1>2, <2>4, <2>5
  <1>4. CASE FailImageWrite
    <2>1. /\ At("data") /\ job.op = "write" /\ job' = NoJob /\ hdus' = hdus /\ flen' = flen
          /\ disk' = disk
      BY <1>4 DEF FailImageWrite, Stop
    <2>2. Ample
      BY <2>1, AmpleUntilShrink DEF At
    <2> QED BY <1>2, <2>1, <2>2
  <1>5. CASE RejectCell
    <2>1. /\ At("data") /\ job.op \in {"vla", "setitem", "insert", "write"}
          /\ job' = NoJob /\ hdus' = hdus /\ flen' = flen /\ disk' = disk
      BY <1>5 DEF RejectCell, Stop
    <2>2. Ample
      BY <2>1, AmpleUntilShrink DEF At, Grow
    <2> QED BY <1>2, <2>1, <2>2
  <1>6. CASE \E m \in 0..MaxCards : FailCreate(m)
    <2>1. PICK m \in 0..MaxCards : FailCreate(m)
      BY <1>6
    <2>2. /\ At("primary") \/ At("append")
          /\ flen' = flen + m /\ job' = NoJob /\ hdus' = hdus
      BY <2>1 DEF FailCreate, Stop
    <2>3. job # NoJob /\ job.op \in {"create", "create_first"}
      BY <1>2, <2>2, Phases
    <2>4. Ample
      BY <2>3, AmpleUntilShrink
    <2>5. flen' \in Nat /\ flen' >= flen /\ m \in Nat
      BY <1>2, <2>2, CardsAssumption
    <2>6. PICK c : disk' = [p \in 0..(flen + m - 1) |->
                             IF p < flen THEN disk[p] ELSE Header(Len(hdus) + 1, c, p - flen)]
      BY <2>1 DEF FailCreate
    <2>7. ASSUME NEW p \in 0..(flen - 1)
          PROVE  disk'[p] = disk[p]
      <3>1. p \in 0..(flen + m - 1) /\ p < flen
        BY <1>2, <2>5
      <3> QED BY <2>6, <3>1
    <2> QED BY <2>2, <2>4, <2>5, <2>7
  <1> QED BY <1>1, <1>3, <1>4, <1>5, <1>6 DEF Failure

\* Such an error leaves memory and file in step.
LEMMA FailureStep ==
  ASSUME Core, Failure, ~tainted'
  PROVE  Core'
  <1>1. Ample /\ job' = NoJob /\ hdus' = hdus /\ flen' \in Nat /\ flen' >= flen
    BY FailureLeaves
  <1> QED BY <1>1, GivenUp

\* Nothing that the layout depends on changes.
LEMMA Unchanged ==
  ASSUME Core, hdus' = hdus, flen' = flen, job' = job
  PROVE  Core'
  BY DEF Core, HeadersFit, Disjoint, Claim, JobFits, Done, StagedExtent

-----------------------------------------------------------------------------
(* The invariant.                                                          *)

\* A closed handle runs nothing, and a crash closes it.
Quiet ==
    /\ mode = "closed" => job = NoJob
    /\ torn = "crash" => mode = "closed"

\* Every operation is begun by Start, which writes nothing.
LEMMA OperationStarts ==
  ASSUME Operation
  PROVE  \E op, k, c : Start(op, k, c)
  <1>1. CASE \E kind \in Kinds, n \in MinCards..MaxCards, main \in 0..MaxMain : Create(kind, n, main)
    BY <1>1, Zenon DEF Create
  <1>2. CASE \E k \in DOMAIN hdus : WriteData(k)
    BY <1>2, Zenon DEF WriteData, Begin
  <1>3. CASE \E k \in DOMAIN hdus : \E n \in MinCards..MaxCards : EditHeader(k, n)
    BY <1>3, Zenon DEF EditHeader, Begin
  <1>4. CASE \E k \in DOMAIN hdus : \E main \in 0..MaxMain : ExtendImage(k, main) \/ AppendRows(k, main)
    BY <1>4, Zenon DEF ExtendImage, AppendRows, Begin
  <1>5. CASE \E k \in DOMAIN hdus : \E heap \in 0..MaxHeap :
               \/ WriteVla(k, heap) \/ SetItemVla(k, heap)
               \/ Repack(k, heap, "repack") \/ Repack(k, heap, "repack_staged")
    BY <1>5, Zenon DEF WriteVla, SetItemVla, Repack, Begin
  <1>6. CASE \E k \in DOMAIN hdus : \E main \in 0..MaxMain, heap \in 0..MaxHeap : AppendVla(k, main, heap)
    BY <1>6, Zenon DEF AppendVla, Begin
  <1>7. CASE \E k \in DOMAIN hdus :
               \E n \in MinCards..MaxCards, main \in 0..MaxMain, kind \in Kind :
                 \/ DeleteColumn(k, n, main, kind)
                 \/ \E heap \in 0..MaxHeap : InsertColumn(k, n, main, heap, kind)
    <2>1. PICK k \in DOMAIN hdus, n \in MinCards..MaxCards, main \in 0..MaxMain, kind \in Kind :
             \/ DeleteColumn(k, n, main, kind)
             \/ \E heap \in 0..MaxHeap : InsertColumn(k, n, main, heap, kind)
      BY <1>7, Zenon
    <2>2. DeleteColumn(k, n, main, kind) => Start("delete", k, Card(kind, n, main, hdus[k].c.heap))
      BY Zenon DEF DeleteColumn, Begin
    <2>3. \A heap \in 0..MaxHeap :
            InsertColumn(k, n, main, heap, kind) => Start("insert", k, Card(kind, n, main, heap))
      BY Zenon DEF InsertColumn, Begin
    <2> QED BY <2>1, <2>2, <2>3, Zenon
  <1> QED BY <1>1, <1>2, <1>3, <1>4, <1>5, <1>6, <1>7, Zenon DEF Operation

\* Quiet is kept by every step, and a step that ends in a trusted state began in one.
LEMMA TrustIsNotRegained ==
  ASSUME Quiet, [Next]_vars
  PROVE  Quiet' /\ (Trusted' => Trusted)
  <1>1. CASE Operation
    <2>1. \E op, k, c : Start(op, k, c)
      BY <1>1, OperationStarts
    <2>2. /\ mode = "open" /\ mode' = mode /\ torn' = torn /\ tainted' = tainted
          /\ flaws \subseteq flaws'
      BY <2>1 DEF Start
    <2> QED BY <2>2 DEF Quiet, Trusted
  <1>2. CASE StageStep
    <2>1. /\ job # NoJob /\ UNCHANGED <<tainted, mode, torn, flaws>>
      BY <1>2 DEF StageStep, StagePrimary, StageAppend, StageHeadroom, StageRewrite,
        StagePutHeader, StageRoom, StageStaging, StageData, StageShrink, StageCommit, At
    <2> QED BY <2>1 DEF Quiet, Trusted
  <1>3. CASE Failure
    <2>1. /\ job # NoJob /\ mode' = mode /\ flaws' = flaws /\ (~tainted' => ~tainted)
          /\ torn' \in {torn, "IOError", "ValueError"}
      BY <1>3 DEF Failure, FailTainted, RejectLate, FailSetLen, FailImageWrite, RejectCell,
        FailCreate, Stop, At, ShiftsTail, SetsLength
    <2> QED BY <2>1 DEF Quiet, Trusted
  <1>4. CASE Crash
    BY <1>4 DEF Crash, Quiet, Trusted
  <1>5. CASE Close
    BY <1>5 DEF Close, Quiet, Trusted
  <1>6. CASE Reopen
    <2>1. /\ mode = "closed" /\ job' = job /\ mode' = "open" /\ torn' = "none"
          /\ flaws' = flaws \cup IF ~tainted /\ torn = "none" /\ Parse.hdus = hdus
                                 THEN {} ELSE {"reopen"}
      BY <1>6 DEF Reopen
    <2> QED BY <2>1 DEF Quiet, Trusted
  <1>7. CASE UNCHANGED vars
    BY <1>7 DEF vars, Quiet, Trusted
  <1> QED BY <1>1, <1>2, <1>3, <1>4, <1>5, <1>6, <1>7 DEF Next

\* A step between trusted states keeps the layout sound.
LEMMA CoreStep ==
  ASSUME Core, [Next]_vars, Trusted'
  PROVE  Core'
  <1>1. flaws' = {} /\ ~tainted' /\ torn' # "crash"
    BY DEF Trusted
  <1>2. CASE Operation
    BY <1>1, <1>2, OperationStep
  <1>3. CASE StageStep
    BY <1>3, PrimaryStep, AppendStep, HeadroomStep, RewriteStep, PutHeaderStep, RoomStep,
       StagingStep, DataStep, ShrinkStep, CommitStep DEF StageStep
  <1>4. CASE Failure
    BY <1>1, <1>4, FailureStep
  <1>5. CASE Crash
    BY <1>1, <1>5 DEF Crash
  <1>6. CASE Close
    BY <1>6, Unchanged DEF Close
  <1>7. CASE Reopen
    <2>1. Parse.hdus = hdus
      BY <1>1, <1>7 DEF Reopen
    <2> QED BY <1>7, <2>1, Unchanged DEF Reopen
  <1>8. CASE UNCHANGED vars
    BY <1>8, Unchanged DEF vars
  <1> QED BY <1>2, <1>3, <1>4, <1>5, <1>6, <1>7, <1>8 DEF Next

\* LayoutInv always holds: at every stage of every operation, and after every error
\* that does not taint the file, the records of a trusted handle are in file order,
\* sections end before the next header and before the end of the file, and the
\* operation in progress has reserved what its later stages write.
THEOREM LayoutInvariance == Spec => []LayoutInv
  <1>1. Init => LayoutInv
    <2> SUFFICES ASSUME Init PROVE LayoutInv
      OBVIOUS
    <2>1. flen = 0 /\ hdus = <<>> /\ job = NoJob /\ mode = "open" /\ torn = "none"
      BY DEF Init
    <2>2. flen \in Nat /\ hdus \in Seq(HduRec) /\ DOMAIN hdus = {}
      BY <2>1
    <2>3. job \in JobRec
      BY <2>1 DEF NoJob, JobRec, NoCards, Cards, Kind, Op
    <2> QED BY <2>1, <2>2, <2>3 DEF LayoutInv, HeadersFit, Disjoint, JobFits
  <1>2. LayoutInv /\ [Next]_vars => LayoutInv'
    <2> SUFFICES ASSUME LayoutInv, [Next]_vars PROVE LayoutInv'
      OBVIOUS
    <2>1. Quiet /\ (Trusted => Core)
      BY DEF LayoutInv, Quiet, Core
    <2>2. Quiet' /\ (Trusted' => Core')
      BY <2>1, TrustIsNotRegained, CoreStep
    <2> QED BY <2>2 DEF LayoutInv, Quiet, Core
  <1> QED BY <1>1, <1>2, PTL DEF Spec

\* While the handle is trusted no section reaches into a later HDU or past the end of
\* the file (shift_file_tail_and_update_offsets, grow_file_to_at_least and their
\* callers), for every number and size of headers and data sections.
THEOREM SectionsAreDisjoint == Spec => []SectionsDisjoint
  <1>1. LayoutInv => SectionsDisjoint
    BY DEF LayoutInv, SectionsDisjoint
  <1> QED BY <1>1, LayoutInvariance, PTL


-----------------------------------------------------------------------------
(* The blocks of the other HDUs.                                           *)

\* HDU l stands d blocks further on, with its blocks.
Carried(l, d) ==
    /\ l \in DOMAIN hdus' /\ d \in Int /\ (l < job.h => d = 0)
    /\ hdus'[l].hoff = hdus[l].hoff + d /\ hdus'[l].doff = hdus[l].doff + d
    /\ hdus'[l].c = hdus[l].c
    /\ \A p \in hdus[l].hoff..(End(l) - 1) : disk'[p + d] = disk[p]

\* Every HDU but the one the operation is about is carried along.
OthersCarried == \A l \in DOMAIN hdus : l # job.h => \E d \in Int : Carried(l, d)

\* The blocks a claim speaks of are a number.
LEMMA ClaimNat ==
  ASSUME Core, NEW k \in DOMAIN hdus
  PROVE  Claim(k) \in Nat
  <1>1. /\ job \in JobRec /\ job.c \in Cards /\ hdus[k].c \in Cards
        /\ job.c.heap \in Nat /\ hdus[k].c.main \in Nat /\ hdus[k].c.heap \in Nat
    BY LayoutFacts DEF Core, JobRec, Cards
  <1>2. Extent(job.c) \in Nat /\ Extent(hdus[k].c) \in Nat
    BY <1>1, ExtentMono
  <1>3. StagedExtent(k) \in Nat
    <2>1. hdus[k].c.main + hdus[k].c.heap + (IF job.op = "repack_staged" THEN job.c.heap ELSE 0) \in Nat
      BY <1>1
    <2> QED BY <2>1, DataBlocksMono DEF StagedExtent
  <1> QED BY <1>2, <1>3 DEF Claim

\* Where an HDU stands that no operation is at work on.
LEMMA Elsewhere ==
  ASSUME Core, NEW l \in DOMAIN hdus, l # job.h
  PROVE  /\ l \in Nat /\ hdus[l].hoff \in Nat /\ hdus[l].doff \in Nat /\ End(l) \in Nat
         /\ hdus[l].hoff < hdus[l].doff /\ hdus[l].doff <= End(l) /\ End(l) <= flen
         /\ End(l) = hdus[l].doff + Extent(hdus[l].c) /\ Extent(hdus[l].c) \in Nat
         /\ \A k \in DOMAIN hdus : /\ l < k => End(l) <= hdus[k].hoff
                                   /\ k < l => hdus[k].doff + Claim(k) <= hdus[l].hoff
  <1>1. /\ l \in Nat /\ hdus[l].hoff \in Nat /\ hdus[l].doff \in Nat
        /\ Extent(hdus[l].c) \in Nat /\ flen \in Nat
    BY LayoutFacts DEF Core
  <1>2. Claim(l) = Extent(hdus[l].c) /\ End(l) = hdus[l].doff + Extent(hdus[l].c)
    BY DEF Claim, End
  <1>3. hdus[l].hoff < hdus[l].doff /\ hdus[l].doff + Claim(l) <= flen
    BY Order
  <1>4. \A k \in DOMAIN hdus : /\ l < k => hdus[l].doff + Claim(l) <= hdus[k].hoff
                               /\ k < l => hdus[k].doff + Claim(k) <= hdus[l].hoff
    BY Order
  <1> QED BY <1>1, <1>2, <1>3, <1>4

\* The blocks from a on are d blocks further on, and below both places nothing changed.
Relocated(a, d) ==
    /\ \A p \in 0..(a - 1) : p < a + d => disk'[p] = disk[p]
    /\ \A p \in a..(flen - 1) : disk'[p + d] = disk[p]

\* A shift at a point of the running operation's section carries the other HDUs along.
LEMMA ShiftCarries ==
  ASSUME Core, NEW a \in Nat, NEW d \in Int, NEW e, job.h \in DOMAIN hdus,
         Cut(job.h, a, d), Slipped(job.h, d, e), Relocated(a, d),
         hdus[job.h].doff <= a, hdus[job.h].doff <= a + d
  PROVE  OthersCarried
  <1> SUFFICES ASSUME NEW l \in DOMAIN hdus, l # job.h
               PROVE  \E x \in Int : Carried(l, x)
    BY DEF OthersCarried
  <1> DEFINE k == job.h
  <1>1. /\ l \in Nat /\ hdus[l].hoff \in Nat /\ hdus[l].doff \in Nat /\ End(l) \in Nat
        /\ hdus[l].hoff < hdus[l].doff /\ hdus[l].doff <= End(l) /\ End(l) <= flen
        /\ l < k => End(l) <= hdus[k].hoff
    BY Elsewhere
  <1>2. /\ k \in Nat /\ flen \in Nat /\ hdus[k].hoff \in Nat /\ hdus[k].doff \in Nat
        /\ hdus[k].hoff < hdus[k].doff
    BY LayoutFacts, Order DEF Core
  <1>3. CASE l < k
    <2>1. hdus'[l] = hdus[l] /\ l \in DOMAIN hdus'
      BY <1>3 DEF Slipped
    <2>2. ASSUME NEW p \in hdus[l].hoff..(End(l) - 1)
          PROVE  disk'[p + 0] = disk[p]
      <3>1. p \in 0..(a - 1) /\ p < a + d /\ p + 0 = p
        BY <1>1, <1>2, <1>3
      <3> QED BY <3>1 DEF Relocated
    <2>3. hdus'[l].hoff = hdus[l].hoff + 0 /\ hdus'[l].doff = hdus[l].doff + 0
      BY <1>1, <2>1
    <2>4. Carried(l, 0)
      BY <2>1, <2>2, <2>3 DEF Carried
    <2> QED BY <2>4
  <1>4. CASE k < l
    <2>1. /\ hdus'[l].hoff = hdus[l].hoff + d /\ hdus'[l].doff = hdus[l].doff + d
          /\ hdus'[l].c = hdus[l].c /\ l \in DOMAIN hdus'
      BY <1>4 DEF Slipped
    <2>2. hdus[l].hoff >= a
      BY <1>4 DEF Cut
    <2>3. ASSUME NEW p \in hdus[l].hoff..(End(l) - 1)
          PROVE  disk'[p + d] = disk[p]
      <3>1. p \in a..(flen - 1)
        BY <1>1, <1>2, <2>2
      <3> QED BY <3>1 DEF Relocated
    <2>4. ~(l < job.h)
      BY <1>1, <1>2, <1>4
    <2>5. Carried(l, d)
      BY <2>1, <2>3, <2>4 DEF Carried
    <2> QED BY <2>5
  <1> QED BY <1>1, <1>2, <1>3, <1>4

\* The blocks of an HDU that stays where it is.
LEMMA StaysCarried ==
  ASSUME Core, NEW l \in DOMAIN hdus, l # job.h, l \in DOMAIN hdus', hdus'[l] = hdus[l],
         \A p \in hdus[l].hoff..(End(l) - 1) : disk'[p] = disk[p]
  PROVE  \E d \in Int : Carried(l, d)
  <1>1. hdus[l].hoff \in Nat /\ hdus[l].doff \in Nat /\ End(l) \in Nat
    BY Elsewhere
  <1>2. hdus'[l].hoff = hdus[l].hoff + 0 /\ hdus'[l].doff = hdus[l].doff + 0
    BY <1>1
  <1>3. ASSUME NEW p \in hdus[l].hoff..(End(l) - 1)
        PROVE  disk'[p + 0] = disk[p]
    <2>1. p + 0 = p
      BY <1>1
    <2> QED BY <2>1
  <1>4. Carried(l, 0)
    BY <1>2, <1>3 DEF Carried
  <1> QED BY <1>4

\* A write inside the header and the section of the running operation's HDU.
LEMMA PutCarries ==
  ASSUME Core, job.h \in DOMAIN hdus, hdus' = hdus, NEW p \in Int, NEW m \in Int, NEW b,
         Put(p, m, b), hdus[job.h].hoff <= p, p + m <= hdus[job.h].doff + Claim(job.h)
  PROVE  /\ OthersCarried
         /\ \A q \in 0..(flen - 1) : disk'[q] = IF q \in p..(p + m - 1) THEN b[q - p] ELSE disk[q]
  <1> DEFINE k == job.h
  <1>1. /\ k \in Nat /\ flen \in Nat /\ hdus[k].hoff \in Nat /\ hdus[k].doff \in Nat
        /\ Claim(k) \in Nat /\ hdus[k].doff + Claim(k) <= flen
    BY LayoutFacts, Order, ClaimNat DEF Core
  <1>2. disk' = [i \in 0..(flen - 1) |->
                  IF i \in p..(p + m - 1) THEN b[i - p]
                  ELSE IF i < flen THEN disk[i] ELSE Zero]
    <2>1. ~(m > 0 /\ p + m > flen)
      BY <1>1
    <2> QED BY <2>1 DEF Put
  <1>3. \A q \in 0..(flen - 1) : disk'[q] = IF q \in p..(p + m - 1) THEN b[q - p] ELSE disk[q]
    BY <1>1, <1>2
  <1>4. ASSUME NEW l \in DOMAIN hdus, l # k
        PROVE  \E d \in Int : Carried(l, d)
    <2>1. /\ l \in Nat /\ hdus[l].hoff \in Nat /\ End(l) \in Nat /\ End(l) <= flen
          /\ l < k => End(l) <= hdus[k].hoff
          /\ k < l => hdus[k].doff + Claim(k) <= hdus[l].hoff
      BY <1>4, Elsewhere
    <2>2. ASSUME NEW q \in hdus[l].hoff..(End(l) - 1)
          PROVE  disk'[q] = disk[q]
      <3>1. q \in 0..(flen - 1) /\ q \notin p..(p + m - 1)
        BY <1>1, <1>4, <2>1
      <3> QED BY <1>3, <3>1
    <2> QED BY <1>4, <2>2, StaysCarried
  <1> QED BY <1>3, <1>4 DEF OthersCarried

-----------------------------------------------------------------------------
(* The blocks of an HDU's own section.                                     *)

\* The blocks of its section that HDU k has made its own: all it claims, but for the
\* staging area of a repack, which still holds what stood there before it is written.
Owned(k) ==
    IF k = job.h /\ job.op = "repack_staged" /\ job.pc = 2 THEN Extent(hdus[k].c) ELSE Claim(k)

\* Block i of HDU k's section.
At0(k, i) == disk[hdus[k].doff + i]

\* Every HDU's own blocks are its data or zeros.
Held == \A k \in DOMAIN hdus : \A i \in 0..(Owned(k) - 1) : At0(k, i) \in {Data(k), Zero}

\* What k owns after the step it owned before, or the step wrote data or zeros there.
Keeps(k) ==
    \A i \in 0..(Owned(k)' - 1) :
      \/ At0(k, i)' \in {Data(k), Zero}
      \/ i < Owned(k) /\ At0(k, i)' = At0(k, i)

\* k's header stays as it is, unless it is being written or gets more blocks; only a
\* commit changes the cards in memory.
HeadKept(k) ==
    /\ hdus'[k].hoff = hdus[k].hoff
    /\ At("commit") \/ hdus'[k].c = hdus[k].c
    /\ \/ At("rewrite") \/ At("puthdr")
       \/ At("headroom") /\ hdus'[k].hblk > hdus[k].hblk
       \/ /\ hdus'[k].hblk = hdus[k].hblk
          /\ \A p \in hdus[k].hoff..(hdus[k].doff - 1) : disk'[p] = disk[p]

\* What a step does to the blocks of a trusted file.
Sorted ==
    /\ DOMAIN hdus' = DOMAIN hdus
    /\ OthersCarried
    /\ \A k \in DOMAIN hdus : k = job.h => Keeps(k) /\ HeadKept(k)

\* Owned in the stages of an operation.
LEMMA OwnedIs ==
  ASSUME Core, NEW k \in DOMAIN hdus
  PROVE  /\ Owned(k) \in Nat /\ Owned(k) <= Claim(k) /\ hdus[k].doff + Owned(k) <= flen
         /\ k # job.h => Owned(k) = Extent(hdus[k].c)
         /\ ~(job.op = "repack_staged" /\ job.pc = 2) => Owned(k) = Claim(k)
  <1>1. Claim(k) \in Nat /\ hdus[k].doff + Claim(k) <= flen
    BY ClaimNat, Order
  <1>2. hdus[k].doff \in Nat /\ flen \in Nat /\ Extent(hdus[k].c) \in Nat
    BY LayoutFacts DEF Core
  <1>3. k # job.h => Claim(k) = Extent(hdus[k].c)
    BY DEF Claim
  <1>4. CASE k = job.h /\ job.op = "repack_staged" /\ job.pc = 2
    <2>1. ClaimFacts /\ hdus \in Seq(HduRec) /\ job \in JobRec
      BY ClaimValues DEF Core
    <2>2. Claim(k) = StagedExtent(k)
      BY <1>4, <2>1 DEF ClaimFacts
    <2>3. job # NoJob
      BY <1>4 DEF NoJob
    <2>4. Extent(hdus[k].c) <= StagedExtent(k)
      <3>1. job.c.heap \in Nat /\ hdus[k].c.main \in Nat /\ hdus[k].c.heap \in Nat
        BY <2>1, LayoutFacts DEF JobRec, Cards
      <3> QED BY <3>1, DataBlocksMono DEF StagedExtent, Extent
    <2> QED BY <1>1, <1>2, <1>4, <2>2, <2>4 DEF Owned
  <1>5. CASE ~(k = job.h /\ job.op = "repack_staged" /\ job.pc = 2)
    BY <1>1, <1>2, <1>3, <1>5 DEF Owned
  <1> QED BY <1>4, <1>5

\* OwnedIs, in the form in which it can be cited of the state after a step.
OwnedBelow == Core => \A k \in DOMAIN hdus : Owned(k) \in Nat /\ Owned(k) <= Claim(k)

\* An HDU owns no more than it claims.
LEMMA OwnedIsBelow == OwnedBelow
  BY OwnedIs DEF OwnedBelow

\* Such a step keeps Held.
LEMMA SortedHolds ==
  ASSUME Core, Core', Held, Sorted, \A l \in DOMAIN hdus : l # job.h => l # job'.h
  PROVE  Held'
  <1> SUFFICES ASSUME NEW k \in DOMAIN hdus, NEW i \in 0..(Owned(k)' - 1)
               PROVE  At0(k, i)' \in {Data(k), Zero}
    <2>1. DOMAIN hdus' = DOMAIN hdus
      BY DEF Sorted
    <2> QED BY <2>1 DEF Held, At0
  <1>1. CASE k = job.h
    <2>1. \/ At0(k, i)' \in {Data(k), Zero}
          \/ i < Owned(k) /\ At0(k, i)' = At0(k, i)
      BY <1>1 DEF Sorted, Keeps
    <2>2. i < Owned(k) => At0(k, i) \in {Data(k), Zero}
      <3>1. Owned(k) \in Nat
        BY OwnedIs
      <3>2. i < Owned(k) => i \in 0..(Owned(k) - 1)
        BY <3>1
      <3> QED BY <3>2 DEF Held
    <2> QED BY <2>1, <2>2
  <1>2. CASE k # job.h
    <2>1. PICK d \in Int : Carried(k, d)
      BY <1>2 DEF Sorted, OthersCarried
    <2>2. Owned(k)' = Extent(hdus[k].c) /\ Owned(k) = Extent(hdus[k].c)
      <3>1. k # job'.h
        BY <1>2
      <3> QED BY <1>2, <2>1, <3>1 DEF Owned, Claim, Carried, Extent
    <2>3. /\ hdus[k].hoff \in Nat /\ hdus[k].doff \in Nat /\ End(k) = hdus[k].doff + Extent(hdus[k].c)
          /\ Extent(hdus[k].c) \in Nat /\ hdus[k].hoff < hdus[k].doff
      BY <1>2, Elsewhere
    <2>4. At0(k, i) \in {Data(k), Zero}
      BY <2>2 DEF Held
    <2>5. hdus[k].doff + i \in hdus[k].hoff..(End(k) - 1) /\ i \in Int
      BY <2>2, <2>3
    <2>6. disk'[(hdus[k].doff + i) + d] = disk[hdus[k].doff + i] /\ hdus'[k].doff = hdus[k].doff + d
      BY <2>1, <2>5 DEF Carried
    <2>7. hdus'[k].doff + i = (hdus[k].doff + i) + d
      BY <2>3, <2>5, <2>6
    <2> QED BY <2>4, <2>6, <2>7 DEF At0
  <1> QED BY <1>1, <1>2

-----------------------------------------------------------------------------
(* The stages.                                                             *)

\* No HDU moves, and nothing is written over.
LEMMA NothingMoves ==
  ASSUME Core, \A p \in 0..(flen - 1) : disk'[p] = disk[p], DOMAIN hdus \subseteq DOMAIN hdus',
         \A l \in DOMAIN hdus : hdus'[l] = hdus[l]
  PROVE  OthersCarried
  <1> SUFFICES ASSUME NEW l \in DOMAIN hdus, l # job.h
               PROVE  \E d \in Int : Carried(l, d)
    BY DEF OthersCarried
  <1>1. hdus[l].hoff \in Nat /\ End(l) \in Nat /\ End(l) <= flen /\ flen \in Nat
    BY Elsewhere DEF Core
  <1>2. \A p \in hdus[l].hoff..(End(l) - 1) : p \in 0..(flen - 1)
    BY <1>1
  <1> QED BY <1>2, StaysCarried

\* A shift past the start of k's data leaves k's header alone.
LEMMA ShiftKeepsHead ==
  ASSUME Core, NEW k \in DOMAIN hdus, NEW a \in Nat, NEW d \in Int, Slipped(k, d, 0),
         Relocated(a, d), hdus[k].doff <= a, hdus[k].doff <= a + d
  PROVE  HeadKept(k)
  <1>1. hdus[k].hoff \in Nat /\ hdus[k].doff \in Nat /\ hdus[k].hblk \in Nat
    BY LayoutFacts DEF Core
  <1>2. hdus'[k].hoff = hdus[k].hoff /\ hdus'[k].hblk = hdus[k].hblk /\ hdus'[k].c = hdus[k].c
    BY <1>1 DEF Slipped
  <1>3. \A p \in hdus[k].hoff..(hdus[k].doff - 1) : p \in 0..(a - 1) /\ p < a + d
    BY <1>1
  <1> QED BY <1>2, <1>3 DEF HeadKept, Relocated

\* Nothing is written or moved, and the running operation owns no more than before.
LEMMA NothingWritten ==
  ASSUME Core, Core', \A p \in 0..(flen - 1) : disk'[p] = disk[p], hdus' = hdus,
         \A k \in DOMAIN hdus : k = job.h => Owned(k)' <= Owned(k)
  PROVE  Sorted
  <1>1. OthersCarried
    BY NothingMoves
  <1>2. ASSUME NEW k \in DOMAIN hdus, k = job.h
        PROVE  Keeps(k)
    <2>1. Owned(k) \in Nat /\ Owned(k)' <= Owned(k)
      BY <1>2, OwnedIs
    <2>2. Owned(k)' \in Nat
      <3>1. OwnedBelow'
        BY OwnedIsBelow, PTL
      <3> QED BY <3>1 DEF OwnedBelow
    <2>3. hdus[k].doff \in Nat /\ hdus[k].doff + Owned(k) <= flen /\ flen \in Nat
      BY OwnedIs, LayoutFacts DEF Core
    <2>4. ASSUME NEW i \in 0..(Owned(k)' - 1)
          PROVE  i < Owned(k) /\ hdus[k].doff + i \in 0..(flen - 1)
      BY <2>1, <2>2, <2>3
    <2> QED BY <2>4 DEF Keeps, At0
  <1>3. ASSUME NEW k \in DOMAIN hdus
        PROVE  HeadKept(k)
    <2>1. /\ hdus[k].hoff \in Nat /\ hdus[k].doff \in Nat /\ flen \in Nat /\ Claim(k) \in Nat
          /\ hdus[k].doff + Claim(k) <= flen
      BY ClaimNat, Order, LayoutFacts DEF Core
    <2>2. \A p \in hdus[k].hoff..(hdus[k].doff - 1) : p \in 0..(flen - 1)
      BY <2>1
    <2> QED BY <2>2 DEF HeadKept
  <1> QED BY <1>1, <1>2, <1>3 DEF Sorted

\* What a stage of an operation on HDU k begins with and leaves.
LEMMA Staged ==
  ASSUME Core, NEW s, At(s), s \notin {"primary", "append"}, Advance, NEW k, k = job.h
  PROVE  /\ k \in DOMAIN hdus /\ k \in Nat /\ flen \in Nat /\ hdus \in Seq(HduRec)
         /\ hdus[k].hoff \in Nat /\ hdus[k].doff \in Nat /\ hdus[k].hblk \in Nat
         /\ hdus[k].doff = hdus[k].hoff + hdus[k].hblk
         /\ Extent(hdus[k].c) \in Nat /\ Extent(job.c) \in Nat /\ job.c \in Cards
         /\ ClaimFacts /\ ClaimFacts' /\ job' \in JobRec /\ job \in JobRec
         /\ \A l \in DOMAIN hdus : Claim(l) \in Nat
         /\ job.pc # Len(Program(job.op)) =>
              job'.op = job.op /\ job'.h = k /\ job'.c = job.c /\ job'.pc = job.pc + 1
         /\ job.pc = Len(Program(job.op)) => job' = NoJob /\ k # job'.h
  <1>1. /\ job.op \notin {"create", "create_first"} /\ job # NoJob /\ job \in JobRec
        /\ JobFits /\ ClaimFacts /\ ClaimFacts' /\ job' \in JobRec
    BY Working
  <1>2. /\ k \in DOMAIN hdus /\ flen \in Nat /\ hdus \in Seq(HduRec) /\ k \in Nat \ {0}
        /\ hdus[k].hoff \in Nat /\ hdus[k].doff \in Nat /\ hdus[k].hblk \in Nat
        /\ Extent(hdus[k].c) \in Nat /\ Extent(job.c) \in Nat /\ job.c \in Cards
    BY <1>1, Running, LayoutFacts
  <1>3. hdus[k].doff = hdus[k].hoff + hdus[k].hblk
    BY <1>2 DEF Core, HeadersFit
  <1>4. \A l \in DOMAIN hdus : Claim(l) \in Nat
    BY ClaimNat
  <1>5. job.pc # Len(Program(job.op)) =>
          job'.op = job.op /\ job'.h = k /\ job'.c = job.c /\ job'.pc = job.pc + 1
    BY <1>1, Advanced
  <1>6. job.pc = Len(Program(job.op)) => job' = NoJob /\ k # job'.h
    BY <1>1, <1>2, Advanced DEF NoJob
  <1> QED BY <1>1, <1>2, <1>3, <1>4, <1>5, <1>6

\* shift_file_tail_and_update_offsets: the tail is d blocks further on.
LEMMA ShiftRelocates ==
  ASSUME flen \in Nat, NEW a \in Nat, NEW d \in Nat, NEW fill \in BOOLEAN, a <= flen, ShiftTail(a, d, fill)
  PROVE  /\ Relocated(a, d) /\ flen' = flen + d
         /\ fill => \A p \in a..(a + d - 1) : disk'[p] = Zero
  <1>1. disk' = [p \in 0..(flen + d - 1) |->
                  IF p >= a + d THEN disk[p - d]
                  ELSE IF p < flen /\ ~(fill /\ p >= a) THEN disk[p] ELSE Zero]
        /\ flen' = flen + d
    <2>1. ~(flen < a)
      OBVIOUS
    <2> QED BY <2>1 DEF ShiftTail
  <1>2. ASSUME NEW p \in 0..(a - 1)
        PROVE  disk'[p] = disk[p]
    <2>1. p \in 0..(flen + d - 1) /\ ~(p >= a + d) /\ p < flen /\ ~(p >= a)
      OBVIOUS
    <2> QED BY <1>1, <2>1
  <1>3. ASSUME NEW p \in a..(flen - 1)
        PROVE  disk'[p + d] = disk[p]
    <2>1. p + d \in 0..(flen + d - 1) /\ p + d >= a + d /\ (p + d) - d = p
      OBVIOUS
    <2> QED BY <1>1, <2>1
  <1>4. ASSUME fill, NEW p \in a..(a + d - 1)
        PROVE  disk'[p] = Zero
    <2>1. p \in 0..(flen + d - 1) /\ ~(p >= a + d) /\ p >= a
      OBVIOUS
    <2>2. ~(p < flen /\ ~(fill /\ p >= a))
      BY <1>4, <2>1
    <2> QED BY <1>1, <2>1, <2>2
  <1> QED BY <1>1, <1>2, <1>3, <1>4 DEF Relocated

\* A set_len at the end of the file moves nothing.
LEMMA SetLenRelocates ==
  ASSUME flen \in Nat, NEW a \in Nat, NEW d \in Int, a = flen, a + d >= 0, SetLen(a + d)
  PROVE  Relocated(a, d) /\ flen' = flen + d /\ \A p \in a..(a + d - 1) : disk'[p] = Zero
  <1>1. disk' = [p \in 0..(a + d - 1) |-> IF p < flen THEN disk[p] ELSE Zero] /\ flen' = flen + d
    BY DEF SetLen
  <1>2. ASSUME NEW p \in 0..(a - 1), p < a + d
        PROVE  disk'[p] = disk[p]
    <2>1. p \in 0..(a + d - 1) /\ p < flen
      BY <1>2
    <2> QED BY <1>1, <2>1
  <1>3. ASSUME NEW p \in a..(a + d - 1)
        PROVE  disk'[p] = Zero
    <2>1. p \in 0..(a + d - 1) /\ ~(p < flen)
      OBVIOUS
    <2> QED BY <1>1, <2>1
  <1>4. \A p \in a..(flen - 1) : FALSE
    OBVIOUS
  <1> QED BY <1>1, <1>2, <1>3, <1>4 DEF Relocated

\* rewrite_header_to_disk, first half: k's data moves with everything behind it.
LEMMA HeadroomSorted ==
  ASSUME Core, StageHeadroom
  PROVE  Sorted
  <1> SUFFICES ASSUME NEW k, k = job.h
               PROVE  Sorted
    OBVIOUS
  <1> DEFINE d == HeadDelta
             a == hdus[k].doff
  <1>1. /\ At("headroom") /\ Advance /\ job.op \in {"header", "insert", "delete"} /\ job.pc = 1
    BY Phases DEF Core, StageHeadroom
  <1>2. Core'
    BY HeadroomStep
  <1>3. /\ k \in DOMAIN hdus /\ flen \in Nat /\ hdus \in Seq(HduRec) /\ a \in Nat /\ hdus[k].hoff \in Nat
        /\ hdus[k].hblk \in Nat /\ job.c \in Cards /\ Extent(hdus[k].c) \in Nat
        /\ ClaimFacts /\ ClaimFacts' /\ job' \in JobRec /\ job \in JobRec
        /\ \A l \in DOMAIN hdus : Claim(l) \in Nat
    BY <1>1, Staged
  <1>4. job'.op = job.op /\ job'.h = k /\ job'.c = job.c /\ job'.pc = 2
    <2>1. job.pc # Len(Program(job.op))
      BY <1>1 DEF Program
    <2> QED BY <1>1, <2>1, Staged
  <1>5. d \in Int
    BY <1>3, HeaderBlocksType DEF HeadDelta
  <1>6. Owned(k) = Claim(k) /\ Owned(k)' = Claim(k)' /\ Claim(k) = Extent(hdus[k].c)
    <2>1. Extent(job.c) = Extent(hdus[k].c) \/ job.op # "header"
      BY <1>1 DEF Core, JobFits, At
    <2> QED BY <1>1, <1>3, <1>4, <2>1 DEF Owned, ClaimFacts, Grow
  <1>7. CASE d <= 0
    <2>1. UNCHANGED <<disk, flen, hdus>>
      <3>1. ~(HeadDelta > 0)
        BY <1>5, <1>7
      <3> QED BY <3>1 DEF StageHeadroom
    <2>2. Claim(k)' = Claim(k)
      BY <1>1, <1>3, <1>4, <1>6, <2>1 DEF ClaimFacts, Grow
    <2>3. \A l \in DOMAIN hdus : l = job.h => Owned(l)' <= Owned(l)
      BY <1>3, <1>6, <2>2
    <2> QED BY <1>2, <2>1, <2>3, NothingWritten
  <1>8. CASE d > 0
    <2>1. hdus' = Grown(Moved(a, d), k, d) /\ ShiftTail(a, d, FALSE)
      BY <1>8 DEF StageHeadroom, Grown
    <2>2. a <= flen /\ (\A l \in DOMAIN hdus : k < l => a <= hdus[l].hoff)
      <3>1. a + Claim(k) <= flen /\ Claim(k) \in Nat
        BY <1>3, Order
      <3>2. ASSUME NEW l \in DOMAIN hdus, k < l
            PROVE  a <= hdus[l].hoff
        <4>1. a + Claim(k) <= hdus[l].hoff /\ hdus[l].hoff \in Nat
          BY <1>3, <3>2, Order, LayoutFacts
        <4> QED BY <1>3, <3>1, <4>1
      <3> QED BY <1>3, <3>1, <3>2
    <2> HIDE DEF a, d
    <2>3. d \in Nat /\ a + d >= 0 /\ a \in Nat /\ a <= a + d
      BY <1>3, <1>5, <1>8
    <2>4. Relocated(a, d) /\ flen' = flen + d
      BY <1>3, <2>1, <2>2, <2>3, ShiftRelocates
    <2>5. Cut(k, a, d)
      BY SMTT(30), <1>3, <2>2, <2>3, CutAfter DEF a
    <2>6. Slipped(k, d, d)
      BY <1>3, <2>1, <2>3, <2>5, SlippedRecords
    <2>7. OthersCarried
      <3>1. hdus[job.h].doff <= a /\ hdus[job.h].doff <= a + d
        BY <1>3, <2>3 DEF a
      <3> QED BY <1>3, <2>3, <2>4, <2>5, <2>6, <3>1, ShiftCarries
    <2>8. DOMAIN hdus' = DOMAIN hdus /\ hdus'[k].doff = a + d /\ hdus'[k].c = hdus[k].c
          /\ hdus' \in Seq(HduRec)
      BY <1>3, <2>6 DEF Slipped, a
    <2>9. Claim(k)' = Extent(hdus[k].c)
      <3>1. Extent(job.c) = Extent(hdus[k].c) \/ job.op # "header"
        BY <1>1 DEF Core, JobFits, At
      <3> QED BY <1>1, <1>3, <1>4, <2>8, <3>1 DEF ClaimFacts, Grow
    <2>10. Keeps(k)
      <3> SUFFICES ASSUME NEW i \in 0..(Owned(k)' - 1)
                   PROVE  i < Owned(k) /\ At0(k, i)' = At0(k, i)
        BY DEF Keeps
      <3>1. i \in Nat /\ i < Owned(k) /\ a + Owned(k) <= flen /\ Owned(k) \in Nat
        BY <1>3, <1>6, <2>9, OwnedIs DEF a
      <3>2. a + i \in a..(flen - 1)
        BY <1>3, <2>3, <3>1
      <3>3. disk'[(a + i) + d] = disk[a + i]
        BY <2>4, <3>2 DEF Relocated
      <3>4. hdus'[k].doff + i = (a + i) + d
        BY <2>3, <2>8, <3>1
      <3> QED BY <3>1, <3>3, <3>4 DEF At0, a
    <2>11. HeadKept(k)
      <3>1. hdus'[k].hoff = hdus[k].hoff /\ hdus'[k].hblk = hdus[k].hblk + d
        BY <2>6 DEF Slipped
      <3>2. hdus'[k].hblk > hdus[k].hblk
        BY <1>3, <1>8, <2>3, <3>1
      <3> QED BY <1>1, <2>8, <3>1, <3>2 DEF HeadKept
    <2> QED BY <2>7, <2>8, <2>10, <2>11 DEF Sorted
  <1> QED BY <1>5, <1>7, <1>8

\* The section grows: what is added is zeroed.
LEMMA RoomSorted ==
  ASSUME Core, StageRoom
  PROVE  Sorted
  <1> SUFFICES ASSUME NEW k, k = job.h
               PROVE  Sorted
    OBVIOUS
  <1> DEFINE d == Extent(job.c) - Extent(hdus[k].c)
             a == hdus[k].doff + Extent(hdus[k].c)
  <1>1. /\ At("room") /\ Advance
        /\ (job.op \in Grow /\ job.pc = 1) \/ (job.op = "insert" /\ job.pc = 3)
    BY Phases DEF Core, StageRoom
  <1>2. Core'
    BY RoomStep
  <1>3. /\ k \in DOMAIN hdus /\ flen \in Nat /\ hdus \in Seq(HduRec) /\ hdus[k].doff \in Nat
        /\ Extent(hdus[k].c) \in Nat /\ Extent(job.c) \in Nat /\ d \in Int /\ a \in Nat
        /\ ClaimFacts /\ ClaimFacts' /\ job' \in JobRec /\ job \in JobRec
        /\ \A l \in DOMAIN hdus : Claim(l) \in Nat
    BY <1>1, Staged
  <1>4. job'.op = job.op /\ job'.h = k /\ job'.c = job.c /\ job'.pc = job.pc + 1
    <2>1. job.pc # Len(Program(job.op))
      BY <1>1 DEF Program, Grow
    <2> QED BY <1>1, <2>1, Staged
  <1>5. Owned(k) = Extent(hdus[k].c) /\ Owned(k)' = Claim(k)'
    BY <1>1, <1>3, <1>4 DEF Owned, ClaimFacts, Grow
  <1>6. RoomAt = a /\ RoomDelta = d
    BY <1>1, RoomValues
  <1>7. Boundary(k, a)
    <2>1. Claim(k) = Extent(hdus[k].c)
      BY <1>1, <1>3 DEF ClaimFacts
    <2> QED BY SMTT(30), <1>3, <2>1, Order DEF Boundary
  <1>8. CASE d <= 0
    <2>1. UNCHANGED <<disk, flen, hdus>>
      BY <1>6, <1>8 DEF StageRoom
    <2>2. Claim(k)' = Extent(hdus[k].c)
      BY <1>1, <1>3, <1>4, <1>8, <2>1 DEF ClaimFacts
    <2>3. \A l \in DOMAIN hdus : l = job.h => Owned(l)' <= Owned(l)
      BY <1>3, <1>5, <2>2
    <2> QED BY <1>2, <2>1, <2>3, NothingWritten
  <1>9. CASE d > 0
    <2>1. \/ flen > a /\ ShiftTail(a, d, TRUE) /\ hdus' = Moved(a, d)
          \/ flen <= a /\ SetLen(a + d) /\ hdus' = hdus
      <3>1. ~(RoomDelta <= 0)
        BY <1>3, <1>6, <1>9
      <3>2. CASE flen > a
        BY <1>6, <3>1, <3>2 DEF StageRoom
      <3>3. CASE flen <= a
        <4>1. ~(flen > RoomAt)
          BY <1>3, <1>6, <3>3
        <4> QED BY <1>6, <3>1, <3>3, <4>1 DEF StageRoom
      <3>4. flen > a \/ flen <= a
        BY <1>3
      <3> QED BY <3>2, <3>3, <3>4
    <2>2. a <= flen /\ d \in Nat /\ a + d >= 0
      BY <1>3, <1>7, <1>9 DEF Boundary
    <2>0. /\ hdus[k].doff \in Nat /\ Extent(hdus[k].c) \in Nat /\ Extent(job.c) \in Nat
          /\ a = hdus[k].doff + Extent(hdus[k].c) /\ d = Extent(job.c) - Extent(hdus[k].c)
      BY <1>3
    <2> HIDE DEF a, d
    <2>3. /\ Relocated(a, d) /\ Resized(a, d)
          /\ \A p \in a..(a + d - 1) : disk'[p] = Zero
      <3>1. CASE flen > a /\ ShiftTail(a, d, TRUE) /\ hdus' = Moved(a, d)
        BY <1>3, <2>2, <3>1, ShiftRelocates DEF Resized
      <3>2. CASE flen <= a /\ SetLen(a + d) /\ hdus' = hdus
        <4>1. a = flen
          BY <1>3, <2>2, <3>2
        <4>2. flen' = flen + d
          BY <1>3, <2>2, <3>2, <4>1, SetLenRelocates
        <4> QED BY <1>3, <2>2, <3>2, <4>1, <4>2, SetLenRelocates DEF Resized
      <3> QED BY <2>1, <3>1, <3>2
    <2>4. Cut(k, a, d) /\ Slipped(k, d, 0)
      BY <1>3, <1>7, <2>2, <2>3, ResizedRecords
    <2>5. OthersCarried /\ HeadKept(k)
      <3>1. hdus[job.h].doff <= a /\ hdus[job.h].doff <= a + d
        BY <1>3, <2>2 DEF a
      <3> QED BY <1>3, <2>2, <2>3, <2>4, <3>1, ShiftCarries, ShiftKeepsHead
    <2>6. DOMAIN hdus' = DOMAIN hdus /\ hdus'[k].doff = hdus[k].doff /\ hdus'[k].c = hdus[k].c
          /\ hdus' \in Seq(HduRec)
      BY <1>3, <2>4 DEF Slipped
    <2>7. Claim(k)' = Extent(job.c)
      BY <1>1, <1>3, <1>4, <1>9, <2>6 DEF ClaimFacts, d
    <2>8. Keeps(k)
      <3> SUFFICES ASSUME NEW i \in 0..(Owned(k)' - 1)
                   PROVE  \/ At0(k, i)' = Zero
                          \/ i < Owned(k) /\ At0(k, i)' = At0(k, i)
        BY DEF Keeps
      <3>0. i \in 0..(Extent(job.c) - 1)
        BY <1>5, <2>7
      <3>1. At0(k, i)' = disk'[hdus[k].doff + i] /\ At0(k, i) = disk[hdus[k].doff + i]
        BY <2>6 DEF At0
      <3>2. CASE i < Extent(hdus[k].c)
        <4>1. hdus[k].doff + i \in 0..(a - 1) /\ hdus[k].doff + i < a + d
          BY <2>0, <2>2, <3>0, <3>2
        <4> QED BY <1>5, <2>3, <3>1, <3>2, <4>1 DEF Relocated
      <3>3. CASE i >= Extent(hdus[k].c)
        <4>1. hdus[k].doff + i \in a..(a + d - 1)
          BY <2>0, <3>0, <3>3
        <4> QED BY <2>3, <3>1, <4>1
      <3> QED BY <1>3, <3>0, <3>2, <3>3
    <2> QED BY <2>5, <2>6, <2>8 DEF Sorted
  <1> QED BY <1>3, <1>8, <1>9

\* grow_file_to_at_least: the staging area lies past what k owns.
LEMMA StagingSorted ==
  ASSUME Core, StageStaging
  PROVE  Sorted
  <1> SUFFICES ASSUME NEW k, k = job.h
               PROVE  Sorted
    OBVIOUS
  <1> DEFINE a == FreeUpTo(k)
             d == StagingDelta
             n == Extent(hdus[k].c)
  <1>1. At("staging") /\ Advance /\ job.op = "repack_staged" /\ job.pc = 1
    BY Phases DEF Core, StageStaging
  <1>2. Core'
    BY StagingStep
  <1>3. /\ k \in DOMAIN hdus /\ flen \in Nat /\ hdus \in Seq(HduRec) /\ hdus[k].doff \in Nat
        /\ n \in Nat /\ ClaimFacts /\ ClaimFacts' /\ job' \in JobRec /\ job \in JobRec
        /\ \A l \in DOMAIN hdus : Claim(l) \in Nat
    BY <1>1, Staged
  <1>4. job'.op = job.op /\ job'.h = k /\ job'.c = job.c /\ job'.pc = 2
    <2>1. job.pc # Len(Program(job.op))
      BY <1>1 DEF Program
    <2> QED BY <1>1, <2>1, Staged
  <1>5. /\ Claim(k) = n /\ Owned(k) = n /\ StagedExtent(k) \in Nat /\ hdus[k].c.heap > 0
    BY <1>1, <1>3, StagedValues DEF Owned, ClaimFacts, Core, JobFits, At
  <1>6. /\ Boundary(k, a) /\ a \in Nat /\ a <= flen /\ (Following(k) = {} => a = flen)
        /\ hdus[k].doff + n <= a
    BY <1>3, <1>5, StagingBoundary DEF Boundary
  <1>7. d \in Int /\ d = hdus[k].doff + StagedExtent(k) - a
    BY <1>3, <1>5, <1>6 DEF StagingDelta
  <1>8. Owned(k)' = Extent(hdus'[k].c)
    BY <1>1, <1>4 DEF Owned, Extent
  <1>9. CASE d <= 0
    <2>1. UNCHANGED <<disk, flen, hdus>>
      BY <1>9 DEF StageStaging
    <2>2. \A l \in DOMAIN hdus : l = job.h => Owned(l)' <= Owned(l)
      BY <1>3, <1>5, <1>8, <2>1
    <2> QED BY <1>2, <2>1, <2>2, NothingWritten
  <1>10. CASE d > 0
    <2>1. \/ Following(k) # {} /\ ShiftTail(a, d, FALSE) /\ hdus' = Moved(a, d)
          \/ Following(k) = {} /\ SetLen(a + d) /\ hdus' = hdus
      <3>1. ~(StagingDelta <= 0)
        BY <1>7, <1>10
      <3> QED BY <3>1 DEF StageStaging
    <2>0. /\ hdus[k].doff \in Nat /\ Extent(hdus[k].c) \in Nat /\ n = Extent(hdus[k].c)
          /\ hdus[k].doff + n <= a
      BY <1>3, <1>6
    <2> HIDE DEF a, d, n
    <2>11. Owned(k) = n
      BY <1>5
    <2>2. a \in Nat /\ d \in Nat /\ a + d >= 0
      BY <1>6, <1>7, <1>10
    <2>3. Relocated(a, d) /\ Resized(a, d)
      <3>1. CASE Following(k) # {} /\ ShiftTail(a, d, FALSE) /\ hdus' = Moved(a, d)
        BY <1>3, <1>6, <2>2, <3>1, ShiftRelocates DEF Resized
      <3>2. CASE Following(k) = {} /\ SetLen(a + d) /\ hdus' = hdus
        <4>1. a = flen /\ flen \in Nat /\ d \in Int /\ SetLen(a + d)
          BY <1>3, <1>6, <1>7, <3>2
        <4>2. Relocated(a, d) /\ flen' = flen + d
          BY ONLY <2>2, <4>1, SetLenRelocates
        <4>3. flen <= a /\ flen' = a + d
          BY <4>1, <4>2
        <4> QED BY <3>2, <4>2, <4>3 DEF Resized
      <3> QED BY <2>1, <3>1, <3>2
    <2>4. Cut(k, a, d) /\ Slipped(k, d, 0)
      <3>1. d \in Int /\ Boundary(k, a) /\ Resized(a, d) /\ a + d >= 0 /\ Core
        BY <1>6, <2>2, <2>3
      <3> QED BY ONLY <3>1, ResizedRecords
    <2>5. OthersCarried /\ HeadKept(k)
      <3>1. hdus[job.h].doff <= a /\ hdus[job.h].doff <= a + d
        BY <2>0, <2>2
      <3> QED BY <1>3, <2>2, <2>3, <2>4, <3>1, ShiftCarries, ShiftKeepsHead
    <2>6. DOMAIN hdus' = DOMAIN hdus /\ hdus'[k].doff = hdus[k].doff /\ hdus'[k].c = hdus[k].c
      BY <1>3, <2>4 DEF Slipped
    <2>7. Keeps(k)
      <3> SUFFICES ASSUME NEW i \in 0..(Owned(k)' - 1)
                   PROVE  i < Owned(k) /\ At0(k, i)' = At0(k, i)
        BY DEF Keeps
      <3>1. i \in 0..(n - 1)
        BY <1>8, <2>0, <2>6
      <3>2. hdus[k].doff + i \in 0..(a - 1) /\ hdus[k].doff + i < a + d /\ i < n
        BY <2>0, <2>2, <3>1
      <3>3. disk'[hdus[k].doff + i] = disk[hdus[k].doff + i]
        BY <2>3, <3>2 DEF Relocated
      <3> QED BY <2>6, <2>11, <3>2, <3>3 DEF At0
    <2> QED BY <2>5, <2>6, <2>7 DEF Sorted
  <1> QED BY <1>7, <1>9, <1>10

\* shift_file_tail_backward_and_update_offsets: what k keeps stays in place.
LEMMA ShrinkSorted ==
  ASSUME Core, StageShrink
  PROVE  Sorted
  <1> SUFFICES ASSUME NEW k, k = job.h
               PROVE  Sorted
    OBVIOUS
  <1> DEFINE a == hdus[k].doff + StagedExtent(k)
             d == StagedExtent(k) - Extent(job.c)
  <1>1. /\ At("shrink") /\ Advance
        /\ \/ job.op = "repack" /\ job.pc = 2
           \/ job.op = "repack_staged" /\ job.pc = 3
           \/ job.op = "delete" /\ job.pc = 4
    BY Phases DEF Core, StageShrink
  <1>2. Core'
    BY ShrinkStep
  <1>3. /\ k \in DOMAIN hdus /\ flen \in Nat /\ hdus \in Seq(HduRec) /\ hdus[k].doff \in Nat
        /\ Extent(hdus[k].c) \in Nat /\ Extent(job.c) \in Nat
        /\ ClaimFacts /\ ClaimFacts' /\ job' \in JobRec /\ job \in JobRec
        /\ \A l \in DOMAIN hdus : Claim(l) \in Nat
    BY <1>1, Staged
  <1>4. job'.op = job.op /\ job'.h = k /\ job'.c = job.c /\ job'.pc = job.pc + 1
    <2>1. job.pc # Len(Program(job.op))
      BY <1>1 DEF Program
    <2> QED BY <1>1, <2>1, Staged
  <1>5. /\ StagedExtent(k) \in Nat /\ Extent(hdus[k].c) <= StagedExtent(k)
        /\ Extent(job.c) <= Extent(hdus[k].c)
    BY <1>1, StagedValues DEF Core, JobFits, At
  <1>6. Claim(k) = StagedExtent(k) /\ Owned(k) = StagedExtent(k)
    BY <1>1, <1>3 DEF ClaimFacts, Owned
  <1>7. /\ d \in Nat /\ a \in Nat /\ a + (-d) = hdus[k].doff + Extent(job.c)
        /\ Boundary(k, a) /\ a <= flen
    <2>1. d \in Nat /\ a \in Nat /\ hdus[k].doff <= a /\ a + (-d) = hdus[k].doff + Extent(job.c)
      BY <1>3, <1>5
    <2>2. a <= flen /\ \A l \in DOMAIN hdus : k < l => a <= hdus[l].hoff
      BY <1>3, <1>6, Order
    <2> HIDE DEF a, d
    <2> QED BY <1>3, <2>1, <2>2 DEF Boundary
  <1>8. ShrinkDelta = d
    BY DEF ShrinkDelta
  <1>9. hdus' \in Seq(HduRec) /\ k \in DOMAIN hdus' => Owned(k)' = Extent(job.c)
    BY <1>1, <1>3, <1>4 DEF Owned, ClaimFacts
  <1>10. CASE d = 0
    <2>1. UNCHANGED <<disk, flen, hdus>>
      BY <1>8, <1>10 DEF StageShrink
    <2>2. \A l \in DOMAIN hdus : l = job.h => Owned(l)' <= Owned(l)
      BY <1>3, <1>5, <1>6, <1>9, <2>1
    <2> QED BY <1>2, <2>1, <2>2, NothingWritten
  <1>11. CASE d > 0
    <2>1. \/ /\ flen > a /\ flen' = flen - d /\ hdus' = Moved(a, -d)
             /\ disk' = [p \in 0..(flen - d - 1) |-> IF p >= a - d THEN disk[p + d] ELSE disk[p]]
          \/ flen <= a /\ SetLen(a - d) /\ hdus' = hdus
      <3>1. ~(ShrinkDelta <= 0)
        BY <1>7, <1>8, <1>11
      <3>2. CASE flen > a
        BY <1>8, <3>1, <3>2 DEF StageShrink
      <3>3. CASE ~(flen > a)
        <4>1. SetLen(a - d) /\ hdus' = hdus
          BY <1>8, <3>1, <3>3 DEF StageShrink
        <4>2. flen <= a
          BY <1>3, <1>7, <3>3
        <4> QED BY <4>1, <4>2
      <3> QED BY <3>2, <3>3
    <2>0. /\ hdus[k].doff \in Nat /\ Extent(job.c) \in Nat /\ StagedExtent(k) \in Nat
          /\ Extent(job.c) <= StagedExtent(k) /\ hdus[k].doff <= a
      BY <1>3, <1>5, <1>7
    <2> HIDE DEF a, d
    <2>2. -d \in Int /\ a + (-d) >= 0 /\ a \in Nat /\ d \in Nat
      BY <1>3, <1>7
    <2>3. Relocated(a, -d) /\ Resized(a, -d)
      <3>1. CASE /\ flen > a /\ flen' = flen - d /\ hdus' = Moved(a, -d)
                 /\ disk' = [p \in 0..(flen - d - 1) |-> IF p >= a - d THEN disk[p + d] ELSE disk[p]]
        <4>1. ASSUME NEW p \in 0..(a - 1), p < a + (-d)
              PROVE  disk'[p] = disk[p]
          <5>1. p \in 0..(flen - d - 1) /\ ~(p >= a - d)
            BY <1>3, <2>2, <3>1, <4>1
          <5> QED BY <3>1, <5>1
        <4>2. ASSUME NEW p \in a..(flen - 1)
              PROVE  disk'[p + (-d)] = disk[p]
          <5>1. p + (-d) \in 0..(flen - d - 1) /\ p + (-d) >= a - d /\ (p + (-d)) + d = p
            BY <1>3, <2>2
          <5> QED BY <3>1, <5>1
        <4>3. flen' = flen + (-d)
          BY <1>3, <2>2, <3>1
        <4> QED BY <3>1, <4>1, <4>2, <4>3 DEF Relocated, Resized
      <3>2. CASE flen <= a /\ SetLen(a - d) /\ hdus' = hdus
        <4>1. a = flen /\ a - d = a + (-d)
          BY <1>3, <1>7, <2>2, <3>2
        <4>2. Relocated(a, -d) /\ flen' = flen + (-d)
          BY <1>3, <2>2, <3>2, <4>1, SetLenRelocates
        <4>3. flen' = a + (-d)
          BY <4>1, <4>2
        <4> QED BY <3>2, <4>2, <4>3 DEF Resized
      <3> QED BY <2>1, <3>1, <3>2
    <2>4. Cut(k, a, -d) /\ Slipped(k, -d, 0)
      BY <1>7, <2>2, <2>3, ResizedRecords
    <2>5. OthersCarried /\ HeadKept(k)
      <3>1. hdus[job.h].doff <= a /\ hdus[job.h].doff <= a + (-d)
        BY <1>7, <2>0
      <3> QED BY <1>3, <2>2, <2>3, <2>4, <3>1, ShiftCarries, ShiftKeepsHead
    <2>6. DOMAIN hdus' = DOMAIN hdus /\ hdus'[k].doff = hdus[k].doff + 0 /\ hdus' \in Seq(HduRec)
      BY <1>3, <2>4 DEF Slipped
    <2>7. Keeps(k)
      <3> SUFFICES ASSUME NEW i \in 0..(Owned(k)' - 1)
                   PROVE  i < Owned(k) /\ At0(k, i)' = At0(k, i)
        BY DEF Keeps
      <3>1. i \in 0..(Extent(job.c) - 1)
        BY <1>3, <1>9, <2>6
      <3>2. /\ hdus[k].doff + i \in 0..(a - 1) /\ hdus[k].doff + i < a + (-d)
            /\ i < StagedExtent(k) /\ hdus'[k].doff + i = hdus[k].doff + i
        <4>1. i \in Nat /\ i < Extent(job.c)
          BY <2>0, <3>1
        <4>2. i < StagedExtent(k)
          BY <2>0, <4>1
        <4>3. hdus'[k].doff + i = hdus[k].doff + i
          BY <2>0, <2>6
        <4>4. hdus[k].doff + i < a + (-d)
          BY <1>7, <2>0, <2>2, <4>1
        <4>5. hdus[k].doff + i \in 0..(a - 1)
          BY <2>0, <2>2, <4>1, <4>4
        <4> QED BY <4>2, <4>3, <4>4, <4>5
      <3> QED BY <1>6, <2>3, <3>2 DEF Relocated, At0
    <2> QED BY <2>5, <2>6, <2>7 DEF Sorted
  <1> QED BY <1>7, <1>10, <1>11

\* A stage that writes into k's header, or data into the section, owns no more than
\* before or writes what it comes to own.
LEMMA PutSorted ==
  ASSUME Core, Core', NEW s \in {"rewrite", "puthdr", "data"}, At(s), Advance, hdus' = hdus,
         NEW p \in Int, NEW m \in Int, NEW b, Put(p, m, b), NEW k, k = job.h,
         hdus[k].hoff <= p, p + m <= hdus[k].doff + Claim(k),
         \/ p + m <= hdus[k].doff
         \/ p >= hdus[k].doff /\ \A i \in 0..(m - 1) : b[i] = Data(k),
         Owned(k) # Claim(k) => p = hdus[k].doff /\ m = Claim(k),
         s = "data" => hdus[k].doff <= p
  PROVE  Sorted
  <1>1. /\ k \in DOMAIN hdus /\ flen \in Nat /\ hdus[k].doff \in Nat
        /\ Claim(k) \in Nat
    BY Staged
  <1>2. /\ OthersCarried
        /\ \A q \in 0..(flen - 1) : disk'[q] = IF q \in p..(p + m - 1) THEN b[q - p] ELSE disk[q]
    BY <1>1, PutCarries
  <1>3. Owned(k)' <= Claim(k) /\ Owned(k)' \in Nat /\ hdus[k].doff + Owned(k)' <= flen
    <2>1. Claim(k)' <= Claim(k) /\ Claim(k)' \in Nat
      BY <1>1, WriteClaims
    <2>2. Owned(k)' \in Nat /\ Owned(k)' <= Claim(k)'
      <3>1. OwnedBelow'
        BY OwnedIsBelow, PTL
      <3> QED BY <1>1, <3>1 DEF OwnedBelow
    <2>3. hdus[k].doff + Claim(k) <= flen
      BY <1>1, Order
    <2> QED BY <1>1, <2>1, <2>2, <2>3
  <1>4. Keeps(k)
    <2> SUFFICES ASSUME NEW i \in 0..(Owned(k)' - 1)
                 PROVE  \/ At0(k, i)' = Data(k)
                        \/ i < Owned(k) /\ At0(k, i)' = At0(k, i)
      BY DEF Keeps
    <2> DEFINE q == hdus[k].doff + i
    <2>1. At0(k, i)' = disk'[q] /\ At0(k, i) = disk[q]
      BY DEF At0
    <2>2. i \in Nat /\ i < Claim(k) /\ q \in 0..(flen - 1) /\ q >= hdus[k].doff /\ q - hdus[k].doff = i
      BY <1>1, <1>3
    <2> HIDE DEF q
    <2>3. CASE q \in p..(p + m - 1)
      <3>1. q - p \in 0..(m - 1) /\ ~(p + m <= hdus[k].doff)
        BY <1>1, <2>2, <2>3
      <3>2. b[q - p] = Data(k)
        BY <3>1
      <3> QED BY <1>2, <2>1, <2>2, <2>3, <3>2
    <2>4. CASE q \notin p..(p + m - 1)
      <3>1. Owned(k) = Claim(k)
        <4>1. ~(p = hdus[k].doff /\ m = Claim(k))
          BY <1>1, <2>2, <2>4
        <4> QED BY <4>1
      <3> QED BY <1>2, <2>1, <2>2, <2>4, <3>1
    <2> QED BY <2>3, <2>4
  <1>5. HeadKept(k)
    <2>1. CASE s # "data"
      <3>1. At("rewrite") \/ At("puthdr")
        <4>1. s = "rewrite" \/ s = "puthdr"
          BY <2>1
        <4> QED BY <4>1
      <3>2. hdus'[k].hoff = hdus[k].hoff /\ hdus'[k].c = hdus[k].c
        OBVIOUS
      <3> QED BY <3>1, <3>2 DEF HeadKept
    <2>2. CASE s = "data"
      <3>1. hdus[k].hoff \in Nat /\ hdus[k].doff <= flen
        <4>1. hdus[k].doff + Claim(k) <= flen /\ hdus[k].hoff \in Nat
          BY <1>1, Order, LayoutFacts DEF Core
        <4> QED BY <1>1, <4>1
      <3>2. \A q \in hdus[k].hoff..(hdus[k].doff - 1) : q \in 0..(flen - 1) /\ q \notin p..(p + m - 1)
        BY <1>1, <2>2, <3>1
      <3> QED BY <1>2, <3>2 DEF HeadKept
    <2> QED BY <2>1, <2>2
  <1> QED BY <1>1, <1>2, <1>4, <1>5 DEF Sorted

\* rewrite_header_to_disk, second half.
LEMMA RewriteSorted ==
  ASSUME Core, StageRewrite
  PROVE  Sorted
  <1> SUFFICES ASSUME NEW k, k = job.h
               PROVE  Sorted
    OBVIOUS
  <1>1. At("rewrite") /\ Advance /\ hdus' = hdus /\ job.op # "repack_staged" /\ Core'
    BY Phases, RewriteStep DEF Core, StageRewrite
  <1>2. /\ k \in DOMAIN hdus /\ hdus[k].hoff \in Nat /\ hdus[k].doff \in Nat /\ hdus[k].hblk \in Nat
        /\ hdus[k].doff = hdus[k].hoff + hdus[k].hblk /\ Claim(k) \in Nat
    BY <1>1, Staged
  <1>3. PICK b : Put(hdus[k].hoff, hdus[k].hblk, b)
    BY DEF StageRewrite
  <1>4. /\ hdus[k].hoff <= hdus[k].hoff /\ hdus[k].hoff + hdus[k].hblk <= hdus[k].doff + Claim(k)
        /\ hdus[k].hoff + hdus[k].hblk <= hdus[k].doff /\ hdus[k].hoff \in Int /\ hdus[k].hblk \in Int
    BY <1>2
  <1>5. Owned(k) = Claim(k)
    BY <1>1 DEF Owned
  <1> QED BY <1>1, <1>3, <1>4, <1>5, PutSorted

\* A header written back from the data offset.
LEMMA PutHeaderSorted ==
  ASSUME Core, StagePutHeader
  PROVE  Sorted
  <1> SUFFICES ASSUME NEW k, k = job.h
               PROVE  Sorted
    OBVIOUS
  <1> DEFINE h == HeaderBlocks(job.c)
  <1>1. At("puthdr") /\ Advance /\ hdus' = hdus /\ Core'
    BY PutHeaderStep DEF StagePutHeader
  <1>2. /\ k \in DOMAIN hdus /\ hdus[k].hoff \in Nat /\ hdus[k].doff \in Nat /\ hdus[k].hblk \in Nat
        /\ hdus[k].doff = hdus[k].hoff + hdus[k].hblk /\ Claim(k) \in Nat
        /\ job.c \in Cards /\ job \in JobRec
    BY <1>1, Staged
  <1>3. ~(job.op = "repack_staged" /\ job.pc = 2) /\ Done("headroom")
    <2>1. \/ job.op \in {"extend", "append"} /\ job.pc = 2
          \/ job.op \in {"vla", "setitem", "repack"} /\ job.pc = 3
          \/ job.op = "repack_staged" /\ job.pc = 4
      BY <1>1, Phases DEF Core
    <2> QED BY <2>1 DEF Done, Program
  <1>4. h \in Nat /\ h <= hdus[k].hblk
    <2>1. job # NoJob /\ job.op \notin {"create", "create_first"} /\ JobFits
      BY <1>1, Working
    <2> QED BY <1>2, <1>3, <2>1, HeaderBlocksType DEF JobFits
  <1>5. PICK b : Put(hdus[k].doff - h, h, b)
    BY DEF StagePutHeader
  <1> HIDE DEF h
  <1>6. /\ hdus[k].hoff <= hdus[k].doff - h /\ (hdus[k].doff - h) + h <= hdus[k].doff + Claim(k)
        /\ (hdus[k].doff - h) + h <= hdus[k].doff /\ hdus[k].doff - h \in Int /\ h \in Int
    BY <1>2, <1>4
  <1>7. Owned(k) = Claim(k)
    BY <1>3 DEF Owned
  <1> QED BY <1>1, <1>5, <1>6, <1>7, PutSorted

\* Data is written inside the claim, and over the whole of a staging area.
LEMMA DataSorted ==
  ASSUME Core, StageData
  PROVE  Sorted
  <1> SUFFICES ASSUME NEW k, k = job.h
               PROVE  Sorted
    OBVIOUS
  <1> DEFINE m == CASE job.op = "repack_staged" -> StagedExtent(k)
                    [] job.op \in {"write", "extend", "append"} -> DataBlocks(job.c.main)
                    [] OTHER -> Extent(job.c)
  <1>1. At("data") /\ Advance /\ hdus' = hdus /\ Core'
    BY DataStep DEF StageData
  <1>2. /\ k \in DOMAIN hdus /\ hdus[k].hoff \in Nat /\ hdus[k].doff \in Nat /\ hdus[k].hblk \in Nat
        /\ hdus[k].doff = hdus[k].hoff + hdus[k].hblk /\ Claim(k) \in Nat /\ job.c \in Cards
        /\ Extent(hdus[k].c) \in Nat /\ Extent(job.c) \in Nat
        /\ ClaimFacts /\ job \in JobRec /\ hdus \in Seq(HduRec) /\ hdus[k].c \in Cards
    BY <1>1, Staged, LayoutFacts
  <1>3. \/ job.op \in {"write", "repack"} /\ job.pc = 1
        \/ job.op \in {"extend", "append", "insert"} /\ job.pc = 4
        \/ job.op \in {"vla", "setitem", "repack_staged"} /\ job.pc = 2
        \/ job.op = "delete" /\ job.pc = 3
    BY <1>1, Phases DEF Core
  <1>4. Extent(job.c) <= Claim(k) \/ job.op = "repack_staged"
    <2>1. CASE job.op \in {"repack", "delete"}
      <3>1. Extent(job.c) <= Extent(hdus[k].c)
        BY <1>1, <2>1 DEF Core, JobFits, At
      <3>2. Claim(k) = Extent(hdus[k].c)
        BY <1>2, <1>3, <2>1 DEF ClaimFacts
      <3> QED BY <3>1, <3>2
    <2>2. CASE job.op \in {"write", "insert"} \cup Grow
      BY <1>2, <1>3, <2>2 DEF ClaimFacts, Grow
    <2> QED BY <1>3, <2>1, <2>2 DEF Grow
  <1>5. job.op = "repack_staged" => Claim(k) = StagedExtent(k)
    BY <1>2, <1>3 DEF ClaimFacts
  <1>6. m \in Nat /\ m <= Claim(k) /\ (job.op = "repack_staged" => m = Claim(k))
    <2>1. CASE job.op = "repack_staged"
      BY <1>2, <1>5, <2>1
    <2>2. CASE job.op \in {"write", "extend", "append"}
      <3>1. job.c.main \in Nat /\ job.c.heap \in Nat
        BY <1>2 DEF Cards
      <3>2. DataBlocks(job.c.main) \in Nat /\ DataBlocks(job.c.main) <= Extent(job.c)
        BY <3>1, DataBlocksMono DEF Extent
      <3>3. m = DataBlocks(job.c.main)
        BY <2>2
      <3> HIDE DEF m
      <3> QED BY <1>2, <1>4, <2>2, <3>2, <3>3
    <2>3. CASE job.op \notin {"write", "extend", "append", "repack_staged"}
      <3>1. m = Extent(job.c)
        BY <2>3
      <3> HIDE DEF m
      <3> QED BY <1>2, <1>4, <2>3, <3>1
    <2> QED BY <2>1, <2>2, <2>3
  <1>7. PICK lo \in FirstBlock(m) :
          Put(hdus[k].doff + lo, m - lo, [i \in 0..(m - lo - 1) |-> Data(k)])
    BY DEF StageData
  <1> HIDE DEF m
  <1>8. lo \in Nat /\ (job.op = "repack_staged" => lo = 0)
    <2>1. hdus[k].c.main \in Nat /\ hdus[k].c.heap \in Nat
      BY <1>2 DEF Cards
    <2> QED BY <1>6, <2>1, UpbAssumption DEF FirstBlock
  <1> DEFINE b == [i \in 0..(m - lo - 1) |-> Data(k)]
             p == hdus[k].doff + lo
             n == m - lo
  <1>9. /\ p \in Int /\ n \in Int /\ p >= hdus[k].doff /\ hdus[k].hoff <= p
        /\ p + n <= hdus[k].doff + Claim(k)
        /\ job.op = "repack_staged" => p = hdus[k].doff /\ n = Claim(k)
    <2>1. /\ hdus[k].doff \in Nat /\ hdus[k].hoff \in Nat /\ hdus[k].hoff <= hdus[k].doff
          /\ Claim(k) \in Nat
      BY <1>2
    <2>2. p \in Int /\ n \in Int /\ p >= hdus[k].doff /\ p + n = hdus[k].doff + m
      BY <1>6, <1>8, <2>1
    <2>3. hdus[k].hoff <= p /\ p + n <= hdus[k].doff + Claim(k)
      BY <1>6, <2>1, <2>2
    <2>4. job.op = "repack_staged" => p = hdus[k].doff /\ n = Claim(k)
      BY <1>6, <1>8, <2>1
    <2> QED BY <2>2, <2>3, <2>4
  <1>10. (\A i \in 0..(n - 1) : b[i] = Data(k)) /\ Put(p, n, b)
    <2>1. Put(p, n, b)
      BY <1>7, Zenon
    <2>2. b = [i \in 0..(n - 1) |-> Data(k)]
      OBVIOUS
    <2> HIDE DEF b, p, n
    <2> QED BY <2>1, <2>2
  <1>11. Owned(k) # Claim(k) => job.op = "repack_staged"
    BY DEF Owned
  <1> HIDE DEF b, p, n
  <1> QED BY <1>1, <1>9, <1>10, <1>11, PutSorted

\* A commit writes nothing, and the new cards describe no more than was claimed.
LEMMA CommitSorted ==
  ASSUME Core, StageCommit
  PROVE  Sorted
  <1> SUFFICES ASSUME NEW k, k = job.h
               PROVE  Sorted
    OBVIOUS
  <1>1. /\ DOMAIN hdus' = DOMAIN hdus /\ \A l \in DOMAIN hdus : l # k => hdus'[l] = hdus[l]
        /\ hdus'[k].hoff = hdus[k].hoff /\ hdus'[k].hblk = hdus[k].hblk
        /\ hdus'[k].doff = hdus[k].doff
        /\ Claim(k) \in Nat /\ Extent(job.c) <= Claim(k) /\ Claim(k)' = Extent(job.c)
    BY Committed
  <1>2. At("commit") /\ Advance /\ disk' = disk /\ Core'
    BY CommitStep DEF StageCommit
  <1>3. /\ k \in DOMAIN hdus /\ hdus[k].doff \in Nat /\ Extent(job.c) \in Nat
        /\ job.pc # Len(Program(job.op)) => job'.pc = job.pc + 1
        /\ job.pc = Len(Program(job.op)) => job' = NoJob
    BY <1>2, Staged
  <1>4. job.pc \in 3..5
    BY <1>2, Phases DEF Core
  <1>5. Owned(k) = Claim(k) /\ Owned(k)' = Claim(k)'
    <2>1. job.pc # 2 /\ job'.pc # 2
      BY <1>3, <1>4 DEF NoJob
    <2> QED BY <2>1 DEF Owned
  <1>6. OthersCarried
    BY <1>1, <1>2, StaysCarried DEF OthersCarried
  <1>7. Keeps(k)
    <2>1. \A i \in 0..(Owned(k)' - 1) : i < Owned(k)
      BY <1>1, <1>3, <1>5
    <2> QED BY <1>1, <1>2, <2>1 DEF Keeps, At0
  <1>8. HeadKept(k)
    BY <1>1, <1>2 DEF HeadKept
  <1> QED BY <1>1, <1>6, <1>7, <1>8 DEF Sorted

\* append_header_and_data_to_file: the new HDU's section is zeroed and the others stay.
LEMMA AppendHduHolds ==
  ASSUME Core, Core', NEW k, NEW c \in Cards, AppendHdu(k, c), \A l \in DOMAIN hdus' : l # job'.h,
         \A l \in DOMAIN hdus : l # job.h
  PROVE  OthersCarried /\ (Held => Held')
  <1> DEFINE n == Len(hdus)
             h == HeaderBlocks(c)
             r == [hoff |-> flen, hblk |-> h, doff |-> flen + h, c |-> c]
  <1>1. /\ flen \in Nat /\ hdus \in Seq(HduRec) /\ n \in Nat /\ DOMAIN hdus = 1..n
        /\ h \in Nat /\ Extent(c) \in Nat
    BY LayoutFacts, HeaderBlocksType, ExtentMono DEF Core
  <1>2. /\ hdus' = Append(hdus, r)
        /\ disk' = [p \in 0..(flen + h + Extent(c) - 1) |->
                     IF p < flen THEN disk[p]
                     ELSE IF p < flen + h THEN Header(k, c, p - flen) ELSE Zero]
    BY DEF AppendHdu
  <1>3. /\ DOMAIN hdus' = 1..(n + 1) /\ hdus'[n + 1] = r /\ \A l \in 1..n : hdus'[l] = hdus[l]
    BY <1>1, <1>2
  <1>4. r.doff = flen + h /\ r.c = c
    OBVIOUS
  <1> HIDE DEF n, h, r
  <1>5. ASSUME NEW p \in 0..(flen - 1)
        PROVE  disk'[p] = disk[p]
    <2>1. p \in 0..(flen + h + Extent(c) - 1) /\ p < flen
      BY <1>1
    <2> QED BY <1>2, <2>1
  <1>6. OthersCarried
    BY <1>1, <1>3, <1>5, NothingMoves
  <1>7. ASSUME Held
        PROVE  Held'
    <2> SUFFICES ASSUME NEW l \in 1..(n + 1), NEW i \in 0..(Owned(l)' - 1)
                 PROVE  At0(l, i)' \in {Data(l), Zero}
      BY <1>3 DEF Held, At0
    <2>1. Owned(l)' = Extent(hdus'[l].c)
      BY <1>3 DEF Owned, Claim, Extent
    <2>2. CASE l = n + 1
      <3>1. i \in 0..(Extent(c) - 1) /\ hdus'[l].doff = flen + h
        BY <1>3, <1>4, <2>1, <2>2
      <3>2. /\ flen + h + i \in 0..(flen + h + Extent(c) - 1)
            /\ ~(flen + h + i < flen) /\ ~(flen + h + i < flen + h)
        BY <1>1, <3>1
      <3>3. disk'[flen + h + i] = Zero
        BY <1>2, <3>2
      <3> QED BY <3>1, <3>3 DEF At0
    <2>3. CASE l \in 1..n
      <3>1. hdus'[l] = hdus[l] /\ l # job.h /\ l \in DOMAIN hdus
        BY <1>1, <1>3, <2>3
      <3>2. Owned(l) = Extent(hdus[l].c) /\ Owned(l) \in Nat /\ hdus[l].doff + Owned(l) <= flen
            /\ hdus[l].doff \in Nat
        BY <3>1, OwnedIs, LayoutFacts DEF Core
      <3>3. i \in 0..(Owned(l) - 1) /\ hdus[l].doff + i \in 0..(flen - 1)
        BY <1>1, <2>1, <3>1, <3>2
      <3>4. At0(l, i) \in {Data(l), Zero}
        BY <1>7, <3>1, <3>3 DEF Held
      <3> QED BY <1>5, <3>1, <3>3, <3>4 DEF At0
    <2> QED BY <1>1, <2>2, <2>3
  <1> QED BY <1>6, <1>7

\* Both stages of a create end with an AppendHdu.
LEMMA CreateHolds ==
  ASSUME Core, Core', StagePrimary \/ StageAppend
  PROVE  OthersCarried /\ (Held => Held')
  <1>1. /\ job \in JobRec /\ JobFits /\ hdus \in Seq(HduRec) /\ Len(hdus) \in Nat
        /\ DOMAIN hdus = 1..Len(hdus)
    BY LayoutFacts DEF Core
  <1>2. CASE StagePrimary
    <2> DEFINE c == Card("image", MinCards, 0, 0)
    <2>1. At("primary") /\ AppendHdu(1, c) /\ job' = [job EXCEPT !.h = 2, !.pc = 2]
      BY <1>2 DEF StagePrimary
    <2>2. job # NoJob /\ job.op = "create_first" /\ job.pc = 1
      BY <1>1, <2>1, Phases
    <2>3. c \in Cards
      BY CardsAssumption DEF Card, Cards, Kind
    <2>4. Len(hdus) = 0 /\ DOMAIN hdus = {}
      BY <1>1, <2>2 DEF JobFits
    <2>5. job'.h = 2
      BY <1>1, <2>1, PrimaryRecord
    <2>6. Len(hdus') = 1 /\ hdus' \in Seq(HduRec)
      BY <1>1, <2>1, <2>4 DEF AppendHdu, Core
    <2>7. \A l \in DOMAIN hdus' : l # job'.h
      BY <2>5, <2>6
    <2> HIDE DEF c
    <2> QED BY <2>1, <2>3, <2>4, <2>7, AppendHduHolds
  <1>3. CASE StageAppend
    <2>1. At("append") /\ AppendHdu(job.h, job.c) /\ Advance
      BY <1>3 DEF StageAppend
    <2>2. /\ job # NoJob /\ job.c \in Cards
          /\ \/ job.op = "create" /\ job.pc = 1
             \/ job.op = "create_first" /\ job.pc = 2
      BY <1>1, <2>1, Phases, Running
    <2>3. job' = NoJob
      <3>1. job.pc = Len(Program(job.op))
        BY <2>2 DEF Program
      <3> QED BY <1>1, <2>1, <2>2, <3>1, Advanced
    <2>4. hdus' \in Seq(HduRec)
      BY DEF Core
    <2>5. \A l \in DOMAIN hdus' : l # job'.h
      BY <2>3, <2>4 DEF NoJob
    <2>6. \A l \in DOMAIN hdus : l # job.h
      BY <1>1, <2>2 DEF JobFits
    <2> QED BY <2>1, <2>2, <2>5, <2>6, AppendHduHolds
  <1> QED BY <1>2, <1>3

-----------------------------------------------------------------------------
(* The steps that write nothing.                                           *)

\* Before its first stage an operation owns what the cards say.
FreshOwns == (Core /\ job.pc \in 0..1) => \A k \in DOMAIN hdus : Owned(k) = Extent(hdus[k].c)

\* The cards of an operation that has just begun are those of memory.
LEMMA FreshOwnsCards == FreshOwns
  <1> SUFFICES ASSUME Core, job.pc \in 0..1, NEW k \in DOMAIN hdus
               PROVE  Claim(k) = Extent(hdus[k].c)
    BY DEF FreshOwns, Owned
  <1>1. /\ hdus \in Seq(HduRec) /\ job \in JobRec /\ JobFits /\ ClaimFacts
        /\ DOMAIN hdus = 1..Len(hdus) /\ Len(hdus) \in Nat
    BY ClaimValues, LayoutFacts DEF Core
  <1>2. CASE k # job.h
    BY <1>1, <1>2 DEF ClaimFacts
  <1>3. CASE k = job.h
    <2>1. job # NoJob /\ job.op \notin {"create", "create_first", "none"}
      BY <1>1, <1>3 DEF JobFits, NoJob
    <2>2. job.pc = 1
      BY <1>1, <2>1 DEF JobFits
    <2>3. job.op \in {"header", "write"} => Extent(job.c) = Extent(hdus[k].c)
      BY <1>1, <1>3, <2>1 DEF JobFits
    <2>4. Extent(hdus[k].c) \in Nat
      BY LayoutFacts DEF Core
    <2> QED BY <1>1, <2>1, <2>2, <2>3, <2>4 DEF ClaimFacts, JobRec, Op, Grow
  <1> QED BY <1>2, <1>3

\* No block is written, and nothing is owned that was not.
LEMMA IdleHolds ==
  ASSUME Core, Core', hdus' = hdus, \A p \in 0..(flen - 1) : disk'[p] = disk[p],
         \A k \in DOMAIN hdus : Owned(k)' <= Owned(k)
  PROVE  OthersCarried /\ (Held => Held')
  <1>1. OthersCarried
    BY NothingMoves
  <1>2. ASSUME Held, NEW k \in DOMAIN hdus, NEW i \in 0..(Owned(k)' - 1)
        PROVE  At0(k, i)' \in {Data(k), Zero}
    <2>1. Owned(k)' \in Nat /\ Owned(k)' <= Owned(k)
      <3>1. OwnedBelow'
        BY OwnedIsBelow, PTL
      <3> QED BY <3>1 DEF OwnedBelow
    <2>2. Owned(k) \in Nat /\ hdus[k].doff + Owned(k) <= flen /\ hdus[k].doff \in Nat /\ flen \in Nat
      BY OwnedIs, LayoutFacts DEF Core
    <2>3. i \in 0..(Owned(k) - 1) /\ hdus[k].doff + i \in 0..(flen - 1)
      BY <2>1, <2>2
    <2>4. At0(k, i) \in {Data(k), Zero}
      BY <1>2, <2>3 DEF Held
    <2> QED BY <2>3, <2>4 DEF At0
  <1>3. Held => Held'
    BY <1>2 DEF Held, At0
  <1> QED BY <1>1, <1>3

\* Operations begin, fail without taint, and handles are closed and opened, without a
\* change to the blocks.
LEMMA QuietHolds ==
  ASSUME Core, Core', Operation \/ (Failure /\ ~tainted') \/ Close \/ (Reopen /\ hdus' = hdus)
                      \/ UNCHANGED vars
  PROVE  OthersCarried /\ (Held => Held')
  <1>1. FreshOwns /\ FreshOwns'
    BY FreshOwnsCards, PTL
  <1>2. \A k \in DOMAIN hdus : Extent(hdus[k].c) \in Nat
    BY LayoutFacts DEF Core
  <1>3. CASE Operation
    <2>1. PICK op, k, c : Start(op, k, c)
      BY <1>3, OperationStarts
    <2>2. job.pc = 0 /\ job'.pc = 1 /\ hdus' = hdus /\ disk' = disk
      BY <2>1 DEF Start, NoJob
    <2>3. \A l \in DOMAIN hdus : Owned(l)' <= Owned(l)
      BY <1>1, <1>2, <2>2 DEF FreshOwns, Extent
    <2> QED BY <2>2, <2>3, IdleHolds
  <1>4. CASE Failure /\ ~tainted'
    <2>1. /\ Ample /\ job' = NoJob /\ hdus' = hdus /\ \A p \in 0..(flen - 1) : disk'[p] = disk[p]
      BY <1>4, FailureLeaves
    <2>2. \A l \in DOMAIN hdus : Owned(l)' = Extent(hdus[l].c)
      BY <1>1, <2>1 DEF FreshOwns, Extent, NoJob
    <2>3. \A l \in DOMAIN hdus : Extent(hdus[l].c) <= Owned(l)
      BY <1>2, <2>1 DEF Ample, Owned
    <2> QED BY <2>1, <2>2, <2>3, IdleHolds
  <1>5. CASE Close \/ (Reopen /\ hdus' = hdus) \/ UNCHANGED vars
    <2>1. hdus' = hdus /\ disk' = disk /\ job' = job
      BY <1>5 DEF Close, Reopen, vars
    <2>2. \A l \in DOMAIN hdus : Owned(l)' = Owned(l) /\ Owned(l) \in Nat
      <3>1. \A l \in DOMAIN hdus : Owned(l)' = Owned(l)
        BY <2>1 DEF Owned, Claim, Extent, Done, StagedExtent
      <3> QED BY <3>1, OwnedIs
    <2>3. \A l \in DOMAIN hdus : Owned(l)' <= Owned(l)
      BY <2>2
    <2> QED BY <2>1, <2>3, IdleHolds
  <1> QED BY <1>3, <1>4, <1>5

-----------------------------------------------------------------------------
(* The theorems.                                                           *)

\* A step between trusted states carries the other HDUs' blocks along and leaves every
\* HDU's own blocks to it.
LEMMA ContentStep ==
  ASSUME Core, [Next]_vars, Trusted'
  PROVE  OthersCarried /\ (Held => Held')
  <1>1. Core'
    BY CoreStep
  <1>2. flaws' = {} /\ ~tainted' /\ torn' # "crash"
    BY DEF Trusted
  <1>3. CASE StagePrimary \/ StageAppend
    BY <1>1, <1>3, CreateHolds
  <1>4. CASE \/ StageHeadroom \/ StageRewrite \/ StagePutHeader \/ StageRoom
             \/ StageStaging \/ StageData \/ StageShrink \/ StageCommit
    <2>1. Sorted
      BY <1>4, HeadroomSorted, RewriteSorted, PutHeaderSorted, RoomSorted, StagingSorted,
         DataSorted, ShrinkSorted, CommitSorted
    <2>2. /\ job # NoJob /\ Advance
      BY <1>4 DEF StageHeadroom, StageRewrite, StagePutHeader, StageRoom, StageStaging,
         StageData, StageShrink, StageCommit, At
    <2>3. job'.h = job.h \/ job'.h = 0
      BY <2>2, Advanced DEF Core, NoJob
    <2>4. \A l \in DOMAIN hdus : l # job.h => l # job'.h
      BY <2>3, LayoutFacts DEF Core
    <2> QED BY <1>1, <2>1, <2>4, SortedHolds DEF Sorted
  <1>5. CASE Operation \/ Failure \/ Close \/ UNCHANGED vars
    BY <1>1, <1>2, <1>5, QuietHolds
  <1>6. CASE Crash
    BY <1>2, <1>6 DEF Crash
  <1>7. CASE Reopen
    <2>1. hdus' = hdus
      BY <1>2, <1>7 DEF Reopen
    <2> QED BY <1>1, <1>7, <2>1, QuietHolds
  <1> QED BY <1>3, <1>4, <1>5, <1>6, <1>7 DEF Next, StageStep

\* An HDU that was carried shows the same blocks.
LEMMA CarriedImage ==
  ASSUME Core, NEW l \in DOMAIN hdus, l # job.h, NEW d \in Int, Carried(l, d)
  PROVE  Image(l)' = Image(l)
  <1>1. /\ hdus[l].hoff \in Nat /\ hdus[l].doff \in Nat /\ End(l) \in Nat
        /\ End(l) = hdus[l].doff + Extent(hdus[l].c) /\ Extent(hdus[l].c) \in Nat
    BY Elsewhere
  <1>2. /\ hdus'[l].hoff = hdus[l].hoff + d /\ hdus'[l].doff = hdus[l].doff + d
        /\ hdus'[l].c = hdus[l].c
    BY DEF Carried
  <1>3. End(l)' = End(l) + d
    BY <1>1, <1>2 DEF End, Extent
  <1>4. End(l)' - hdus'[l].hoff - 1 = End(l) - hdus[l].hoff - 1
    BY <1>1, <1>2, <1>3
  <1>5. ASSUME NEW i \in 0..(End(l) - hdus[l].hoff - 1)
        PROVE  disk'[hdus'[l].hoff + i] = disk[hdus[l].hoff + i]
    <2>1. /\ hdus[l].hoff + i \in hdus[l].hoff..(End(l) - 1)
          /\ hdus'[l].hoff + i = (hdus[l].hoff + i) + d
      BY <1>1, <1>2
    <2> QED BY <2>1 DEF Carried
  <1> QED BY <1>4, <1>5 DEF Image

\* The blocks each HDU owns hold its data or zeros, at every stage.
ContentInv == Trusted => Held

\* ContentInv is an invariant beside LayoutInv.
THEOREM ContentInvariance == Spec => []ContentInv
  <1>1. Init => ContentInv
    BY DEF Init, ContentInv, Held
  <1>2. LayoutInv /\ ContentInv /\ [Next]_vars => ContentInv'
    <2> SUFFICES ASSUME LayoutInv, ContentInv, [Next]_vars, Trusted' PROVE Held'
      BY DEF ContentInv
    <2>1. Quiet /\ (Trusted => Core)
      BY DEF LayoutInv, Quiet, Core
    <2>2. Core /\ Held
      BY <2>1, TrustIsNotRegained DEF ContentInv
    <2> QED BY <2>2, ContentStep
  <1> QED BY <1>1, <1>2, LayoutInvariance, PTL DEF Spec

\* No HDU's data section holds a block of a header or of another HDU, for every number
\* and size of HDUs: zero_fill_range and set_len clear what an operation adds before its
\* cards count it as data, and a shift never leaves a stale block inside a section.
THEOREM DataIsOwned == Spec => []DataOwned
  <1>1. LayoutInv /\ ContentInv => DataOwned
    <2> SUFFICES ASSUME LayoutInv, ContentInv, Trusted, job = NoJob, NEW k \in DOMAIN hdus,
                        NEW p \in hdus[k].doff..(End(k) - 1)
                 PROVE  disk[p] \in {Data(k), Zero}
      BY DEF DataOwned
    <2>1. Core /\ Held
      BY DEF LayoutInv, Core, ContentInv
    <2>2. Owned(k) = Extent(hdus[k].c)
      BY <2>1, FreshOwnsCards DEF FreshOwns, NoJob
    <2>3. hdus[k].doff \in Nat /\ Extent(hdus[k].c) \in Nat
      BY <2>1, LayoutFacts DEF Core
    <2>4. p - hdus[k].doff \in 0..(Owned(k) - 1) /\ hdus[k].doff + (p - hdus[k].doff) = p
      BY <2>2, <2>3 DEF End
    <2>5. At0(k, p - hdus[k].doff) \in {Data(k), Zero}
      BY <2>1, <2>4 DEF Held
    <2> QED BY <2>4, <2>5 DEF At0
  <1> QED BY <1>1, LayoutInvariance, ContentInvariance, PTL

\* A step of an operation on one HDU leaves header and data of every other HDU as they
\* were, block for block, wherever shift_file_tail_and_update_offsets has put them.
THEOREM OthersStayIntact == Spec => OthersIntact
  <1>1. LayoutInv /\ [Next]_vars =>
          [Trusted' => \A k \in DOMAIN hdus : k # job.h => Image(k)' = Image(k)]_vars
    <2> SUFFICES ASSUME LayoutInv, [Next]_vars, Trusted', NEW k \in DOMAIN hdus, k # job.h
                 PROVE  Image(k)' = Image(k)
      OBVIOUS
    <2>1. Quiet /\ (Trusted => Core)
      BY DEF LayoutInv, Quiet, Core
    <2>2. Core
      BY <2>1, TrustIsNotRegained
    <2>3. PICK d \in Int : Carried(k, d)
      BY <2>2, ContentStep DEF OthersCarried
    <2> QED BY <2>2, <2>3, CarriedImage
  <1> QED BY <1>1, LayoutInvariance, PTL DEF Spec, OthersIntact

-----------------------------------------------------------------------------
(* The headers on disk.                                                    *)

\* The cards that the blocks of HDU k's header show: those of the running operation
\* once it has written them, before memory follows.
Shown(k) ==
    IF k = job.h /\ job.op # "write" /\ Done("puthdr") /\ Done("rewrite") THEN job.c ELSE hdus[k].c

\* A header that needs all its reserved blocks is on disk from the first to the last.
Printed(k) ==
    hdus[k].hblk = HeaderBlocks(Shown(k)) =>
      \A j \in 0..(hdus[k].hblk - 1) : disk[hdus[k].hoff + j] = Header(k, Shown(k), j)

\* Every header is printed, the first HDU starts the file, and an append or an extend
\* writes its data under cards that memory already has.
Prints ==
    /\ \A k \in DOMAIN hdus : Printed(k)
    /\ IF 1 \in DOMAIN hdus THEN hdus[1].hoff = 0 ELSE flen = 0
    /\ job.op \in {"extend", "append"} /\ job.pc = 4 => hdus[job.h].c = job.c

\* The value of Shown in every phase.
ShownFacts ==
  job \in JobRec =>
    \A k \in DOMAIN hdus :
      /\ k # job.h \/ job.op = "write" => Shown(k) = hdus[k].c
      /\ \/ job.op \in {"header", "insert", "delete"} /\ job.pc \in 1..2
         \/ job.op \in {"extend", "append"} /\ job.pc \in 1..2
         \/ job.op \in {"vla", "setitem", "repack"} /\ job.pc \in 1..3
         \/ job.op = "repack_staged" /\ job.pc \in 1..4
         => Shown(k) = hdus[k].c
      /\ /\ k = job.h
         /\ \/ job.op = "header" /\ job.pc = 3
            \/ job.op \in {"insert", "delete"} /\ job.pc \in 3..5
            \/ job.op \in {"extend", "append"} /\ job.pc \in 3..4
            \/ job.op \in {"vla", "setitem", "repack"} /\ job.pc = 4
            \/ job.op = "repack_staged" /\ job.pc = 5
         => Shown(k) = job.c

\* ShownFacts follows from the programs of the operations.
LEMMA ShownValues == ShownFacts
  <1> SUFFICES ASSUME job \in JobRec, NEW k \in DOMAIN hdus
               PROVE  ShownFacts!2!(k)
    BY DEF ShownFacts
  <1>1. k # job.h \/ job.op = "write" => Shown(k) = hdus[k].c
    BY DEF Shown
  <1>2. job.op \in {"header", "insert", "delete"} /\ job.pc \in 1..2 => ~Done("rewrite")
    BY DEF Done, Program
  <1>3. \/ job.op \in {"extend", "append"} /\ job.pc \in 1..2
        \/ job.op \in {"vla", "setitem", "repack"} /\ job.pc \in 1..3
        \/ job.op = "repack_staged" /\ job.pc \in 1..4
        => ~Done("puthdr")
    BY DEF Done, Program
  <1>4. \/ job.op = "header" /\ job.pc = 3
        \/ job.op \in {"insert", "delete"} /\ job.pc \in 3..5
        \/ job.op \in {"extend", "append"} /\ job.pc \in 3..4
        \/ job.op \in {"vla", "setitem", "repack"} /\ job.pc = 4
        \/ job.op = "repack_staged" /\ job.pc = 5
        => Done("rewrite") /\ Done("puthdr") /\ job.op # "write"
    BY DEF Done, Program
  <1> QED BY <1>1, <1>2, <1>3, <1>4 DEF Shown

\* A header is carried along with its HDU.
LEMMA CarriedPrints ==
  ASSUME Core, Core', NEW l \in DOMAIN hdus, l # job.h, l # job'.h, NEW d \in Int, Carried(l, d), Printed(l)
  PROVE  Printed(l)'
  <1>1. /\ hdus[l].hoff \in Nat /\ hdus[l].doff \in Nat /\ End(l) \in Nat /\ hdus[l].doff <= End(l)
        /\ hdus[l].hblk \in Nat /\ hdus[l].doff = hdus[l].hoff + hdus[l].hblk
    BY Elsewhere, LayoutFacts DEF Core, HeadersFit
  <1>2. /\ hdus'[l].hoff = hdus[l].hoff + d /\ hdus'[l].doff = hdus[l].doff + d
        /\ hdus'[l].c = hdus[l].c /\ l \in DOMAIN hdus'
    BY DEF Carried
  <1>3. hdus'[l].hblk = hdus[l].hblk
    <2>1. hdus'[l].doff = hdus'[l].hoff + hdus'[l].hblk
      BY <1>2 DEF Core, HeadersFit
    <2>2. hdus'[l].hblk \in Nat
      <3>1. hdus' \in Seq(HduRec)
        BY DEF Core
      <3>2. hdus'[l] \in HduRec
        BY <1>2, <3>1
      <3> QED BY <3>2 DEF HduRec
    <2> QED BY <1>1, <1>2, <2>1, <2>2
  <1>4. Shown(l) = hdus[l].c /\ Shown(l)' = hdus[l].c
    BY <1>2 DEF Shown
  <1>5. ASSUME NEW j \in 0..(hdus[l].hblk - 1)
        PROVE  disk'[hdus'[l].hoff + j] = disk[hdus[l].hoff + j]
    <2>1. /\ hdus[l].hoff + j \in hdus[l].hoff..(End(l) - 1)
          /\ hdus'[l].hoff + j = (hdus[l].hoff + j) + d
      BY <1>1, <1>2
    <2> QED BY <2>1 DEF Carried
  <1> QED BY <1>3, <1>4, <1>5 DEF Printed, HeaderBlocks, Header

\* A header that is left alone stays printed.
LEMMA KeptPrints ==
  ASSUME Core, NEW k \in DOMAIN hdus, Printed(k), Shown(k)' = Shown(k),
         hdus'[k].hoff = hdus[k].hoff, hdus'[k].hblk = hdus[k].hblk,
         \A p \in hdus[k].hoff..(hdus[k].doff - 1) : disk'[p] = disk[p]
  PROVE  Printed(k)'
  <1>1. /\ hdus[k].hoff \in Nat /\ hdus[k].doff \in Nat
        /\ hdus[k].hblk \in Nat /\ hdus[k].doff = hdus[k].hoff + hdus[k].hblk
    BY LayoutFacts DEF Core, HeadersFit
  <1>2. \A j \in 0..(hdus[k].hblk - 1) : hdus[k].hoff + j \in hdus[k].hoff..(hdus[k].doff - 1)
    BY <1>1
  <1> QED BY <1>2 DEF Printed, HeaderBlocks, Header

\* A stage that does not write the header shows the cards it found: memory follows the
\* disk only in a commit, and an append or an extend commits before it writes its data.
LEMMA ShownStays ==
  ASSUME Core, Prints, NEW s \in {"room", "staging", "data", "shrink", "commit"}, At(s), Advance,
         NEW k, k = job.h, DOMAIN hdus' = DOMAIN hdus,
         hdus'[k].c = IF s = "commit" THEN job.c ELSE hdus[k].c
  PROVE  Shown(k)' = Shown(k)
  <1>1. ShownFacts /\ ShownFacts'
    BY ShownValues, PTL
  <1>2. /\ k \in DOMAIN hdus /\ k \in DOMAIN hdus' /\ job \in JobRec /\ job' \in JobRec
        /\ job.pc # Len(Program(job.op)) =>
              job'.op = job.op /\ job'.h = k /\ job'.c = job.c /\ job'.pc = job.pc + 1
        /\ job.pc = Len(Program(job.op)) => job' = NoJob /\ k # job'.h
    BY Staged
  <1>3. CASE s = "room"
    <2>1. \/ job.op \in Grow /\ job.pc = 1
          \/ job.op = "insert" /\ job.pc = 3
      BY <1>3, Phases DEF Core
    <2>2. job'.op = job.op /\ job'.h = k /\ job'.c = job.c /\ job'.pc = job.pc + 1
      <3>1. job.pc # Len(Program(job.op))
        BY <2>1 DEF Program, Grow
      <3> QED BY <1>2, <3>1
    <2> QED BY <1>1, <1>2, <1>3, <2>1, <2>2 DEF ShownFacts, Grow
  <1>4. CASE s = "staging"
    <2>1. job.op = "repack_staged" /\ job.pc = 1
      BY <1>4, Phases DEF Core
    <2>2. job'.op = job.op /\ job'.h = k /\ job'.c = job.c /\ job'.pc = job.pc + 1
      <3>1. job.pc # Len(Program(job.op))
        BY <2>1 DEF Program
      <3> QED BY <1>2, <3>1
    <2> QED BY <1>1, <1>2, <1>4, <2>1, <2>2 DEF ShownFacts
  <1>5. CASE s = "data"
    <2>1. \/ job.op \in {"write", "repack"} /\ job.pc = 1
          \/ job.op \in {"extend", "append", "insert"} /\ job.pc = 4
          \/ job.op \in {"vla", "setitem", "repack_staged"} /\ job.pc = 2
          \/ job.op = "delete" /\ job.pc = 3
      BY <1>5, Phases DEF Core
    <2>2. CASE job.op \in {"write", "extend", "append"}
      <3>1. job' = NoJob /\ k # job'.h
        <4>1. job.pc = Len(Program(job.op))
          BY <2>1, <2>2 DEF Program
        <4> QED BY <1>2, <4>1
      <3>2. Shown(k)' = hdus[k].c
        BY <1>1, <1>2, <1>5, <3>1 DEF ShownFacts
      <3>3. CASE job.op = "write"
        BY <1>1, <1>2, <3>2, <3>3 DEF ShownFacts
      <3>4. CASE job.op \in {"extend", "append"}
        <4>1. hdus[k].c = job.c
          BY <2>1, <3>4 DEF Prints
        <4>2. Shown(k) = job.c
          BY <1>1, <1>2, <2>1, <3>4 DEF ShownFacts
        <4> QED BY <3>2, <4>1, <4>2
      <3> QED BY <2>2, <3>3, <3>4
    <2>3. CASE job.op \notin {"write", "extend", "append"}
      <3>1. job'.op = job.op /\ job'.h = k /\ job'.c = job.c /\ job'.pc = job.pc + 1
        <4>1. job.pc # Len(Program(job.op))
          BY <2>1, <2>3 DEF Program
        <4> QED BY <1>2, <4>1
      <3> QED BY <1>1, <1>2, <1>5, <2>1, <2>3, <3>1 DEF ShownFacts
    <2> QED BY <2>2, <2>3
  <1>6. CASE s = "shrink"
    <2>1. \/ job.op = "repack" /\ job.pc = 2
          \/ job.op = "repack_staged" /\ job.pc = 3
          \/ job.op = "delete" /\ job.pc = 4
      BY <1>6, Phases DEF Core
    <2>2. job'.op = job.op /\ job'.h = k /\ job'.c = job.c /\ job'.pc = job.pc + 1
      <3>1. job.pc # Len(Program(job.op))
        BY <2>1 DEF Program
      <3> QED BY <1>2, <3>1
    <2> QED BY <1>1, <1>2, <1>6, <2>1, <2>2 DEF ShownFacts
  <1>7. CASE s = "commit"
    <2>1. \/ job.op = "header" /\ job.pc = 3
          \/ job.op \in {"extend", "append"} /\ job.pc = 3
          \/ job.op \in {"vla", "setitem", "repack"} /\ job.pc = 4
          \/ job.op \in {"repack_staged", "insert", "delete"} /\ job.pc = 5
      BY <1>7, Phases DEF Core
    <2>2. Shown(k) = job.c
      BY <1>1, <1>2, <2>1 DEF ShownFacts
    <2>3. CASE job.op \in {"extend", "append"}
      <3>1. job'.op = job.op /\ job'.h = k /\ job'.c = job.c /\ job'.pc = 4
        <4>1. job.pc # Len(Program(job.op))
          BY <2>1, <2>3 DEF Program
        <4> QED BY <1>2, <2>1, <2>3, <4>1
      <3> QED BY <1>1, <1>2, <2>2, <2>3, <3>1 DEF ShownFacts
    <2>4. CASE job.op \notin {"extend", "append"}
      <3>1. k # job'.h
        <4>1. job.pc = Len(Program(job.op))
          BY <2>1, <2>4 DEF Program
        <4> QED BY <1>2, <4>1
      <3> QED BY <1>1, <1>2, <1>7, <2>2, <3>1 DEF ShownFacts
    <2> QED BY <2>3, <2>4
  <1> QED BY <1>3, <1>4, <1>5, <1>6, <1>7

\* rewrite_header_to_disk and the header writes of the data paths leave a header that
\* fills its blocks printed in full.
LEMMA WrittenPrints ==
  ASSUME Core, StageRewrite \/ StagePutHeader, NEW k, k = job.h
  PROVE  Printed(k)'
  <1> DEFINE h == HeaderBlocks(job.c)
  <1>1. PICK s \in {"rewrite", "puthdr"} : At(s)
    BY DEF StageRewrite, StagePutHeader
  <1>2. Advance /\ hdus' = hdus
    BY DEF StageRewrite, StagePutHeader
  <1>3. /\ k \in DOMAIN hdus /\ hdus[k].hoff \in Nat /\ hdus[k].doff \in Nat /\ hdus[k].hblk \in Nat
        /\ hdus[k].doff = hdus[k].hoff + hdus[k].hblk /\ Claim(k) \in Nat /\ flen \in Nat
        /\ job.c \in Cards /\ job \in JobRec /\ job' \in JobRec
        /\ job.pc # Len(Program(job.op)) =>
              job'.op = job.op /\ job'.h = k /\ job'.c = job.c /\ job'.pc = job.pc + 1
    BY <1>1, <1>2, Staged
  <1>4. Shown(k)' = job.c
    <2>1. \/ job.op \in {"header", "insert", "delete"} /\ job.pc = 2
          \/ job.op \in {"extend", "append"} /\ job.pc = 2
          \/ job.op \in {"vla", "setitem", "repack"} /\ job.pc = 3
          \/ job.op = "repack_staged" /\ job.pc = 4
      BY <1>1, Phases DEF Core
    <2>2. job'.op = job.op /\ job'.h = k /\ job'.c = job.c /\ job'.pc = job.pc + 1
      <3>1. job.pc # Len(Program(job.op))
        BY <2>1 DEF Program
      <3> QED BY <1>3, <3>1
    <2>3. ShownFacts'
      BY ShownValues, PTL
    <2> QED BY <1>2, <1>3, <2>1, <2>2, <2>3 DEF ShownFacts
  <1> SUFFICES ASSUME hdus[k].hblk = h, NEW j \in 0..(h - 1)
               PROVE  disk'[hdus[k].hoff + j] = Header(k, job.c, j)
    <2>1. HeaderBlocks(Shown(k))' = h
      BY <1>4 DEF HeaderBlocks
    <2> QED BY <1>2, <1>4, <2>1 DEF Printed, Header
  <1>5. PICK b : /\ Put(hdus[k].hoff, h, b)
                 /\ \A i \in 0..(h - 1) : b[i] = Header(k, job.c, i)
    <2>1. CASE StageRewrite
      <3> DEFINE b == [i \in 0..(hdus[k].hblk - 1) |-> IF i < h THEN Header(k, job.c, i) ELSE Blank]
      <3>1. Put(hdus[k].hoff, h, b)
        BY <2>1 DEF StageRewrite
      <3>2. \A i \in 0..(h - 1) : b[i] = Header(k, job.c, i)
        BY <1>3
      <3> QED BY <3>1, <3>2
    <2>2. CASE StagePutHeader
      <3> DEFINE b == [i \in 0..(h - 1) |-> Header(k, job.c, i)]
      <3>1. Put(hdus[k].doff - h, h, b)
        BY <2>2 DEF StagePutHeader
      <3>2. hdus[k].doff - h = hdus[k].hoff
        BY <1>3
      <3>3. \A i \in 0..(h - 1) : b[i] = Header(k, job.c, i)
        OBVIOUS
      <3> QED BY <3>1, <3>2, <3>3
    <2> QED BY <2>1, <2>2
  <1>6. h \in Nat /\ hdus[k].hoff + h <= hdus[k].doff + Claim(k)
    BY <1>3
  <1> HIDE DEF h
  <1>7. \A q \in 0..(flen - 1) :
          disk'[q] = IF q \in hdus[k].hoff..(hdus[k].hoff + h - 1) THEN b[q - hdus[k].hoff] ELSE disk[q]
    <2>1. /\ job.h \in DOMAIN hdus /\ hdus[job.h].hoff <= hdus[k].hoff /\ hdus[k].hoff \in Int
          /\ hdus[k].hoff + h <= hdus[job.h].doff + Claim(job.h) /\ h \in Int
      BY <1>3, <1>6
    <2> QED BY <1>2, <1>5, <2>1, PutCarries
  <1>8. /\ hdus[k].hoff + j \in 0..(flen - 1) /\ (hdus[k].hoff + j) - hdus[k].hoff = j
        /\ hdus[k].hoff + j \in hdus[k].hoff..(hdus[k].hoff + h - 1)
    <2>1. hdus[k].doff + Claim(k) <= flen
      BY <1>3, Order
    <2>2. hdus[k].hoff \in Nat /\ h \in Nat /\ j \in Nat /\ j < h /\ flen \in Nat
      BY <1>3, <1>6
    <2>3. hdus[k].hoff + h <= flen
      BY <1>3, <1>6, <2>1
    <2> QED BY <2>2, <2>3
  <1> QED BY <1>5, <1>7, <1>8

\* After a stage of an operation its HDU's header is printed again.
LEMMA OwnPrints ==
  ASSUME Core, Core', Sorted, Prints, NEW k, k = job.h,
         \/ StageHeadroom \/ StageRewrite \/ StagePutHeader \/ StageRoom
         \/ StageStaging \/ StageData \/ StageShrink \/ StageCommit
  PROVE  Printed(k)'
  <1>1. CASE StageRewrite \/ StagePutHeader
    BY <1>1, WrittenPrints
  <1>2. CASE StageHeadroom
    <2>1. At("headroom") /\ Advance /\ ~At("rewrite") /\ ~At("puthdr") /\ ~At("commit")
      BY <1>2 DEF StageHeadroom, At
    <2>2. /\ k \in DOMAIN hdus /\ hdus[k].hblk \in Nat /\ job \in JobRec /\ job' \in JobRec
          /\ job.pc # Len(Program(job.op)) =>
               job'.op = job.op /\ job'.h = k /\ job'.c = job.c /\ job'.pc = job.pc + 1
      BY <2>1, Staged
    <2>3. job.op \in {"header", "insert", "delete"} /\ job.pc = 1
      BY <2>1, Phases DEF Core
    <2>4. job'.op = job.op /\ job'.pc = 2
      <3>1. job.pc # Len(Program(job.op))
        BY <2>3 DEF Program
      <3> QED BY <2>2, <2>3, <3>1
    <2>5. HeadKept(k) /\ DOMAIN hdus' = DOMAIN hdus
      BY <2>2 DEF Sorted
    <2>6. Shown(k) = hdus[k].c /\ Shown(k)' = hdus[k].c
      <3>1. ShownFacts /\ ShownFacts'
        BY ShownValues, PTL
      <3> QED BY <2>1, <2>2, <2>3, <2>4, <2>5, <3>1 DEF ShownFacts, HeadKept
    <2>7. CASE hdus'[k].hblk > hdus[k].hblk
      <3>1. HeaderBlocks(hdus[k].c) <= hdus[k].hblk /\ HeaderBlocks(hdus[k].c) \in Nat
        BY <2>2, HeaderBlocksType, LayoutFacts DEF Core, HeadersFit
      <3>2. hdus'[k].hblk \in Nat
        <4>1. hdus' \in Seq(HduRec) /\ k \in DOMAIN hdus'
          BY <2>2, <2>5 DEF Core
        <4>2. hdus'[k] \in HduRec
          BY <4>1
        <4> QED BY <4>2 DEF HduRec
      <3>3. hdus'[k].hblk # HeaderBlocks(hdus[k].c)
        BY <2>2, <2>7, <3>1, <3>2
      <3>4. HeaderBlocks(Shown(k))' = HeaderBlocks(hdus[k].c)
        BY <2>6 DEF HeaderBlocks
      <3> QED BY <3>3, <3>4 DEF Printed
    <2>8. CASE ~(hdus'[k].hblk > hdus[k].hblk)
      <3>1. /\ hdus'[k].hoff = hdus[k].hoff /\ hdus'[k].hblk = hdus[k].hblk
            /\ \A p \in hdus[k].hoff..(hdus[k].doff - 1) : disk'[p] = disk[p]
        BY <2>1, <2>5, <2>8 DEF HeadKept
      <3> QED BY <2>2, <2>6, <3>1, KeptPrints DEF Prints
    <2> QED BY <2>7, <2>8
  <1>3. CASE StageRoom \/ StageStaging \/ StageData \/ StageShrink \/ StageCommit
    <2>1. PICK s \in {"room", "staging", "data", "shrink", "commit"} : At(s) /\ (s = "commit" => StageCommit)
      BY <1>3 DEF StageRoom, StageStaging, StageData, StageShrink, StageCommit, At
    <2>2. Advance
      BY <1>3 DEF StageRoom, StageStaging, StageData, StageShrink, StageCommit
    <2>3. k \in DOMAIN hdus
      BY <2>1, <2>2, Staged
    <2>4. HeadKept(k) /\ DOMAIN hdus' = DOMAIN hdus
      BY <2>3 DEF Sorted
    <2>5. /\ ~At("headroom") /\ ~At("rewrite") /\ ~At("puthdr") /\ (s # "commit" => ~At("commit"))
      BY <2>1 DEF At
    <2>6. hdus'[k].c = IF s = "commit" THEN job.c ELSE hdus[k].c
      <3>1. CASE s = "commit"
        BY <2>1, <3>1, Committed
      <3>2. CASE s # "commit"
        BY <2>4, <2>5, <3>2 DEF HeadKept
      <3> QED BY <3>1, <3>2
    <2>7. Shown(k)' = Shown(k)
      BY <2>1, <2>2, <2>4, <2>6, ShownStays
    <2>8. /\ hdus'[k].hoff = hdus[k].hoff /\ hdus'[k].hblk = hdus[k].hblk
          /\ \A p \in hdus[k].hoff..(hdus[k].doff - 1) : disk'[p] = disk[p]
      BY <2>4, <2>5 DEF HeadKept
    <2> QED BY <2>3, <2>7, <2>8, KeptPrints DEF Prints
  <1> QED BY <1>1, <1>2, <1>3

\* The stages of an operation on an HDU leave every header printed.
LEMMA StagePrints ==
  ASSUME Core, Core', Sorted, Prints,
         \/ StageHeadroom \/ StageRewrite \/ StagePutHeader \/ StageRoom
         \/ StageStaging \/ StageData \/ StageShrink \/ StageCommit
  PROVE  Prints'
  <1> SUFFICES ASSUME NEW k, k = job.h
               PROVE  Prints'
    OBVIOUS
  <1>1. PICK s : At(s) /\ s \notin {"primary", "append"} /\ (s = "commit" => StageCommit)
    BY DEF StageHeadroom, StageRewrite, StagePutHeader, StageRoom, StageStaging, StageData,
           StageShrink, StageCommit, At
  <1>2. Advance
    BY DEF StageHeadroom, StageRewrite, StagePutHeader, StageRoom, StageStaging, StageData,
           StageShrink, StageCommit
  <1>3. /\ k \in DOMAIN hdus /\ k \in Nat \ {0} /\ hdus \in Seq(HduRec) /\ DOMAIN hdus = 1..Len(hdus)
        /\ Len(hdus) \in Nat /\ job \in JobRec
        /\ job.pc # Len(Program(job.op)) =>
              job'.op = job.op /\ job'.h = k /\ job'.c = job.c /\ job'.pc = job.pc + 1
        /\ job.pc = Len(Program(job.op)) => job' = NoJob /\ k # job'.h
    BY <1>1, <1>2, Staged, LayoutFacts
  <1>4. DOMAIN hdus' = DOMAIN hdus /\ OthersCarried /\ HeadKept(k)
    BY <1>3 DEF Sorted
  <1>5. ASSUME NEW l \in DOMAIN hdus'
        PROVE  Printed(l)'
    <2>1. CASE l = k
      BY <2>1, OwnPrints
    <2>2. CASE l # k
      <3>1. l \in DOMAIN hdus /\ l # job.h /\ l # job'.h
        BY <1>3, <1>4, <2>2 DEF NoJob
      <3>2. PICK d \in Int : Carried(l, d)
        BY <1>4, <3>1 DEF OthersCarried
      <3> QED BY <3>1, <3>2, CarriedPrints DEF Prints
    <2> QED BY <2>1, <2>2
  <1>6. 1 \in DOMAIN hdus' /\ hdus'[1].hoff = 0
    <2>1. 1 \in DOMAIN hdus /\ 1 <= k
      BY <1>3
    <2>2. hdus[1].hoff = 0
      BY <2>1 DEF Prints
    <2>3. CASE k = 1
      BY <1>4, <2>1, <2>2, <2>3 DEF HeadKept
    <2>4. CASE k # 1
      <3>1. PICK d \in Int : Carried(1, d)
        BY <1>4, <2>1, <2>4 DEF OthersCarried
      <3>2. hdus'[1].hoff = hdus[1].hoff + 0
        BY <1>3, <2>1, <2>4, <3>1 DEF Carried
      <3> QED BY <1>4, <2>1, <2>2, <3>2
    <2> QED BY <2>3, <2>4
  <1>7. ASSUME job'.op \in {"extend", "append"}, job'.pc = 4
        PROVE  hdus'[job'.h].c = job'.c
    <2>1. job'.op = job.op /\ job'.h = k /\ job'.c = job.c /\ job.pc = 3
      <3>1. job.pc # Len(Program(job.op))
        BY <1>3, <1>7 DEF NoJob
      <3>2. job.pc \in 0..5
        BY <1>3 DEF JobRec
      <3> QED BY <1>3, <1>7, <3>1, <3>2
    <2>2. s = "commit"
      BY <1>1, <1>7, <2>1 DEF At, Program
    <2>3. hdus'[k].c = job.c
      BY <1>1, <2>2, Committed
    <2> QED BY <2>1, <2>3
  <1> QED BY <1>5, <1>6, <1>7 DEF Prints

\* append_header_and_data_to_file prints the new header at the end of the file.
LEMMA AppendHduPrints ==
  ASSUME Core, Core', Prints, NEW k, NEW c \in Cards, AppendHdu(k, c), k = Len(hdus) + 1,
         \A l \in DOMAIN hdus' : l # job'.h, \A l \in DOMAIN hdus : l # job.h,
         job'.op \notin {"extend", "append"}, OthersCarried
  PROVE  Prints'
  <1> DEFINE n == Len(hdus)
             h == HeaderBlocks(c)
             r == [hoff |-> flen, hblk |-> h, doff |-> flen + h, c |-> c]
  <1>1. /\ flen \in Nat /\ hdus \in Seq(HduRec) /\ n \in Nat /\ DOMAIN hdus = 1..n
        /\ h \in Nat /\ Extent(c) \in Nat
    BY LayoutFacts, HeaderBlocksType, ExtentMono DEF Core
  <1>2. /\ hdus' = Append(hdus, r)
        /\ disk' = [p \in 0..(flen + h + Extent(c) - 1) |->
                     IF p < flen THEN disk[p]
                     ELSE IF p < flen + h THEN Header(k, c, p - flen) ELSE Zero]
    BY DEF AppendHdu
  <1>3. /\ DOMAIN hdus' = 1..(n + 1) /\ hdus'[n + 1] = r /\ \A l \in 1..n : hdus'[l] = hdus[l]
    BY <1>1, <1>2
  <1>4. r.hoff = flen /\ r.hblk = h /\ r.c = c
    OBVIOUS
  <1>5. HeaderBlocks(c) = h
    OBVIOUS
  <1> HIDE DEF n, h, r
  <1>6. ASSUME NEW l \in DOMAIN hdus'
        PROVE  Printed(l)'
    <2>1. CASE l = k
      <3>1. hdus'[k] = r
        BY <1>3 DEF n
      <3>2. Shown(k)' = c
        BY <1>4, <2>1, <3>1 DEF Shown
      <3>3. ASSUME NEW j \in 0..(h - 1)
            PROVE  disk'[flen + j] = Header(k, c, j)
        <4>1. /\ flen + j \in 0..(flen + h + Extent(c) - 1) /\ ~(flen + j < flen)
              /\ flen + j < flen + h /\ (flen + j) - flen = j
          BY <1>1
        <4> QED BY <1>2, <4>1
      <3> QED BY <1>4, <2>1, <3>1, <3>2, <3>3 DEF Printed, Header
    <2>2. CASE l # k
      <3>1. l \in DOMAIN hdus /\ l # job.h /\ l # job'.h
        BY <1>1, <1>3, <2>2 DEF n
      <3>2. PICK d \in Int : Carried(l, d)
        BY <3>1 DEF OthersCarried
      <3> QED BY <3>1, <3>2, CarriedPrints DEF Prints
    <2> QED BY <2>1, <2>2
  <1>7. 1 \in DOMAIN hdus' /\ hdus'[1].hoff = 0
    <2>1. CASE n = 0
      <3>1. flen = 0
        BY <1>1, <2>1 DEF Prints
      <3> QED BY <1>3, <1>4, <2>1, <3>1
    <2>2. CASE n # 0
      <3>1. 1 \in DOMAIN hdus /\ hdus[1].hoff = 0
        BY <1>1, <2>2 DEF Prints
      <3> QED BY <1>1, <1>3, <3>1
    <2> QED BY <2>1, <2>2
  <1> QED BY <1>6, <1>7 DEF Prints

\* Both stages of a create leave every header printed.
LEMMA CreatePrints ==
  ASSUME Core, Core', Prints, StagePrimary \/ StageAppend
  PROVE  Prints'
  <1>1. /\ job \in JobRec /\ JobFits /\ hdus \in Seq(HduRec) /\ Len(hdus) \in Nat
        /\ DOMAIN hdus = 1..Len(hdus)
    BY LayoutFacts DEF Core
  <1>2. OthersCarried
    BY CreateHolds
  <1>3. CASE StagePrimary
    <2> DEFINE c == Card("image", MinCards, 0, 0)
    <2>1. At("primary") /\ AppendHdu(1, c) /\ job' = [job EXCEPT !.h = 2, !.pc = 2]
      BY <1>3 DEF StagePrimary
    <2>2. job # NoJob /\ job.op = "create_first" /\ job.pc = 1
      BY <1>1, <2>1, Phases
    <2>3. c \in Cards
      BY CardsAssumption DEF Card, Cards, Kind
    <2>4. Len(hdus) = 0 /\ DOMAIN hdus = {} /\ 1 = Len(hdus) + 1
      BY <1>1, <2>2 DEF JobFits
    <2>5. job'.h = 2 /\ job'.op = "create_first"
      BY <1>1, <2>1, <2>2, PrimaryRecord
    <2>6. Len(hdus') = 1 /\ hdus' \in Seq(HduRec)
      BY <1>1, <2>1, <2>4 DEF AppendHdu, Core
    <2>7. \A l \in DOMAIN hdus' : l # job'.h
      BY <2>5, <2>6
    <2> HIDE DEF c
    <2> QED BY <1>2, <2>1, <2>3, <2>4, <2>5, <2>7, AppendHduPrints
  <1>4. CASE StageAppend
    <2>1. At("append") /\ AppendHdu(job.h, job.c) /\ Advance
      BY <1>4 DEF StageAppend
    <2>2. /\ job # NoJob /\ job.c \in Cards
          /\ \/ job.op = "create" /\ job.pc = 1
             \/ job.op = "create_first" /\ job.pc = 2
      BY <1>1, <2>1, Phases, Running
    <2>3. job' = NoJob
      <3>1. job.pc = Len(Program(job.op))
        BY <2>2 DEF Program
      <3> QED BY <1>1, <2>1, <2>2, <3>1, Advanced
    <2>4. hdus' \in Seq(HduRec)
      BY DEF Core
    <2>5. (\A l \in DOMAIN hdus' : l # job'.h) /\ job'.op \notin {"extend", "append"}
      BY <2>3, <2>4 DEF NoJob
    <2>6. (\A l \in DOMAIN hdus : l # job.h) /\ job.h = Len(hdus) + 1
      BY <1>1, <2>2 DEF JobFits
    <2> QED BY <1>2, <2>1, <2>2, <2>5, <2>6, AppendHduPrints
  <1> QED BY <1>3, <1>4

\* Before its first stage an operation shows the cards of memory.
FreshShows == (Core /\ job.pc \in 0..1) => \A k \in DOMAIN hdus : Shown(k) = hdus[k].c

\* FreshShows follows from ShownFacts.
LEMMA FreshShowsCards == FreshShows
  <1> SUFFICES ASSUME Core, job.pc \in 0..1, NEW k \in DOMAIN hdus
               PROVE  Shown(k) = hdus[k].c
    BY DEF FreshShows
  <1>1. /\ job \in JobRec /\ JobFits /\ ShownFacts /\ DOMAIN hdus = 1..Len(hdus) /\ Len(hdus) \in Nat
    BY ShownValues, LayoutFacts DEF Core
  <1>2. CASE k # job.h
    BY <1>1, <1>2 DEF ShownFacts
  <1>3. CASE k = job.h
    <2>1. job # NoJob /\ job.op \notin {"create", "create_first", "none"}
      BY <1>1, <1>3 DEF JobFits, NoJob
    <2>2. job.pc = 1
      BY <1>1, <2>1 DEF JobFits
    <2> QED BY <1>1, <2>1, <2>2 DEF ShownFacts, JobRec, Op
  <1> QED BY <1>2, <1>3

\* No header is written, and none shows other cards.
LEMMA IdlePrints ==
  ASSUME Core, Prints, hdus' = hdus, \A p \in 0..(flen - 1) : disk'[p] = disk[p], flen' = flen,
         \A k \in DOMAIN hdus : Shown(k)' = Shown(k),
         job' = job \/ job'.op \notin {"extend", "append"} \/ job'.pc # 4
  PROVE  Prints'
  <1>1. ASSUME NEW k \in DOMAIN hdus'
        PROVE  Printed(k)'
    <2>1. /\ hdus[k].hoff \in Nat /\ hdus[k].doff \in Nat /\ flen \in Nat /\ Claim(k) \in Nat
          /\ hdus[k].doff + Claim(k) <= flen
      BY ClaimNat, Order, LayoutFacts DEF Core
    <2>2. \A p \in hdus[k].hoff..(hdus[k].doff - 1) : p \in 0..(flen - 1)
      BY <2>1
    <2> QED BY <2>2, KeptPrints DEF Prints
  <1> QED BY <1>1 DEF Prints

\* An error that leaves memory and disk in step stops an operation that has not written
\* a header yet.
LEMMA FailureShows ==
  ASSUME Core, Failure, ~tainted', torn' = "none"
  PROVE  flen' = flen /\ \A k \in DOMAIN hdus : Shown(k) = hdus[k].c
  <1>1. job \in JobRec /\ JobFits /\ ShownFacts
    BY ShownValues DEF Core
  <1>2. CASE FailTainted \/ RejectLate
    BY <1>2 DEF FailTainted, RejectLate
  <1>3. CASE FailSetLen
    <2>1. /\ ShiftsTail \/ SetsLength
          /\ flen' = flen /\ ~(job.op = "insert" /\ Done("rewrite"))
      BY <1>3 DEF FailSetLen, Stop
    <2>2. PICK s \in {"headroom", "room", "staging"} : At(s)
      BY <2>1 DEF ShiftsTail, SetsLength
    <2>3. \/ job.op \in Grow \cup {"header", "delete", "repack_staged"} /\ job.pc = 1
          \/ job.op = "insert" /\ job.pc = 1
          \/ job.op = "insert" /\ job.pc = 3
      BY <1>1, <2>2, Phases
    <2>4. job.pc = 1
      <3>1. job.op = "insert" /\ job.pc = 3 => Done("rewrite")
        BY DEF Done, Program
      <3> QED BY <2>1, <2>3, <3>1
    <2> QED BY <2>1, <2>4, FreshShowsCards DEF FreshShows
  <1>4. CASE FailImageWrite
    <2>1. job.op = "write" /\ flen' = flen
      BY <1>4 DEF FailImageWrite
    <2> QED BY <1>1, <2>1 DEF ShownFacts
  <1>5. CASE RejectCell
    <2>1. At("data") /\ job.op \in {"vla", "setitem", "write"} /\ flen' = flen
      BY <1>5 DEF RejectCell, Stop
    <2>2. job.op \in {"vla", "setitem"} => job.pc = 2
      BY <1>1, <2>1, Phases
    <2> QED BY <1>1, <2>1, <2>2 DEF ShownFacts
  <1>6. CASE \E m \in 0..MaxCards : FailCreate(m)
    <2>1. PICK m \in 0..MaxCards : FailCreate(m)
      BY <1>6
    <2>2. /\ At("primary") \/ At("append")
          /\ flen' = flen + m /\ ~(m > 0)
      BY <2>1 DEF FailCreate, Stop
    <2>3. job # NoJob /\ job.op \in {"create", "create_first"}
      BY <1>1, <2>2, Phases
    <2>4. \A k \in DOMAIN hdus : k # job.h
      BY <2>3, <1>1, LayoutFacts DEF Core, JobFits
    <2>5. flen' = flen
      BY <2>2, CardsAssumption DEF Core
    <2> QED BY <1>1, <2>4, <2>5 DEF ShownFacts
  <1> QED BY <1>2, <1>3, <1>4, <1>5, <1>6 DEF Failure

\* Operations begin, fail without harm, and handles are closed and opened, with every
\* header as it was.
LEMMA QuietPrints ==
  ASSUME Core, Core', Prints, torn' = "none",
         Operation \/ (Failure /\ ~tainted') \/ Close \/ (Reopen /\ hdus' = hdus) \/ UNCHANGED vars
  PROVE  Prints'
  <1>1. FreshShows /\ FreshShows'
    BY FreshShowsCards, PTL
  <1>2. CASE Operation
    <2>1. PICK op, k, c : Start(op, k, c)
      BY <1>2, OperationStarts
    <2>2. job.pc = 0 /\ job'.pc = 1 /\ hdus' = hdus /\ disk' = disk /\ flen' = flen
      BY <2>1 DEF Start, NoJob
    <2>3. \A l \in DOMAIN hdus : Shown(l)' = Shown(l)
      BY <1>1, <2>2 DEF FreshShows
    <2> QED BY <2>2, <2>3, IdlePrints
  <1>3. CASE Failure /\ ~tainted'
    <2>1. job' = NoJob /\ hdus' = hdus /\ \A p \in 0..(flen - 1) : disk'[p] = disk[p]
      BY <1>3, FailureLeaves
    <2>2. flen' = flen /\ \A k \in DOMAIN hdus : Shown(k) = hdus[k].c
      BY <1>3, FailureShows
    <2>3. job'.pc = 0 /\ job'.op = "none"
      BY <2>1 DEF NoJob
    <2>4. \A l \in DOMAIN hdus : Shown(l)' = Shown(l)
      BY <1>1, <2>1, <2>2, <2>3 DEF FreshShows
    <2> QED BY <2>1, <2>2, <2>3, <2>4, IdlePrints
  <1>4. CASE Close \/ (Reopen /\ hdus' = hdus) \/ UNCHANGED vars
    <2>1. hdus' = hdus /\ disk' = disk /\ flen' = flen /\ job' = job
      BY <1>4 DEF Close, Reopen, vars
    <2>2. \A l \in DOMAIN hdus : Shown(l)' = Shown(l)
      BY <2>1 DEF Shown, Done
    <2> QED BY <2>1, <2>2, IdlePrints
  <1> QED BY <1>2, <1>3, <1>4

\* torn is set for good until the file is opened again, and that needs torn to be clear
\* for the handle to stay trusted.
LEMMA TornStays ==
  ASSUME [Next]_vars, Trusted', torn' = "none"
  PROVE  torn = "none"
  <1>1. CASE Reopen
    BY <1>1 DEF Reopen, Trusted
  <1>2. CASE Operation
    <2>1. PICK op, k, c : Start(op, k, c)
      BY <1>2, OperationStarts
    <2> QED BY <2>1 DEF Start
  <1>3. CASE StageStep
    BY <1>3 DEF StageStep, StagePrimary, StageAppend, StageHeadroom, StageRewrite, StagePutHeader,
                StageRoom, StageStaging, StageData, StageShrink, StageCommit
  <1>4. CASE Failure
    BY <1>4 DEF Failure, FailTainted, RejectLate, FailSetLen, FailImageWrite, RejectCell, FailCreate, Stop
  <1>5. CASE Crash \/ Close \/ UNCHANGED vars
    BY <1>5 DEF Crash, Close, vars
  <1> QED BY <1>1, <1>2, <1>3, <1>4, <1>5 DEF Next

\* While no error came between memory and disk, every header is on disk.
PrintInv == Trusted /\ torn = "none" => Prints

\* PrintInv is an invariant beside LayoutInv.
THEOREM PrintInvariance == Spec => []PrintInv
  <1>1. Init => PrintInv
    <2> SUFFICES ASSUME Init PROVE Prints
      BY DEF PrintInv
    <2>1. DOMAIN hdus = {} /\ flen = 0 /\ job.op = "none"
      BY DEF Init, NoJob
    <2> QED BY <2>1 DEF Prints
  <1>2. LayoutInv /\ PrintInv /\ [Next]_vars => PrintInv'
    <2> SUFFICES ASSUME LayoutInv, PrintInv, [Next]_vars, Trusted', torn' = "none" PROVE Prints'
      BY DEF PrintInv
    <2>1. Quiet /\ (Trusted => Core)
      BY DEF LayoutInv, Quiet, Core
    <2>2. Core /\ Prints
      BY <2>1, TrustIsNotRegained, TornStays DEF PrintInv
    <2>3. Core'
      BY <2>2, CoreStep
    <2>4. flaws' = {} /\ ~tainted' /\ torn' # "crash"
      BY DEF Trusted
    <2>5. CASE StagePrimary \/ StageAppend
      BY <2>2, <2>3, <2>5, CreatePrints
    <2>6. CASE \/ StageHeadroom \/ StageRewrite \/ StagePutHeader \/ StageRoom
               \/ StageStaging \/ StageData \/ StageShrink \/ StageCommit
      <3>1. Sorted
        BY <2>2, <2>6, HeadroomSorted, RewriteSorted, PutHeaderSorted, RoomSorted, StagingSorted,
           DataSorted, ShrinkSorted, CommitSorted
      <3> QED BY <2>2, <2>3, <2>6, <3>1, StagePrints
    <2>7. CASE Operation \/ Failure \/ Close \/ UNCHANGED vars
      BY <2>2, <2>3, <2>4, <2>7, QuietPrints
    <2>8. CASE Crash
      BY <2>4, <2>8 DEF Crash
    <2>9. CASE Reopen
      <3>1. hdus' = hdus
        BY <2>4, <2>9 DEF Reopen
      <3> QED BY <2>2, <2>3, <2>9, <3>1, QuietPrints
    <2> QED BY <2>5, <2>6, <2>7, <2>8, <2>9 DEF Next, StageStep
  <1> QED BY <1>1, <1>2, LayoutInvariance, PTL DEF Spec

-----------------------------------------------------------------------------
(* The type of the blocks.                                                 *)

DiskTyped == disk \in [0..(flen - 1) -> Block]

\* What the stages write are blocks.
LEMMA BlocksWritten ==
  /\ Zero \in Block /\ Blank \in Block
  /\ \A k \in Nat : Data(k) \in Block
  /\ \A k \in Nat, c \in Cards, j \in Nat : Header(k, c, j) \in Block
  BY DEF Block, Zero, Blank, Data, Header

\* set_len adds zeros or cuts.
LEMMA SetLenTyped ==
  ASSUME flen \in Nat, DiskTyped, NEW n \in Int, SetLen(n)
  PROVE  DiskTyped'
  <1>1. ASSUME NEW p \in 0..(n - 1)
        PROVE  (IF p < flen THEN disk[p] ELSE Zero) \in Block
    <2>1. p < flen => p \in 0..(flen - 1)
      OBVIOUS
    <2> QED BY <2>1, BlocksWritten DEF DiskTyped
  <1>2. flen' = n /\ disk' = [p \in 0..(n - 1) |-> IF p < flen THEN disk[p] ELSE Zero]
    BY DEF SetLen
  <1> QED BY <1>1, <1>2 DEF DiskTyped

\* A shift moves blocks of the file, and fills with zeros.
LEMMA ShiftTyped ==
  ASSUME flen \in Nat, DiskTyped, NEW a \in Nat, NEW d \in Nat, NEW fill, ShiftTail(a, d, fill)
  PROVE  DiskTyped'
  <1> DEFINE len == (IF flen < a THEN a ELSE flen) + d
             b(p) == IF p >= a + d THEN disk[p - d]
                     ELSE IF p < flen /\ ~(fill /\ p >= a) THEN disk[p] ELSE Zero
  <1>1. flen' = len /\ disk' = [p \in 0..(len - 1) |-> b(p)]
    BY DEF ShiftTail
  <1>2. ASSUME NEW p \in 0..(len - 1)
        PROVE  b(p) \in Block
    <2>1. CASE p >= a + d
      <3>1. p - d \in 0..(flen - 1)
        BY <2>1
      <3> QED BY <2>1, <3>1 DEF DiskTyped
    <2>2. CASE ~(p >= a + d)
      <3>1. p < flen => p \in 0..(flen - 1)
        OBVIOUS
      <3> QED BY <2>2, <3>1, BlocksWritten DEF DiskTyped
    <2> QED BY <2>1, <2>2
  <1> HIDE DEF len, b
  <1> QED BY <1>1, <1>2 DEF DiskTyped

\* A write of blocks.
LEMMA PutTyped ==
  ASSUME flen \in Nat, DiskTyped, NEW p \in Int, NEW m \in Int, NEW b, Put(p, m, b),
         \A i \in 0..(m - 1) : b[i] \in Block
  PROVE  DiskTyped'
  <1> DEFINE len == IF m > 0 /\ p + m > flen THEN p + m ELSE flen
             x(i) == IF i \in p..(p + m - 1) THEN b[i - p] ELSE IF i < flen THEN disk[i] ELSE Zero
  <1>1. flen' = len /\ disk' = [i \in 0..(len - 1) |-> x(i)]
    BY DEF Put
  <1>2. ASSUME NEW i \in 0..(len - 1)
        PROVE  x(i) \in Block
    <2>1. CASE i \in p..(p + m - 1)
      <3>1. i - p \in 0..(m - 1)
        BY <2>1
      <3> QED BY <2>1, <3>1
    <2>2. CASE i \notin p..(p + m - 1)
      <3>1. i < flen => i \in 0..(flen - 1)
        OBVIOUS
      <3> QED BY <2>2, <3>1, BlocksWritten DEF DiskTyped
    <2> QED BY <2>1, <2>2
  <1> HIDE DEF len, x
  <1> QED BY <1>1, <1>2 DEF DiskTyped

\* The stages that make room, and the one that gives it back.
LEMMA RoomTyped ==
  ASSUME Core, DiskTyped, StageHeadroom \/ StageRoom \/ StageStaging \/ StageShrink
  PROVE  DiskTyped'
  <1> SUFFICES ASSUME NEW k, k = job.h
               PROVE  DiskTyped'
    OBVIOUS
  <1>1. PICK s \in {"headroom", "room", "staging", "shrink"} : At(s)
    BY DEF StageHeadroom, StageRoom, StageStaging, StageShrink
  <1>2. Advance
    BY DEF StageHeadroom, StageRoom, StageStaging, StageShrink
  <1>3. /\ k \in DOMAIN hdus /\ flen \in Nat /\ hdus \in Seq(HduRec) /\ hdus[k].doff \in Nat
        /\ hdus[k].hblk \in Nat /\ job.c \in Cards /\ Extent(hdus[k].c) \in Nat /\ Extent(job.c) \in Nat
        /\ ClaimFacts /\ \A l \in DOMAIN hdus : Claim(l) \in Nat
    BY <1>1, <1>2, Staged
  <1>4. job.op \notin {"create", "create_first"} /\ job # NoJob
    BY <1>1, <1>2, Working
  <1>5. StagedExtent(k) \in Nat
    BY <1>1, <1>4, StagedValues
  <1>6. UNCHANGED <<disk, flen>> => DiskTyped'
    BY DEF DiskTyped
  <1>7. CASE StageHeadroom
    <2>1. HeadDelta \in Int /\ hdus[k].doff \in Nat
      BY <1>3, HeaderBlocksType DEF HeadDelta
    <2>2. CASE HeadDelta > 0
      <3>0. HeadDelta \in Nat
        BY <2>1, <2>2
      <3>1. ShiftTail(hdus[k].doff, HeadDelta, FALSE)
        BY <1>7, <2>2 DEF StageHeadroom
      <3> QED BY <1>3, <3>0, <3>1, ShiftTyped
    <2>3. CASE ~(HeadDelta > 0)
      BY <1>6, <1>7, <2>3 DEF StageHeadroom
    <2> QED BY <2>2, <2>3
  <1>8. CASE StageRoom
    <2>1. RoomAt \in Nat /\ RoomDelta \in Int
      BY <1>3, <1>8, RoomValues DEF StageRoom
    <2>2. CASE RoomDelta <= 0
      BY <1>6, <1>8, <2>2 DEF StageRoom
    <2>3. CASE ~(RoomDelta <= 0) /\ flen > RoomAt
      <3>0. RoomDelta \in Nat
        BY <2>1, <2>3
      <3>1. ShiftTail(RoomAt, RoomDelta, TRUE)
        BY <1>8, <2>3 DEF StageRoom
      <3> QED BY <1>3, <2>1, <3>0, <3>1, ShiftTyped
    <2>4. CASE ~(RoomDelta <= 0) /\ ~(flen > RoomAt)
      <3>1. SetLen(RoomAt + RoomDelta) /\ RoomAt + RoomDelta \in Int
        BY <1>8, <2>1, <2>4 DEF StageRoom
      <3> QED BY <1>3, <3>1, SetLenTyped
    <2> QED BY <2>2, <2>3, <2>4
  <1>9. CASE StageStaging
    <2>1. job.op = "repack_staged" /\ job.pc = 1 /\ At("staging")
      BY <1>9, Phases DEF Core, StageStaging
    <2>2. Claim(k) = Extent(hdus[k].c) /\ hdus[k].c.heap > 0
      BY <1>3, <2>1 DEF ClaimFacts, Core, JobFits, At
    <2>3. FreeUpTo(k) \in Nat
      BY <1>3, <2>2, StagingBoundary DEF Boundary
    <2>4. StagingDelta \in Int
      BY <1>3, <1>5, <2>3 DEF StagingDelta
    <2>5. CASE StagingDelta <= 0
      BY <1>6, <1>9, <2>5 DEF StageStaging
    <2>6. CASE ~(StagingDelta <= 0) /\ Following(k) = {}
      <3>1. SetLen(FreeUpTo(k) + StagingDelta) /\ FreeUpTo(k) + StagingDelta \in Int
        BY <1>9, <2>3, <2>4, <2>6 DEF StageStaging
      <3> QED BY <1>3, <3>1, SetLenTyped
    <2>7. CASE ~(StagingDelta <= 0) /\ Following(k) # {}
      <3>0. StagingDelta \in Nat
        BY <2>4, <2>7
      <3>1. ShiftTail(FreeUpTo(k), StagingDelta, FALSE)
        BY <1>9, <2>7 DEF StageStaging
      <3> QED BY <1>3, <2>3, <3>0, <3>1, ShiftTyped
    <2> QED BY <2>5, <2>6, <2>7
  <1>10. CASE StageShrink
    <2> DEFINE old == hdus[k].doff + StagedExtent(k)
               d == ShrinkDelta
    <2>1. d \in Int /\ old \in Nat
      BY <1>3, <1>5 DEF ShrinkDelta
    <2>2. CASE d <= 0
      BY <1>6, <1>10, <2>2 DEF StageShrink
    <2>3. CASE ~(d <= 0) /\ flen > old
      <3>1. /\ flen' = flen - d
            /\ disk' = [p \in 0..(flen - d - 1) |-> IF p >= old - d THEN disk[p + d] ELSE disk[p]]
        BY <1>10, <2>3 DEF StageShrink
      <3> HIDE DEF old, d
      <3>2. ASSUME NEW p \in 0..(flen - d - 1)
            PROVE  (IF p >= old - d THEN disk[p + d] ELSE disk[p]) \in Block
        <4>1. p + d \in 0..(flen - 1) /\ p \in 0..(flen - 1)
          BY <1>3, <2>1, <2>3
        <4> QED BY <4>1 DEF DiskTyped
      <3> QED BY <3>1, <3>2 DEF DiskTyped
    <2>4. CASE ~(d <= 0) /\ ~(flen > old)
      <3>1. SetLen(old - d) /\ old - d \in Int
        BY <1>10, <2>1, <2>4 DEF StageShrink
      <3> HIDE DEF old, d
      <3> QED BY <1>3, <3>1, SetLenTyped
    <2> QED BY <2>2, <2>3, <2>4
  <1> QED BY <1>7, <1>8, <1>9, <1>10

\* The stages that write headers and data.
LEMMA WriteTyped ==
  ASSUME Core, DiskTyped, StageRewrite \/ StagePutHeader \/ StageData
  PROVE  DiskTyped'
  <1> SUFFICES ASSUME NEW k, k = job.h
               PROVE  DiskTyped'
    OBVIOUS
  <1> DEFINE h == HeaderBlocks(job.c)
  <1>1. PICK s \in {"rewrite", "puthdr", "data"} : At(s)
    BY DEF StageRewrite, StagePutHeader, StageData
  <1>2. Advance
    BY DEF StageRewrite, StagePutHeader, StageData
  <1>3. /\ k \in DOMAIN hdus /\ k \in Nat /\ flen \in Nat /\ hdus[k].doff \in Nat
        /\ hdus[k].hblk \in Nat /\ hdus[k].hoff \in Nat /\ job.c \in Cards /\ Extent(job.c) \in Nat
        /\ hdus \in Seq(HduRec) /\ job \in JobRec
    BY <1>1, <1>2, Staged
  <1>4. h \in Nat
    BY <1>3, HeaderBlocksType
  <1>5. CASE StageRewrite
    <2> DEFINE b == [i \in 0..(hdus[k].hblk - 1) |-> IF i < h THEN Header(k, job.c, i) ELSE Blank]
    <2>1. Put(hdus[k].hoff, hdus[k].hblk, b)
      BY <1>5 DEF StageRewrite
    <2>2. \A i \in 0..(hdus[k].hblk - 1) : b[i] \in Block
      BY <1>3, BlocksWritten
    <2> HIDE DEF b, h
    <2>3. hdus[k].hoff \in Int /\ hdus[k].hblk \in Int
      BY <1>3
    <2> QED BY <1>3, <2>1, <2>2, <2>3, PutTyped
  <1>6. CASE StagePutHeader
    <2> DEFINE b == [i \in 0..(h - 1) |-> Header(k, job.c, i)]
    <2>1. Put(hdus[k].doff - h, h, b)
      BY <1>6 DEF StagePutHeader
    <2>2. \A i \in 0..(h - 1) : b[i] \in Block
      BY <1>3, BlocksWritten
    <2> HIDE DEF b, h
    <2>3. hdus[k].doff - h \in Int /\ h \in Int
      BY <1>3, <1>4
    <2> QED BY <1>3, <2>1, <2>2, <2>3, PutTyped
  <1>7. CASE StageData
    <2> DEFINE m == CASE job.op = "repack_staged" -> StagedExtent(k)
                      [] job.op \in {"write", "extend", "append"} -> DataBlocks(job.c.main)
                      [] OTHER -> Extent(job.c)
    <2>1. m \in Nat
      <3>1. StagedExtent(k) \in Nat
        BY <1>1, <1>2, Working, StagedValues
      <3>2. DataBlocks(job.c.main) \in Nat
        <4>1. job.c.main \in Nat
          BY <1>3 DEF Cards
        <4> QED BY <4>1, DataBlocksMono
      <3> QED BY <1>3, <3>1, <3>2
    <2>2. PICK lo \in FirstBlock(m) : Put(hdus[k].doff + lo, m - lo, [i \in 0..(m - lo - 1) |-> Data(k)])
      BY <1>7 DEF StageData
    <2> HIDE DEF m
    <2>3. lo \in Int
      <3>1. hdus[k].c \in Cards
        BY <1>3, LayoutFacts
      <3>2. hdus[k].c.main + hdus[k].c.heap \in Nat
        BY <3>1 DEF Cards
      <3> QED BY <1>3, <2>1, <2>2, <3>2 DEF FirstBlock
    <2> DEFINE b == [i \in 0..(m - lo - 1) |-> Data(k)]
    <2>4. \A i \in 0..(m - lo - 1) : b[i] \in Block
      BY <1>3, BlocksWritten
    <2>5. Put(hdus[k].doff + lo, m - lo, b)
      BY <2>2
    <2> HIDE DEF b
    <2>6. hdus[k].doff + lo \in Int /\ m - lo \in Int
      BY <1>3, <2>1, <2>3
    <2> QED BY <1>3, <2>4, <2>5, <2>6, PutTyped
  <1> QED BY <1>5, <1>6, <1>7

\* A create, whole or cut short inside the header, adds blocks at the end.
LEMMA CreateTyped ==
  ASSUME Core, DiskTyped, StagePrimary \/ StageAppend \/ \E m \in 0..MaxCards : FailCreate(m)
  PROVE  DiskTyped'
  <1> DEFINE first == Card("image", MinCards, 0, 0)
  <1>1. /\ flen \in Nat /\ hdus \in Seq(HduRec) /\ Len(hdus) \in Nat /\ first \in Cards /\ job \in JobRec
    BY LayoutFacts, CardsAssumption DEF Core, Card, Cards, Kind
  <1>2. job.c \in Cards /\ job.h \in Nat
    BY <1>1 DEF JobRec
  <1>3. ASSUME NEW k \in Nat, NEW c \in Cards, AppendHdu(k, c)
        PROVE  DiskTyped'
    <2> DEFINE h == HeaderBlocks(c)
    <2>1. /\ flen' = flen + h + Extent(c)
          /\ disk' = [p \in 0..(flen + h + Extent(c) - 1) |->
                       IF p < flen THEN disk[p]
                       ELSE IF p < flen + h THEN Header(k, c, p - flen) ELSE Zero]
      BY <1>3 DEF AppendHdu
    <2> HIDE DEF h
    <2>2. ASSUME NEW p \in 0..(flen + h + Extent(c) - 1)
          PROVE  (IF p < flen THEN disk[p]
                  ELSE IF p < flen + h THEN Header(k, c, p - flen) ELSE Zero) \in Block
      <3>1. (p < flen => p \in 0..(flen - 1)) /\ (~(p < flen) => p - flen \in Nat)
        BY <1>1
      <3> QED BY <3>1, BlocksWritten DEF DiskTyped
    <2>3. /\ \A p \in 0..(flen + h + Extent(c) - 1) : disk'[p] \in Block
          /\ disk' = [p \in 0..(flen + h + Extent(c) - 1) |-> disk'[p]]
      BY <2>1, <2>2
    <2>4. disk' \in [0..(flen + h + Extent(c) - 1) -> Block]
      BY ONLY <2>3
    <2>5. flen' - 1 = flen + h + Extent(c) - 1
      <3>1. h \in Nat /\ Extent(c) \in Nat
        BY HeaderBlocksType, ExtentMono DEF h
      <3> QED BY <1>1, <2>1, <3>1
    <2> QED BY ONLY <2>4, <2>5 DEF DiskTyped
  <1>4. CASE StagePrimary
    BY <1>1, <1>3, <1>4 DEF StagePrimary
  <1>5. CASE StageAppend
    BY <1>2, <1>3, <1>5 DEF StageAppend
  <1>6. CASE \E m \in 0..MaxCards : FailCreate(m)
    <2>1. PICK m \in 0..MaxCards : FailCreate(m)
      BY <1>6
    <2> DEFINE c == IF At("primary") THEN first ELSE job.c
    <2>2. /\ flen' = flen + m
          /\ disk' = [p \in 0..(flen + m - 1) |->
                       IF p < flen THEN disk[p] ELSE Header(Len(hdus) + 1, c, p - flen)]
      BY <2>1 DEF FailCreate
    <2>3. c \in Cards
      BY <1>1, <1>2
    <2> HIDE DEF c
    <2>4. ASSUME NEW p \in 0..(flen + m - 1)
          PROVE  (IF p < flen THEN disk[p] ELSE Header(Len(hdus) + 1, c, p - flen)) \in Block
      <3>1. /\ p < flen => p \in 0..(flen - 1)
            /\ ~(p < flen) => p - flen \in Nat
            /\ Len(hdus) + 1 \in Nat
        BY <1>1
      <3> QED BY <2>3, <3>1, BlocksWritten DEF DiskTyped
    <2>5. /\ \A p \in 0..(flen + m - 1) : disk'[p] \in Block
          /\ disk' = [p \in 0..(flen + m - 1) |-> disk'[p]]
      BY <2>2, <2>4
    <2>6. disk' \in [0..(flen + m - 1) -> Block]
      BY ONLY <2>5
    <2>7. flen' - 1 = flen + m - 1
      BY <1>1, <2>2
    <2> QED BY ONLY <2>6, <2>7 DEF DiskTyped
  <1> QED BY <1>4, <1>5, <1>6

\* The flags have their types in every state, trusted or not.
FlagsOK ==
    /\ tainted \in BOOLEAN /\ mode \in {"open", "closed"}
    /\ torn \in {"none", "IOError", "ValueError", "crash"} /\ flaws \subseteq {"reopen", "heap"}

\* Every step keeps the types of the flags.
LEMMA FlagsStep ==
  ASSUME FlagsOK, [Next]_vars
  PROVE  FlagsOK'
  <1>1. CASE Operation
    <2>1. PICK op, k, c : Start(op, k, c)
      BY <1>1, OperationStarts
    <2> QED BY <2>1 DEF Start, FlagsOK
  <1>2. CASE StageStep
    BY <1>2 DEF StageStep, StagePrimary, StageAppend, StageHeadroom, StageRewrite, StagePutHeader,
                StageRoom, StageStaging, StageData, StageShrink, StageCommit, FlagsOK
  <1>3. CASE Failure
    BY <1>3 DEF Failure, FailTainted, RejectLate, FailSetLen, FailImageWrite, RejectCell, FailCreate,
                Stop, FlagsOK
  <1>4. CASE Crash \/ Close \/ Reopen \/ UNCHANGED vars
    BY <1>4 DEF Crash, Close, Reopen, vars, FlagsOK
  <1> QED BY <1>1, <1>2, <1>3, <1>4 DEF Next

\* The flags of every handle, and the blocks of a trusted one, have their types.
TypeInv == FlagsOK /\ (Trusted => DiskTyped)

\* As long as memory describes the file every variable has its type: no operation writes
\* past the blocks it made, and no offset becomes negative.
THEOREM TypeCorrect == Spec => [](Trusted => TypeOK)
  <1>1. Init => TypeInv
    BY BlocksWritten DEF Init, TypeInv, FlagsOK, DiskTyped
  <1>2. LayoutInv /\ TypeInv /\ [Next]_vars => TypeInv'
    <2> SUFFICES ASSUME LayoutInv, TypeInv, [Next]_vars, Trusted' PROVE DiskTyped'
      BY FlagsStep DEF TypeInv
    <2>1. Quiet /\ (Trusted => Core)
      BY DEF LayoutInv, Quiet, Core
    <2>2. Core /\ DiskTyped
      BY <2>1, TrustIsNotRegained DEF TypeInv
    <2>3. UNCHANGED <<disk, flen>> => DiskTyped'
      BY <2>2 DEF DiskTyped
    <2>4. CASE Operation
      <3>1. PICK op, k, c : Start(op, k, c)
        BY <2>4, OperationStarts
      <3> QED BY <2>3, <3>1 DEF Start
    <2>5. CASE StageStep
      BY <2>2, <2>3, <2>5, RoomTyped, WriteTyped, CreateTyped DEF StageStep, StageCommit
    <2>6. CASE Failure
      BY <2>2, <2>3, <2>6, CreateTyped DEF Failure, FailTainted, RejectLate, FailSetLen,
         FailImageWrite, RejectCell
    <2>7. CASE Crash \/ Close \/ Reopen \/ UNCHANGED vars
      BY <2>3, <2>7 DEF Crash, Close, Reopen, vars
    <2> QED BY <2>4, <2>5, <2>6, <2>7 DEF Next
  <1>3. LayoutInv /\ TypeInv => (Trusted => TypeOK)
    BY DEF LayoutInv, TypeInv, FlagsOK, DiskTyped, TypeOK
  <1> QED BY <1>1, <1>2, <1>3, LayoutInvariance, PTL DEF Spec

-----------------------------------------------------------------------------
(* Opening the file again.                                                 *)

\* What parse_hdus_from_file makes of offset p: nothing, a header, and where the next
\* HDU would begin.
NoHeader(p) == \A q \in p..(flen - 1) : ~IsHeader(p, q)
Found(p) == ParsedHdu(p, CHOOSE q \in p..(flen - 1) : IsHeader(p, q))
After(p) == Found(p).doff + Extent(Found(p).c)

\* One turn of its loop, when f is what it returns from each offset on.
Turn(f, p) ==
    IF p >= flen THEN [ok |-> TRUE, hdus |-> <<>>]
    ELSE IF NoHeader(p) THEN [ok |-> FALSE, hdus |-> <<>>]
    ELSE [ok |-> f[After(p)].ok, hdus |-> <<Found(p)>> \o f[After(p)].hdus]

\* The loop moves forward.
LEMMA AfterIsLater ==
  ASSUME flen \in Nat, DiskTyped, NEW p \in Nat, p < flen, ~NoHeader(p)
  PROVE  After(p) \in Nat /\ After(p) > p
  <1> DEFINE q == CHOOSE q \in p..(flen - 1) : IsHeader(p, q)
  <1>1. q \in p..(flen - 1) /\ IsHeader(p, q)
    BY DEF NoHeader
  <1>2. Found(p) = ParsedHdu(p, q)
    BY DEF Found
  <1> HIDE DEF q
  <1>3. disk[p] \in Block /\ disk[p].t = "header"
    BY <1>1 DEF DiskTyped, IsHeader
  <1>4. disk[p].c \in Cards
    BY <1>3 DEF Block, Blank, Zero
  <1>5. Found(p).doff = q + 1 /\ Found(p).c.main = disk[p].c.main /\ Found(p).c.heap = disk[p].c.heap
    BY <1>2, <1>4 DEF ParsedHdu, Cards
  <1>6. disk[p].c.main + disk[p].c.heap \in Nat
    BY <1>4 DEF Cards
  <1>7. Extent(Found(p).c) \in Nat
    BY <1>5, <1>6, DataBlocksMono DEF Extent
  <1> QED BY <1>1, <1>5, <1>7 DEF After

\* f is the result of the loop from every offset less than n blocks before the end.
LastTurns(f, n) == f = [p \in {p \in Nat : p + n >= flen} |-> Turn(f, p)]

\* The loop has a result.
LEMMA LoopEnds ==
  ASSUME flen \in Nat, DiskTyped
  PROVE  \E f : f = [p \in Nat |-> Turn(f, p)]
  <1> DEFINE S == {n \in Nat : \E f : LastTurns(f, n)}
  <1>1. 0 \in S
    <2> DEFINE f == [p \in {p \in Nat : p + 0 >= flen} |-> [ok |-> TRUE, hdus |-> <<>>]]
    <2>1. ASSUME NEW p \in Nat, p + 0 >= flen
          PROVE  Turn(f, p) = [ok |-> TRUE, hdus |-> <<>>]
      BY <2>1 DEF Turn
    <2>2. LastTurns(f, 0)
      BY <2>1 DEF LastTurns
    <2> QED BY <2>2
  <1>2. ASSUME NEW n \in Nat, n \in S
        PROVE  n + 1 \in S
    <2>1. PICK f : LastTurns(f, n)
      BY <1>2
    <2> DEFINE D(i) == {p \in Nat : p + i >= flen}
               g == [p \in D(n + 1) |-> IF p \in D(n) THEN f[p] ELSE Turn(f, p)]
    <2>2. ASSUME NEW p \in D(n + 1)
          PROVE  g[p] = Turn(g, p)
      <3>1. p \in D(n) => f[p] = Turn(f, p)
        BY <2>1 DEF LastTurns
      <3>2. g[p] = Turn(f, p)
        BY <3>1
      <3>3. CASE p < flen /\ ~NoHeader(p)
        <4>1. After(p) \in Nat /\ After(p) > p
          BY <3>3, AfterIsLater
        <4>2. After(p) \in D(n) /\ After(p) \in D(n + 1)
          BY <4>1
        <4>3. g[After(p)] = f[After(p)]
          BY <4>2
        <4> HIDE DEF g
        <4> QED BY <3>2, <3>3, <4>3 DEF Turn
      <3>4. CASE ~(p < flen /\ ~NoHeader(p))
        <4>1. p >= flen \/ NoHeader(p)
          BY <3>4
        <4> HIDE DEF g
        <4> QED BY <3>2, <4>1 DEF Turn
      <3> QED BY <3>3, <3>4
    <2>3. g = [p \in D(n + 1) |-> g[p]]
      OBVIOUS
    <2> HIDE DEF g
    <2>4. LastTurns(g, n + 1)
      BY <2>2, <2>3 DEF LastTurns
    <2> QED BY <2>4
  <1> HIDE DEF S
  <1>3. flen \in S
    BY <1>1, <1>2, SetInduction
  <1>4. PICK f : LastTurns(f, flen)
    BY <1>3 DEF S
  <1>5. {p \in Nat : p + flen >= flen} = Nat
    OBVIOUS
  <1>6. f = [p \in Nat |-> Turn(f, p)]
    BY <1>4, <1>5 DEF LastTurns
  <1> QED BY <1>6

\* Parse is such a result, from the start of the file.
LEMMA ParseIsLoop ==
  ASSUME flen \in Nat, DiskTyped
  PROVE  \E f : f = [p \in Nat |-> Turn(f, p)] /\ Parse = f[0]
  <1> DEFINE from == CHOOSE from : from = [p \in Nat |-> Turn(from, p)]
  <1>1. from = [p \in Nat |-> Turn(from, p)]
    BY LoopEnds
  <1>2. Parse = from[0]
    BY DEF Parse, Turn, NoHeader, After, Found
  <1> HIDE DEF from
  <1> QED BY <1>1, <1>2

\* A header that fills its blocks is found, with its END in the last of them, and gives
\* back the record that memory keeps.
LEMMA FoundIsRecord ==
  ASSUME Core, Prints, job = NoJob, NEW k \in DOMAIN hdus, Snug(k)
  PROVE  /\ hdus[k].hoff \in Nat /\ hdus[k].hoff < flen
         /\ ~NoHeader(hdus[k].hoff) /\ Found(hdus[k].hoff) = hdus[k]
  <1> DEFINE c == hdus[k].c
             h == HeaderBlocks(c)
             p == hdus[k].hoff
             q == hdus[k].doff - 1
  <1>1. /\ flen \in Nat /\ p \in Nat /\ hdus[k].doff \in Nat /\ c \in Cards /\ hdus[k] \in HduRec
        /\ h \in Nat \ {0} /\ hdus[k].hblk = h /\ hdus[k].doff = p + h /\ Claim(k) \in Nat
        /\ hdus[k].doff + Claim(k) <= flen
    BY LayoutFacts, HeaderBlocksType, ClaimNat, Order DEF Core, HeadersFit, Snug
  <1>2. Shown(k) = c
    <2>1. job.pc \in 0..1
      BY DEF NoJob
    <2> QED BY <2>1, FreshShowsCards DEF FreshShows
  <1>3. \A j \in 0..(h - 1) : disk[p + j] = Header(k, c, j)
    <2>1. Printed(k) /\ hdus[k].hblk = HeaderBlocks(Shown(k))
      BY <1>1, <1>2 DEF Prints
    <2> QED BY <1>1, <1>2, <2>1 DEF Printed
  <1>4. c = [kind |-> c.kind, n |-> c.n, main |-> c.main, heap |-> c.heap] /\ c.n \in Nat
    BY <1>1 DEF Cards
  <1>5. hdus[k] = [hoff |-> p, hblk |-> h, doff |-> q + 1, c |-> c]
    BY <1>1 DEF HduRec
  <1>6. CPB \in Nat
    BY CpbAssumption
  <1> HIDE DEF c, h, p
  <1>7. ASSUME NEW i \in p..q
        PROVE  disk[i] = Header(k, c, i - p)
    <2>1. i - p \in 0..(h - 1) /\ p + (i - p) = i
      BY <1>1
    <2> QED BY <1>3, <2>1
  <1>8. /\ q \in p..(flen - 1) /\ q - p = h - 1 /\ p < flen /\ p \in p..q /\ q \in p..q
    BY <1>1
  <1> HIDE DEF q
  <1>9. ASSUME NEW i \in p..q
        PROVE  disk[i].t = "header" /\ disk[i].j = i - p /\ disk[i].c = c /\ (HasEnd(disk[i]) <=> i = q)
    <2>1. disk[i].t = "header" /\ disk[i].j = i - p /\ disk[i].c = c
      <3>1. disk[i] = [t |-> "header", id |-> k, c |-> c, j |-> i - p]
        BY <1>7 DEF Header
      <3> QED BY <3>1
    <2>2. i - p = h - 1 <=> i = q
      BY <1>1, <1>8
    <2> QED BY <2>1, <2>2 DEF HasEnd, h
  <1>10. IsHeader(p, q)
    <2>1. disk[p].t = "header" /\ disk[p].j = 0 /\ HasEnd(disk[q])
      BY <1>1, <1>8, <1>9
    <2>2. \A i \in p..(q - 1) : i \in p..q /\ i # q
      BY <1>1, <1>8
    <2>3. (\A i \in p..q : disk[i].t \in {"header", "blank"}) /\ (\A i \in p..(q - 1) : ~HasEnd(disk[i]))
      BY <1>9, <2>2
    <2> QED BY <2>1, <2>3 DEF IsHeader
  <1>11. ASSUME NEW x \in p..(flen - 1), IsHeader(p, x)
         PROVE  x = q
    <2>1. HasEnd(disk[x]) /\ \A i \in p..(x - 1) : ~HasEnd(disk[i])
      BY <1>11 DEF IsHeader
    <2>2. CASE x \in p..q
      BY <1>9, <2>1, <2>2
    <2>3. CASE x \notin p..q
      <3>1. q \in p..(x - 1)
        BY <1>1, <1>8, <2>3
      <3> QED BY <1>8, <1>9, <2>1, <3>1
    <2> QED BY <2>2, <2>3
  <1>12. Found(p) = ParsedHdu(p, q)
    <2>1. (CHOOSE x \in p..(flen - 1) : IsHeader(p, x)) = q
      BY <1>8, <1>10, <1>11
    <2> QED BY <2>1 DEF Found
  <1>13. ParsedHdu(p, q) = hdus[k]
    <2>1. disk[p].c = c /\ disk[q].c = c /\ disk[q].j = q - p
      BY <1>8, <1>9
    <2>2. (q - p) * CPB + c.n - (q - p) * CPB = c.n
      <3>1. (q - p) * CPB \in Int
        BY <1>1, <1>6, <1>8
      <3> QED BY <1>4, <3>1
    <2>3. [c EXCEPT !.n = c.n] = c
      BY <1>4
    <2>4. q - p + 1 = h
      BY <1>1, <1>8
    <2> QED BY <1>5, <2>1, <2>2, <2>3, <2>4 DEF ParsedHdu
  <1> QED BY <1>1, <1>8, <1>10, <1>12, <1>13 DEF NoHeader, p

\* A sequence is its k-th element and what follows it.
LEMMA SubSeqSteps ==
  ASSUME NEW S, NEW s \in Seq(S), NEW k \in 1..Len(s)
  PROVE  <<s[k]>> \o SubSeq(s, k + 1, Len(s)) = SubSeq(s, k, Len(s))
  <1> DEFINE n == Len(s)
             a == <<s[k]>>
             b == SubSeq(s, k + 1, n)
             t == SubSeq(s, k, n)
  <1>1. n \in Nat /\ k \in Nat /\ 1 <= k /\ k <= n /\ s = [i \in 1..n |-> s[i]]
    OBVIOUS
  <1>2. b \in Seq(S) /\ Len(b) = n - k /\ \A i \in 1..(n - k) : b[i] = s[k + i]
    BY <1>1
  <1>3. t \in Seq(S) /\ Len(t) = n - k + 1 /\ \A i \in 1..(n - k + 1) : t[i] = s[k + i - 1]
    BY <1>1
  <1>4. a \in Seq(S) /\ Len(a) = 1 /\ a[1] = s[k]
    BY <1>1
  <1> HIDE DEF n, a, b, t
  <1>5. /\ a \o b \in Seq(S) /\ Len(a \o b) = 1 + (n - k)
        /\ \A i \in 1..(1 + (n - k)) : (a \o b)[i] = IF i <= 1 THEN a[i] ELSE b[i - 1]
    <2>1. /\ a \o b \in Seq(S) /\ Len(a \o b) = Len(a) + Len(b)
          /\ \A i \in 1..(Len(a) + Len(b)) :
               (a \o b)[i] = IF i <= Len(a) THEN a[i] ELSE b[i - Len(a)]
      BY ONLY <1>2, <1>4, ConcatProperties
    <2>2. Len(a) = 1 /\ Len(b) = n - k
      BY <1>2, <1>4
    <2> QED BY ONLY <2>1, <2>2
  <1>6. ASSUME NEW i \in 1..(1 + (n - k))
        PROVE  (a \o b)[i] = t[i]
    <2>1. t[i] = s[k + i - 1]
      <3>1. i \in 1..(n - k + 1)
        BY <1>1
      <3> QED BY ONLY <1>3, <3>1
    <2>2. CASE i = 1
      <3>1. k + i - 1 = k /\ i <= 1
        BY <1>1, <2>2
      <3>2. (a \o b)[i] = a[i]
        BY ONLY <1>5, <3>1, i \in 1..(1 + (n - k))
      <3> QED BY ONLY <1>4, <2>1, <2>2, <3>1, <3>2
    <2>3. CASE i # 1
      <3>1. i - 1 \in 1..(n - k) /\ k + (i - 1) = k + i - 1 /\ ~(i <= 1)
        BY <1>1, <2>3
      <3>2. (a \o b)[i] = b[i - 1]
        BY <1>5, <3>1
      <3> QED BY <1>2, <2>1, <3>1, <3>2
    <2> QED BY <2>2, <2>3
  <1>7. a \o b = t
    <2>1. Len(t) = 1 + (n - k)
      BY <1>1, <1>3
    <2> QED BY <1>3, <1>5, <1>6, <2>1, SeqEqual
  <1> QED BY <1>7 DEF a, b, t, n

\* The parts of a result without error.
LEMMA ResultParts ==
  ASSUME NEW x, NEW r, r = [ok |-> TRUE, hdus |-> x]
  PROVE  r.ok = TRUE /\ r.ok /\ r.hdus = x
  <1>1. r.ok = TRUE
    BY Zenon
  <1>2. r.ok
    BY Zenon
  <1>3. r.hdus = x
    BY Zenon
  <1> QED BY <1>1, <1>2, <1>3

\* When every header fills its blocks and every section ends where the next HDU begins,
\* the loop finds the HDUs of memory one after the other.
LEMMA LoopFindsAll ==
  ASSUME Core, Prints, DiskTyped, job = NoJob, \A k \in DOMAIN hdus : Snug(k) /\ Tight(k)
  PROVE  Agrees
  <1> DEFINE n == Len(hdus)
             at(k) == IF k = n + 1 THEN flen ELSE hdus[k].hoff
             all(k) == [ok |-> TRUE, hdus |-> SubSeq(hdus, k, n)]
  <1>1. flen \in Nat /\ hdus \in Seq(HduRec) /\ n \in Nat /\ DOMAIN hdus = 1..n
    BY LayoutFacts DEF Core
  <1>2. PICK f : f = [p \in Nat |-> Turn(f, p)] /\ Parse = f[0]
    BY <1>1, ParseIsLoop
  <1>10. n = Len(hdus)
    OBVIOUS
  <1> HIDE DEF n
  <1>3. \A p \in Nat : f[p] = Turn(f, p)
    BY <1>2
  <1> DEFINE P(i) == i <= n => f[at(n + 1 - i)] = all(n + 1 - i)
             S == {i \in Nat : P(i)}
  <1>4. 0 \in S
    <2>1. n + 1 - 0 = n + 1 /\ at(n + 1) = flen
      BY <1>1
    <2>2. f[flen] = [ok |-> TRUE, hdus |-> <<>>]
      <3>1. f[flen] = Turn(f, flen) /\ flen >= flen
        BY <1>1, <1>3
      <3> QED BY <3>1 DEF Turn
    <2>3. SubSeq(hdus, n + 1, n) = <<>>
      BY <1>1, SubSeqEmpty
    <2>4. f[at(n + 1)] = all(n + 1)
      BY <2>1, <2>2, <2>3
    <2> HIDE DEF at, all
    <2> QED BY <2>1, <2>4
  <1>5. ASSUME NEW i \in Nat, i \in S
        PROVE  i + 1 \in S
    <2> SUFFICES ASSUME i + 1 <= n PROVE f[at(n + 1 - (i + 1))] = all(n + 1 - (i + 1))
      <3>1. P(i + 1) => i + 1 \in S
        <4> HIDE DEF P
        <4> QED OBVIOUS
      <3> QED BY <3>1
    <2> DEFINE k == n + 1 - (i + 1)
    <2>1. k \in 1..n /\ k + 1 = n + 1 - i /\ k # n + 1 /\ i <= n /\ k \in Nat
      BY <1>1
    <2>2. f[at(k + 1)] = all(k + 1)
      <3>1. P(i)
        <4> HIDE DEF P
        <4> QED BY <1>5
      <3> HIDE DEF at, all, k
      <3> QED BY <2>1, <3>1
    <2> HIDE DEF k
    <2> DEFINE p == hdus[k].hoff
    <2>3. at(k) = p
      BY <2>1
    <2>4. p \in Nat /\ p < flen /\ ~NoHeader(p) /\ Found(p) = hdus[k]
      BY <1>1, <2>1, FoundIsRecord
    <2>5. After(p) = at(k + 1)
      <3>1. After(p) = End(k)
        BY <2>4 DEF After, End
      <3>2. End(k) = IF k = n THEN flen ELSE hdus[k + 1].hoff
        BY <1>1, <1>10, <2>1 DEF Tight
      <3>3. k + 1 = n + 1 <=> k = n
        BY <1>1, <2>1
      <3> QED BY <3>1, <3>2, <3>3
    <2>6. f[p] = [ok |-> f[After(p)].ok, hdus |-> <<Found(p)>> \o f[After(p)].hdus]
      <3>1. f[p] = Turn(f, p) /\ ~(p >= flen)
        BY <1>1, <1>3, <2>4
      <3> QED BY <2>4, <3>1 DEF Turn
    <2>7. <<hdus[k]>> \o SubSeq(hdus, k + 1, n) = SubSeq(hdus, k, n)
      BY <1>1, <1>10, <2>1, SubSeqSteps
    <2>8. f[After(p)] = all(k + 1)
      BY <2>2, <2>5
    <2>9. f[After(p)].ok = TRUE /\ f[After(p)].hdus = SubSeq(hdus, k + 1, n)
      <3>1. f[After(p)] = [ok |-> TRUE, hdus |-> SubSeq(hdus, k + 1, n)]
        BY <2>8
      <3> QED BY ONLY <3>1, ResultParts
    <2>10. f[p] = all(k)
      <3>1. f[p] = [ok |-> TRUE, hdus |-> <<hdus[k]>> \o SubSeq(hdus, k + 1, n)]
        BY <2>4, <2>6, <2>9, Zenon
      <3> QED BY <2>7, <3>1, Zenon
    <2> QED BY <2>3, <2>10 DEF k
  <1> HIDE DEF S
  <1>6. n \in S
    BY <1>1, <1>4, <1>5, SetInduction
  <1>7. f[at(1)] = all(1)
    <2>1. n + 1 - n = 1 /\ n <= n
      BY <1>1
    <2>2. P(n)
      <3> HIDE DEF P
      <3> QED BY <1>6 DEF S
    <2> HIDE DEF at, all
    <2> QED BY <2>1, <2>2
  <1>8. at(1) = 0
    <2>1. CASE n = 0
      BY <1>1, <2>1 DEF Prints
    <2>2. CASE n # 0
      BY <1>1, <2>2 DEF Prints
    <2> QED BY <2>1, <2>2
  <1>9. SubSeq(hdus, 1, n) = hdus
    BY <1>1, <1>10
  <1>11. Parse = all(1)
    <2> HIDE DEF all, at
    <2> QED BY ONLY <1>2, <1>7, <1>8, Zenon
  <1>12. Parse.ok /\ Parse.hdus = SubSeq(hdus, 1, n)
    <2>1. Parse = [ok |-> TRUE, hdus |-> SubSeq(hdus, 1, n)]
      BY <1>11
    <2> QED BY ONLY <2>1, ResultParts
  <1> QED BY ONLY <1>9, <1>12, Zenon DEF Agrees

\* A file closed without error and opened again shows the same HDUs, with the same cards
\* at the same offsets, for every number and size of HDUs: what rewrite_header_to_disk,
\* the header writes of the data paths and the shifts left on disk is what
\* parse_hdus_from_file reads back.  It takes headers and sections without spare blocks.
THEOREM ReopenedFileAgrees == Spec => []ReopenAgrees
  <1>1. LayoutInv /\ PrintInv /\ (Trusted => TypeOK) => ReopenAgrees
    <2> SUFFICES ASSUME LayoutInv, PrintInv, Trusted => TypeOK, Settled,
                        \A k \in DOMAIN hdus : Snug(k) /\ Tight(k)
                 PROVE  Agrees
      BY DEF ReopenAgrees
    <2>1. Trusted /\ torn = "none" /\ job = NoJob
      BY DEF Settled, Trusted
    <2>2. Core /\ Prints /\ DiskTyped
      BY <2>1 DEF LayoutInv, Core, PrintInv, TypeOK, DiskTyped
    <2> QED BY <2>1, <2>2, LoopFindsAll
  <1> QED BY <1>1, LayoutInvariance, PrintInvariance, TypeCorrect, PTL
=============================================================================
