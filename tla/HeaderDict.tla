----------------------------- MODULE HeaderDict -----------------------------
(***************************************************************************)
(* What a header promises its user, without cards: an ordered book of      *)
(* entries [k, value, note] that a call changes in one entry or, update(), *)
(* in several at once, and a staged copy that edit() takes and the end of  *)
(* its with block puts in the place of the book.  An entry that is set     *)
(* again keeps its place, its spelling and, when no comment comes with the *)
(* value, its comment.                                                     *)
(***************************************************************************)
EXTENDS Integers, Sequences, SequencesExt

CONSTANTS Keys, LookupOf, TextRoom, Values, Notes, Texts, Updates

VARIABLES book, staged

NoCopy == <<>>          \* no edit() is open; a book is never empty

SpaceChar == 2
Form(k) == IF k \in Keys THEN LookupOf[k] ELSE k
Place(b, k) == SelectInSeq(b, LAMBDA e : Form(e.k) = Form(k))

\* Trailing spaces of a string do not count.
Significant(v) ==
  IF v.kind # "string" THEN v
  ELSE LET n == CHOOSE n \in 0..Len(v.text) :
                  /\ \A i \in n + 1..Len(v.text) : v.text[i] = SpaceChar
                  /\ n = 0 \/ v.text[n] # SpaceChar
       IN [v EXCEPT !.text = SubSeq(v.text, 1, n)]

Put(b, k, v, given) ==
  LET i == Place(b, k)
      note == IF given # <<>> THEN given[1] ELSE IF i # 0 THEN b[i].note ELSE <<>>
  IN IF i # 0 THEN [b EXCEPT ![i].value = Significant(v), ![i].note = note]
     ELSE Append(b, [k |-> k, value |-> Significant(v), note |-> note])

Drop(b, k) == SelectSeq(b, LAMBDA e : Form(e.k) # Form(k))

\* A commentary text, a card's room at a time.
Pieces(kw, text) ==
  [n \in 1..(Len(text) + TextRoom - 1) \div TextRoom |->
     [k |-> kw, note |-> <<>>,
      value |-> [kind |-> "text",
                 text |-> SubSeq(text, (n - 1) * TextRoom + 1,
                    IF n * TextRoom < Len(text) THEN n * TextRoom ELSE Len(text))]]]

Remark(b, kw, text) ==
  LET i == SelectLastInSeq(b, LAMBDA e : e.k = kw)
      at == IF i # 0 THEN i ELSE Len(b)
  IN SubSeq(b, 1, at) \o Pieces(kw, text) \o SubSeq(b, at + 1, Len(b))

Enact(b, a) == IF a.op = "set" THEN Put(b, a.k, a.value, a.given)
               ELSE Remark(b, a.k, a.text)

\* The one book a list of entries leads to, as a set.
EnactAll(b, u) == FoldLeft(LAMBDA books, a : {Enact(x, a) : x \in books}, {b}, u)

Given == {<<>>} \cup {<<n>> : n \in Notes}

\* b becomes c by one call.
Call(b, c) ==
  \/ \E k \in Keys, v \in Values, g \in Given : c = Put(b, k, v, g)
  \/ \E i \in DOMAIN b, n \in Notes : c = [b EXCEPT ![i].note = n]
  \/ \E k \in Keys \cup {"HISTORY", ""} : c = Drop(b, k)
  \/ \E kw \in {"HISTORY", ""}, t \in Texts : c = Remark(b, kw, t)
  \/ \E u \in Updates : c \in EnactAll(b, u)

\* As much of an update() as came before the entry that raised.
CallInPart(b, c) ==
  \E u \in Updates : \E n \in 0..Len(u) : c \in EnactAll(b, SubSeq(u, 1, n))

Init == staged = NoCopy

\* The books are bound to names so that TLC computes each of them once.
Change == /\ book' # book /\ UNCHANGED staged
          /\ \E b \in {book}, c \in {book'} : Call(b, c)
Resize == /\ book' # book /\ UNCHANGED staged
          /\ \E b \in {book}, c \in {book'} :
               c = [b EXCEPT ![Place(b, "NAXIS2")].value =
                               c[Place(c, "NAXIS2")].value]
Take == UNCHANGED book /\ staged' = book
Stage == /\ staged' # staged /\ UNCHANGED book
         /\ \E b \in {staged}, c \in {staged'} :
              b # NoCopy /\ (Call(b, c) \/ CallInPart(b, c))
Commit == staged # NoCopy /\ UNCHANGED staged /\ book' = staged

Next == Take \/ Commit \/ Resize \/ Stage \/ Change

Spec == Init /\ [][Next]_<<book, staged>>
=============================================================================
