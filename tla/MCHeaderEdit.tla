---------------------------- MODULE MCHeaderEdit ----------------------------
(***************************************************************************)
(* A header with the structural card, a long string in three cards and a   *)
(* HISTORY line, and calls with the values that are hard to lay out: one   *)
(* that ends in &, quotes where a card breaks, spaces at the end.          *)
(***************************************************************************)
EXTENDS HeaderEdit

String(t) == [kind |-> "string", text |-> t]

Spellings == [A |-> "A", Eso |-> "ESO", ESO |-> "ESO"]

SomeValues == {String(<<Amp>>),
               String(<<3, Quote, Quote, Space, 4, 5, Amp, Space>>)}
SomeNotes == {<<>>, <<5>>}
SomeTexts == {<<7, 8, 9, 9>>}

\* A comment with room on no card of a short string, and an empty line.
LongerNotes == {<<>>, <<5>>, <<5, 6, 7>>}
BlankTexts == {<<>>}

Opened ==
  <<[k |-> "NAXIS2", quoted |-> FALSE, text |-> <<11>>, note |-> <<>>]>>
  \o PlainCards("A", <<3, 3, 3, 3, 4, 4, 4, 4, 4>>, <<5>>)
  \o <<[k |-> "HISTORY", quoted |-> FALSE, text |-> <<7>>, note |-> <<>>],
       [k |-> "END", quoted |-> FALSE, text |-> <<>>, note |-> <<>>]>>

\* Another header to copy from, and a mapping whose second value no card takes.
Other ==
  <<[k |-> "NAXIS2", quoted |-> FALSE, text |-> <<19>>, note |-> <<>>]>>
  \o LongKeyCards("Eso", <<4, 4, 4>>, <<5>>)
  \o <<[k |-> "HISTORY", quoted |-> FALSE, text |-> <<8>>, note |-> <<>>],
       [k |-> "END", quoted |-> FALSE, text |-> <<>>, note |-> <<>>]>>
SomeUpdates ==
  {CollectActions(Other, TRUE),
   <<[op |-> "set", k |-> "ESO", value |-> [kind |-> "number", text |-> <<20>>], given |-> <<>>],
     [op |-> "set", k |-> "A", value |-> [kind |-> "other", text |-> <<>>], given |-> <<>>]>>}

\* What can be done on a tainted handle does not depend on what was done
\* before: it is followed up only after a failure of the first call.
EarlyTaint == tainted => version = 0 /\ (edit # NoEdit => edit.calls =< 1)
=============================================================================
