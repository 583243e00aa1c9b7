---------------------------- MODULE HeaderEdit ----------------------------
(***************************************************************************)
(* One HDU's header as its users change it (header.rs, hdu.rs): the calls  *)
(* on FITSHeader, each of which copies the cards under their mutex, edits  *)
(* the copy, rewrites the header on disk and only then commits; the staged *)
(* copy of FITSHeaderEdit; and the parsed metadata the HDU caches under    *)
(* the version number of the cards.  A data operation that changes the     *)
(* structure (an append) commits cards too.                                *)
(*                                                                         *)
(* Where the bytes go is FitsFile's subject; here a rewrite succeeds or    *)
(* fails, and may taint.  Calls that raise before any I/O change nothing and   *)
(* are not steps.                                                          *)
(***************************************************************************)
EXTENDS HeaderCards

CONSTANTS Values, Notes, Texts,
          Updates,      \* sequences of actions update() is called with
          FirstCards,   \* the header as it is opened
          MaxVersion, MaxRows,
          MaxCalls,     \* bound on commits and staged calls together
          Disciplined   \* no append while an edit() is open

VARIABLES cards, version, meta, reader, edit, rows, tainted

vars == <<cards, version, meta, reader, edit, rows, tainted>>

NoMeta == <<>>
NoReader == <<>>
NoEdit == <<>>

\* A comment given with a value, or none; set_comment also clears one.
Given == {<<>>} \cup {<<n>> : n \in Notes \ {<<>>}}

\* A row count as a card shows it, and as it is parsed.
Number(n) == <<10 + n>>
RowsOf(cs) == cs[At(cs, Structural)].text[1] - 10

Value == [kind : {"string", "number", "other"}, text : Bytes]
Action == [op : {"set"}, k : Keys, value : Value, given : Seq(Bytes)]
          \cup [op : {"commentary"}, k : Commentary, text : Bytes]

\* A card list has one END, at its end, no keyword twice, and no CONTINUE
\* that does not follow a card that ends in &.  A line of text is not quoted,
\* and so no chain goes on behind one.
WellFormed(cs) ==
  /\ cs \in Seq(Card)
  /\ cs # <<>> /\ Last(cs).k = "END" /\ Ends(cs) = Len(cs)
  /\ \A i, j \in DOMAIN cs :
       cs[i].k \notin Unkeyed /\ cs[j].k \notin Unkeyed /\ i # j =>
         Lookup(cs[i].k) # Lookup(cs[j].k)
  /\ \A i \in DOMAIN cs : cs[i].k = "CONTINUE" =>
       i > 1 /\ cs[i - 1].quoted /\ cs[i - 1].text # <<>> /\ Last(cs[i - 1].text) = Amp
  /\ \A i \in DOMAIN cs : cs[i].k \in Commentary => ~ cs[i].quoted

ASSUME CallsAssumption ==
  /\ Values \subseteq Value /\ Notes \subseteq Bytes /\ Texts \subseteq Bytes
  /\ Updates \subseteq Seq(Action)
  /\ MaxVersion \in Nat /\ MaxRows \in Nat /\ MaxCalls \in Nat /\ Disciplined \in BOOLEAN

\* A header as this library writes it: no keyword twice, and the structural
\* card is there and holds a number, which is not in quotes.
ASSUME FirstCardsAssumption ==
  /\ WellFormed(FirstCards)
  /\ At(FirstCards, Structural) # 0
  /\ ~ FirstCards[At(FirstCards, Structural)].quoted
  /\ RowsOf(FirstCards) \in 0..MaxRows

Init ==
  /\ cards = FirstCards
  /\ version = 0
  /\ meta = NoMeta
  /\ reader = NoReader
  /\ edit = NoEdit
  /\ rows = RowsOf(FirstCards)
  /\ tainted = FALSE

(***************************************************************************)
(* Calls on the live header                                                *)
(***************************************************************************)
\* Mutant: the cards are replaced under the old version.
RewriteUnseen(new) ==
  \/ cards' = new /\ UNCHANGED <<version, tainted>>
  \/ tainted' = TRUE /\ UNCHANGED <<cards, version>>
  \/ UNCHANGED <<cards, version, tainted>>

\* rewrite_header_to_disk and CardsWriteGuard::commit: the cards change
\* behind the write and the version with them; a failed write taints, a
\* failed seek in front of it only raises.
Rewrite(new) ==
  \/ /\ version < MaxVersion
     /\ cards' = new
     /\ version' = version + 1
     /\ UNCHANGED tainted
  \/ tainted' = TRUE /\ UNCHANGED <<cards, version>>
  \/ UNCHANGED <<cards, version, tainted>>

\* The bound on how long a history the model looks at.
WithinBound == version + (IF edit = NoEdit THEN 0 ELSE edit.calls) < MaxCalls

Mutate(new) ==
  /\ ~ tainted /\ WithinBound
  /\ Rewrite(new)
  /\ UNCHANGED <<meta, reader, edit, rows>>

SetKey(k, v, given) ==
  /\ Settable(cards, k, v, given)
  /\ Mutate(SetItem(cards, k, v, given))

\* apply_set_comment: the value is read and set again with the new comment.
Recommented(cs, k, note) == SetItem(cs, k, Read(cs, At(cs, Lookup(k))).value, <<note>>)
Commentable(cs, k, note) ==
  /\ At(cs, Lookup(k)) # 0
  /\ Settable(cs, k, Read(cs, At(cs, Lookup(k))).value, <<note>>)

SetComment(k, note) ==
  Commentable(cards, k, note) /\ Mutate(Recommented(cards, k, note))

Holds(cs, k) == IF k \in Commentary THEN \E i \in DOMAIN cs : IsCommentary(cs[i], k)
                ELSE At(cs, Lookup(k)) # 0
Without(cs, k) == IF k \in Commentary THEN DeleteCommentary(cs, k)
                  ELSE DeleteCards(cs, Lookup(k))

DelItem(k) == Holds(cards, k) /\ Mutate(Without(cards, k))

AddText(kw, text) == Mutate(AddCommentary(cards, kw, text))

\* FITSHeader.update: on the copy, so that an entry that raises undoes all.
Update(actions) ==
  LET done == AfterActions(cards, actions)
  IN actions # <<>> /\ done.whole /\ Mutate(done.cards)

(***************************************************************************)
(* FITSHeaderEdit                                                          *)
(***************************************************************************)
\* edit(): a copy of the cards as they are now.  The model follows one edit
\* object at a time, the latest.
OpenEdit ==
  /\ ~ tainted
  /\ edit # NoEdit => ~ edit.entered
  /\ edit' = [cards |-> cards, calls |-> 0, entered |-> FALSE, committed |-> FALSE]
  /\ UNCHANGED <<cards, version, meta, reader, rows, tainted>>

Enter ==
  /\ edit # NoEdit /\ ~ edit.entered
  /\ edit' = [edit EXCEPT !.entered = TRUE]
  /\ UNCHANGED <<cards, version, meta, reader, rows, tainted>>

\* ensure_active
Active == edit # NoEdit /\ edit.entered /\ ~ edit.committed

Stage(new) ==
  /\ WithinBound
  /\ edit' = [edit EXCEPT !.cards = new, !.calls = @ + 1]
  /\ UNCHANGED <<cards, version, meta, reader, rows, tainted>>

StageSetKey(k, v, given) ==
  /\ Active /\ Settable(edit.cards, k, v, given)
  /\ Stage(SetItem(edit.cards, k, v, given))
StageSetComment(k, note) ==
  Active /\ Commentable(edit.cards, k, note) /\ Stage(Recommented(edit.cards, k, note))
StageDelItem(k) == Active /\ Holds(edit.cards, k) /\ Stage(Without(edit.cards, k))
StageAddText(kw, text) == Active /\ Stage(AddCommentary(edit.cards, kw, text))

\* FITSHeaderEdit.update works on the staged cards themselves: what came
\* before an entry that raises stays.
StageUpdate(actions) == Active /\ Stage(AfterActions(edit.cards, actions).cards)

\* __exit__ without an exception, and commit_internal.  On a tainted handle
\* the commit raises and the block is left all the same.
ExitClean ==
  /\ Active
  /\ \/ ~ tainted /\ Rewrite(edit.cards)
     \/ tainted /\ UNCHANGED <<cards, version, tainted>>
  /\ edit' = [edit EXCEPT !.entered = FALSE, !.committed = (version' # version)]
  /\ UNCHANGED <<meta, reader, rows>>

\* __exit__ after an exception: nothing is written, and the object may be
\* entered again with what it holds.
ExitRaised ==
  /\ edit # NoEdit /\ edit.entered
  /\ edit' = [edit EXCEPT !.entered = FALSE]
  /\ UNCHANGED <<cards, version, meta, reader, rows, tainted>>

(***************************************************************************)
(* The HDU around the header                                               *)
(***************************************************************************)
\* An append, extend or repack: the data change and with them the
\* structural card, committed the same way; no row counts before that.
AppendRows ==
  /\ ~ tainted /\ WithinBound /\ rows < MaxRows
  /\ Disciplined /\ edit # NoEdit => edit.committed
  /\ Rewrite([cards EXCEPT ![At(cards, Structural)].text = Number(rows + 1)])
  /\ rows' = IF version' = version THEN rows ELSE rows + 1
  /\ UNCHANGED <<meta, reader, edit>>

\* meta(): the version is loaded first; on a miss the cards are copied,
\* parsed and stored under that version.  Other threads may run in between.
MetaLoad ==
  /\ reader = NoReader
  /\ meta # NoMeta => meta.version # version
  /\ reader' = <<version>>
  /\ UNCHANGED <<cards, version, meta, edit, rows, tainted>>

MetaStore ==
  /\ reader # NoReader
  /\ meta' = IF tainted THEN meta ELSE [version |-> reader[1], rows |-> RowsOf(cards)]
  /\ reader' = NoReader
  /\ UNCHANGED <<cards, version, edit, rows, tainted>>

Next ==
  \/ \E k \in Keys, v \in Values, g \in Given : SetKey(k, v, g) \/ StageSetKey(k, v, g)
  \/ \E k \in Keys, n \in Notes : SetComment(k, n) \/ StageSetComment(k, n)
  \/ \E k \in Keys \cup Commentary : DelItem(k) \/ StageDelItem(k)
  \/ \E kw \in Commentary, t \in Texts : AddText(kw, t) \/ StageAddText(kw, t)
  \/ \E u \in Updates : Update(u) \/ StageUpdate(u)
  \/ OpenEdit \/ Enter \/ ExitClean \/ ExitRaised
  \/ AppendRows \/ MetaLoad \/ MetaStore

Spec == Init /\ [][Next]_vars

-----------------------------------------------------------------------------
(***************************************************************************)
(* Properties                                                              *)
(***************************************************************************)
\* The book a card list stands for, as __getitem__, items() and comment_of
\* would read it.
Entries(cs) ==
  SelectSeq([i \in DOMAIN cs |->
               IF cs[i].k \in Commentary
               THEN [k |-> cs[i].k, note |-> <<>>,
                     value |-> [kind |-> "text", text |-> cs[i].text]]
               ELSE Read(cs, i)],
            LAMBDA e : e.k \notin {"CONTINUE", "END"})

\* The types of the variables; the cards of the HDU and the staged ones are
\* lists that splice, drain and insert have left in order (header.rs:749).
TypeOK ==
  /\ WellFormed(cards)
  /\ version \in 0..MaxVersion
  /\ meta # NoMeta => meta.version \in 0..version
  /\ reader # NoReader => reader[1] \in 0..version
  /\ edit # NoEdit => WellFormed(edit.cards)
  /\ rows \in 0..MaxRows
  /\ tainted \in BOOLEAN

\* On a sound handle the structural card says what the data hold, and so
\* does whatever meta() would return from its cache (hdu_table/hdu.rs:163):
\* no interleaving of a reader with a commit caches old cards as current.
HeaderDescribesData ==
  ~ tainted => /\ RowsOf(cards) = rows
               /\ meta # NoMeta /\ meta.version = version => meta.rows = rows

\* Chains of CONTINUE cards, quotes doubled on the way out, spellings and
\* places: every call does to the cards what HeaderDict says it does to the
\* book the user sees.
Dict == INSTANCE HeaderDict
          WITH book <- Entries(cards),
               staged <- IF edit = NoEdit THEN <<>> ELSE Entries(edit.cards)
ImplementsDict == Dict!Spec

\* The class says that rustfits manages the structural keys on the user's
\* behalf (header.rs:1437): with a batched edit open across an append they
\* still say what the data hold.
EditKeepsStructure == ~ tainted => RowsOf(cards) = rows

\* A comment is stored whole or the call raises (header.rs:1735): comments
\* read back are comments that were given.
CommentsWhole == \A e \in Range(Entries(cards)) : e.note \in Notes

\* A card that is set again keeps its spelling (header.rs:848); a call on
\* the header that is not the end of a batch neither drops nor renames.
SpellingKept ==
  [][edit' = edit =>
       \A k \in Keys : At(cards, Lookup(k)) # 0 /\ At(cards', Lookup(k)) # 0 =>
         cards[At(cards, Lookup(k))].k = cards'[At(cards', Lookup(k))].k]_vars
=============================================================================
