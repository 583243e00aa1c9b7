---------------------------- MODULE HeaderCards ----------------------------
(***************************************************************************)
(* The card list of one header (header.rs): how a value and its comment    *)
(* are laid out on cards, how they are read back, and the edits of the     *)
(* list that set, delete and append.  Everything here is a pure operator   *)
(* on a sequence of cards; HeaderEdit owns the state.                      *)
(*                                                                         *)
(* A character is a number: Amp, Quote, Space, or anything larger.  A card *)
(* is [k, quoted, text, note]: its keyword as it is spelled, whether the   *)
(* value stands in quotes, the bytes of the value (between the quotes,     *)
(* where there are any) and its comment.  The 80 columns are scaled down:  *)
(* Payload stands for the 68 bytes a quoted value may fill, Narrow for the *)
(* 19 that leave the comment in column 32, NoteRoom for the 47 bytes       *)
(* behind that column, LongRoom for the 65 less the keyword on the first   *)
(* card of a HIERARCH chain, TextRoom for the 72 of a commentary card and  *)
(* MinText for the 8 bytes a string is filled up to.                       *)
(***************************************************************************)
EXTENDS Integers, Sequences, FiniteSets, SequencesExt

CONSTANTS Payload, Narrow, NoteRoom, LongRoom, TextRoom, MinText,
          Keys,         \* keywords of users, as they may be spelled
          LongKeys,     \* those of them written behind HIERARCH
          LookupOf      \* the form in which each of them is compared

ASSUME LayoutAssumption ==
  /\ {Payload, Narrow, NoteRoom, LongRoom, TextRoom, MinText} \subseteq Nat
  /\ Payload >= 2 /\ LongRoom >= 1 /\ TextRoom >= 1

Amp == 0
Quote == 1
Space == 2

Structural == "NAXIS2"
Commentary == {"HISTORY", ""}
Unkeyed == Commentary \cup {"CONTINUE", "END"}

\* normalize_keyword; a structural keyword has one spelling.
Lookup(k) == IF k \in Keys THEN LookupOf[k] ELSE k

\* The keywords that are maintained by the library, or are not looked up, are
\* none that a user sets.
ASSUME KeysAssumption ==
  \A k \in Keys : k \notin Unkeyed \cup {Structural} /\ LookupOf[k] # Structural

Largest(S) == CHOOSE n \in S : \A m \in S : m =< n
Smaller(a, b) == IF a < b THEN a ELSE b

(***************************************************************************)
(* Text to bytes and back                                                  *)
(***************************************************************************)
\* value.replace("'", "''")
Escaped(v) ==
  FlattenSeq([i \in DOMAIN v |-> IF v[i] = Quote THEN <<Quote, Quote>>
                                                 ELSE <<v[i]>>])

Bytes == Seq(Nat)

Card == [k : Keys \cup Unkeyed \cup {Structural}, quoted : BOOLEAN, text : Bytes, note : Bytes]

\* str::replace("''", "'"): of a run of quotes every second one goes.
Unescaped[s \in Bytes] ==
  LET RunAt(i) == i - Largest({0} \cup {j \in 1..i - 1 : s[j] # Quote})
  IN FlattenSeq([i \in DOMAIN s |-> IF s[i] = Quote /\ RunAt(i) % 2 = 0 THEN <<>>
                                                                      ELSE <<s[i]>>])

\* trim_end: spaces at the end of a string value do not count.
Trimmed[s \in Bytes] ==
  SubSeq(s, 1, Largest({0} \cup {i \in DOMAIN s : s[i] # Space}))

\* What extract_fits_string makes of the bytes between the quotes.
Content(card) == IF card.quoted THEN Trimmed[Unescaped[card.text]] ELSE card.text

\* "{:<8}": short strings are filled up with spaces.
Filled(s) == s \o [i \in 1..(IF Len(s) < MinText THEN MinText - Len(s) ELSE 0) |-> Space]

(***************************************************************************)
(* build_card_from_value: the card or cards of a value                     *)
(***************************************************************************)
\* A number or a logical: one card; pad_to_card cuts what passes column 80.
NumberCard(k, v, note) ==
  [k |-> k, quoted |-> FALSE, text |-> v,
   note |-> SubSeq(note, 1, Smaller(Len(note), NoteRoom))]

\* card_string: the comment starts at column 32 or right behind the value,
\* and pad_to_card cuts it there.
StringCard(k, esc, note) ==
  LET room == IF Len(Filled(esc)) =< Narrow THEN NoteRoom
              ELSE Payload - 3 - Len(esc)
  IN [k |-> k, quoted |-> TRUE, text |-> Filled(esc),
      note |-> SubSeq(note, 1, Smaller(Len(note), room))]

\* " / " and the comment, and the bytes of a value the card with it can hold.
NoteCost(note) == IF note = <<>> THEN 0 ELSE 3 + Len(note)
LastRoom(note) == Payload - NoteCost(note)

\* The break is moved back until it does not part two quotes.
Backed(esc, pos, want) ==
  LET parts == {t \in 1..want : pos + t < Len(esc) => ~ /\ esc[pos + t] = Quote
                                                        /\ esc[pos + t + 1] = Quote}
  IN IF parts = {} THEN 2 ELSE Largest(parts)

\* The CONTINUE chain of a value that needs one, card by card from byte pos
\* on.  firstRoom bounds what stands on the first card.
Chain(k, esc, note, firstRoom) ==
  LET last == LastRoom(note)
      total == Len(esc)
      chain[pos \in 0..total] ==
        IF pos >= total THEN <<>>
        ELSE LET remaining == total - pos
                 isLast == pos > 0 /\ remaining =< last
                 take == IF isLast THEN remaining
                         ELSE Backed(esc, pos,
                                IF pos = 0 THEN Smaller(firstRoom, remaining)
                                ELSE Smaller(remaining - last, Payload - 1))
                 inner == SubSeq(esc, pos + 1, pos + take)
             IN <<[k |-> IF pos = 0 THEN k ELSE "CONTINUE",
                   quoted |-> TRUE,
                   text |-> IF isLast THEN inner ELSE Append(inner, Amp),
                   note |-> IF isLast THEN note ELSE <<>>]>>
                \o chain[pos + take]
  IN chain[0]

\* build_string_value_cards
PlainCards(k, v, note) ==
  LET esc == Escaped(v)
  IN IF Len(esc) =< LastRoom(note) THEN <<StringCard(k, esc, note)>>
     ELSE Chain(k, esc, note, Smaller(Len(esc) - LastRoom(note), Payload - 1))

\* build_hierarch_string_cards: the single card has one byte more than the
\* first of a chain, which ends in &.
LongKeyCards(k, v, note) ==
  LET esc == Escaped(v)
      chain == Chain(k, esc, note, LongRoom)
  IN IF Len(Filled(esc)) + NoteCost(note) =< LongRoom + 1
     THEN <<[k |-> k, quoted |-> TRUE, text |-> Filled(esc), note |-> note]>>
     ELSE IF Len(chain) = 1
     THEN Append(chain, [k |-> "CONTINUE", quoted |-> TRUE, text |-> <<>>, note |-> note])
     ELSE chain

\* The cases that raise instead: no type of a card, or a comment without room.
\* A number behind HIERARCH has no quotes and so two bytes more than a string.
\* Complex numbers, the one kind of number that raises where a comment would
\* be cut (card_complex), are not among the values.
Buildable(k, value, note) ==
  /\ value.kind # "other"
  /\ value.kind = "string" => LastRoom(note) > 0
  /\ k \in LongKeys /\ value.text = <<>> => MinText + NoteCost(note) =< LongRoom + 1
  /\ k \in LongKeys /\ value.kind = "number" =>
       Len(value.text) + NoteCost(note) =< LongRoom + 3

BuildCards(k, value, note) ==
  CASE value.kind = "number" /\ k \notin LongKeys -> <<NumberCard(k, value.text, note)>>
    [] value.kind = "number" /\ k \in LongKeys ->
         <<[k |-> k, quoted |-> FALSE, text |-> value.text, note |-> note]>>
    [] value.kind = "string" /\ k \notin LongKeys -> PlainCards(k, value.text, note)
    [] value.kind = "string" /\ k \in LongKeys -> LongKeyCards(k, value.text, note)

(***************************************************************************)
(* Finding and reading                                                     *)
(***************************************************************************)
\* An all-blank card has no keyword at all (keyword_of is None).
Blank(card) == card.k = "" /\ card.text = <<>>

\* find_card_for_key and the loops like it: the first card of a keyword.
At(cards, key) ==
  SelectInSeq(cards, LAMBDA card : card.k \notin Unkeyed /\ Lookup(card.k) = key)

Ends(cards) == SelectInSeq(cards, LAMBDA card : card.k = "END")

\* Mutant: a chain is taken for its first card and one CONTINUE.
ChainEndOfTwo(cards, i) ==
  IF i < Len(cards) /\ cards[i + 1].k = "CONTINUE" THEN i + 1 ELSE i

\* find_chain_end: the last card of the chain that starts at i.
ChainEnd(cards, i) ==
  LET Goes(j) == /\ cards[j].quoted /\ cards[j].text # <<>>
                 /\ Last(cards[j].text) = Amp
                 /\ j < Len(cards) /\ cards[j + 1].k = "CONTINUE"
  IN CHOOSE j \in i..Len(cards) : ~ Goes(j) /\ \A m \in i..j - 1 : Goes(m)

Joined(note, more) ==
  IF note = <<>> \/ more = <<>> THEN note \o more ELSE note \o <<Space>> \o more

\* parse_value_with_continue: a string that ends in & goes on in the
\* CONTINUE card behind it, whose comment is added to what there is, behind
\* a space.
Read(cards, i) ==
  LET read[c \in (DOMAIN cards) \X Bytes \X Bytes] ==
        LET j == c[1]
            value == c[2]
            note == c[3]
        IN IF /\ cards[i].quoted /\ value # <<>> /\ Last(value) = Amp
              /\ j < Len(cards) /\ cards[j + 1].k = "CONTINUE"
           THEN read[<<j + 1, Front(value) \o Content(cards[j + 1]),
                       Joined(note, cards[j + 1].note)>>]
           ELSE [k |-> cards[i].k, note |-> note,
                 value |-> [kind |-> IF cards[i].quoted THEN "string" ELSE "number",
                            text |-> value]]
  IN read[<<i, Content(cards[i]), cards[i].note>>]

(***************************************************************************)
(* Changing the list                                                       *)
(***************************************************************************)
\* Vec::splice: cards i to j give way to new.
Spliced(cards, i, j, new) ==
  SubSeq(cards, 1, i - 1) \o new \o SubSeq(cards, j + 1, Len(cards))

\* Mutant: a new card is put at the end of the list, behind END.
SetCardsPastEnd(cards, key, new) ==
  LET i == At(cards, key)
  IN IF i # 0 THEN Spliced(cards, i, ChainEnd(cards, i), new) ELSE cards \o new

\* set_card_for_key: over the chain of the keyword, or in front of END.
SetCards(cards, key, new) ==
  LET i == At(cards, key)
      e == Ends(cards)
  IN IF i # 0 THEN Spliced(cards, i, ChainEnd(cards, i), new)
     ELSE Spliced(cards, e, e - 1, new)

\* delete_card_for_key
DeleteCards(cards, key) ==
  LET i == At(cards, key) IN Spliced(cards, i, ChainEnd(cards, i), <<>>)

\* existing_storage_keyword: the spelling of the card there is.  The loop
\* leaves at the first blank card (keyword_of(card)?).
Spelling(cards, k) ==
  LET i == At(cards, Lookup(k))
  IN IF i # 0 /\ \A j \in 1..i - 1 : ~ Blank(cards[j]) THEN cards[i].k ELSE k

\* The comment a value keeps when none comes with it.
NoteFor(cards, k, given) ==
  LET i == At(cards, Lookup(k))
  IN IF given # <<>> THEN given[1]
     ELSE IF i # 0 THEN Read(cards, i).note ELSE <<>>

\* apply_setitem: given is <<>> or a sequence of one comment.
Settable(cards, k, value, given) ==
  Buildable(Spelling(cards, k), value, NoteFor(cards, k, given))

SetItem(cards, k, value, given) ==
  SetCards(cards, Lookup(k),
           BuildCards(Spelling(cards, k), value, NoteFor(cards, k, given)))

\* make_commentary_cards
CommentaryCards(kw, text) ==
  LET n == IF text = <<>> THEN 1 ELSE (Len(text) + TextRoom - 1) \div TextRoom
  IN [i \in 1..n |->
        [k |-> kw, quoted |-> FALSE, note |-> <<>>,
         text |-> SubSeq(text, (i - 1) * TextRoom + 1,
                         Smaller(i * TextRoom, Len(text)))]]

\* card_matches_commentary_keyword: a blank card matches nothing.
IsCommentary(card, kw) == card.k = kw /\ ~ Blank(card)

\* append_commentary_to_cards: behind the last card of that keyword.
AddCommentary(cards, kw, text) ==
  LET i == SelectLastInSeq(cards, LAMBDA card : IsCommentary(card, kw))
      at == IF i # 0 THEN i + 1 ELSE Ends(cards)
  IN Spliced(cards, at, at - 1, CommentaryCards(kw, text))

\* delete_commentary_cards
DeleteCommentary(cards, kw) ==
  FlattenSeq([i \in DOMAIN cards |-> IF IsCommentary(cards[i], kw) THEN <<>>
                                                                  ELSE <<cards[i]>>])

(***************************************************************************)
(* update(): collect_update_actions turns a header into what to apply      *)
(***************************************************************************)
CollectActions(src, copyCommentary) ==
  FlattenSeq([i \in DOMAIN src |->
    IF src[i].k \in {"END", "CONTINUE", Structural} THEN <<>>
    ELSE IF src[i].k \in Commentary
    THEN IF copyCommentary /\ ~ Blank(src[i])
         THEN <<[op |-> "commentary", k |-> src[i].k, text |-> src[i].text]>> ELSE <<>>
    ELSE LET r == Read(src, i)
         IN <<[op |-> "set", k |-> src[i].k, value |-> r.value, given |-> <<r.note>>]>>])

\* One action of the list.
Applicable(cards, a) ==
  a.op = "set" => Settable(cards, a.k, a.value, a.given)
Applied(cards, a) ==
  IF a.op = "set" THEN SetItem(cards, a.k, a.value, a.given)
  ELSE AddCommentary(cards, a.k, a.text)

\* The cards after the first n actions, and how many there are before one raises.
AfterActions(cards, actions) ==
  LET after[n \in 0..Len(actions)] ==
        IF n = 0 THEN cards
        ELSE IF Applicable(after[n - 1], actions[n]) THEN Applied(after[n - 1], actions[n])
        ELSE after[n - 1]
      good == Largest({n \in 0..Len(actions) :
                         \A m \in 1..n : Applicable(after[m - 1], actions[m])})
  IN [cards |-> after[good], whole |-> good = Len(actions)]
=============================================================================
