------------------------- MODULE TiledImageProofs -------------------------
(***************************************************************************)
(* Proofs about TiledImage.  The byte budget of the tile cache, under      *)
(* every sequence of hits, replacements, evictions and resizes.  Then, for *)
(* callers that keep to MayRun: the buffer of the extending() context,     *)
(* where its drains end, and that its rows come to the image once and in   *)
(* order; and the contents: every tile of the file decodes to the rows     *)
(* that were written, and every tile in the cache is the one in the file.  *)
(* For the contents the invariant (Content) says of the file that each     *)
(* descriptor points at an encoded tile with its rows of the image         *)
(* (FileOK), of the cache that its entries are tiles of the image          *)
(* (CacheOK), and of a call in progress which tiles it has encoded in      *)
(* heaps of its own and which it has yet to do (WorkOK).  From it follow   *)
(* what a repack leaves of the heap and, with the bound on the rows (Room) *)
(* and the cells behind the table (SectTyped), the types.                  *)
(***************************************************************************)
EXTENDS TiledImage, PrefixSumTheorems

-----------------------------------------------------------------------------
(* The calls in progress, whatever the callers do.                         *)

Fields == {"op", "ph", "cards", "todo", "data", "at", "main", "upd", "prim", "fall", "buffered"}

CardsOK(k) == /\ DOMAIN k = {"rows", "tiles", "pcount"}
              /\ k.rows \in Nat /\ k.tiles \in Nat

\* A call on tiles: it knows the cards it began with and the tiles still to do.
Working(c) ==
    /\ DOMAIN c = Fields
    /\ c.op \in {"read", "write", "extend", "setitem"} /\ c.ph \in {"main", "encode"}
    /\ c.op = "read" => c.ph = "main" /\ c.todo # <<>>
    /\ CardsOK(c.cards) /\ c.todo \in Seq(Nat) /\ c.data \in Seq(Vals)

Popping(c) == c = [op |-> "pop", ph |-> "main", n |-> c.n] /\ c.n \in Nat

CallOK(c) == c = Idle \/ c = Waiting \/ Popping(c) \/ Working(c)

Typed ==
    /\ CardsOK(cards)
    /\ DOMAIN pending = {"on", "rows", "total"} /\ pending.rows \in Seq(Vals) /\ pending.total \in Nat
    /\ DOMAIN call = Threads
    /\ \A t \in Threads : CallOK(call[t]) /\ (call[t] = Waiting => gil = t)

\* The number of tiles is a number.
LEMMA TilesNat == \A n \in Nat : Tiles(n) \in Nat
BY TileAssumption DEF Tiles

\* A new call on tiles.
LEMMA CallWorks ==
  ASSUME CardsOK(cards), NEW op \in {"read", "write", "extend", "setitem"},
         NEW todo \in Seq(Nat), op = "read" => todo # <<>>, NEW data \in Seq(Vals), NEW at
  PROVE  /\ Working(Call(op, todo, data, at))
         /\ Call(op, todo, data, at).op = op
         /\ Working([Call(op, todo, data, at) EXCEPT !.buffered = TRUE])
BY DEF Working, Call, Fields, CardsOK

\* The call of a thread that runs is one on tiles or a pop.
LEMMA Runner ==
  ASSUME Typed, NEW t \in Threads, gil = None
  PROVE  /\ call[t] # Waiting
         /\ call[t] = Idle \/ Popping(call[t]) \/ Working(call[t])
         /\ \A op \in {"read", "write", "extend", "setitem"} : \A ph :
              Runs(t, op, ph) => Working(call[t])
         /\ \A ph : Runs(t, "pop", ph) => Popping(call[t])
         /\ call[t] # Idle /\ call[t].ph = "encode" => Working(call[t])
<1>1. call[t] # Waiting
  BY ThreadAssumption DEF Typed
<1>2. call[t] = Idle \/ Popping(call[t]) \/ Working(call[t])
  BY <1>1 DEF Typed, CallOK
<1>3. Idle.op = None
  BY DEF Idle
<1>4. Popping(call[t]) => call[t].op = "pop" /\ call[t].ph = "main"
  BY DEF Popping
<1>5. Working(call[t]) => call[t].op # "pop"
  BY DEF Working
<1> QED
  BY <1>1, <1>2, <1>3, <1>4, <1>5 DEF Runs, None

\* When the call of one thread becomes c.
LEMMA CallBecomes ==
  ASSUME Typed, NEW t \in Threads, NEW c, Becomes(t, c), CallOK(c),
         gil = None, gil' = None \/ gil' = t, c = Waiting => gil' = t
  PROVE  /\ DOMAIN call' = Threads
         /\ \A u \in Threads : CallOK(call'[u]) /\ (call'[u] = Waiting => gil' = u)
<1>1. \A u \in Threads : call[u] # Waiting
  BY ThreadAssumption DEF Typed
<1>2. DOMAIN call' = Threads /\ call'[t] = c /\ \A u \in Threads \ {t} : call'[u] = call[u]
  BY DEF Becomes, Typed
<1> QED
  BY <1>1, <1>2 DEF Typed

\* A function on 1..K is a sequence, also when K is negative.
LEMMA FunIsSeq ==
  ASSUME NEW S, NEW K \in Int, NEW f \in [1..K -> S]
  PROVE  f \in Seq(S)
<1>1. CASE K >= 0
  BY <1>1
<1>2. CASE K < 0
  <2>1. 1..K = 1..0
    BY <1>2
  <2>2. f \in [1..0 -> S] /\ 0 \in Nat
    BY <2>1
  <2> QED
    BY <2>2
<1> QED
  BY <1>1, <1>2

\* The tiles that calls set out to do.
LEMMA Todos ==
  ASSUME CardsOK(cards)
  PROVE  /\ [i \in 1..cards.tiles |-> i] \in Seq(Nat)
         /\ \A i \in 1..cards.tiles : /\ SubSeq(AllTiles, i, cards.tiles) \in Seq(Nat)
                                      /\ SubSeq(AllTiles, i, cards.tiles) # <<>>
         /\ \A n \in Nat : ExtendTodo(n) \in Seq(Nat)
         /\ \A at \in Nat \ {0}, n \in Nat \ {0} : SetItemTodo(at, n) \in Seq(Nat)
<1>1. cards.rows \in Nat /\ cards.tiles \in Nat
  BY DEF CardsOK
<1>2. AllTiles \in Seq(Nat) /\ Len(AllTiles) = cards.tiles
  BY <1>1 DEF AllTiles
<1>3. ASSUME NEW i \in 1..cards.tiles
      PROVE  /\ SubSeq(AllTiles, i, cards.tiles) \in Seq(Nat)
             /\ SubSeq(AllTiles, i, cards.tiles) # <<>>
  <2>1. /\ i \in Nat /\ cards.tiles \in Nat /\ i <= cards.tiles
        /\ \A k \in i..cards.tiles : AllTiles[k] \in Nat
    BY <1>1 DEF AllTiles
  <2>2. SubSeq(AllTiles, i, cards.tiles) \in Seq(Nat)
    BY <1>1, <1>2
  <2>3. Len(SubSeq(AllTiles, i, cards.tiles)) = cards.tiles - i + 1
    BY <1>1, <1>2, <2>1, SubSeqProperties
  <2>4. Len(SubSeq(AllTiles, i, cards.tiles)) # 0
    BY <1>1, <2>1, <2>3
  <2> DEFINE q == SubSeq(AllTiles, i, cards.tiles)
  <2>5. q \in Seq(Nat) /\ Len(q) # 0
    BY <2>2, <2>4
  <2> HIDE DEF q
  <2>6. q # <<>>
    BY <2>5
  <2> QED
    BY <2>5, <2>6 DEF q
<1>4. ASSUME NEW n \in Nat PROVE ExtendTodo(n) \in Seq(Nat)
  <2> DEFINE first == Tiles(cards.rows) + IF cards.rows % TileRows = 0 THEN 1 ELSE 0
             K == Tiles(cards.rows + n) - first + 1
  <2>1. first \in Nat /\ K \in Int
    <3>1. Tiles(cards.rows) \in Nat /\ Tiles(cards.rows + n) \in Nat
      BY <1>1, TilesNat
    <3> QED
      BY <3>1
  <2>2. ExtendTodo(n) = [j \in 1..K |-> first + j - 1]
    BY DEF ExtendTodo
  <2> HIDE DEF first, K
  <2>3. ExtendTodo(n) \in [1..K -> Nat]
    BY <2>1, <2>2
  <2> QED
    BY <2>1, <2>3, FunIsSeq
<1>5. ASSUME NEW at \in Nat \ {0}, NEW n \in Nat \ {0} PROVE SetItemTodo(at, n) \in Seq(Nat)
  <2> DEFINE first == Tiles(at)
             K == Tiles(at + n - 1) - first + 1
  <2>1. first \in Nat /\ K \in Int
    <3>1. Tiles(at) \in Nat /\ Tiles(at + n - 1) \in Nat
      BY TilesNat
    <3> QED
      BY <3>1
  <2>2. SetItemTodo(at, n) = [j \in 1..K |-> first + j - 1]
    BY DEF SetItemTodo
  <2> HIDE DEF first, K
  <2>3. SetItemTodo(at, n) \in [1..K -> Nat]
    BY <2>1, <2>2
  <2> QED
    BY <2>1, <2>3, FunIsSeq
<1> QED
  BY <1>1, <1>2, <1>3, <1>4, <1>5 DEF AllTiles

\* The data of the calls.
LEMMA Datas == \A n \in Nat : \A d \in Seqs(n) : d \in Seq(Vals) /\ Len(d) \in 1..n
BY DEF Seqs

\* A call that waits for the mutex.
LEMMA WaitsTyped ==
  ASSUME Typed, NEW t \in Threads, gil = None, gil' = t, Becomes(t, Waiting),
         UNCHANGED <<cards, pending>>
  PROVE  Typed'
<1>1. CallOK(Waiting)
  BY DEF CallOK
<1>2. /\ DOMAIN call' = Threads
      /\ \A u \in Threads : CallOK(call'[u]) /\ (call'[u] = Waiting => gil' = u)
  BY <1>1, CallBecomes
<1> QED
  BY <1>2 DEF Typed, CardsOK

\* A call that goes on to c without touching the cards or the buffer.
LEMMA GoesTyped ==
  ASSUME Typed, NEW t \in Threads, gil = None, gil' = gil, NEW c, CallOK(c), c # Waiting,
         Becomes(t, c), UNCHANGED <<cards, pending>>
  PROVE  Typed'
<1>2. /\ DOMAIN call' = Threads
      /\ \A u \in Threads : CallOK(call'[u]) /\ (call'[u] = Waiting => gil' = u)
  BY CallBecomes
<1> QED
  BY <1>2 DEF Typed, CardsOK

\* A step that leaves the calls alone.
LEMMA RestTyped ==
  ASSUME Typed, gil' = gil, call' = call, CardsOK(cards)',
         DOMAIN pending' = {"on", "rows", "total"}, pending'.rows \in Seq(Vals), pending'.total \in Nat
  PROVE  Typed'
BY DEF Typed

\* Calls that enter.
LEMMA EntersTyped ==
  ASSUME Typed, NEW t \in Threads, NEW op \in {"read", "write", "extend", "setitem"},
         NEW todo \in Seq(Nat), op = "read" => todo # <<>>, NEW data \in Seq(Vals), NEW at,
         Enters(t, Call(op, todo, data, at))
  PROVE  Typed'
<1> DEFINE c == Call(op, todo, data, at)
<1>1. Working(c)
  BY CallWorks DEF Typed
<1>2. CallOK(c) /\ c # Waiting
  BY <1>1 DEF CallOK, Working, Waiting
<1>3. gil = None
  BY DEF Enters, Starts
<1>4. CASE mutex = None
  <2>1. gil' = gil /\ Becomes(t, c) /\ UNCHANGED <<cards, pending>>
    BY <1>4 DEF Enters, Starts, file
  <2> HIDE DEF c
  <2> QED
    BY <1>2, <1>3, <2>1, GoesTyped
<1>5. CASE mutex # None
  <2>1. gil' = t /\ Becomes(t, Waiting) /\ UNCHANGED <<cards, pending>>
    BY <1>5 DEF Enters, Starts, file, Becomes
  <2> QED
    BY <1>3, <2>1, WaitsTyped
<1> QED
  BY <1>4, <1>5

\* The products that the tiling takes.
LEMMA TimesNat == \A n \in Nat : n * TileRows \in Nat /\ n \div TileRows \in Nat /\ n % TileRows \in 0..(TileRows - 1)
BY TileAssumption

\* A drain takes a number of rows, at most what is buffered.
LEMMA DrainNat == \A rows, buffered \in Nat : AlignedDrainRows(rows, buffered) \in Nat
<1> SUFFICES ASSUME NEW rows \in Nat, NEW buffered \in Nat
             PROVE  AlignedDrainRows(rows, buffered) \in Nat
  OBVIOUS
<1> DEFINE fill == (TileRows - (rows % TileRows)) % TileRows
<1>1. TileRows - (rows % TileRows) \in Nat
  BY TileAssumption, TimesNat
<1>2. fill \in Nat
  BY <1>1, TimesNat
<1> HIDE DEF fill
<1>3. CASE buffered < fill
  BY <1>3 DEF AlignedDrainRows, fill
<1>4. CASE ~(buffered < fill)
  <2>1. buffered - fill \in Nat
    BY <1>2, <1>4
  <2>2. ((buffered - fill) \div TileRows) * TileRows \in Nat
    BY <2>1, TimesNat
  <2>3. AlignedDrainRows(rows, buffered) = fill + ((buffered - fill) \div TileRows) * TileRows
    BY <1>4 DEF AlignedDrainRows, fill
  <2> QED
    BY <1>2, <2>2, <2>3
<1> QED
  BY <1>3, <1>4

\* What a Starts action does: wait for the mutex, or go on as its third argument says.
LEMMA StartsTyped ==
  ASSUME Typed, NEW t \in Threads, gil = None,
         gil' = t /\ call' = [call EXCEPT ![t] = Waiting] /\ UNCHANGED <<file, cache, pending, mutex, ghosts>>
  PROVE  Typed'
BY WaitsTyped DEF Becomes, file

\* The steps that begin a call.
LEMMA ReadTyped == ASSUME Typed, NEW t \in Threads, Read(t) PROVE Typed'
<1>1. PICK i \in 1..cards.tiles : BeginRead(t, SubSeq(AllTiles, i, cards.tiles))
  BY DEF Read
<1> DEFINE q == SubSeq(AllTiles, i, cards.tiles)
<1>2. q \in Seq(Nat) /\ q # <<>> /\ <<>> \in Seq(Vals)
  <2>1. CardsOK(cards)
    BY DEF Typed
  <2>2. q \in Seq(Nat) /\ q # <<>>
    BY <2>1, Todos
  <2>3. <<>> \in Seq(Vals)
    OBVIOUS
  <2> QED
    BY <2>2, <2>3
<1>3. Enters(t, Call("read", q, <<>>, 0))
  BY <1>1 DEF BeginRead
<1> HIDE DEF q
<1> QED
  BY <1>2, <1>3, EntersTyped

\* BufferRows, whether it starts a drain or not.
LEMMA BufferTyped ==
  ASSUME Typed, NEW t \in Threads, NEW data \in Seq(Vals), BufferRows(t, data)
  PROVE  Typed'
<1> DEFINE total == pending.total + Len(data)
           drain == AlignedDrainRows(cards.rows, total)
           c == [op |-> "pop", ph |-> "main", n |-> drain]
<1>1. gil = None
  BY DEF BufferRows, Starts
<1>2. CASE mutex # None
  BY <1>1, <1>2, StartsTyped DEF BufferRows, Starts
<1>3. CASE mutex = None
  <2>1. /\ gil' = gil /\ pending' = [pending EXCEPT !.rows = @ \o data, !.total = total]
        /\ cards' = cards
        /\ Becomes(t, c) \/ call' = call
    BY <1>3 DEF BufferRows, Starts, file
  <2>2. pending.rows \o data \in Seq(Vals) /\ total \in Nat
    BY DEF Typed
  <2>3. drain \in Nat
    BY <2>2, DrainNat DEF Typed, CardsOK
  <2>4. Popping(c) /\ CallOK(c) /\ c # Waiting
    BY <2>3 DEF Popping, CallOK, Waiting
  <2>5. /\ DOMAIN pending' = {"on", "rows", "total"} /\ pending'.rows \in Seq(Vals)
        /\ pending'.total \in Nat
    BY <2>1, <2>2 DEF Typed
  <2>6. CASE call' = call
    BY <2>1, <2>5, <2>6, RestTyped DEF Typed, CardsOK
  <2>7. CASE Becomes(t, c)
    <3> HIDE DEF c
    <3>1. /\ DOMAIN call' = Threads
          /\ \A u \in Threads : CallOK(call'[u]) /\ (call'[u] = Waiting => gil' = u)
      BY <1>1, <2>1, <2>4, <2>7, CallBecomes
    <3> QED
      BY <2>1, <2>5, <3>1 DEF Typed, CardsOK
  <2> QED
    BY <2>1, <2>6, <2>7
<1> QED
  BY <1>2, <1>3

\* __exit__, with rows to write or without.
LEMMA ExitTyped == ASSUME Typed, NEW t \in Threads, ExitContext(t) PROVE Typed'
<1>1. gil = None
  BY DEF ExitContext, Starts
<1>2. CASE mutex # None
  BY <1>1, <1>2, StartsTyped DEF ExitContext, Starts
<1>3. CASE mutex = None
  <2> DEFINE c == [ExtendCall(pending.rows) EXCEPT !.buffered = TRUE]
  <2>1. /\ gil' = gil /\ pending' = NoBuffer /\ cards' = cards
        /\ Becomes(t, c) \/ call' = call
    BY <1>3 DEF ExitContext, Starts, file
  <2>2. Working(c)
    <3>1. pending.rows \in Seq(Vals) /\ Len(pending.rows) \in Nat
      BY DEF Typed
    <3>2. ExtendTodo(Len(pending.rows)) \in Seq(Nat)
      BY <3>1, Todos DEF Typed
    <3> QED
      BY <3>1, <3>2, CallWorks DEF ExtendCall, Typed
  <2>3. CallOK(c) /\ c # Waiting
    BY <2>2 DEF CallOK, Working, Waiting
  <2>4. /\ DOMAIN pending' = {"on", "rows", "total"} /\ pending'.rows \in Seq(Vals)
        /\ pending'.total \in Nat
    BY <2>1 DEF NoBuffer
  <2>5. CASE call' = call
    BY <2>1, <2>4, <2>5, RestTyped DEF Typed, CardsOK
  <2>6. CASE Becomes(t, c)
    <3> HIDE DEF c
    <3>1. /\ DOMAIN call' = Threads
          /\ \A u \in Threads : CallOK(call'[u]) /\ (call'[u] = Waiting => gil' = u)
      BY <1>1, <2>1, <2>3, <2>6, CallBecomes
    <3> QED
      BY <2>1, <2>4, <3>1 DEF Typed, CardsOK
  <2> QED
    BY <2>1, <2>5, <2>6
<1> QED
  BY <1>2, <1>3

\* The other operations that change the HDU.
LEMMA ChangeTyped == ASSUME Typed, NEW t \in Threads, Change(t) PROVE Typed'
<1>0. /\ CardsOK(cards) /\ cards.rows \in Nat
      /\ DOMAIN pending = {"on", "rows", "total"} /\ pending.rows \in Seq(Vals) /\ pending.total \in Nat
  BY DEF Typed, CardsOK
<1>1. CASE \E data \in [1..cards.rows -> Vals] : cards.rows > 0 /\ BeginWrite(t, data)
  <2>1. PICK data \in [1..cards.rows -> Vals] : BeginWrite(t, data)
    BY <1>1
  <2>2. data \in Seq(Vals) /\ [i \in 1..cards.tiles |-> i] \in Seq(Nat)
    <3>1. data \in Seq(Vals)
      BY <1>0, FunIsSeq
    <3>2. [i \in 1..cards.tiles |-> i] \in Seq(Nat)
      BY <1>0, Todos
    <3> QED
      BY <3>1, <3>2
  <2>3. Enters(t, Call("write", [i \in 1..cards.tiles |-> i], data, 1))
    BY <2>1 DEF BeginWrite
  <2> QED
    BY <2>2, <2>3, EntersTyped
<1>2. CASE \E data \in Seqs(TileRows + 1) : BeginExtend(t, data) \/ BufferRows(t, data)
  <2>1. PICK data \in Seqs(TileRows + 1) : BeginExtend(t, data) \/ BufferRows(t, data)
    BY <1>2
  <2>2. data \in Seq(Vals) /\ Len(data) \in Nat
    BY TileAssumption, Datas
  <2>3. CASE BeginExtend(t, data)
    <3>1. ExtendTodo(Len(data)) \in Seq(Nat)
      BY <1>0, <2>2, Todos
    <3>2. Enters(t, Call("extend", ExtendTodo(Len(data)), data, cards.rows + 1))
      BY <2>3 DEF BeginExtend, ExtendCall
    <3> QED
      BY <2>2, <3>1, <3>2, EntersTyped
  <2> QED
    BY <2>1, <2>2, <2>3, BufferTyped
<1>3. CASE \E at \in 1..cards.rows, data \in Seqs(TileRows) : BeginSetItem(t, at, data)
  <2>1. PICK at \in 1..cards.rows, data \in Seqs(TileRows) : BeginSetItem(t, at, data)
    BY <1>3
  <2>2. data \in Seq(Vals) /\ Len(data) \in Nat \ {0} /\ at \in Nat \ {0}
    BY <1>0, TileAssumption, Datas
  <2>3. SetItemTodo(at, Len(data)) \in Seq(Nat)
    BY <1>0, <2>2, Todos
  <2>4. Enters(t, Call("setitem", SetItemTodo(at, Len(data)), data, at))
    BY <2>1 DEF BeginSetItem
  <2> QED
    BY <2>2, <2>3, <2>4, EntersTyped
<1>4. CASE Repack(t) \/ RepackFails(t) \/ EnterContext(t) \/ Close(t)
  <2>1. gil = None
    BY <1>4 DEF Repack, RepackFails, EnterContext, Close, Starts
  <2>2. CASE mutex # None
    BY <1>4, <2>1, <2>2, StartsTyped DEF Repack, RepackFails, EnterContext, Close, Starts
  <2>3. CASE mutex = None
    <3>1. /\ gil' = gil /\ call' = call
          /\ cards' = cards \/ cards' = [cards EXCEPT !.pcount = NewPcount]
          /\ pending' = pending \/ pending' = [NoBuffer EXCEPT !.on = TRUE]
      BY <1>4, <2>3 DEF Repack, RepackFails, EnterContext, Close, Starts, file
    <3>2. CardsOK(cards)'
      BY <1>0, <3>1 DEF CardsOK
    <3>3. /\ DOMAIN pending' = {"on", "rows", "total"} /\ pending'.rows \in Seq(Vals)
          /\ pending'.total \in Nat
      <4>1. CASE pending' = pending
        BY <1>0, <4>1
      <4>2. CASE pending' = [NoBuffer EXCEPT !.on = TRUE]
        BY <4>2 DEF NoBuffer
      <4> QED
        BY <3>1, <4>1, <4>2
    <3> QED
      BY <3>1, <3>2, <3>3, RestTyped
  <2> QED
    BY <2>2, <2>3
<1>5. CASE \E cap \in Capacities : ResizeCache(t, cap)
  <2>1. gil' = gil /\ call' = call /\ cards' = cards /\ pending' = pending
    BY <1>5 DEF ResizeCache, file
  <2> QED
    BY <1>0, <2>1, RestTyped DEF CardsOK
<1>6. CASE ClearCache(t)
  <2>1. gil' = gil /\ call' = call /\ cards' = cards /\ pending' = pending
    BY <1>6 DEF ClearCache, file
  <2> QED
    BY <1>0, <2>1, RestTyped DEF CardsOK
<1> QED
  BY <1>1, <1>2, <1>3, <1>4, <1>5, <1>6, ExitTyped DEF Change

\* The fields that a step of a call changes.
LEMMA WorkGoesOn ==
  ASSUME NEW c, Working(c)
  PROVE  /\ c.op = "read" /\ Len(c.todo) # 1 => Working([c EXCEPT !.todo = Tail(@)])
         /\ c.op # "read" => \A m : Working([c EXCEPT !.ph = "encode", !.main = m])
         /\ c.op # "read" /\ c.todo # <<>> =>
              \A i, rows : Working(WithTile(c, i, rows)) /\ WithTile(c, i, rows).op = c.op
<1>1. c.todo # <<>> => Tail(c.todo) \in Seq(Nat)
  BY DEF Working
<1>2. c.todo # <<>> /\ Len(c.todo) # 1 => Tail(c.todo) # <<>>
  <2> SUFFICES ASSUME c.todo # <<>>, Len(c.todo) # 1 PROVE Tail(c.todo) # <<>>
    OBVIOUS
  <2> DEFINE s == c.todo
             q == Tail(s)
  <2>1. s \in Seq(Nat) /\ s # <<>> /\ Len(s) # 1
    BY DEF Working
  <2> HIDE DEF s
  <2>2. q \in Seq(Nat) /\ Len(q) = Len(s) - 1 /\ Len(s) # 0
    BY <2>1
  <2>3. Len(q) # 0
    BY <2>1, <2>2
  <2> HIDE DEF q
  <2>4. q # <<>>
    BY <2>2, <2>3
  <2> QED
    BY <2>4 DEF q, s
<1>3. ASSUME c.op = "read", Len(c.todo) # 1 PROVE Working([c EXCEPT !.todo = Tail(@)])
  BY <1>1, <1>2, <1>3 DEF Working, Fields
<1>4. ASSUME c.op # "read", NEW m PROVE Working([c EXCEPT !.ph = "encode", !.main = m])
  BY <1>4 DEF Working, Fields
<1>5. ASSUME c.op # "read", c.todo # <<>>, NEW i, NEW rows
      PROVE  Working(WithTile(c, i, rows)) /\ WithTile(c, i, rows).op = c.op
  <2>1. PICK u, p, f : WithTile(c, i, rows) =
                         [c EXCEPT !.todo = Tail(@), !.upd = u, !.prim = p, !.fall = f]
    BY DEF WithTile
  <2> QED
    BY <1>1, <1>5, <2>1 DEF Working, Fields
<1> QED
  BY <1>3, <1>4, <1>5

\* The cards that a call leaves.
LEMMA NewCardsOK ==
  ASSUME CardsOK(cards), NEW c, Working(c), c.op # "read"
  PROVE  CardsOK(NewCards(c))
<1>1. CASE c.op = "write" \/ c.op = "setitem"
  BY <1>1 DEF NewCards, WriteCards, SetItemCards, CardsOK
<1>2. CASE c.op = "extend"
  <2>1. RowsAfter(c) \in Nat
    BY <1>2 DEF RowsAfter, Working, CardsOK
  <2>2. Tiles(RowsAfter(c)) \in Nat
    BY <2>1, TilesNat
  <2> QED
    BY <1>2, <2>1, <2>2 DEF NewCards, ExtendCards, SetItemCards, CardsOK
<1> QED
  BY <1>1, <1>2 DEF Working

\* The steps of a call in progress.
LEMMA GoesOnTyped == ASSUME Typed, NEW t \in Threads, GoesOn(t) PROVE Typed'
<1> DEFINE c == call[t]
<1>0. CallOK(Idle) /\ Idle # Waiting /\ CardsOK(cards)
  BY DEF CallOK, Idle, Waiting, None, Typed
<1>1. \A d : Working(d) => CallOK(d) /\ d # Waiting
  BY DEF CallOK, Working, Waiting
<1>2. CASE ReadTile(t)
  <2>1. gil = None /\ gil' = gil /\ UNCHANGED <<cards, pending>> /\ c.op = "read"
    BY <1>2 DEF ReadTile, Runs, file
  <2>2. Working(c)
    BY <1>2, <2>1, Runner DEF ReadTile
  <2>3. Becomes(t, Idle) \/ (Len(c.todo) # 1 /\ Becomes(t, [c EXCEPT !.todo = Tail(@)]))
    BY <1>2 DEF ReadTile
  <2>4. \E d : CallOK(d) /\ d # Waiting /\ Becomes(t, d)
    BY <1>0, <1>1, <2>1, <2>2, <2>3, WorkGoesOn
  <2> QED
    BY <2>1, <2>4, GoesTyped
<1>3. CASE LoadMain(t)
  <2>1. gil = None /\ gil' = gil /\ UNCHANGED <<cards, pending>> /\ c.op \in {"write", "extend", "setitem"}
    BY <1>3 DEF LoadMain, Runs, file
  <2>2. Working(c)
    BY <1>3, <2>1, Runner DEF LoadMain
  <2>3. PICK m : Becomes(t, [c EXCEPT !.ph = "encode", !.main = m])
    BY <1>3 DEF LoadMain
  <2>4. \E d : CallOK(d) /\ d # Waiting /\ Becomes(t, d)
    BY <1>1, <2>1, <2>2, <2>3, WorkGoesOn
  <2> QED
    BY <2>1, <2>4, GoesTyped
<1>4. CASE EncodeTile(t)
  <2>1. /\ gil = None /\ gil' = gil /\ UNCHANGED <<cards, pending>>
        /\ c # Idle /\ c.ph = "encode" /\ c.todo # <<>>
    BY <1>4 DEF EncodeTile, file
  <2>2. Working(c) /\ c.op # "read"
    BY <2>1, Runner DEF Working
  <2>3. \E i, rows : Becomes(t, Idle) \/ Becomes(t, WithTile(c, i, rows))
    BY <1>4 DEF EncodeTile, Fails
  <2>4. \E d : CallOK(d) /\ d # Waiting /\ Becomes(t, d)
    BY <1>0, <1>1, <2>1, <2>2, <2>3, WorkGoesOn
  <2> QED
    BY <2>1, <2>4, GoesTyped
<1>5. CASE Commit(t)
  <2>1. /\ gil = None /\ gil' = gil /\ pending' = pending /\ cards' = NewCards(c)
        /\ c # Idle /\ c.ph = "encode" /\ Becomes(t, Idle)
    BY <1>5 DEF Commit, ReadyToCommit
  <2>2. Working(c) /\ c.op # "read"
    BY <2>1, Runner DEF Working
  <2>3. CardsOK(cards)'
    <3>1. CardsOK(NewCards(c))
      BY <1>0, <2>2, NewCardsOK
    <3> QED
      BY <2>1, <3>1 DEF CardsOK
  <2>4. /\ DOMAIN call' = Threads
        /\ \A u \in Threads : CallOK(call'[u]) /\ (call'[u] = Waiting => gil' = u)
    BY <1>0, <2>1, CallBecomes
  <2> QED
    BY <2>1, <2>3, <2>4 DEF Typed
<1>6. CASE CommitFails(t)
  <2>1. gil = None /\ gil' = gil /\ UNCHANGED <<cards, pending>> /\ Becomes(t, Idle)
    BY <1>6 DEF CommitFails, ReadyToCommit, Fails
  <2> QED
    BY <1>0, <2>1, GoesTyped
<1>7. CASE Popped(t) \/ PopFails(t)
  <2> DEFINE n == Least(c.n, Len(pending.rows))
             rest == SubSeq(pending.rows, n + 1, Len(pending.rows))
             data == SubSeq(pending.rows, 1, n)
             d == [ExtendCall(data) EXCEPT !.buffered = TRUE]
  <2>1. /\ gil = None /\ gil' = gil /\ cards' = cards
        /\ \/ pending' = [pending EXCEPT !.rows = rest, !.total = Len(rest)] /\ Becomes(t, d)
           \/ pending' = [pending EXCEPT !.rows = rest] /\ Becomes(t, Idle)
    BY <1>7 DEF Popped, PopFails, Runs, file
  <2>2. c.n \in Nat /\ pending.rows \in Seq(Vals)
    BY <1>7, <2>1, Runner DEF Popped, PopFails, Popping, Typed
  <2>3. n \in 0..Len(pending.rows)
    BY <2>2 DEF Least
  <2> HIDE DEF n
  <2>4. rest \in Seq(Vals) /\ data \in Seq(Vals) /\ Len(rest) \in Nat /\ Len(data) \in Nat
    BY <2>2, <2>3
  <2>5. /\ DOMAIN pending' = {"on", "rows", "total"} /\ pending'.rows \in Seq(Vals)
        /\ pending'.total \in Nat
    <3> HIDE DEF rest
    <3> QED
      BY <2>1, <2>4 DEF Typed
  <2>6. Working(d)
    <3>1. ExtendTodo(Len(data)) \in Seq(Nat)
      BY <1>0, <2>4, Todos
    <3> HIDE DEF data
    <3> QED
      BY <1>0, <2>4, <3>1, CallWorks DEF ExtendCall
  <2>7. \E x : CallOK(x) /\ x # Waiting /\ Becomes(t, x)
    BY <1>0, <1>1, <2>1, <2>6
  <2>8. /\ DOMAIN call' = Threads
        /\ \A u \in Threads : CallOK(call'[u]) /\ (call'[u] = Waiting => gil' = u)
    BY <2>1, <2>7, CallBecomes
  <2> QED
    BY <2>1, <2>5, <2>8 DEF Typed, CardsOK
<1> QED
  BY <1>2, <1>3, <1>4, <1>5, <1>6, <1>7 DEF GoesOn

\* Every step.
LEMMA StepTyped == Typed /\ [Next]_vars => Typed'
<1> SUFFICES ASSUME Typed, [Next]_vars PROVE Typed'
  OBVIOUS
<1>1. CASE Next
  BY <1>1, ReadTyped, ChangeTyped, GoesOnTyped DEF Next
<1>2. CASE UNCHANGED vars
  BY <1>2 DEF vars, Typed, CardsOK
<1> QED
  BY <1>1, <1>2

\* The first state.
LEMMA InitTyped == Init => Typed
<1> SUFFICES ASSUME Init PROVE Typed
  OBVIOUS
<1>1. CardsOK(cards)
  <2>1. PICK n \in 0..(TileRows + 1) : cards = [rows |-> n, tiles |-> Tiles(n), pcount |-> 0]
    BY DEF Init
  <2> QED
    BY <2>1, TileAssumption, TilesNat DEF CardsOK
<1>2. \A t \in Threads : CallOK(call[t]) /\ call[t] # Waiting
  BY DEF Init, CallOK, Idle, Waiting, None
<1> QED
  BY <1>1, <1>2 DEF Init, Typed, NoBuffer

-----------------------------------------------------------------------------
(* The budget of the cache.                                                *)

CacheKept == \E E : Budget(E, cache) /\ cache.cur <= cache.cap

\* The rows of a tile are counted by a number.
LEMMA SpanNat == \A i, n \in Nat : Cardinality(TileSpan(i, n)) \in Nat
<1> SUFFICES ASSUME NEW i \in Nat, NEW n \in Nat PROVE Cardinality(TileSpan(i, n)) \in Nat
  OBVIOUS
<1> DEFINE a == (i - 1) * TileRows + 1
           b == Least(i * TileRows, n)
<1>1. a \in Int /\ b \in Int
  BY TileAssumption DEF Least
<1> HIDE DEF a, b
<1>2. IsFiniteSet(a..b)
  BY <1>1, FS_Interval
<1> QED
  BY <1>2, FS_CardinalityType DEF TileSpan, a, b

\* get_or_decode_tile, for a hit, a miss and an error.
LEMMA FetchedKept ==
  ASSUME CacheKept, NEW i, NEW n \in Nat, NEW theap, NEW got \in Fetched(i, n, theap)
  PROVE  \E E : Budget(E, got.cache) /\ got.cache.cur <= got.cache.cap
<1>1. PICK E : Budget(E, cache) /\ cache.cur <= cache.cap
  BY DEF CacheKept
<1>2. CASE i \in CachedKeys(cache)
  <2>1. got.cache = Touched(cache, i)
    BY <1>2 DEF Fetched
  <2> QED
    BY <1>1, <1>2, <2>1, TouchedBudget
<1>3. CASE i \notin CachedKeys(cache)
  <2>1. \E d : got.cache = cache \/ got.cache = CachePut(cache, i, d, n)
    BY <1>3 DEF Fetched
  <2>2. PICK d : got.cache = cache \/ got.cache = CachePut(cache, i, d, n)
    BY <2>1
  <2>3. CASE got.cache = cache
    BY <1>1, <2>3
  <2>4. CASE got.cache = CachePut(cache, i, d, n)
    <3> DEFINE F == E \cup {[key |-> i, val |-> d, size |-> n]}
    <3>1. Sized(F) /\ E \subseteq F /\ [key |-> i, val |-> d, size |-> n] \in F
      BY <1>1 DEF Budget, Sized
    <3> HIDE DEF F
    <3> QED
      BY <1>1, <2>4, <3>1, PutBudget
  <2> QED
    BY <2>2, <2>3, <2>4
<1> QED
  BY <1>2, <1>3

\* clear keeps the capacity.
LEMMA ClearKept ==
  ASSUME CacheKept, cache' = Clear(cache) PROVE CacheKept'
<1>1. PICK E : Budget(E, cache) /\ cache.cur <= cache.cap
  BY DEF CacheKept
<1>2. Sized(E) /\ cache.cap \in Nat
  BY <1>1 DEF Budget, Caches
<1>3. Budget(E, Clear(cache)) /\ Clear(cache).cur <= Clear(cache).cap
  BY <1>2, EmptyBudget DEF Clear
<1> QED
  BY <1>3 DEF CacheKept

\* Every step keeps the budget.
LEMMA StepKept == Typed /\ CacheKept /\ [Next]_vars => CacheKept'
<1> SUFFICES ASSUME Typed, CacheKept, [Next]_vars PROVE CacheKept'
  OBVIOUS
<1>0. ASSUME cache' = cache PROVE CacheKept'
  BY <1>0 DEF CacheKept
<1>1. ASSUME NEW t \in Threads, Read(t) PROVE CacheKept'
  <2>1. cache' = cache
    BY <1>1 DEF Read, BeginRead, Enters, Starts
  <2> QED
    BY <1>0, <2>1
<1>2. ASSUME NEW t \in Threads, Change(t) PROVE CacheKept'
  <2>1. CASE \E data \in [1..cards.rows -> Vals] : cards.rows > 0 /\ BeginWrite(t, data)
    BY <1>0, <2>1 DEF BeginWrite, Enters, Starts
  <2>2. CASE \E data \in Seqs(TileRows + 1) : BeginExtend(t, data) \/ BufferRows(t, data)
    BY <1>0, <2>2 DEF BeginExtend, BufferRows, Enters, Starts
  <2>3. CASE \E at \in 1..cards.rows, data \in Seqs(TileRows) : BeginSetItem(t, at, data)
    BY <1>0, <2>3 DEF BeginSetItem, Enters, Starts
  <2>4. CASE Repack(t)
    <3>1. cache' = cache \/ cache' = Clear(cache)
      BY <2>4 DEF Repack, Starts
    <3> QED
      BY <1>0, <3>1, ClearKept
  <2>5. CASE RepackFails(t) \/ EnterContext(t) \/ ExitContext(t) \/ Close(t)
    BY <1>0, <2>5 DEF RepackFails, EnterContext, ExitContext, Close, Starts
  <2>6. CASE \E cap \in Capacities : ResizeCache(t, cap)
    <3>1. PICK cap \in Capacities : cache' = SetCapacity(cache, cap)
      BY <2>6 DEF ResizeCache
    <3>2. PICK E : Budget(E, cache)
      BY DEF CacheKept
    <3>3. cap \in Nat
      BY CacheAssumption
    <3> QED
      BY <3>1, <3>2, <3>3, SetCapacityBudget DEF CacheKept
  <2>7. CASE ClearCache(t)
    BY <2>7, ClearKept DEF ClearCache
  <2> QED
    BY <1>2, <2>1, <2>2, <2>3, <2>4, <2>5, <2>6, <2>7 DEF Change
<1>3. ASSUME NEW t \in Threads, GoesOn(t) PROVE CacheKept'
  <2> DEFINE c == call[t]
  <2>1. CASE ReadTile(t)
    <3> DEFINE n == Cardinality(TileSpan(Head(c.todo), c.cards.rows))
    <3>1. Working(c) /\ c.op = "read"
      BY <2>1, Runner DEF ReadTile, Runs
    <3>2. Head(c.todo) \in Nat /\ c.cards.rows \in Nat
      BY <3>1 DEF Working, CardsOK
    <3>3. n \in Nat
      BY <3>2, SpanNat
    <3>4. \E got \in Fetched(Head(c.todo), n, c.cards.tiles) : cache' = got.cache
      BY <2>1 DEF ReadTile
    <3> HIDE DEF n
    <3> QED
      BY <3>3, <3>4, FetchedKept DEF CacheKept
  <2>2. CASE EncodeTile(t)
    <3> DEFINE i == Head(c.todo)
               n == IF NeedsOld(c, i) THEN Cardinality(TileSpan(i, c.cards.rows)) ELSE 0
    <3>1. Working(c) /\ c.todo # <<>>
      BY <2>2, Runner DEF EncodeTile
    <3>2. i \in Nat /\ c.cards.rows \in Nat
      BY <3>1 DEF Working, CardsOK
    <3>3. n \in Nat
      BY <3>2, SpanNat
    <3>4. (\E got \in Fetched(i, n, c.cards.tiles) : cache' = got.cache) \/ cache' = cache
      BY <2>2 DEF EncodeTile
    <3> HIDE DEF n, i
    <3> QED
      BY <1>0, <3>3, <3>4, FetchedKept DEF CacheKept
  <2>3. CASE Commit(t)
    BY <2>3, ClearKept DEF Commit
  <2>4. CASE LoadMain(t) \/ CommitFails(t) \/ Popped(t) \/ PopFails(t)
    BY <1>0, <2>4 DEF LoadMain, CommitFails, Popped, PopFails
  <2> QED
    BY <1>3, <2>1, <2>2, <2>3, <2>4 DEF GoesOn
<1> QED
  BY <1>0, <1>1, <1>2, <1>3 DEF Next, vars

\* The first cache.
LEMMA InitKept == Init => CacheKept
<1> SUFFICES ASSUME Init PROVE CacheKept
  OBVIOUS
<1>1. PICK cap \in Capacities : cache = EmptyCache(cap)
  BY DEF Init
<1>2. cap \in Nat /\ Sized({})
  BY CacheAssumption DEF Sized
<1>3. Budget({}, EmptyCache(cap)) /\ EmptyCache(cap).cur <= EmptyCache(cap).cap
  BY <1>2, EmptyBudget
<1> QED
  BY <1>1, <1>3 DEF CacheKept

\* The cache counts what it holds and never holds more than its capacity, through hits,
\* replacements, evictions, resizes and clears, for any number of threads that call as
\* they like and tiles of any size (BytesBoundLruCache of cache.rs).
THEOREM CacheBounded == Spec => []CacheWithinBudget
<1>1. Init => Typed /\ CacheKept
  BY InitTyped, InitKept
<1>2. Typed /\ CacheKept /\ [Next]_vars => Typed' /\ CacheKept'
  BY StepTyped, StepKept
<1>3. CacheKept => CacheWithinBudget
  <2> SUFFICES ASSUME NEW E, Budget(E, cache), cache.cur <= cache.cap PROVE CacheWithinBudget
    BY DEF CacheKept
  <2> QED
    BY BudgetIs DEF CacheWithinBudget, Budget
<1> QED
  BY <1>1, <1>2, <1>3, PTL DEF Spec

-----------------------------------------------------------------------------
(* How many rows a drain takes.                                            *)

\* Division with a remainder.
LEMMA Remainder ==
  ASSUME NEW T \in Nat \ {0}, NEW n \in Nat
  PROVE  n % T = n - (n \div T) * T /\ n % T \in 0..(T - 1) /\ n \div T \in Nat
OBVIOUS

\* A drain takes at most what is buffered, and ends on a tile boundary.
LEMMA DrainEnds ==
  ASSUME NEW rows \in Nat, NEW buffered \in Nat
  PROVE  LET n == AlignedDrainRows(rows, buffered)
         IN  n <= buffered /\ (n > 0 => (rows + n) % TileRows = 0)
<1> DEFINE T == TileRows
           q == rows \div T
           r == rows % T
           fill == (T - r) % T
           m == (buffered - fill) \div T
           n == AlignedDrainRows(rows, buffered)
<1>0. T \in Nat \ {0}
  BY TileAssumption
<1>1. rows = q * T + r /\ r \in 0..(T - 1) /\ q \in Nat
  <2> HIDE DEF T
  <2>1. r = rows - q * T /\ r \in 0..(T - 1) /\ q \in Nat
    BY <1>0, Remainder
  <2>2. q * T \in Nat
    BY <1>0, <2>1
  <2> HIDE DEF q, r
  <2> QED
    BY <2>1, <2>2
<1>2. fill \in Nat /\ (IF r = 0 THEN fill = 0 ELSE fill = T - r)
  <2> HIDE DEF T, r
  <2>1. CASE r = 0
    BY <1>0, <2>1
  <2>2. CASE r # 0
    <3>1. T - r \in 0..(T - 1)
      BY <1>0, <1>1, <2>2
    <3>2. (T - r) % T = T - r
      BY <1>0, <3>1
    <3> QED
      BY <1>1, <2>2, <3>1, <3>2
  <2> QED
    BY <2>1, <2>2
<1>3. n = IF buffered < fill THEN 0 ELSE fill + m * T
  BY DEF AlignedDrainRows
<1> HIDE DEF T, q, r, n, fill
<1>4. CASE buffered < fill
  BY <1>3, <1>4 DEF n
<1>5. CASE ~(buffered < fill)
  <2>1. buffered - fill \in Nat
    BY <1>2, <1>5
  <2>2. m * T <= buffered - fill /\ m \in Nat /\ m * T \in Nat
    <3> DEFINE b == buffered - fill
    <3> HIDE DEF b
    <3>1. b \in Nat
      BY <2>1 DEF b
    <3>2. b % T = b - (b \div T) * T /\ b % T \in 0..(T - 1) /\ b \div T \in Nat
      BY <1>0, <3>1, Remainder
    <3>3. (b \div T) * T \in Nat
      BY <1>0, <3>2
    <3>4. (b \div T) * T <= b
      BY <3>1, <3>2, <3>3
    <3> QED
      BY <3>2, <3>3, <3>4 DEF b
  <2> HIDE DEF m
  <2>3. n = fill + m * T /\ n <= buffered
    BY <1>2, <1>3, <1>5, <2>1, <2>2
  <2>4. PICK k \in Nat : rows + n = k * T
    <3>1. CASE r = 0
      <4>1. rows + n = q * T + m * T
        BY <1>0, <1>1, <1>2, <2>2, <2>3, <3>1
      <4>2. q * T + m * T = (q + m) * T
        BY <1>0, <1>1, <2>2
      <4> QED
        BY <1>1, <2>2, <4>1, <4>2
    <3>2. CASE r # 0
      <4>0. q * T \in Nat
        BY <1>0, <1>1
      <4>1. rows + n = q * T + T + m * T
        BY <1>0, <1>1, <1>2, <2>2, <2>3, <3>2, <4>0
      <4>2. q * T + T + m * T = (q + m + 1) * T
        BY <1>0, <1>1, <2>2
      <4> QED
        BY <1>1, <2>2, <4>1, <4>2
    <3> QED
      BY <3>1, <3>2
  <2>5. (k * T) % T = 0
    BY <1>0
  <2>6. (rows + n) % T = 0
    BY <2>4, <2>5
  <2> QED
    BY <2>3, <2>6 DEF n, T
<1> QED
  BY <1>4, <1>5

-----------------------------------------------------------------------------
(* Steps of callers that keep to the discipline, as the buffer sees them.  *)

\* The length of the image, its rows and the GIL stay.
Unmoved == cards'.rows = cards.rows /\ UNCHANGED <<gil, image>>

\* No call is in progress.
AllIdle == \A u \in Threads : call[u] = Idle

\* A step of no call.
Quiet == Unmoved /\ UNCHANGED <<call, pending, mutex, lost>>

\* A read, write, extend or setitem begins, outside the context.
Begins(t, c) ==
    /\ Unmoved /\ UNCHANGED <<pending, mutex, lost>>
    /\ ~pending.on /\ call[t] = Idle /\ Becomes(t, c) /\ Working(c) /\ ~c.buffered
    /\ c.cards.rows = cards.rows
    /\ c.op = "extend" => cards.rows + Len(c.data) <= MaxRows
    /\ \A u \in Threads : call[u].op \notin {"extend", "pop"}
    /\ c.op = "extend" => \A u \in Threads \ {t} : call[u] = Idle
    /\ c.op \in Writers => \A u \in Threads : call[u].op \notin Writers

\* The context is entered.
Opens ==
    /\ Unmoved /\ UNCHANGED <<call, mutex, lost>>
    /\ AllIdle /\ ~pending.on /\ pending' = [NoBuffer EXCEPT !.on = TRUE]

\* Rows are buffered, and a drain begins or not.
Buffers(t, data) ==
    /\ Unmoved /\ lost' = lost
    /\ AllIdle /\ pending.on /\ data \in Seq(Vals)
    /\ cards.rows + (pending.total + Len(data)) <= MaxRows
    /\ pending' = [pending EXCEPT !.rows = @ \o data, !.total = pending.total + Len(data)]
    /\ \/ UNCHANGED <<call, mutex>>
       \/ LET drain == AlignedDrainRows(cards.rows, pending.total + Len(data))
          IN  mutex' = t /\ Becomes(t, [op |-> "pop", ph |-> "main", n |-> drain])

\* The extend of a drain.
Drain(data) == [ExtendCall(data) EXCEPT !.buffered = TRUE]

\* The context is left.
Leaves(t) ==
    /\ Unmoved /\ mutex' = mutex
    /\ AllIdle /\ pending.on /\ pending' = NoBuffer
    /\ \/ call' = call /\ lost' = lost /\ pending.rows = <<>>
       \/ call' = call /\ lost'
       \/ Becomes(t, Drain(pending.rows)) /\ lost' = lost

\* Two moments of one call.
SameCall(c, d) ==
    d.op = c.op /\ d.data = c.data /\ d.cards = c.cards /\ d.buffered = c.buffered

\* A call goes on; a call ends without having written.
Continues(t, d) ==
    /\ Unmoved /\ UNCHANGED <<pending, mutex, lost>>
    /\ Working(call[t]) /\ Working(d) /\ Becomes(t, d)
    /\ SameCall(call[t], d)
Stops(t) ==
    /\ Unmoved /\ UNCHANGED <<pending, mutex>>
    /\ Working(call[t]) /\ Becomes(t, Idle)
    /\ lost => lost'
    /\ call[t].op = "extend" /\ call[t].buffered => lost'

\* A call commits.
Commits(t) ==
    /\ UNCHANGED <<gil, pending, mutex, lost>>
    /\ Working(call[t]) /\ call[t].op # "read" /\ Becomes(t, Idle)
    /\ image' = Result(call[t])
    /\ cards'.rows = IF call[t].op = "extend" THEN call[t].cards.rows + Len(call[t].data)
                     ELSE cards.rows

\* The rows of a drain are taken out of the buffer, or lost.
Pops(t) ==
    LET n == Least(call[t].n, Len(pending.rows))
        rest == SubSeq(pending.rows, n + 1, Len(pending.rows))
    IN  /\ Unmoved /\ lost' = lost
        /\ Popping(call[t]) /\ n > 0 /\ mutex' = None
        /\ pending' = [pending EXCEPT !.rows = rest, !.total = Len(rest)]
        /\ Becomes(t, Drain(SubSeq(pending.rows, 1, n)))
PopsBadly(t) ==
    LET n == Least(call[t].n, Len(pending.rows))
    IN  /\ Unmoved /\ lost'
        /\ Popping(call[t]) /\ mutex' = None /\ Becomes(t, Idle)
        /\ pending' = [pending EXCEPT !.rows = SubSeq(@, n + 1, Len(@))]

\* A step of thread t.
Steps(t) ==
    \/ Quiet \/ Opens \/ Leaves(t) \/ Stops(t) \/ Commits(t) \/ Pops(t) \/ PopsBadly(t)
    \/ \E c : Begins(t, c) \/ Continues(t, c)
    \/ \E data : Buffers(t, data)

\* Callers that keep to the discipline: one call at a time changes the HDU; while a call
\* extends or drains, nothing else runs; while the context is open, nothing but its drain; nobody waits for the mutex.
Solo ==
    /\ gil = None
    /\ mutex # None => \E t \in Threads : call[t].op = "pop"
    /\ \A t, u \in Threads : t # u /\ call[t].op \in Writers => call[u].op \notin Writers
    /\ \A t, u \in Threads : t # u /\ call[t].op \in {"extend", "pop"} => call[u] = Idle
    /\ \A t \in Threads : call[t].op = "pop" => pending.on
    /\ pending.on => \A t \in Threads : \/ call[t] = Idle \/ call[t].op = "pop"
                                        \/ call[t].op = "extend" /\ call[t].buffered

\* A call goes on only when no other extends or drains.
LEMMA Starter ==
  ASSUME Coordinated, NEW t \in Threads, NEW op, MayRun(t, op)
  PROVE  /\ \A u \in Threads : call[u].op \notin {"extend", "pop"}
         /\ op = "extend" => \A u \in Threads \ {t} : call[u] = Idle
         /\ op \in Writers => \A u \in Threads : call[u].op \notin Writers
<1>1. \A u \in Threads : call[u].op \notin {"extend", "pop"}
  BY DEF MayRun
<1>2. op = "extend" => \A u \in Threads \ {t} : call[u] = Idle
  BY DEF MayRun
<1>3. op \in Writers => \A u \in Threads : call[u].op \notin Writers
  BY DEF MayRun
<1> QED
  BY <1>1, <1>2, <1>3

\* Calls that enter, and need not wait for the mutex.
LEMMA EntersSteps ==
  ASSUME Typed, Solo, Coordinated, NEW t \in Threads, gil' = None,
         NEW op \in {"read", "write", "extend", "setitem"},
         NEW todo \in Seq(Nat), op = "read" => todo # <<>>, NEW data \in Seq(Vals), NEW at,
         op = "extend" => cards.rows + Len(data) <= MaxRows,
         Enters(t, Call(op, todo, data, at))
  PROVE  Steps(t)
<1> DEFINE c == Call(op, todo, data, at)
<1>1. /\ Working(c) /\ c.op = op /\ c.cards = cards /\ c.buffered = FALSE /\ c.data = data
  BY CallWorks DEF Typed, Call
<1> HIDE DEF c
<1>2. Enters(t, c)
  BY DEF c
<1>3. mutex = None /\ MayRun(t, c.op) /\ call[t] = Idle
  BY <1>2, ThreadAssumption DEF Enters, Starts
<1>4. /\ \A u \in Threads : call[u].op \notin {"extend", "pop"}
      /\ c.op = "extend" => \A u \in Threads \ {t} : call[u] = Idle
      /\ c.op \in Writers => \A u \in Threads : call[u].op \notin Writers
  BY <1>3, Starter
<1>5. /\ ~pending.on /\ Becomes(t, c) /\ UNCHANGED <<file, cache, pending, mutex, ghosts>>
      /\ gil' = gil
  BY <1>2, <1>3 DEF Enters, Starts
<1>6. Begins(t, c)
  BY <1>1, <1>3, <1>4, <1>5 DEF Begins, Unmoved, file, ghosts
<1> QED
  BY <1>6 DEF Steps

\* The steps that begin a read.
LEMMA ReadSteps ==
  ASSUME Typed, Solo, Coordinated, NEW t \in Threads, gil' = None, Read(t) PROVE Steps(t)
<1>1. PICK i \in 1..cards.tiles : BeginRead(t, SubSeq(AllTiles, i, cards.tiles))
  BY DEF Read
<1> DEFINE q == SubSeq(AllTiles, i, cards.tiles)
<1>2. q \in Seq(Nat) /\ q # <<>>
  <2>1. CardsOK(cards)
    BY DEF Typed
  <2> QED
    BY <2>1, Todos
<1>3. <<>> \in Seq(Vals)
  OBVIOUS
<1>4. Enters(t, Call("read", q, <<>>, 0))
  BY <1>1 DEF BeginRead
<1> HIDE DEF q
<1> QED
  BY <1>2, <1>3, <1>4, EntersSteps

\* The context: entered, fed and left.
LEMMA ContextSteps ==
  ASSUME Typed, Solo, Coordinated, NEW t \in Threads, NEW data \in Seq(Vals), gil' = None,
         EnterContext(t) \/ BufferRows(t, data) \/ ExitContext(t)
  PROVE  Steps(t)
<1>1. mutex = None /\ MayRun(t, "extend") /\ call[t] = Idle
  BY ThreadAssumption DEF EnterContext, BufferRows, ExitContext, Starts
<1>2. mutex = None /\ AllIdle
  <2>1. \A u \in Threads \ {t} : call[u] = Idle
    BY <1>1, Starter
  <2> QED
    BY <1>1, <2>1 DEF AllIdle
<1>3. CASE EnterContext(t)
  <2>1. Opens
    BY <1>2, <1>3 DEF EnterContext, Starts, Opens, Unmoved, file, ghosts
  <2> QED
    BY <2>1 DEF Steps
<1>4. CASE BufferRows(t, data)
  <2> DEFINE drain == AlignedDrainRows(cards.rows, pending.total + Len(data))
             c == [op |-> "pop", ph |-> "main", n |-> drain]
  <2>1. /\ pending.on
        /\ pending' = [pending EXCEPT !.rows = @ \o data, !.total = pending.total + Len(data)]
        /\ cards.rows + (pending.total + Len(data)) <= MaxRows
        /\ UNCHANGED <<call, mutex>> \/ (mutex' = t /\ Becomes(t, c))
        /\ UNCHANGED <<file, cache, ghosts>> /\ gil' = gil
    BY <1>2, <1>4 DEF BufferRows, Starts
  <2>2. Buffers(t, data)
    BY <1>2, <2>1 DEF Buffers, Unmoved, file, ghosts
  <2> QED
    BY <2>2 DEF Steps
<1>5. CASE ExitContext(t)
  <2>1. /\ pending.on /\ pending' = NoBuffer
        /\ \/ call' = call /\ lost' = lost /\ pending.rows = <<>>
           \/ call' = call /\ lost' = TRUE
           \/ Becomes(t, Drain(pending.rows)) /\ lost' = lost
        /\ UNCHANGED <<file, cache, mutex, image>> /\ gil' = gil
    BY <1>2, <1>5 DEF ExitContext, Starts, Drain
  <2>2. Leaves(t)
    BY <1>2, <2>1 DEF Leaves, Unmoved, file
  <2> QED
    BY <2>2 DEF Steps
<1> QED
  BY <1>3, <1>4, <1>5

\* The operations that change the HDU.
LEMMA ChangeSteps ==
  ASSUME Typed, Solo, Coordinated, NEW t \in Threads, gil' = None, Change(t) PROVE Steps(t)
<1>0. CardsOK(cards) /\ cards.rows \in Nat
  BY DEF Typed, CardsOK
<1>1. CASE \E data \in [1..cards.rows -> Vals] : cards.rows > 0 /\ BeginWrite(t, data)
  <2>1. PICK data \in [1..cards.rows -> Vals] : BeginWrite(t, data)
    BY <1>1
  <2>2. data \in Seq(Vals)
    BY <1>0, FunIsSeq
  <2>3. [i \in 1..cards.tiles |-> i] \in Seq(Nat)
    BY <1>0, Todos
  <2>4. Enters(t, Call("write", [i \in 1..cards.tiles |-> i], data, 1))
    BY <2>1 DEF BeginWrite
  <2> QED
    BY <2>2, <2>3, <2>4, EntersSteps
<1>2. CASE \E data \in Seqs(TileRows + 1) : BeginExtend(t, data) \/ BufferRows(t, data)
  <2>1. PICK data \in Seqs(TileRows + 1) : BeginExtend(t, data) \/ BufferRows(t, data)
    BY <1>2
  <2>2. data \in Seq(Vals) /\ Len(data) \in Nat
    BY TileAssumption, Datas
  <2>3. CASE BeginExtend(t, data)
    <3>1. ExtendTodo(Len(data)) \in Seq(Nat)
      BY <1>0, <2>2, Todos
    <3>2. /\ Enters(t, Call("extend", ExtendTodo(Len(data)), data, cards.rows + 1))
          /\ cards.rows + Len(data) <= MaxRows
      BY <2>3 DEF BeginExtend, ExtendCall
    <3> QED
      BY <2>2, <3>1, <3>2, EntersSteps
  <2>4. CASE BufferRows(t, data)
    BY <2>2, <2>4, ContextSteps
  <2> QED
    BY <2>1, <2>3, <2>4
<1>3. CASE \E at \in 1..cards.rows, data \in Seqs(TileRows) : BeginSetItem(t, at, data)
  <2>1. PICK at \in 1..cards.rows, data \in Seqs(TileRows) : BeginSetItem(t, at, data)
    BY <1>3
  <2>2. data \in Seq(Vals) /\ Len(data) \in Nat \ {0} /\ at \in Nat \ {0}
    BY <1>0, TileAssumption, Datas
  <2>3. SetItemTodo(at, Len(data)) \in Seq(Nat)
    BY <1>0, <2>2, Todos
  <2>4. Enters(t, Call("setitem", SetItemTodo(at, Len(data)), data, at))
    BY <2>1 DEF BeginSetItem
  <2> QED
    BY <2>2, <2>3, <2>4, EntersSteps
<1>4. CASE Repack(t) \/ RepackFails(t) \/ Close(t)
  <2>1. mutex = None
    BY <1>4, ThreadAssumption DEF Repack, RepackFails, Close, Starts
  <2>2. /\ UNCHANGED <<gil, call, pending, mutex, image, lost>>
        /\ cards' = cards \/ cards' = [cards EXCEPT !.pcount = NewPcount]
    BY <1>4, <2>1 DEF Repack, RepackFails, Close, Starts, ghosts
  <2>3. cards'.rows = cards.rows
    BY <1>0, <2>2 DEF CardsOK
  <2>4. Quiet
    BY <2>2, <2>3 DEF Quiet, Unmoved
  <2> QED
    BY <2>4 DEF Steps
<1>5. CASE (\E cap \in Capacities : ResizeCache(t, cap)) \/ ClearCache(t)
  <2>1. Quiet
    BY <1>5 DEF ResizeCache, ClearCache, Quiet, Unmoved, file, ghosts
  <2> QED
    BY <2>1 DEF Steps
<1>6. CASE EnterContext(t) \/ ExitContext(t)
  <2>1. <<>> \in Seq(Vals)
    OBVIOUS
  <2> QED
    BY <1>6, <2>1, ContextSteps
<1> QED
  BY <1>1, <1>2, <1>3, <1>4, <1>5, <1>6 DEF Change

\* What a step of a call leaves of it.
LEMMA WorkKeeps ==
  ASSUME NEW c, Working(c)
  PROVE  /\ SameCall(c, [c EXCEPT !.todo = Tail(@)])
         /\ \A m : SameCall(c, [c EXCEPT !.ph = "encode", !.main = m])
         /\ \A i, rows : SameCall(c, WithTile(c, i, rows))
<1>1. ASSUME NEW i, NEW rows PROVE SameCall(c, WithTile(c, i, rows))
  <2>1. PICK u, p, f : WithTile(c, i, rows) =
                         [c EXCEPT !.todo = Tail(@), !.upd = u, !.prim = p, !.fall = f]
    BY DEF WithTile
  <2> QED
    BY <2>1 DEF Working, Fields, SameCall
<1>2. SameCall(c, [c EXCEPT !.todo = Tail(@)])
  BY DEF Working, Fields, SameCall
<1>3. ASSUME NEW m PROVE SameCall(c, [c EXCEPT !.ph = "encode", !.main = m])
  BY DEF Working, Fields, SameCall
<1> QED
  BY <1>1, <1>2, <1>3

\* The steps of a call in progress.
LEMMA GoesOnSteps == ASSUME Typed, Solo, NEW t \in Threads, GoesOn(t) PROVE Steps(t)
<1> DEFINE c == call[t]
<1>2. CASE ReadTile(t)
  <2>1. gil = None /\ UNCHANGED <<file, pending, mutex, gil, ghosts>> /\ c.op = "read"
    BY <1>2 DEF ReadTile, Runs
  <2>2. Working(c)
    BY <1>2, <2>1, Runner DEF ReadTile
  <2>3. Becomes(t, Idle) \/ (Len(c.todo) # 1 /\ Becomes(t, [c EXCEPT !.todo = Tail(@)]))
    BY <1>2 DEF ReadTile
  <2>4. Unmoved /\ UNCHANGED <<pending, mutex, lost>>
    BY <2>1 DEF Unmoved, file, ghosts
  <2>5. CASE Becomes(t, Idle)
    <3>1. Stops(t)
      BY <2>1, <2>2, <2>4, <2>5 DEF Stops
    <3> QED
      BY <3>1 DEF Steps
  <2>6. CASE Len(c.todo) # 1 /\ Becomes(t, [c EXCEPT !.todo = Tail(@)])
    <3> DEFINE d == [c EXCEPT !.todo = Tail(@)]
    <3>1. Working(d) /\ SameCall(c, d)
      BY <2>1, <2>2, <2>6, WorkGoesOn, WorkKeeps
    <3>2. Becomes(t, d)
      BY <2>6
    <3> HIDE DEF d
    <3>3. Continues(t, d)
      BY <2>2, <2>4, <3>1, <3>2 DEF Continues
    <3> QED
      BY <3>3 DEF Steps
  <2> QED
    BY <2>3, <2>5, <2>6
<1>3. CASE LoadMain(t)
  <2>1. /\ gil = None /\ UNCHANGED <<file, pending, mutex, gil, ghosts>>
        /\ c.op \in {"write", "extend", "setitem"}
    BY <1>3 DEF LoadMain, Runs
  <2>2. Working(c)
    BY <1>3, <2>1, Runner DEF LoadMain
  <2>3. PICK m : Becomes(t, [c EXCEPT !.ph = "encode", !.main = m])
    BY <1>3 DEF LoadMain
  <2>4. Unmoved /\ UNCHANGED <<pending, mutex, lost>>
    BY <2>1 DEF Unmoved, file, ghosts
  <2> DEFINE d == [c EXCEPT !.ph = "encode", !.main = m]
  <2>5. Working(d) /\ SameCall(c, d)
    BY <2>1, <2>2, WorkGoesOn, WorkKeeps
  <2>6. Becomes(t, d)
    BY <2>3
  <2> HIDE DEF d
  <2>7. Continues(t, d)
    BY <2>2, <2>4, <2>5, <2>6 DEF Continues
  <2> QED
    BY <2>7 DEF Steps
<1>4. CASE EncodeTile(t)
  <2>1. /\ gil = None /\ UNCHANGED <<file, pending, mutex, gil, image>>
        /\ c # Idle /\ c.ph = "encode" /\ c.todo # <<>>
    BY <1>4 DEF EncodeTile
  <2>2. Working(c) /\ c.op # "read"
    BY <2>1, Runner DEF Working
  <2>3. Fails(t) \/ \E i, rows : Becomes(t, WithTile(c, i, rows)) /\ lost' = lost
    BY <1>4 DEF EncodeTile
  <2>4. Unmoved /\ UNCHANGED <<pending, mutex>>
    BY <2>1 DEF Unmoved, file
  <2>5. CASE Fails(t)
    <3>1. Stops(t)
      BY <2>2, <2>4, <2>5 DEF Stops, Fails
    <3> QED
      BY <3>1 DEF Steps
  <2>6. ASSUME NEW i, NEW rows, Becomes(t, WithTile(c, i, rows)), lost' = lost PROVE Steps(t)
    <3> DEFINE d == WithTile(c, i, rows)
    <3>1. Working(d) /\ SameCall(c, d)
      BY <2>1, <2>2, WorkGoesOn, WorkKeeps
    <3>2. Becomes(t, d)
      BY <2>6
    <3> HIDE DEF d
    <3>3. Continues(t, d)
      BY <2>2, <2>4, <2>6, <3>1, <3>2 DEF Continues
    <3> QED
      BY <3>3 DEF Steps
  <2> QED
    BY <2>3, <2>5, <2>6
<1>5. CASE Commit(t)
  <2>1. /\ gil = None /\ UNCHANGED <<gil, pending, mutex, lost>> /\ cards' = NewCards(c)
        /\ c # Idle /\ c.ph = "encode" /\ Becomes(t, Idle) /\ image' = Result(c)
    BY <1>5 DEF Commit, ReadyToCommit
  <2>2. Working(c) /\ c.op # "read"
    BY <2>1, Runner DEF Working
  <2>3. cards'.rows = IF c.op = "extend" THEN c.cards.rows + Len(c.data) ELSE cards.rows
    <3>1. c.op \in {"write", "extend", "setitem"} /\ CardsOK(cards)
      BY <2>2 DEF Working, Typed
    <3>2. CASE c.op = "extend"
      <4>1. cards' = ExtendCards(c) /\ RowsAfter(c) = c.cards.rows + Len(c.data)
        BY <2>1, <3>2 DEF NewCards, RowsAfter
      <4> QED
        BY <3>1, <3>2, <4>1 DEF ExtendCards, SetItemCards, CardsOK
    <3>3. CASE c.op # "extend"
      BY <2>1, <3>1, <3>3 DEF NewCards, WriteCards, SetItemCards, CardsOK
    <3> QED
      BY <3>2, <3>3
  <2>4. Commits(t)
    BY <2>1, <2>2, <2>3 DEF Commits
  <2> QED
    BY <2>4 DEF Steps
<1>6. CASE CommitFails(t)
  <2>1. /\ gil = None /\ UNCHANGED <<cards, pending, mutex, gil, image>> /\ Fails(t)
        /\ c # Idle /\ c.ph = "encode"
    BY <1>6 DEF CommitFails, ReadyToCommit
  <2>2. Working(c)
    BY <2>1, Runner
  <2>3. Stops(t)
    BY <2>1, <2>2 DEF Stops, Fails, Unmoved
  <2> QED
    BY <2>3 DEF Steps
<1>7. CASE Popped(t)
  <2>1. gil = None /\ Popping(c)
    BY <1>7, Runner DEF Popped, Runs
  <2>2. Pops(t)
    BY <1>7, <2>1 DEF Popped, Pops, Drain, Unmoved, file, ghosts
  <2> QED
    BY <2>2 DEF Steps
<1>8. CASE PopFails(t)
  <2>1. gil = None /\ Popping(c)
    BY <1>8, Runner DEF PopFails, Runs
  <2>2. PopsBadly(t)
    BY <1>8, <2>1 DEF PopFails, PopsBadly, Unmoved, file
  <2> QED
    BY <2>2 DEF Steps
<1> QED
  BY <1>2, <1>3, <1>4, <1>5, <1>6, <1>7, <1>8 DEF GoesOn

\* A caller waits for the mutex, with the GIL in hand.
Blocks(t) ==
    /\ gil = None /\ gil' = t /\ call[t] = Idle /\ Becomes(t, Waiting)
    /\ UNCHANGED <<cards, sect, cache, pending, mutex, tainted, open, image, lost, clobbered>>

\* No thread takes a step while one waits so, and nothing else makes one wait.
LEMMA NextRuns == Next => gil = None
<1> SUFFICES ASSUME NEW t \in Threads, Read(t) \/ Change(t) \/ GoesOn(t) PROVE gil = None
  BY DEF Next
<1>1. CASE GoesOn(t)
  BY <1>1 DEF GoesOn, ReadTile, LoadMain, EncodeTile, Commit, CommitFails, Popped, PopFails, Runs,
     ReadyToCommit
<1>2. CASE Read(t) \/ Change(t)
  BY <1>2 DEF Read, Change, BeginRead, BeginWrite, BeginExtend, BeginSetItem, BufferRows, Enters,
     Repack, RepackFails, EnterContext, ExitContext, ResizeCache, ClearCache, Close, Starts
<1> QED
  BY <1>1, <1>2

LEMMA NextBlocks == ASSUME Next, gil' # None PROVE \E t \in Threads : Blocks(t)
<1>0. gil = None
  BY NextRuns
<1>1. PICK t \in Threads : Read(t) \/ Change(t) \/ GoesOn(t)
  BY DEF Next
<1>2. ~GoesOn(t)
  BY <1>0 DEF GoesOn, ReadTile, LoadMain, EncodeTile, Commit, CommitFails, Popped, PopFails
<1> DEFINE W == /\ gil' = t /\ call[t] = Idle /\ call' = [call EXCEPT ![t] = Waiting]
                /\ UNCHANGED <<file, cache, pending, mutex, ghosts>>
<1>3. ASSUME NEW c, Enters(t, c) PROVE W
  BY <1>0, <1>3 DEF Enters, Starts
<1>4. ASSUME NEW data, BufferRows(t, data) PROVE W
  BY <1>0, <1>4 DEF BufferRows, Starts
<1>5. ASSUME Repack(t) \/ RepackFails(t) \/ EnterContext(t) \/ ExitContext(t) \/ Close(t) PROVE W
  BY <1>0, <1>5 DEF Repack, RepackFails, EnterContext, ExitContext, Close, Starts
<1>6. ~ClearCache(t) /\ ~\E cap \in Capacities : ResizeCache(t, cap)
  BY <1>0 DEF ClearCache, ResizeCache
<1> HIDE DEF W
<1>7. W
  BY <1>1, <1>2, <1>3, <1>4, <1>5, <1>6
     DEF Read, Change, BeginRead, BeginWrite, BeginExtend, BeginSetItem
<1>8. Blocks(t)
  BY <1>0, <1>7 DEF W, Blocks, Becomes, file, ghosts
<1> QED
  BY <1>8

\* Every step of callers that keep to the discipline, unless it makes one wait.
LEMMA NextSteps ==
  ASSUME Typed, Solo, Coordinated, gil' = None, [Next]_vars PROVE Quiet \/ \E t \in Threads : Steps(t)
<1>1. CASE UNCHANGED vars
  BY <1>1 DEF vars, Quiet, Unmoved
<1>2. CASE Next
  BY <1>2, ReadSteps, ChangeSteps, GoesOnSteps DEF Next
<1> QED
  BY <1>1, <1>2

\* The first state is one of such callers.
LEMMA InitSolo == Init => Solo
BY DEF Init, Solo, NoBuffer, Idle, None, Writers

\* The calls after a step that makes the call of one thread c.
LEMMA Calls ==
  ASSUME Typed, NEW t \in Threads, NEW c, Becomes(t, c)
  PROVE  call'[t] = c /\ \A u \in Threads \ {t} : call'[u] = call[u]
BY DEF Becomes, Typed

\* The kinds of call.
LEMMA Kinds ==
  /\ Idle.op = None /\ None \notin {"extend", "pop"} /\ None \notin Writers
  /\ \A c : Popping(c) => c.op = "pop" /\ c # Idle
  /\ \A c : Working(c) => c.op # "pop" /\ c # Idle
<1>1. Idle.op = None /\ None \notin {"extend", "pop"} /\ None \notin Writers
  BY DEF Idle, None, Writers
<1>2. \A c : Popping(c) => c.op = "pop"
  BY DEF Popping
<1>3. \A c : Working(c) => c.op # "pop" /\ c.op # None
  BY DEF Working, None
<1> QED
  BY <1>1, <1>2, <1>3

\* A drain is a call on tiles.
LEMMA DrainWorks ==
  ASSUME CardsOK(cards), NEW data \in Seq(Vals)
  PROVE  LET c == Drain(data)
         IN  Working(c) /\ c.op = "extend" /\ c.buffered /\ c.data = data /\ c.cards = cards
<1>1. Len(data) \in Nat
  OBVIOUS
<1>2. ExtendTodo(Len(data)) \in Seq(Nat)
  BY <1>1, Todos
<1>3. Working(Drain(data))
  BY <1>2, CallWorks DEF Drain, ExtendCall
<1>4. LET c == Drain(data) IN c.op = "extend" /\ c.buffered /\ c.data = data /\ c.cards = cards
  BY DEF Drain, ExtendCall, Call
<1> QED
  BY <1>3, <1>4

\* Every step keeps such callers.
LEMMA SoloStep ==
  ASSUME Typed, Solo, NEW t \in Threads, Quiet \/ Steps(t) PROVE Solo'
<1> USE Kinds
<1>0. gil = None /\ CardsOK(cards) /\ pending.rows \in Seq(Vals)
  BY DEF Solo, Typed
<1>1. CASE Quiet
  BY <1>1 DEF Quiet, Unmoved, Solo
<1>2. CASE Opens
  <2>1. /\ UNCHANGED <<call, mutex, gil>> /\ pending'.on /\ \A u \in Threads : call[u] = Idle
    BY <1>2 DEF Opens, Unmoved, AllIdle, NoBuffer
  <2> QED
    BY <2>1 DEF Solo
<1>3. ASSUME NEW c, Begins(t, c) PROVE Solo'
  <2>1. /\ UNCHANGED <<gil, pending, mutex>> /\ ~pending.on /\ Working(c)
        /\ \A u \in Threads : call[u].op \notin {"extend", "pop"}
        /\ c.op = "extend" => \A u \in Threads \ {t} : call[u] = Idle
        /\ c.op \in Writers => \A u \in Threads : call[u].op \notin Writers
    BY <1>3 DEF Begins, Unmoved
  <2>2. call'[t] = c /\ \A u \in Threads \ {t} : call'[u] = call[u]
    BY <1>3, Calls DEF Begins
  <2> QED
    BY <2>1, <2>2 DEF Solo
<1>4. ASSUME NEW data, Buffers(t, data) PROVE Solo'
  <2>1. /\ gil' = gil /\ \A u \in Threads : call[u] = Idle
        /\ pending'.on
    BY <1>4 DEF Buffers, Unmoved, AllIdle, Typed
  <2>2. CASE UNCHANGED <<call, mutex>>
    BY <2>1, <2>2 DEF Solo
  <2>3. CASE \E c : Becomes(t, c) /\ c.op = "pop"
    <3>1. PICK c : Becomes(t, c) /\ c.op = "pop"
      BY <2>3
    <3>2. call'[t] = c /\ \A u \in Threads \ {t} : call'[u] = call[u]
      BY <3>1, Calls
    <3> QED
      BY <2>1, <3>1, <3>2 DEF Solo
  <2>4. UNCHANGED <<call, mutex>> \/ \E c : Becomes(t, c) /\ c.op = "pop"
    BY <1>4 DEF Buffers
  <2> QED
    BY <2>2, <2>3, <2>4
<1>5. CASE Leaves(t)
  <2>1. /\ UNCHANGED <<gil, mutex>> /\ \A u \in Threads : call[u] = Idle
        /\ ~pending'.on
    BY <1>5 DEF Leaves, Unmoved, AllIdle, NoBuffer
  <2>2. CASE call' = call
    BY <2>1, <2>2 DEF Solo
  <2>3. CASE Becomes(t, Drain(pending.rows))
    <3>1. Drain(pending.rows).op = "extend"
      BY <1>0, DrainWorks
    <3>2. call'[t] = Drain(pending.rows) /\ \A u \in Threads \ {t} : call'[u] = call[u]
      BY <2>3, Calls
    <3>3. mutex = None
      BY <2>1 DEF Solo
    <3> QED
      BY <2>1, <3>1, <3>2, <3>3 DEF Solo
  <2> QED
    BY <1>5, <2>2, <2>3 DEF Leaves
<1>6. ASSUME NEW d, Continues(t, d) PROVE Solo'
  <2>1. /\ UNCHANGED <<gil, pending, mutex>> /\ Working(call[t]) /\ Working(d)
        /\ d.op = call[t].op /\ d.buffered = call[t].buffered
    BY <1>6 DEF Continues, SameCall, Unmoved
  <2>2. call'[t] = d /\ \A u \in Threads \ {t} : call'[u] = call[u]
    BY <1>6, Calls DEF Continues
  <2> QED
    BY <2>1, <2>2 DEF Solo
<1>7. CASE Stops(t) \/ Commits(t)
  <2>1. /\ UNCHANGED <<gil, pending, mutex>> /\ Working(call[t]) /\ Becomes(t, Idle)
    BY <1>7 DEF Stops, Commits, Unmoved
  <2>2. call'[t] = Idle /\ \A u \in Threads \ {t} : call'[u] = call[u]
    BY <2>1, Calls
  <2> QED
    BY <2>1, <2>2 DEF Solo
<1>8. CASE Pops(t) \/ PopsBadly(t)
  <2> DEFINE n == Least(call[t].n, Len(pending.rows))
             q == SubSeq(pending.rows, 1, n)
  <2>1. /\ gil' = gil /\ mutex' = None /\ Popping(call[t]) /\ pending'.on = pending.on
    BY <1>8 DEF Pops, PopsBadly, Unmoved, Typed
  <2>2. Becomes(t, Idle) \/ Becomes(t, Drain(q))
    BY <1>8 DEF Pops, PopsBadly
  <2>3. Drain(q).op = "extend" /\ Drain(q).buffered
    <3>1. n \in 0..Len(pending.rows)
      BY <1>0, <2>1 DEF Popping, Least
    <3> HIDE DEF n
    <3>2. q \in Seq(Vals)
      BY <1>0, <3>1
    <3> QED
      BY <1>0, <3>2, DrainWorks
  <2> HIDE DEF q
  <2>4. \A u \in Threads \ {t} : call[u] = Idle
    BY <2>1 DEF Solo
  <2>5. CASE Becomes(t, Idle)
    <3>1. call'[t] = Idle /\ \A u \in Threads \ {t} : call'[u] = call[u]
      BY <2>5, Calls
    <3> QED
      BY <1>0, <2>1, <2>4, <3>1 DEF Solo
  <2>6. CASE Becomes(t, Drain(q))
    <3>1. call'[t] = Drain(q) /\ \A u \in Threads \ {t} : call'[u] = call[u]
      BY <2>6, Calls
    <3> QED
      BY <1>0, <2>1, <2>3, <2>4, <3>1 DEF Solo
  <2> QED
    BY <2>2, <2>5, <2>6
<1> QED
  BY <1>1, <1>2, <1>3, <1>4, <1>5, <1>6, <1>7, <1>8 DEF Steps

-----------------------------------------------------------------------------
(* Drains end on a tile boundary.                                          *)

\* An extend works on the cards as they still are; a pop is to take what brings the image
\* to a boundary, and the extend of a drain inside the context does bring it there.
Aligned ==
    /\ ~lost => pending.total = Len(pending.rows)
    /\ \A t \in Threads :
         LET c == call[t] IN
         /\ c.op = "extend" => c.cards.rows = cards.rows
         /\ c.op = "pop" /\ ~lost => c.n = AlignedDrainRows(cards.rows, Len(pending.rows))
         /\ c.op = "extend" /\ pending.on /\ ~lost =>
              (cards.rows + Len(c.data)) % TileRows = 0

\* The first state.
LEMMA InitAligned == Init => Aligned
<1> SUFFICES ASSUME Init PROVE Aligned
  OBVIOUS
<1>1. \A t \in Threads : call[t].op \notin {"extend", "pop"}
  BY Kinds DEF Init
<1>2. pending.total = Len(pending.rows)
  BY DEF Init, NoBuffer
<1> QED
  BY <1>1, <1>2 DEF Aligned

\* The rows that a pop takes.
LEMMA PoppedRows ==
  ASSUME Typed, NEW t \in Threads, Popping(call[t])
  PROVE  LET rows == pending.rows
             n == Least(call[t].n, Len(rows))
         IN  /\ n \in 0..Len(rows) /\ (call[t].n <= Len(rows) => n = call[t].n)
             /\ SubSeq(rows, 1, n) \in Seq(Vals) /\ Len(SubSeq(rows, 1, n)) = n
             /\ SubSeq(rows, n + 1, Len(rows)) \in Seq(Vals)
             /\ SubSeq(rows, 1, n) \o SubSeq(rows, n + 1, Len(rows)) = rows
<1> DEFINE rows == pending.rows
           n == Least(call[t].n, Len(rows))
<1>1. rows \in Seq(Vals) /\ Len(rows) \in Nat /\ call[t].n \in Nat
  BY DEF Typed, Popping
<1>2. n \in 0..Len(rows) /\ (call[t].n <= Len(rows) => n = call[t].n)
  BY <1>1 DEF Least
<1> HIDE DEF rows, n
<1> DEFINE a == SubSeq(rows, 1, n)
           b == SubSeq(rows, n + 1, Len(rows))
<1>3. a \in Seq(Vals) /\ Len(a) = n /\ \A i \in 1..n : a[i] = rows[i]
  BY <1>1, <1>2
<1>4. b \in Seq(Vals) /\ Len(b) = Len(rows) - n /\ \A i \in 1..(Len(rows) - n) : b[i] = rows[n + i]
  BY <1>1, <1>2
<1> HIDE DEF a, b
<1>5. a \o b = rows
  <2>1. /\ a \o b \in Seq(Vals) /\ Len(a \o b) = Len(rows)
    <3>1. a \o b \in Seq(Vals) /\ Len(a \o b) = Len(a) + Len(b)
      BY <1>3, <1>4, ConcatProperties
    <3>2. Len(a) + Len(b) = Len(rows)
      BY <1>1, <1>2, <1>3, <1>4
    <3> QED
      BY <3>1, <3>2
  <2>2. ASSUME NEW i \in 1..Len(rows) PROVE (a \o b)[i] = rows[i]
    <3>0. (a \o b)[i] = IF i <= n THEN a[i] ELSE b[i - n]
      <4>1. i \in 1..(Len(a) + Len(b))
        BY <1>1, <1>2, <1>3, <1>4
      <4>2. (a \o b)[i] = IF i <= Len(a) THEN a[i] ELSE b[i - Len(a)]
        BY <1>3, <1>4, <4>1, ConcatProperties
      <4> QED
        BY <1>3, <4>2
    <3>1. CASE i <= n
      <4>1. i \in 1..n
        BY <1>1, <1>2, <3>1
      <4> QED
        BY <1>3, <3>0, <3>1, <4>1
    <3>2. CASE ~(i <= n)
      <4>1. i - n \in 1..(Len(rows) - n) /\ n + (i - n) = i
        BY <1>1, <1>2, <3>2
      <4>2. (a \o b)[i] = b[i - n]
        BY <3>0, <3>2
      <4> QED
        BY <1>4, <4>1, <4>2
    <3> QED
      BY <3>1, <3>2
  <2> QED
    BY <1>1, <2>1, <2>2, SeqEqual
<1> QED
  BY <1>2, <1>3, <1>4, <1>5 DEF rows, n, a, b

\* Every step.
LEMMA AlignedStep ==
  ASSUME Typed, Solo, Aligned, NEW t \in Threads, Quiet \/ Steps(t) PROVE Aligned'
<1> USE Kinds
<1>0. CardsOK(cards) /\ pending.rows \in Seq(Vals) /\ pending.total \in Nat
  BY DEF Typed
<1>1. CASE Quiet
  BY <1>1 DEF Quiet, Unmoved, Aligned
<1>2. CASE Opens
  <2>1. /\ UNCHANGED <<call, lost>> /\ \A u \in Threads : call[u] = Idle
        /\ pending'.total = Len(pending'.rows)
    BY <1>2 DEF Opens, AllIdle, NoBuffer
  <2> QED
    BY <2>1 DEF Aligned
<1>3. ASSUME NEW c, Begins(t, c) PROVE Aligned'
  <2>1. /\ cards'.rows = cards.rows /\ UNCHANGED <<pending, lost>> /\ ~pending.on /\ c.op # "pop"
        /\ c.cards.rows = cards.rows
    BY <1>3 DEF Begins, Unmoved
  <2>2. call'[t] = c /\ \A u \in Threads \ {t} : call'[u] = call[u]
    BY <1>3, Calls DEF Begins
  <2> QED
    BY <2>1, <2>2 DEF Aligned
<1>4. ASSUME NEW data, Buffers(t, data) PROVE Aligned'
  <2> DEFINE total == pending.total + Len(data)
             c == [op |-> "pop", ph |-> "main", n |-> AlignedDrainRows(cards.rows, total)]
  <2>1. /\ \A u \in Threads : call[u] = Idle
        /\ lost' = lost /\ cards'.rows = cards.rows /\ data \in Seq(Vals)
        /\ pending' = [pending EXCEPT !.rows = @ \o data, !.total = total]
        /\ call' = call \/ Becomes(t, c)
    BY <1>4 DEF Buffers, Unmoved, AllIdle
  <2>2. pending'.total = total /\ pending'.rows = pending.rows \o data
    BY <2>1 DEF Typed
  <2>3. ~lost => total = Len(pending'.rows)
    <3> SUFFICES ASSUME ~lost PROVE total = Len(pending'.rows)
      OBVIOUS
    <3>1. pending.total = Len(pending.rows)
      BY DEF Aligned
    <3> QED
      BY <1>0, <2>1, <2>2, <3>1
  <2>4. c.op = "pop" /\ c.n = AlignedDrainRows(cards.rows, total)
    OBVIOUS
  <2> HIDE DEF total, c
  <2>5. CASE call' = call
    BY <2>1, <2>2, <2>3, <2>5 DEF Aligned
  <2>6. CASE Becomes(t, c)
    <3>1. call'[t] = c /\ \A u \in Threads \ {t} : call'[u] = call[u]
      BY <2>6, Calls
    <3> QED
      BY <2>1, <2>2, <2>3, <2>4, <3>1 DEF Aligned
  <2> QED
    BY <2>1, <2>5, <2>6
<1>5. CASE Leaves(t)
  <2>1. /\ \A u \in Threads : call[u] = Idle
        /\ cards'.rows = cards.rows
        /\ ~pending'.on /\ pending'.total = Len(pending'.rows)
    BY <1>5 DEF Leaves, Unmoved, AllIdle, NoBuffer
  <2>2. CASE call' = call
    BY <2>1, <2>2 DEF Aligned
  <2>3. CASE Becomes(t, Drain(pending.rows))
    <3>1. Drain(pending.rows).op = "extend" /\ Drain(pending.rows).cards = cards
      BY <1>0, DrainWorks
    <3>2. call'[t] = Drain(pending.rows) /\ \A u \in Threads \ {t} : call'[u] = call[u]
      BY <2>3, Calls
    <3> QED
      BY <2>1, <3>1, <3>2 DEF Aligned
  <2> QED
    BY <1>5, <2>2, <2>3 DEF Leaves
<1>6. ASSUME NEW d, Continues(t, d) PROVE Aligned'
  <2>1. /\ cards'.rows = cards.rows /\ UNCHANGED <<pending, lost>> /\ Working(d)
        /\ d.op = call[t].op /\ d.data = call[t].data /\ d.cards = call[t].cards
    BY <1>6 DEF Continues, SameCall, Unmoved
  <2>2. call'[t] = d /\ \A u \in Threads \ {t} : call'[u] = call[u]
    BY <1>6, Calls DEF Continues
  <2> QED
    BY <2>1, <2>2 DEF Aligned
<1>7. CASE Stops(t)
  <2>1. /\ pending' = pending /\ cards'.rows = cards.rows /\ (lost => lost') /\ Becomes(t, Idle)
    BY <1>7 DEF Stops, Unmoved
  <2>2. call'[t] = Idle /\ \A u \in Threads \ {t} : call'[u] = call[u]
    BY <2>1, Calls
  <2> QED
    BY <2>1, <2>2 DEF Aligned
<1>8. CASE Commits(t)
  <2>1. /\ UNCHANGED <<pending, lost>> /\ Becomes(t, Idle)
        /\ call[t].op # "extend" => cards'.rows = cards.rows
    BY <1>8 DEF Commits
  <2>2. call'[t] = Idle /\ \A u \in Threads \ {t} : call'[u] = call[u]
    BY <2>1, Calls
  <2>3. call[t].op = "extend" => \A u \in Threads \ {t} : call[u] = Idle
    BY DEF Solo
  <2> QED
    BY <2>1, <2>2, <2>3 DEF Aligned
<1>9. CASE Pops(t)
  <2> DEFINE n == Least(call[t].n, Len(pending.rows))
             q == SubSeq(pending.rows, 1, n)
             rest == SubSeq(pending.rows, n + 1, Len(pending.rows))
  <2>1. /\ cards'.rows = cards.rows /\ lost' = lost /\ Popping(call[t]) /\ n > 0
        /\ pending' = [pending EXCEPT !.rows = rest, !.total = Len(rest)] /\ Becomes(t, Drain(q))
    BY <1>9 DEF Pops, Unmoved
  <2>2. /\ n \in 0..Len(pending.rows) /\ (call[t].n <= Len(pending.rows) => n = call[t].n)
        /\ q \in Seq(Vals) /\ Len(q) = n
    BY <2>1, PoppedRows
  <2>3. ~lost => (cards.rows + n) % TileRows = 0
    <3> SUFFICES ASSUME ~lost PROVE (cards.rows + n) % TileRows = 0
      OBVIOUS
    <3>1. call[t].n = AlignedDrainRows(cards.rows, Len(pending.rows))
      BY <2>1 DEF Aligned
    <3>2. cards.rows \in Nat /\ Len(pending.rows) \in Nat
      BY <1>0 DEF CardsOK
    <3> HIDE DEF n
    <3>3. call[t].n <= Len(pending.rows) /\ (call[t].n > 0 => (cards.rows + call[t].n) % TileRows = 0)
      BY <3>1, <3>2, DrainEnds
    <3> QED
      BY <2>1, <2>2, <3>3
  <2> HIDE DEF n
  <2>4. Drain(q).op = "extend" /\ Drain(q).cards = cards /\ Drain(q).data = q
    BY <1>0, <2>2, DrainWorks
  <2>5. /\ pending'.total = Len(pending'.rows)
    <3> HIDE DEF rest
    <3> QED
      BY <2>1 DEF Typed
  <2> HIDE DEF q
  <2>6. call'[t] = Drain(q) /\ \A u \in Threads \ {t} : call'[u] = call[u]
    BY <2>1, Calls
  <2>7. \A u \in Threads \ {t} : call[u] = Idle
    BY <2>1 DEF Solo
  <2>8. ~lost => (cards'.rows + Len(call'[t].data)) % TileRows = 0
    BY <2>1, <2>2, <2>3, <2>4, <2>6
  <2> QED
    BY <2>1, <2>4, <2>5, <2>6, <2>7, <2>8 DEF Aligned
<1>10. CASE PopsBadly(t)
  <2>1. lost' /\ Becomes(t, Idle) /\ cards'.rows = cards.rows /\ Popping(call[t])
    BY <1>10 DEF PopsBadly, Unmoved
  <2>2. call'[t] = Idle /\ \A u \in Threads \ {t} : call'[u] = call[u]
    BY <2>1, Calls
  <2>3. \A u \in Threads \ {t} : call[u] = Idle
    BY <2>1 DEF Solo
  <2> QED
    BY <2>1, <2>2, <2>3 DEF Aligned
<1> QED
  BY <1>1, <1>2, <1>3, <1>4, <1>5, <1>6, <1>7, <1>8, <1>9, <1>10 DEF Steps

\* Only the commit of an extend moves the end of the image.
LEMMA EndMoves ==
  ASSUME Solo, Aligned, NEW t \in Threads, Quiet \/ Steps(t), pending.on, cards'.rows # cards.rows, ~lost
  PROVE  cards'.rows % TileRows = 0
<1>1. Commits(t)
  BY DEF Steps, Quiet, Opens, Leaves, Stops, Pops, PopsBadly, Begins, Continues, Buffers, Unmoved
<1>2. call[t].op = "extend" /\ cards'.rows = call[t].cards.rows + Len(call[t].data)
  BY <1>1 DEF Commits
<1> QED
  BY <1>2 DEF Aligned

\* With callers that change the HDU one at a time, a drain inside the context ends on a
\* tile boundary as long as no rows were lost to an error, for tiles of any size, any
\* number of threads and any sequence of drains (aligned_drain_rows, pop_front_rows and
\* drain_aligned_subset of extending.rs).
THEOREM DrainsEndOnTiles ==
  ASSUME Coordinated PROVE Spec => DrainsAligned
<1> DEFINE I == Typed /\ (gil = None => Solo /\ Aligned)
           A == pending.on /\ cards'.rows # cards.rows /\ ~lost => cards'.rows % TileRows = 0
<1>1. Init => I
  BY InitTyped, InitSolo, InitAligned
<1>2. ASSUME I, [Next]_vars PROVE I' /\ [A]_vars
  <2>1. Typed'
    BY <1>2, StepTyped
  <2>2. CASE UNCHANGED vars
    BY <1>2, <2>1, <2>2 DEF vars, Solo, Aligned
  <2>3. CASE Next /\ gil' = None
    <3>0. Solo /\ Aligned
      BY <1>2, <2>3, NextRuns
    <3>1. PICK t \in Threads : Quiet \/ Steps(t)
      BY <1>2, <2>3, <3>0, NextSteps DEF Next
    <3>2. Solo' /\ Aligned' /\ A
      BY <1>2, <3>0, <3>1, SoloStep, AlignedStep, EndMoves
    <3> QED
      BY <2>1, <3>2
  <2>4. CASE Next /\ gil' # None
    BY <2>1, <2>4, NextBlocks DEF Blocks
  <2> QED
    BY <1>2, <2>2, <2>3, <2>4
<1> HIDE DEF I
<1>3. I /\ [Next]_vars => I' /\ [A]_vars
  BY <1>2
<1> QED
  BY <1>1, <1>3, PTL DEF Spec, DrainsAligned

-----------------------------------------------------------------------------
(* The rows of the context come to the image once and in order.            *)

\* A sequence is a prefix of itself with more behind it.
LEMMA PrefixGrows ==
  ASSUME NEW S, NEW s \in Seq(S), NEW e \in Seq(S)
  PROVE  IsPrefix(s, s \o e) /\ IsPrefix(s, s)
<1> DEFINE w == s \o e
           a == SubSeq(s, 1, Len(s))
           b == SubSeq(w, 1, Len(s))
<1>1. /\ Len(s) \in Nat /\ Len(e) \in Nat /\ w \in Seq(S) /\ Len(w) = Len(s) + Len(e)
      /\ \A i \in 1..(Len(s) + Len(e)) : w[i] = IF i <= Len(s) THEN s[i] ELSE e[i - Len(s)]
  BY ConcatProperties
<1> HIDE DEF w
<1>2. a = s
  BY <1>1
<1>3. b \in Seq(S) /\ Len(b) = Len(s) /\ \A i \in 1..Len(s) : b[i] = w[i]
  BY <1>1
<1> HIDE DEF b
<1>4. \A i \in 1..Len(s) : b[i] = s[i]
  BY <1>1, <1>3
<1>5. b = s
  BY <1>3, <1>4, SeqEqual
<1>6. Len(s) <= Len(w)
  BY <1>1
<1> QED
  BY <1>1, <1>2, <1>5, <1>6 DEF IsPrefix, b, w

\* What the calls k have in their hands of the buffer.
Hands(k) ==
    LET D == {t \in Threads : k[t].op = "extend" /\ k[t].buffered}
    IN  IF D = {} THEN <<>> ELSE k[CHOOSE t \in D : TRUE].data

\* Nobody drains; thread t alone does.
LEMMA HandsAre ==
  ASSUME NEW k
  PROVE  /\ (\A u \in Threads : k[u].op # "extend") => Hands(k) = <<>>
         /\ \A t \in Threads :
              /\ k[t].op = "extend" /\ k[t].buffered
              /\ \A u \in Threads \ {t} : k[u].op # "extend"
              => Hands(k) = k[t].data
<1>1. ASSUME \A u \in Threads : k[u].op # "extend" PROVE Hands(k) = <<>>
  <2>1. {t \in Threads : k[t].op = "extend" /\ k[t].buffered} = {}
    BY <1>1
  <2> QED
    BY <2>1 DEF Hands
<1>2. ASSUME NEW t \in Threads, k[t].op = "extend", k[t].buffered,
             \A u \in Threads \ {t} : k[u].op # "extend"
      PROVE  Hands(k) = k[t].data
  <2> DEFINE D == {u \in Threads : k[u].op = "extend" /\ k[u].buffered}
  <2>1. D = {t}
    BY <1>2
  <2>2. Hands(k) = IF D = {} THEN <<>> ELSE k[CHOOSE u \in D : TRUE].data
    BY DEF Hands
  <2> HIDE DEF D
  <2>3. (CHOOSE u \in D : TRUE) = t /\ D # {}
    BY <2>1
  <2> QED
    BY <2>2, <2>3
<1> QED
  BY <1>1, <1>2

\* The image is a sequence, of whatever.
Imaged == \E S : image \in Seq(S)

\* The first image.
LEMMA InitImaged == Init => Imaged
<1> SUFFICES ASSUME Init PROVE Imaged
  OBVIOUS
<1>1. cards.rows \in Nat
  BY InitTyped DEF Typed, CardsOK
<1>2. image \in Seq({0})
  BY <1>1 DEF Init
<1> QED
  BY <1>2 DEF Imaged

\* Every step.
LEMMA ImagedStep ==
  ASSUME Imaged, NEW t \in Threads, Quiet \/ Steps(t) PROVE Imaged'
<1>1. CASE image' = image
  BY <1>1 DEF Imaged
<1>2. CASE Commits(t)
  <2> DEFINE c == call[t]
  <2>1. Working(c) /\ c.op \in {"write", "extend", "setitem"} /\ image' = Result(c) /\ c.data \in Seq(Vals)
    BY <1>2 DEF Commits, Working
  <2>2. PICK S : image \in Seq(S)
    BY DEF Imaged
  <2>3. CASE c.op = "write"
    BY <2>1, <2>3 DEF Result, Imaged
  <2>4. CASE c.op = "extend"
    <3>1. image \in Seq(S \cup Vals) /\ c.data \in Seq(S \cup Vals)
      BY <2>1, <2>2
    <3>2. image' = image \o c.data
      BY <2>1, <2>4 DEF Result
    <3> HIDE DEF c
    <3>3. image \o c.data \in Seq(S \cup Vals)
      BY <3>1, ConcatProperties
    <3> QED
      BY <3>2, <3>3 DEF Imaged
  <2>5. CASE c.op = "setitem"
    <3>1. PICK f : image' = f /\ f = [r \in DOMAIN image |-> f[r]]
      BY <2>1, <2>5 DEF Result
    <3> DEFINE V == {f[r] : r \in DOMAIN image}
    <3>2. DOMAIN image = 1..Len(image) /\ Len(image) \in Nat
      BY <2>2
    <3>3. f \in [1..Len(image) -> V]
      BY <3>1, <3>2
    <3> HIDE DEF V
    <3>4. f \in Seq(V)
      BY <3>2, <3>3
    <3> QED
      BY <3>1, <3>4 DEF Imaged
  <2> QED
    BY <2>1, <2>3, <2>4, <2>5
<1> QED
  BY <1>1, <1>2 DEF Steps, Quiet, Opens, Leaves, Stops, Pops, PopsBadly, Begins, Continues, Buffers, Unmoved

\* In the context or a drain, the only call on tiles is the drain, and it is alone.
LEMMA Drainer ==
  ASSUME Solo, pending.on \/ Draining # {}, NEW t \in Threads, Working(call[t])
  PROVE  /\ call[t].op = "extend" /\ call[t].buffered
         /\ \A u \in Threads \ {t} : call[u].op # "extend" /\ call[u] = Idle
<1> USE Kinds
<1>1. call[t].op = "extend" /\ call[t].buffered
  <2>1. CASE pending.on
    BY <2>1 DEF Solo
  <2>2. CASE Draining # {}
    <3>1. PICK u \in Threads : call[u].op = "extend" /\ call[u].buffered
      BY <2>2 DEF Draining
    <3>2. u = t
      BY <3>1 DEF Solo
    <3> QED
      BY <3>1, <3>2
  <2> QED
    BY <2>1, <2>2
<1>2. \A u \in Threads \ {t} : call[u] = Idle
  BY <1>1 DEF Solo
<1> QED
  BY <1>1, <1>2

\* No step drops, repeats or reorders a row, unless it raises.
LEMMA HeldStep ==
  ASSUME Typed, Solo, Imaged, NEW t \in Threads, Quiet \/ Steps(t),
         pending.on \/ Draining # {}
  PROVE  IsPrefix(Held, Held') \/ lost'
<1> USE Kinds
<1>0. PICK S : image \in Seq(S)
  BY DEF Imaged
<1> DEFINE V == S \cup Vals
           I == image
           R == pending.rows
<1>1. I \in Seq(V) /\ R \in Seq(V) /\ <<>> \in Seq(V) /\ \A d \in Seq(Vals) : d \in Seq(V)
  BY <1>0 DEF Typed
<1>2. /\ Held = (I \o Hands(call)) \o R
      /\ Held' = (image' \o Hands(call')) \o pending'.rows
  BY DEF Held, Draining, Hands
<1> HIDE DEF V, I, R
<1>3. ASSUME \A u \in Threads : call[u].op # "extend"
      PROVE  Hands(call) = <<>> /\ Held = I \o R /\ Held \in Seq(V) /\ pending.on
  <2>1. Hands(call) = <<>>
    BY <1>3, HandsAre
  <2>2. Held = (I \o <<>>) \o R
    BY <1>2, <2>1
  <2>3. I \o <<>> = I
    BY <1>1, ConcatEmptySeq
  <2>4. Draining = {}
    BY <1>3 DEF Draining
  <2> QED
    BY <1>1, <2>1, <2>2, <2>3, <2>4, ConcatProperties
<1>4. ASSUME Working(call[t])
      PROVE  /\ Held = (I \o call[t].data) \o R /\ Held \in Seq(V) /\ call[t].data \in Seq(V)
             /\ call[t].op = "extend" /\ call[t].buffered
             /\ \A u \in Threads \ {t} : call[u].op # "extend"
             /\ I \o call[t].data \in Seq(V)
  <2>1. /\ call[t].op = "extend" /\ call[t].buffered
        /\ \A u \in Threads \ {t} : call[u].op # "extend"
    BY <1>4, Drainer
  <2>2. Hands(call) = call[t].data
    BY <2>1, HandsAre
  <2>3. call[t].data \in Seq(V)
    BY <1>1, <1>4 DEF Working
  <2>4. I \o call[t].data \in Seq(V)
    BY <1>1, <2>3, ConcatProperties
  <2> QED
    BY <1>1, <1>2, <2>1, <2>2, <2>3, <2>4, ConcatProperties
<1>5. ASSUME Held \in Seq(V), Held' = Held PROVE IsPrefix(Held, Held')
  BY <1>1, <1>5, PrefixGrows
<1>6. CASE Quiet
  <2>1. call' = call /\ image' = I /\ pending'.rows = R
    BY <1>6 DEF Quiet, Unmoved, I, R
  <2>2. Held' = Held
    BY <1>2, <2>1
  <2>3. Held \in Seq(V)
    <3>1. Hands(call) \in Seq(V)
      <4>1. ASSUME NEW u \in Threads, call[u].op = "extend", call[u].buffered
            PROVE  call[u].data \in Seq(V)
        <5>1. Working(call[u])
          BY <4>1 DEF Typed, CallOK, Idle, Waiting, Popping, None
        <5> QED
          BY <1>1, <5>1 DEF Working
      <4> QED
        BY <1>1, <4>1 DEF Hands
    <3>2. I \o Hands(call) \in Seq(V)
      BY <1>1, <3>1, ConcatProperties
    <3> QED
      BY <1>1, <1>2, <3>2, ConcatProperties
  <2> QED
    BY <1>5, <2>2, <2>3
<1>7. CASE Opens \/ \E c : Begins(t, c)
  <2>1. ~pending.on /\ \A u \in Threads : call[u].op # "extend"
    BY <1>7 DEF Opens, AllIdle, Begins
  <2> QED
    BY <1>3, <2>1
<1>8. ASSUME NEW data, Buffers(t, data) PROVE IsPrefix(Held, Held')
  <2>1. \A u \in Threads : call[u].op # "extend"
    BY <1>8 DEF Buffers, AllIdle
  <2>2. image' = I /\ pending'.rows = R \o data /\ data \in Seq(V)
    BY <1>1, <1>8 DEF Buffers, Unmoved, Typed, I, R
  <2>3. \A u \in Threads : call'[u].op # "extend"
    <3>1. call' = call \/ \E c : Becomes(t, c) /\ c.op = "pop"
      BY <1>8 DEF Buffers
    <3> QED
      BY <2>1, <3>1, Calls
  <2>4. Hands(call') = <<>>
    BY <2>3, HandsAre
  <2>5. Held' = (I \o <<>>) \o (R \o data)
    BY <1>2, <2>2, <2>4
  <2>6. Held' = (I \o R) \o data
    <3>1. I \o <<>> = I
      BY <1>1, ConcatEmptySeq
    <3>2. (I \o R) \o data = I \o (R \o data)
      BY <1>1, <2>2, ConcatAssociative
    <3> QED
      BY <2>5, <3>1, <3>2
  <2> QED
    BY <1>3, <2>1, <2>2, <2>6, PrefixGrows
<1>9. CASE Leaves(t)
  <2>1. /\ \A u \in Threads : call[u] = Idle /\ call[u].op # "extend"
        /\ image' = I /\ pending'.rows = <<>>
    BY <1>9 DEF Leaves, AllIdle, Unmoved, NoBuffer, I
  <2>2. CASE call' = call /\ R = <<>>
    <3>1. Held' = (I \o <<>>) \o <<>> /\ Held = (I \o <<>>) \o <<>>
      BY <1>2, <1>3, <2>1, <2>2
    <3> QED
      BY <1>3, <1>5, <2>1, <3>1
  <2>3. CASE Becomes(t, Drain(R))
    <3>1. /\ Drain(R).op = "extend" /\ Drain(R).buffered /\ Drain(R).data = R
      BY DrainWorks DEF Typed, R
    <3>2. call'[t] = Drain(R) /\ \A u \in Threads \ {t} : call'[u] = call[u]
      BY <2>3, Calls
    <3>3. Hands(call') = R
      BY <2>1, <3>1, <3>2, HandsAre
    <3>4. Held' = (I \o R) \o <<>>
      BY <1>2, <2>1, <3>3
    <3>5. (I \o R) \o <<>> = I \o R
      <4>1. I \o R \in Seq(V)
        BY <1>1, ConcatProperties
      <4> QED
        BY <4>1, ConcatEmptySeq
    <3> QED
      BY <1>3, <1>5, <2>1, <3>4, <3>5
  <2> QED
    BY <1>9, <2>2, <2>3 DEF Leaves, R
<1>10. ASSUME NEW d, Continues(t, d) PROVE IsPrefix(Held, Held')
  <2>1. /\ Working(call[t]) /\ image' = I /\ pending'.rows = R
        /\ d.op = call[t].op /\ d.data = call[t].data /\ d.buffered = call[t].buffered
    BY <1>10 DEF Continues, SameCall, Unmoved, I, R
  <2>2. call'[t] = d /\ \A u \in Threads \ {t} : call'[u] = call[u]
    BY <1>10, Calls DEF Continues
  <2>3. Hands(call') = call[t].data
    <3>1. /\ call[t].op = "extend" /\ call[t].buffered
          /\ \A u \in Threads \ {t} : call[u].op # "extend"
      BY <1>4, <2>1
    <3>2. d.buffered
      BY <2>1, <3>1, Zenon
    <3>3. /\ call'[t].op = "extend" /\ call'[t].buffered /\ call'[t].data = call[t].data
          /\ \A u \in Threads \ {t} : call'[u].op # "extend"
      BY <2>1, <2>2, <3>1, <3>2, Zenon
    <3> QED
      BY <3>3, HandsAre
  <2>4. Held' = Held
    BY <1>2, <1>4, <2>1, <2>3
  <2> QED
    BY <1>4, <1>5, <2>1, <2>4
<1>11. CASE Stops(t)
  BY <1>4, <1>11 DEF Stops
<1>12. CASE Commits(t)
  <2> DEFINE q == call[t].data
  <2>1. /\ Working(call[t]) /\ pending'.rows = R /\ Becomes(t, Idle) /\ image' = Result(call[t])
    BY <1>12 DEF Commits, R
  <2>2. image' = I \o q
    BY <1>4, <2>1 DEF Result, I
  <2>3. call'[t] = Idle /\ \A u \in Threads \ {t} : call'[u] = call[u]
    BY <2>1, Calls
  <2>4. Hands(call') = <<>>
    BY <1>4, <2>1, <2>3, HandsAre
  <2> HIDE DEF q
  <2>5. Held' = ((I \o q) \o <<>>) \o R
    BY <1>2, <2>1, <2>2, <2>4
  <2>6. (I \o q) \o <<>> = I \o q /\ Held = (I \o q) \o R
    BY <1>4, <2>1, ConcatEmptySeq DEF q
  <2> QED
    BY <1>4, <1>5, <2>1, <2>5, <2>6
<1>13. CASE Pops(t)
  <2> DEFINE n == Least(call[t].n, Len(R))
             q == SubSeq(R, 1, n)
             rest == SubSeq(R, n + 1, Len(R))
  <2>1. Popping(call[t]) /\ image' = I
    BY <1>13 DEF Pops, Unmoved, I
  <2>2. Becomes(t, Drain(q)) /\ pending' = [pending EXCEPT !.rows = rest, !.total = Len(rest)]
    BY <1>13 DEF Pops, R
  <2>3. q \in Seq(Vals) /\ rest \in Seq(Vals) /\ q \o rest = R
    BY <2>1, PoppedRows DEF R
  <2> HIDE DEF q, rest
  <2>4. pending'.rows = rest
    BY <2>2 DEF Typed
  <2>5. /\ Drain(q).op = "extend" /\ Drain(q).buffered /\ Drain(q).data = q
    BY <2>3, DrainWorks DEF Typed
  <2>6. call'[t] = Drain(q) /\ \A u \in Threads \ {t} : call'[u] = call[u]
    BY <2>2, Calls
  <2>7. call[t].op = "pop" /\ \A u \in Threads \ {t} : call[u].op # "extend"
    BY <2>1 DEF Solo
  <2>8. Hands(call') = q
    BY <2>5, <2>6, <2>7, HandsAre
  <2>9. Held' = (I \o q) \o rest
    BY <1>2, <2>1, <2>4, <2>8
  <2>10. (I \o q) \o rest = I \o (q \o rest)
    <3>1. q \in Seq(V) /\ rest \in Seq(V) /\ I \in Seq(V)
      BY <1>1, <2>3
    <3> QED
      BY <3>1, ConcatAssociative
  <2>11. \A u \in Threads : call[u].op # "extend"
    BY <2>7
  <2> QED
    BY <1>3, <1>5, <2>3, <2>9, <2>10, <2>11
<1>14. CASE PopsBadly(t)
  BY <1>14 DEF PopsBadly
<1> QED
  BY <1>6, <1>7, <1>8, <1>9, <1>10, <1>11, <1>12, <1>13, <1>14 DEF Steps

\* Nor does a caller that has to wait.
LEMMA HeldBlocks ==
  ASSUME Typed, Solo, Imaged, NEW t \in Threads, Blocks(t), pending.on \/ Draining # {}
  PROVE  IsPrefix(Held, Held')
<1> USE Kinds
<1>0. PICK S : image \in Seq(S)
  BY DEF Imaged
<1>1. UNCHANGED <<image, pending>> /\ call[t] = Idle /\ Becomes(t, Waiting) /\ pending.rows \in Seq(Vals)
  BY DEF Blocks, Typed
<1>2. call'[t] = Waiting /\ Waiting.op # "extend" /\ \A u \in Threads \ {t} : call'[u] = call[u]
  BY <1>1, Calls DEF Waiting
<1>3. Hands(call') = Hands(call) /\ \E T : Hands(call) \in Seq(T)
  <2>1. CASE \A u \in Threads : call[u].op # "extend"
    <3>1. \A u \in Threads : call'[u].op # "extend"
      BY <1>2, <2>1
    <3>2. Hands(call) = <<>> /\ Hands(call') = <<>>
      BY <2>1, <3>1, HandsAre
    <3>3. <<>> \in Seq(S)
      OBVIOUS
    <3> QED
      BY <3>2, <3>3
  <2>2. ASSUME NEW u \in Threads, call[u].op = "extend"
        PROVE  Hands(call') = Hands(call) /\ \E T : Hands(call) \in Seq(T)
    <3>1. Working(call[u])
      <4>1. CallOK(call[u]) /\ call[u] # Idle
        BY <2>2 DEF Typed
      <4> QED
        BY <2>2, <4>1 DEF CallOK, Waiting
    <3>2. call[u].buffered /\ \A x \in Threads \ {u} : call[x].op # "extend"
      BY <3>1, Drainer
    <3>3. Hands(call) = call[u].data
      BY <2>2, <3>2, HandsAre
    <3>4. u # t
      BY <1>1, <2>2
    <3>5. call'[u] = call[u] /\ \A x \in Threads \ {u} : call'[x].op # "extend"
      BY <1>2, <3>2, <3>4
    <3>6. Hands(call') = call'[u].data
      BY <2>2, <3>2, <3>5, HandsAre
    <3>7. call[u].data \in Seq(Vals)
      BY <3>1 DEF Working
    <3> QED
      BY <3>3, <3>5, <3>6, <3>7
  <2> QED
    BY <2>1, <2>2
<1>4. Held = (image \o Hands(call)) \o pending.rows /\ Held' = (image' \o Hands(call')) \o pending'.rows
  BY DEF Held, Draining, Hands
<1>5. Held' = Held
  BY <1>1, <1>3, <1>4
<1>6. PICK T : Hands(call) \in Seq(T)
  BY <1>3
<1> DEFINE V == S \cup T \cup Vals
           g == Hands(call)
           r == pending.rows
           a == image \o g
<1>7. image \in Seq(V) /\ g \in Seq(V) /\ r \in Seq(V) /\ <<>> \in Seq(V)
  BY <1>0, <1>1, <1>6
<1> HIDE DEF V, g, r
<1>8. a \in Seq(V)
  BY <1>7, ConcatProperties
<1> HIDE DEF a
<1>9. a \o r \in Seq(V) /\ (a \o r) \o <<>> = a \o r
  BY <1>7, <1>8, ConcatProperties, ConcatEmptySeq
<1> DEFINE x == a \o r
<1>10. x \in Seq(V) /\ x \o <<>> = x
  BY <1>9
<1> HIDE DEF x
<1>11. IsPrefix(x, x)
  BY <1>7, <1>10, PrefixGrows
<1> QED
  BY <1>4, <1>5, <1>11 DEF x, a, g, r


\* With callers that change the HDU one at a time, the rows given to extend() inside a
\* context come to the image once and in order: no drain and not leaving the context
\* drops, repeats or reorders one unless an error was raised, whatever the tile size, the
\* cap of the buffer and the number of threads (append_to_buffer, pop_front_rows,
\* drain_aligned_subset and drain_residual_and_exit of extending.rs).
THEOREM RowsComeOnce ==
  ASSUME Coordinated PROVE Spec => BufferedRowsKept
<1> DEFINE I == Typed /\ (gil = None => Solo /\ Imaged)
           A == pending.on \/ Draining # {} => IsPrefix(Held, Held') \/ lost' \/ tainted'
<1>1. Init => I
  BY InitTyped, InitSolo, InitImaged
<1>2. ASSUME I, [Next]_vars PROVE I' /\ [A]_vars
  <2>1. Typed'
    BY <1>2, StepTyped
  <2>2. CASE UNCHANGED vars
    BY <1>2, <2>1, <2>2 DEF vars, Solo, Imaged
  <2>3. CASE Next /\ gil' = None
    <3>0. Solo /\ Imaged
      BY <1>2, <2>3, NextRuns
    <3>1. PICK t \in Threads : Quiet \/ Steps(t)
      BY <1>2, <2>3, <3>0, NextSteps DEF Next
    <3>2. Solo' /\ Imaged' /\ A
      BY <1>2, <3>0, <3>1, SoloStep, ImagedStep, HeldStep
    <3> QED
      BY <2>1, <3>2
  <2>4. CASE Next /\ gil' # None
    <3>0. Solo /\ Imaged
      BY <1>2, <2>4, NextRuns
    <3>1. PICK t \in Threads : Blocks(t)
      BY <2>4, NextBlocks
    <3>2. A
      BY <1>2, <3>0, <3>1, HeldBlocks
    <3> QED
      BY <2>1, <2>4, <3>2
  <2> QED
    BY <1>2, <2>2, <2>3, <2>4
<1> HIDE DEF I
<1>3. I /\ [Next]_vars => I' /\ [A]_vars
  BY <1>2
<1> QED
  BY <1>1, <1>3, PTL DEF Spec, BufferedRowsKept


-----------------------------------------------------------------------------
(* Rows and tiles.                                                         *)

\* The row before the first of tile i, and the last one in an image of n rows.
Lo(i) == (i - 1) * TileRows
Hi(i, n) == Least(i * TileRows, n)

\* Products with the rows of a tile.
LEMMA Products ==
  /\ TileRows \in Nat \ {0}
  /\ \A i \in Int : i * TileRows \in Int /\ Lo(i) = i * TileRows - TileRows
  /\ \A i, j \in Int : i <= j => i * TileRows <= j * TileRows
  /\ \A i \in Nat \ {0} : Lo(i) \in Nat
<1> DEFINE T == TileRows
<1>0. T \in Nat \ {0}
  BY TileAssumption
<1>1. ASSUME NEW i \in Int PROVE i * T \in Int /\ (i - 1) * T = i * T - T
  <2> HIDE DEF T
  <2> QED
    BY <1>0
<1>2. ASSUME NEW i \in Int, NEW j \in Int, i <= j PROVE i * T <= j * T
  <2> HIDE DEF T
  <2>1. (j - i) * T \in Nat /\ j - i \in Nat
    BY <1>0, <1>2
  <2>2. j * T = i * T + (j - i) * T
    BY <1>0
  <2> QED
    BY <1>0, <2>1, <2>2
<1>3. ASSUME NEW i \in Nat \ {0} PROVE (i - 1) * T \in Nat
  <2> HIDE DEF T
  <2> QED
    BY <1>0, <1>3
<1> QED
  BY <1>0, <1>1, <1>2, <1>3 DEF Lo

\* Tile i is one of the tiles of n rows when a row is in it.
LEMMA TileIsThere ==
  ASSUME NEW n \in Nat
  PROVE  /\ Tiles(n) \in Nat
         /\ \A i \in Nat \ {0} : i <= Tiles(n) <=> Lo(i) < n
         /\ n <= Tiles(n) * TileRows
         /\ n % TileRows = 0 => Tiles(n) * TileRows = n
<1> DEFINE T == TileRows
           q == Tiles(n)
<1>0. T \in Nat \ {0} /\ n + T - 1 \in Nat
  BY TileAssumption
<1>1. q \in Nat /\ q * T \in Nat /\ q * T <= n + T - 1 /\ n + T - 1 < q * T + T
  <2> DEFINE m == n + T - 1
  <2> HIDE DEF T, m
  <2>0. m \in Nat
    BY <1>0 DEF m
  <2>1. m % T = m - (m \div T) * T /\ m % T \in 0..(T - 1) /\ m \div T \in Nat
    BY <1>0, <2>0, Remainder
  <2>2. (m \div T) * T \in Nat
    BY <1>0, <2>1
  <2>3. (m \div T) * T <= m /\ m < (m \div T) * T + T
    <3> DEFINE d == (m \div T) * T
    <3> HIDE DEF d
    <3>1. d \in Nat /\ m % T = m - d /\ m % T \in 0..(T - 1)
      BY <2>1, <2>2 DEF d
    <3>2. d <= m /\ m < d + T
      BY <1>0, <2>0, <3>1
    <3> QED
      BY <3>2 DEF d
  <2>4. q = m \div T
    BY DEF Tiles, m, T
  <2> HIDE DEF q
  <2> QED
    BY <2>1, <2>2, <2>3, <2>4 DEF m
<1> HIDE DEF q
<1>2. ASSUME NEW i \in Nat \ {0} PROVE i <= q <=> Lo(i) < n
  <2>1. CASE i <= q
    <3>1. i * T <= q * T
      BY <1>1, <2>1, Products
    <3>2. Lo(i) = i * T - T /\ i * T \in Int
      BY Products
    <3> HIDE DEF T
    <3> QED
      BY <1>0, <1>1, <2>1, <3>1, <3>2
  <2>2. CASE ~(i <= q)
    <3>1. q <= i - 1 /\ i - 1 \in Int /\ q \in Int
      BY <1>1, <2>2
    <3>2. q * T <= (i - 1) * T
      BY <3>1, Products
    <3>3. Lo(i) = (i - 1) * T /\ Lo(i) \in Nat
      BY Products DEF Lo
    <3> HIDE DEF T
    <3>4. n <= q * T
      BY <1>0, <1>1
    <3> QED
      BY <1>0, <1>1, <2>2, <3>2, <3>3, <3>4
  <2> QED
    BY <2>1, <2>2
<1>3. n <= q * T
  <2> HIDE DEF T
  <2> QED
    BY <1>0, <1>1
<1>4. ASSUME n % T = 0 PROVE q * T = n
  <2> DEFINE k == n \div T
  <2>1. k \in Nat /\ n = k * T
    <3> HIDE DEF T
    <3>1. n % T = n - k * T /\ k \in Nat
      BY <1>0, Remainder
    <3>2. k * T \in Nat
      BY <1>0, <3>1
    <3> HIDE DEF k
    <3> QED
      BY <1>4, <3>1, <3>2
  <2> HIDE DEF k
  <2>2. q <= k
    <3> SUFFICES ASSUME ~(q <= k) PROVE FALSE
      OBVIOUS
    <3>1. k + 1 <= q /\ k + 1 \in Int
      BY <1>1, <2>1
    <3>2. (k + 1) * T <= q * T
      BY <1>1, <3>1, Products
    <3>3. (k + 1) * T = k * T + T
      <4> HIDE DEF T
      <4> QED
        BY <1>0, <2>1
    <3> HIDE DEF T
    <3> QED
      BY <1>0, <1>1, <2>1, <3>2, <3>3
  <2>3. q * T <= k * T
    BY <1>1, <2>1, <2>2, Products
  <2> HIDE DEF T
  <2> QED
    BY <1>1, <1>3, <2>1, <2>3
<1> QED
  BY <1>1, <1>2, <1>3, <1>4 DEF q

\* The rows of a tile.
LEMMA TileShape ==
  ASSUME NEW n \in Nat, NEW i \in 1..Tiles(n)
  PROVE  /\ i \in Nat \ {0} /\ Lo(i) \in Nat /\ Hi(i, n) \in Nat
         /\ Lo(i) < Hi(i, n) /\ Hi(i, n) <= n /\ Hi(i, n) <= Lo(i) + TileRows
         /\ i * TileRows = Lo(i) + TileRows
         /\ Hi(i, n) = n \/ Hi(i, n) = Lo(i) + TileRows
         /\ Cardinality(TileSpan(i, n)) = Hi(i, n) - Lo(i)
<1>1. i \in Nat \ {0} /\ i <= Tiles(n) /\ TileRows \in Nat \ {0}
  BY TileIsThere, TileAssumption
<1>2. Lo(i) < n /\ Lo(i) \in Nat
  BY <1>1, TileIsThere, Products
<1>3. i * TileRows = Lo(i) + TileRows
  <2>1. i * TileRows \in Int /\ Lo(i) = i * TileRows - TileRows
    BY <1>1, Products
  <2> QED
    BY <1>1, <1>2, <2>1
<1> DEFINE e == i * TileRows
<1>4. e = Lo(i) + TileRows /\ Hi(i, n) = Least(e, n)
  BY <1>3 DEF Hi
<1> HIDE DEF e
<1>5. /\ Hi(i, n) \in Nat /\ Lo(i) < Hi(i, n) /\ Hi(i, n) <= n /\ Hi(i, n) <= Lo(i) + TileRows
      /\ Hi(i, n) = n \/ Hi(i, n) = Lo(i) + TileRows
  BY <1>1, <1>2, <1>4 DEF Least
<1>6. TileSpan(i, n) = (Lo(i) + 1)..Hi(i, n)
  BY DEF TileSpan, Lo, Hi
<1>7. Cardinality(TileSpan(i, n)) = Hi(i, n) - Lo(i)
  <2> DEFINE a == Lo(i) + 1
             b == Hi(i, n)
  <2>1. a \in Int /\ b \in Int /\ a <= b
    BY <1>2, <1>5
  <2>2. TileSpan(i, n) = a..b
    BY <1>6
  <2>4. b - a + 1 = Hi(i, n) - Lo(i)
    BY <1>2, <1>5
  <2> HIDE DEF a, b
  <2>3. Cardinality(a..b) = b - a + 1
    BY <2>1, FS_Interval
  <2> QED
    BY <2>2, <2>3, <2>4
<1> QED
  BY <1>1, <1>2, <1>3, <1>5, <1>7

\* The rows of a tile of an image.
LEMMA TileRowsAre ==
  ASSUME NEW S, NEW img \in Seq(S), NEW i \in 1..Tiles(Len(img))
  PROVE  LET n == Len(img)
             tile == TileOf(img, i)
         IN  /\ tile \in Seq(S) /\ Len(tile) = Hi(i, n) - Lo(i) /\ Len(tile) \in Nat \ {0}
             /\ DOMAIN tile = 1..(Hi(i, n) - Lo(i))
             /\ \A j \in 1..(Hi(i, n) - Lo(i)) :
                  tile[j] = img[Lo(i) + j] /\ Lo(i) + j \in 1..n
<1> DEFINE n == Len(img)
           a == Lo(i)
           b == Hi(i, n)
           tile == TileOf(img, i)
<1>1. n \in Nat /\ a \in Nat /\ b \in Nat /\ a < b /\ b <= n
  BY TileShape
<1>2. tile = SubSeq(img, a + 1, b)
  BY DEF TileOf, Lo, Hi
<1> HIDE DEF a, b, tile
<1>3. /\ tile \in Seq(S) /\ Len(tile) = b - a /\ \A j \in 1..(b - a) : tile[j] = img[a + j]
  <2>1. /\ tile \in Seq(S)
        /\ Len(tile) = IF a + 1 <= b THEN b - (a + 1) + 1 ELSE 0
        /\ \A j \in 1..(b - (a + 1) + 1) : tile[j] = img[(a + 1) + j - 1]
    <3>1. \A j \in (a + 1)..b : img[j] \in S
      BY <1>1
    <3>2. a + 1 \in Int /\ b \in Int
      BY <1>1
    <3> QED
      BY <1>2, <3>1, <3>2, SubSeqProperties
  <2>2. /\ b - (a + 1) + 1 = b - a /\ a + 1 <= b
        /\ \A j \in 1..(b - a) : (a + 1) + j - 1 = a + j
    BY <1>1
  <2> QED
    BY <2>1, <2>2
<1>4. b - a \in Nat \ {0} /\ DOMAIN tile = 1..(b - a) /\ \A j \in 1..(b - a) : a + j \in 1..n
  BY <1>1, <1>3
<1> QED
  BY <1>3, <1>4 DEF a, b, tile

-----------------------------------------------------------------------------
(* What a call writes, tile by tile.                                       *)

\* The image has rows, and the data of call c fits it as it was when c began.
Fits(c) ==
    /\ Working(c) /\ c.op # "read"
    /\ image \in Rows /\ Len(image) = c.cards.rows /\ c.cards.tiles = Tiles(c.cards.rows)
    /\ Len(c.data) > 0
    /\ c.op = "write" => Len(c.data) = c.cards.rows
    /\ c.op = "setitem" => c.at \in Nat \ {0} /\ c.at + Len(c.data) - 1 <= c.cards.rows

\* The first and the last tile that call c encodes.
FirstTile(c) ==
    CASE c.op = "write"   -> 1
      [] c.op = "extend"  -> Tiles(c.cards.rows) + IF c.cards.rows % TileRows = 0 THEN 1 ELSE 0
      [] c.op = "setitem" -> Tiles(c.at)
LastTile(c) ==
    CASE c.op = "write"   -> c.cards.tiles
      [] c.op = "extend"  -> Tiles(RowsAfter(c))
      [] c.op = "setitem" -> Tiles(c.at + Len(c.data) - 1)

\* The numbers of a call.
LEMMA FitsFacts ==
  ASSUME NEW c, Fits(c)
  PROVE  /\ c.op \in {"write", "extend", "setitem"}
         /\ c.cards.rows \in Nat /\ Len(c.data) \in Nat \ {0} /\ c.data \in Seq(Vals)
         /\ RowsAfter(c) \in Nat \ {0} /\ c.cards.rows <= RowsAfter(c)
         /\ c.op # "extend" => RowsAfter(c) = c.cards.rows
         /\ c.op = "extend" => RowsAfter(c) = c.cards.rows + Len(c.data)
         /\ Vals \subseteq Nat \ {0}
<1>1. /\ c.op \in {"write", "extend", "setitem"} /\ c.data \in Seq(Vals) /\ c.cards.rows \in Nat
      /\ Len(c.data) > 0
  BY DEF Fits, Working, CardsOK
<1>2. Len(c.data) \in Nat \ {0}
  BY <1>1
<1>3. c.op = "setitem" => c.cards.rows > 0
  BY <1>1, <1>2 DEF Fits
<1>4. c.op = "write" => c.cards.rows > 0
  BY <1>1, <1>2 DEF Fits
<1> QED
  BY <1>1, <1>2, <1>3, <1>4, ValueAssumption DEF RowsAfter

\* The rows of the image after call c, row by row.
LEMMA ResultIs ==
  ASSUME NEW c, Fits(c)
  PROVE  /\ Result(c) \in Rows /\ Len(Result(c)) = RowsAfter(c)
         /\ \A r \in 1..RowsAfter(c) : Result(c)[r] =
              CASE c.op = "write"   -> c.data[r]
                [] c.op = "extend"  -> IF r <= c.cards.rows THEN image[r] ELSE c.data[r - c.cards.rows]
                [] c.op = "setitem" -> IF r \in c.at..(c.at + Len(c.data) - 1)
                                       THEN c.data[r - c.at + 1] ELSE image[r]
<1>0. /\ c.op \in {"write", "extend", "setitem"} /\ c.cards.rows \in Nat
      /\ Len(c.data) \in Nat \ {0} /\ c.data \in Seq(Vals)
      /\ image \in Rows /\ Len(image) = c.cards.rows
      /\ c.op # "extend" => RowsAfter(c) = c.cards.rows
      /\ c.op = "extend" => RowsAfter(c) = c.cards.rows + Len(c.data)
  BY FitsFacts DEF Fits
<1>1. c.data \in Rows
  BY <1>0 DEF Rows
<1>2. CASE c.op = "write"
  BY <1>0, <1>1, <1>2 DEF Result, Fits
<1>3. CASE c.op = "extend"
  <2> DEFINE w == image \o c.data
  <2>1. /\ w \in Rows /\ Len(w) = Len(image) + Len(c.data)
        /\ \A r \in 1..(Len(image) + Len(c.data)) :
             w[r] = IF r <= Len(image) THEN image[r] ELSE c.data[r - Len(image)]
    BY <1>0, <1>1, ConcatProperties DEF Rows
  <2>2. Result(c) = w
    BY <1>3 DEF Result
  <2> HIDE DEF w
  <2> QED
    BY <1>0, <1>3, <2>1, <2>2
<1>4. CASE c.op = "setitem"
  <2>0. c.at \in Nat \ {0} /\ c.at + Len(c.data) - 1 <= c.cards.rows
    BY <1>4 DEF Fits
  <2> DEFINE w == [r \in DOMAIN image |->
                     IF r \in c.at..(c.at + Len(c.data) - 1) THEN c.data[r - c.at + 1] ELSE image[r]]
             n == c.cards.rows
  <2>1. Result(c) = w
    BY <1>4 DEF Result
  <2>2. DOMAIN image = 1..n /\ n \in Nat
    BY <1>0 DEF Rows
  <2>3. ASSUME NEW r \in 1..n PROVE w[r] \in Vals \cup {0}
    <3>1. CASE r \in c.at..(c.at + Len(c.data) - 1)
      <4>1. r - c.at + 1 \in 1..Len(c.data)
        BY <1>0, <2>0, <2>2, <3>1
      <4>2. c.data[r - c.at + 1] \in Vals
        BY <1>0, <4>1
      <4>3. r \in DOMAIN image
        BY <2>2
      <4> QED
        BY <3>1, <4>2, <4>3
    <3>2. CASE r \notin c.at..(c.at + Len(c.data) - 1)
      <4>1. w[r] = image[r]
        BY <2>2, <3>2
      <4>2. image[r] \in Vals \cup {0}
        BY <1>0, <2>2 DEF Rows
      <4> QED
        BY <4>1, <4>2
    <3> QED
      BY <3>1, <3>2
  <2>4. w \in [1..n -> Vals \cup {0}]
    BY <2>2, <2>3
  <2>5. \A r \in 1..n : w[r] = IF r \in c.at..(c.at + Len(c.data) - 1)
                               THEN c.data[r - c.at + 1] ELSE image[r]
    BY <2>2
  <2> HIDE DEF w
  <2>6. w \in Rows /\ Len(w) = n
    BY <2>2, <2>4 DEF Rows
  <2> QED
    BY <1>0, <1>4, <2>1, <2>5, <2>6
<1> QED
  BY <1>0, <1>2, <1>3, <1>4

\* Two tiles of the same rows.
LEMMA SameTile ==
  ASSUME NEW a \in Rows, NEW b \in Rows, NEW i \in Nat \ {0}, Lo(i) < Len(a), Lo(i) < Len(b),
         Hi(i, Len(a)) = Hi(i, Len(b)),
         \A r \in (Lo(i) + 1)..Hi(i, Len(a)) : a[r] = b[r]
  PROVE  TileOf(a, i) = TileOf(b, i)
<1>1. Len(a) \in Nat /\ Len(b) \in Nat
  BY DEF Rows
<1>2. i \in 1..Tiles(Len(a)) /\ i \in 1..Tiles(Len(b))
  <2>1. i <= Tiles(Len(a)) /\ i <= Tiles(Len(b)) /\ Tiles(Len(a)) \in Nat /\ Tiles(Len(b)) \in Nat
    BY <1>1, TileIsThere
  <2> QED
    BY <2>1
<1> DEFINE K == Hi(i, Len(a)) - Lo(i)
           x == TileOf(a, i)
           y == TileOf(b, i)
<1>3. /\ x \in Rows /\ y \in Rows /\ Len(x) = K /\ Len(y) = K
      /\ \A j \in 1..K : x[j] = a[Lo(i) + j] /\ y[j] = b[Lo(i) + j]
  BY <1>2, TileRowsAre DEF Rows
<1>4. Lo(i) \in Nat /\ Hi(i, Len(a)) \in Nat
  BY <1>1, <1>2, TileShape
<1>5. \A j \in 1..K : Lo(i) + j \in (Lo(i) + 1)..Hi(i, Len(a))
  BY <1>4
<1> HIDE DEF x, y
<1>6. \A j \in 1..K : x[j] = y[j]
  BY <1>3, <1>5
<1>7. x = y
  BY <1>3, <1>6, SeqEqual DEF Rows
<1> QED
  BY <1>7 DEF x, y

\* The tiles that a call does not encode stay as they are.
LEMMA Untouched ==
  ASSUME NEW c, Fits(c)
  PROVE  /\ FirstTile(c) \in Nat \ {0} /\ LastTile(c) \in Nat /\ FirstTile(c) <= LastTile(c)
         /\ LastTile(c) <= Tiles(RowsAfter(c)) /\ Tiles(RowsAfter(c)) \in Nat
         /\ c.cards.tiles \in Nat /\ c.cards.tiles <= Tiles(RowsAfter(c))
         /\ c.op = "extend" => LastTile(c) = Tiles(RowsAfter(c))
         /\ c.op = "write" => FirstTile(c) = 1 /\ LastTile(c) = Tiles(RowsAfter(c))
         /\ \A i \in FirstTile(c)..LastTile(c) : NeedsOld(c, i) => i \in 1..c.cards.tiles
         /\ \A i \in 1..Tiles(RowsAfter(c)) : i \notin FirstTile(c)..LastTile(c) =>
              i \in 1..c.cards.tiles /\ TileOf(Result(c), i) = TileOf(image, i)
<1> DEFINE R == c.cards.rows
           N == RowsAfter(c)
           Q == c.cards.tiles
           D == Len(c.data)
           w == Result(c)
<1>0. /\ c.op \in {"write", "extend", "setitem"} /\ R \in Nat /\ N \in Nat \ {0} /\ R <= N
      /\ D \in Nat \ {0}
      /\ c.op # "extend" => N = R
      /\ c.op = "extend" => N = R + D
      /\ image \in Rows /\ Len(image) = R /\ Q = Tiles(R)
      /\ w \in Rows /\ Len(w) = N
  BY FitsFacts, ResultIs DEF Fits
<1>1. /\ Q \in Nat /\ Tiles(N) \in Nat
      /\ \A i \in Nat \ {0} : i <= Q <=> Lo(i) < R
      /\ \A i \in Nat \ {0} : i <= Tiles(N) <=> Lo(i) < N
  BY <1>0, TileIsThere
<1>2. \A i \in Nat \ {0} : Lo(i) \in Nat /\ i * TileRows = Lo(i) + TileRows /\ i * TileRows \in Nat
  <2> SUFFICES ASSUME NEW i \in Nat \ {0}
               PROVE  Lo(i) \in Nat /\ i * TileRows = Lo(i) + TileRows /\ i * TileRows \in Nat
    OBVIOUS
  <2>1. Lo(i) \in Nat /\ i * TileRows \in Int /\ Lo(i) = i * TileRows - TileRows /\ TileRows \in Nat
    BY Products
  <2> QED
    BY <2>1
<1>3. Q <= Tiles(N)
  <2>1. CASE Q = 0
    BY <1>1, <2>1
  <2>2. CASE Q # 0
    <3>1. Lo(Q) < R /\ Q \in Nat \ {0}
      BY <1>1, <2>2
    <3>2. Lo(Q) < N
      BY <1>0, <1>2, <3>1
    <3> QED
      BY <1>1, <3>1, <3>2
  <2> QED
    BY <2>1, <2>2
<1>4. 1 <= Tiles(N)
  <2>1. Lo(1) = 0
    BY Products DEF Lo
  <2> QED
    BY <1>0, <1>1, <2>1
<1> HIDE DEF R, N, Q, D, w
<1>5. CASE c.op = "write"
  <2>1. FirstTile(c) = 1 /\ LastTile(c) = Q /\ Q = Tiles(N)
    BY <1>0, <1>5 DEF FirstTile, LastTile, Q
  <2>2. \A i : ~NeedsOld(c, i)
    BY <1>5 DEF NeedsOld
  <2>3. \A i \in 1..Tiles(N) : i \in FirstTile(c)..LastTile(c)
    BY <1>1, <2>1
  <2> QED
    BY <1>1, <1>4, <1>5, <2>1, <2>2, <2>3 DEF N, Q
<1>6. CASE c.op = "extend"
  <2> DEFINE F == FirstTile(c)
  <2>1. F = Q + (IF R % TileRows = 0 THEN 1 ELSE 0) /\ LastTile(c) = Tiles(N)
    BY <1>0, <1>6 DEF FirstTile, LastTile, R, N
  <2>2. Q = 0 => R = 0
    <3>1. R <= Q * TileRows /\ TileRows \in Nat
      BY <1>0, TileIsThere, Products
    <3> QED
      BY <1>0, <3>1
  <2>3. F \in Nat \ {0}
    <3>1. R = 0 => R % TileRows = 0
      BY TileAssumption
    <3> QED
      BY <1>1, <2>1, <2>2, <3>1
  <2>4. Lo(F) <= R
    <3>1. CASE R % TileRows = 0
      <4>1. Q * TileRows = R
        BY <1>0, <3>1, TileIsThere
      <4>2. F - 1 = Q
        BY <1>1, <2>1, <3>1
      <4>3. Lo(F) = Q * TileRows
        BY <4>2 DEF Lo
      <4> QED
        BY <1>0, <4>1, <4>3
    <3>2. CASE R % TileRows # 0
      <4>1. F = Q
        BY <1>1, <2>1, <3>2
      <4>2. Lo(F) < R
        BY <1>1, <2>3, <4>1
      <4> QED
        BY <1>0, <1>2, <2>3, <4>2
    <3> QED
      BY <3>1, <3>2
  <2>5. F <= Tiles(N)
    <3>1. Lo(F) < N
      BY <1>0, <1>2, <1>6, <2>3, <2>4
    <3> QED
      BY <1>1, <2>3, <3>1
  <2>6. \A i \in 1..Tiles(N) : NeedsOld(c, i) => i \in 1..Q
    BY <1>1, <1>6 DEF NeedsOld, Q
  <2> HIDE DEF F
  <2>7. ASSUME NEW i \in 1..Tiles(N), i \notin F..Tiles(N)
        PROVE  i \in 1..Q /\ TileOf(w, i) = TileOf(image, i)
    <3>1. i \in Nat \ {0} /\ i < F /\ i + 1 <= F
      BY <1>1, <2>3, <2>7
    <3>2. i * TileRows <= R
      <4>1. Lo(i + 1) = i * TileRows
        BY <3>1 DEF Lo
      <4>2. Lo(i + 1) <= Lo(F)
        <5>1. i * TileRows <= (F - 1) * TileRows
          BY <2>3, <3>1, Products
        <5> QED
          BY <4>1, <5>1 DEF Lo
      <4> QED
        BY <1>0, <1>2, <2>3, <2>4, <3>1, <4>1, <4>2
    <3> DEFINE e == i * TileRows
    <3>3. e \in Nat /\ e = Lo(i) + TileRows /\ Lo(i) \in Nat /\ TileRows \in Nat \ {0} /\ e <= R
      BY <1>2, <3>1, <3>2, TileAssumption
    <3>4. Hi(i, R) = Least(e, R) /\ Hi(i, N) = Least(e, N)
      BY DEF Hi
    <3> HIDE DEF e
    <3>5. Hi(i, R) = e /\ Hi(i, N) = e /\ Lo(i) < R /\ Lo(i) < N
      BY <1>0, <3>3, <3>4 DEF Least
    <3>6. \A r \in (Lo(i) + 1)..Hi(i, N) : w[r] = image[r]
      <4> SUFFICES ASSUME NEW r \in (Lo(i) + 1)..Hi(i, N) PROVE w[r] = image[r]
        OBVIOUS
      <4>1. r \in 1..N /\ r <= R
        BY <1>0, <3>3, <3>5
      <4> QED
        BY <1>6, <4>1, ResultIs DEF w, N, R
    <3>7. i \in 1..Q
      BY <1>1, <3>1, <3>5
    <3> QED
      BY <1>0, <3>1, <3>5, <3>6, <3>7, SameTile
  <2>8. /\ F \in Nat \ {0} /\ LastTile(c) \in Nat /\ F <= LastTile(c) /\ LastTile(c) <= Tiles(N)
        /\ LastTile(c) = Tiles(N) /\ c.op # "write"
        /\ \A i \in F..LastTile(c) : NeedsOld(c, i) => i \in 1..Q
        /\ \A i \in 1..Tiles(N) : i \notin F..LastTile(c) => i \in 1..Q /\ TileOf(w, i) = TileOf(image, i)
    BY <1>1, <1>6, <2>1, <2>3, <2>5, <2>6, <2>7
  <2> QED
    BY <1>1, <1>3, <2>8 DEF F, N, Q, w
<1>7. CASE c.op = "setitem"
  <2> DEFINE a == c.at
             z == c.at + Len(c.data) - 1
             F == FirstTile(c)
             L == LastTile(c)
  <2>1. a \in Nat \ {0} /\ z \in Nat \ {0} /\ a <= z /\ z <= R /\ N = R
    BY <1>0, <1>7 DEF Fits, R, D
  <2>2. F = Tiles(a) /\ L = Tiles(z)
    BY <1>7 DEF FirstTile, LastTile
  <2> HIDE DEF a, z, F, L
  <2>3. /\ F \in Nat /\ L \in Nat
        /\ \A i \in Nat \ {0} : i <= F <=> Lo(i) < a
        /\ \A i \in Nat \ {0} : i <= L <=> Lo(i) < z
    BY <2>1, <2>2, TileIsThere
  <2>4. F # 0
    <3>1. Lo(1) = 0
      BY Products DEF Lo
    <3> QED
      BY <2>1, <2>3, <3>1
  <2>5. F <= L
    <3>1. Lo(F) < a /\ Lo(F) \in Nat
      BY <1>2, <2>3, <2>4
    <3> QED
      BY <2>1, <2>3, <2>4, <3>1
  <2>6. L <= Tiles(N)
    <3>1. L \in Nat \ {0}
      BY <2>3, <2>4, <2>5
    <3>2. Lo(L) < z /\ Lo(L) \in Nat
      BY <1>2, <2>3, <3>1
    <3> QED
      BY <1>0, <1>1, <2>1, <3>1, <3>2
  <2>7. ASSUME NEW i \in 1..Tiles(N), i \notin F..L
        PROVE  i \in 1..Q /\ TileOf(w, i) = TileOf(image, i)
    <3>1. i \in Nat \ {0} /\ i \in 1..Tiles(R) /\ i \in 1..Q /\ Lo(i) < R
      BY <1>0, <1>1, <2>1
    <3>2. /\ Lo(i) \in Nat /\ Hi(i, R) \in Nat /\ Hi(i, R) <= R /\ Hi(i, R) <= Lo(i) + TileRows
          /\ i * TileRows = Lo(i) + TileRows /\ TileRows \in Nat
      BY <1>0, <3>1, TileShape, TileAssumption
    <3>3. \A r \in (Lo(i) + 1)..Hi(i, R) : r \notin a..z
      <4>1. CASE i < F
        <5>1. i + 1 <= F /\ i + 1 \in Nat \ {0}
          BY <2>3, <3>1, <4>1
        <5>2. Lo(i + 1) < a
          BY <2>3, <5>1
        <5>3. Lo(i + 1) = i * TileRows
          BY <3>1 DEF Lo
        <5> QED
          BY <2>1, <3>2, <5>2, <5>3
      <4>2. CASE L < i
        <5>1. ~(Lo(i) < z)
          BY <2>3, <3>1, <4>2
        <5> QED
          BY <2>1, <3>2, <5>1
      <4> QED
        BY <2>3, <2>7, <3>1, <4>1, <4>2
    <3>4. \A r \in (Lo(i) + 1)..Hi(i, N) : w[r] = image[r]
      <4> SUFFICES ASSUME NEW r \in (Lo(i) + 1)..Hi(i, N) PROVE w[r] = image[r]
        OBVIOUS
      <4>1. r \in 1..N /\ r \notin a..z
        BY <1>0, <2>1, <3>2, <3>3
      <4> QED
        BY <1>7, <4>1, ResultIs DEF w, N, a, z
    <3> QED
      BY <1>0, <2>1, <3>1, <3>4, SameTile
  <2>8. \A i \in F..L : i \in 1..Q
    BY <1>0, <1>1, <2>1, <2>3, <2>4, <2>6
  <2>9. /\ F \in Nat \ {0} /\ L \in Nat /\ F <= L /\ L <= Tiles(N) /\ c.op \notin {"extend", "write"}
        /\ \A i \in F..L : NeedsOld(c, i) => i \in 1..Q
        /\ \A i \in 1..Tiles(N) : i \notin F..L => i \in 1..Q /\ TileOf(w, i) = TileOf(image, i)
    BY <1>7, <2>3, <2>4, <2>5, <2>6, <2>7, <2>8
  <2> QED
    BY <1>1, <1>3, <2>9 DEF F, L, N, Q, w
<1> QED
  BY <1>0, <1>5, <1>6, <1>7

\* The tile that a call encodes is the tile of the image it leaves, without a row that was
\* never written.
LEMMA NewTileIs ==
  ASSUME NEW c, Fits(c), NEW i \in FirstTile(c)..LastTile(c), NEW old,
         old = IF NeedsOld(c, i) THEN TileOf(image, i) ELSE <<>>, 0 \notin ToSet(old)
  PROVE  NewTile(c, i, old) = TileOf(Result(c), i) /\ 0 \notin ToSet(TileOf(Result(c), i))
<1> DEFINE R == c.cards.rows
           N == RowsAfter(c)
           Q == c.cards.tiles
           w == Result(c)
           x == TileOf(w, i)
           K == Hi(i, N) - Lo(i)
           lo == Lo(i)
<1>0. /\ c.op \in {"write", "extend", "setitem"} /\ R \in Nat /\ N \in Nat \ {0} /\ R <= N
      /\ Len(c.data) \in Nat \ {0} /\ c.data \in Seq(Vals) /\ Vals \subseteq Nat \ {0}
      /\ c.op # "extend" => N = R
      /\ c.op = "extend" => N = R + Len(c.data)
      /\ image \in Rows /\ Len(image) = R /\ Q = Tiles(R)
      /\ w \in Rows /\ Len(w) = N
  BY FitsFacts, ResultIs DEF Fits
<1>1. i \in 1..Tiles(N) /\ (NeedsOld(c, i) => i \in 1..Q) /\ Q \in Nat
  <2>1. /\ FirstTile(c) \in Nat \ {0} /\ LastTile(c) \in Nat /\ LastTile(c) <= Tiles(N) /\ Tiles(N) \in Nat
        /\ Q \in Nat /\ (NeedsOld(c, i) => i \in 1..Q)
    BY Untouched
  <2> QED
    BY <2>1
<1>2. /\ lo \in Nat /\ K \in Nat /\ K <= TileRows /\ TileRows \in Nat \ {0}
      /\ Cardinality(TileSpan(i, N)) = K /\ i \in Nat \ {0} /\ lo + K <= N
  <2>1. /\ i \in Nat \ {0} /\ Lo(i) \in Nat /\ Hi(i, N) \in Nat
        /\ Lo(i) < Hi(i, N) /\ Hi(i, N) <= N /\ Hi(i, N) <= Lo(i) + TileRows
        /\ Cardinality(TileSpan(i, N)) = Hi(i, N) - Lo(i)
    BY <1>0, <1>1, TileShape
  <2> QED
    BY <1>0, <2>1, TileAssumption
<1>3. /\ x \in Rows /\ DOMAIN x = 1..K
      /\ \A j \in 1..K : x[j] = w[lo + j] /\ lo + j \in 1..N
  BY <1>0, <1>1, TileRowsAre DEF Rows
<1>4. \A j \in 1..K : x[j] =
              CASE c.op = "write"   -> c.data[lo + j]
                [] c.op = "extend"  -> IF lo + j <= R THEN image[lo + j] ELSE c.data[lo + j - R]
                [] c.op = "setitem" -> IF lo + j \in c.at..(c.at + Len(c.data) - 1)
                                       THEN c.data[(lo + j) - c.at + 1] ELSE image[lo + j]
  <2> SUFFICES ASSUME NEW j \in 1..K
               PROVE  x[j] =
              CASE c.op = "write"   -> c.data[lo + j]
                [] c.op = "extend"  -> IF lo + j <= R THEN image[lo + j] ELSE c.data[lo + j - R]
                [] c.op = "setitem" -> IF lo + j \in c.at..(c.at + Len(c.data) - 1)
                                       THEN c.data[(lo + j) - c.at + 1] ELSE image[lo + j]
    OBVIOUS
  <2> DEFINE r == lo + j
  <2>1. r \in 1..RowsAfter(c) /\ x[j] = Result(c)[r]
    BY <1>3
  <2> HIDE DEF r, x
  <2>2. Result(c)[r] =
              CASE c.op = "write"   -> c.data[r]
                [] c.op = "extend"  -> IF r <= c.cards.rows THEN image[r] ELSE c.data[r - c.cards.rows]
                [] c.op = "setitem" -> IF r \in c.at..(c.at + Len(c.data) - 1)
                                       THEN c.data[r - c.at + 1] ELSE image[r]
    BY <2>1, ResultIs
  <2> QED
    BY <2>1, <2>2 DEF r
<1>5. ASSUME NeedsOld(c, i)
      PROVE  /\ DOMAIN old = 1..(Hi(i, R) - lo) /\ Len(old) = Hi(i, R) - lo
             /\ Hi(i, R) \in Nat /\ lo < Hi(i, R) /\ Hi(i, R) <= R
             /\ Hi(i, R) = R \/ Hi(i, R) = lo + TileRows
             /\ \A j \in 1..(Hi(i, R) - lo) : old[j] = image[lo + j] /\ old[j] # 0
  <2>1. i \in 1..Tiles(Len(image))
    BY <1>0, <1>1, <1>5
  <2>2. /\ Hi(i, R) \in Nat /\ lo < Hi(i, R) /\ Hi(i, R) <= R
        /\ Hi(i, R) = R \/ Hi(i, R) = lo + TileRows
    BY <1>0, <2>1, TileShape
  <2>3. /\ DOMAIN old = 1..(Hi(i, R) - lo) /\ Len(old) = Hi(i, R) - lo
        /\ \A j \in 1..(Hi(i, R) - lo) : old[j] = image[lo + j]
    BY <1>0, <1>5, <2>1, TileRowsAre DEF Rows
  <2>4. \A j \in DOMAIN old : old[j] # 0
    BY DEF ToSet
  <2> QED
    BY <2>2, <2>3, <2>4
<1>6. \A r \in 1..Len(c.data) : c.data[r] # 0
  BY <1>0
<1>7. (i - 1) * TileRows = lo
  BY DEF Lo
<1> HIDE DEF R, N, Q, w, x, K, lo
<1>8. CASE c.op = "write"
  <2>1. NewTile(c, i, old) = x
    BY <1>8 DEF NewTile, OwnTile, Result, x, w
  <2>2. \A j \in 1..K : x[j] # 0
    <3> SUFFICES ASSUME NEW j \in 1..K PROVE x[j] # 0
      OBVIOUS
    <3>1. x[j] = c.data[lo + j] /\ lo + j \in 1..N
      BY <1>3, <1>4, <1>8
    <3>2. Len(c.data) = N
      BY <1>0, <1>8 DEF Fits, R
    <3> QED
      BY <1>6, <3>1, <3>2
  <2>3. 0 \notin ToSet(x)
    BY <1>3, <2>2 DEF ToSet
  <2> QED
    BY <2>1, <2>3 DEF x, w
<1>9. CASE c.op = "extend"
  <2> DEFINE y == [j \in 1..K |-> IF j <= Len(old) THEN old[j] ELSE c.data[lo + j - R]]
  <2>1. NewTile(c, i, old) = y
    BY <1>2, <1>7, <1>9 DEF NewTile, BoundaryTile, N, R
  <2>2. ASSUME NEW j \in 1..K
        PROVE  x[j] = (IF j <= Len(old) THEN old[j] ELSE c.data[lo + j - R]) /\ x[j] # 0
    <3>0. x[j] = (IF lo + j <= R THEN image[lo + j] ELSE c.data[lo + j - R]) /\ lo + j \in 1..N
      BY <1>3, <1>4, <1>9
    <3>1. CASE NeedsOld(c, i)
      <4>1. CASE j <= Len(old)
        <5>1. j \in 1..(Hi(i, R) - lo) /\ lo + j <= R
          BY <1>0, <1>2, <1>5, <3>1, <4>1
        <5>2. old[j] = image[lo + j] /\ old[j] # 0
          BY <1>5, <3>1, <5>1
        <5> QED
          BY <3>0, <4>1, <5>1, <5>2
      <4>2. CASE ~(j <= Len(old))
        <5>1. ~(lo + j <= R) /\ lo + j - R \in 1..Len(c.data)
          <6>1. Len(old) = Hi(i, R) - lo /\ (Hi(i, R) = R \/ Hi(i, R) = lo + TileRows) /\ Hi(i, R) \in Nat
            BY <1>5, <3>1
          <6>2. ~(lo + j <= Hi(i, R))
            BY <1>2, <4>2, <6>1
          <6>3. Hi(i, R) = R
            BY <1>2, <6>1, <6>2
          <6> QED
            BY <1>0, <1>2, <1>9, <3>0, <6>2, <6>3
        <5>2. c.data[lo + j - R] # 0
          BY <1>6, <5>1
        <5> QED
          BY <3>0, <4>2, <5>1, <5>2
      <4> QED
        BY <4>1, <4>2
    <3>2. CASE ~NeedsOld(c, i)
      <4>1. old = <<>> /\ Len(old) = 0
        BY <3>2
      <4>2. R <= lo
        <5>1. ~(i <= Q)
          BY <1>9, <3>2 DEF NeedsOld, Q
        <5>2. ~(lo < R)
          BY <1>0, <1>2, <5>1, TileIsThere DEF lo
        <5> QED
          BY <1>0, <1>2, <5>2
      <4>3. ~(lo + j <= R) /\ lo + j - R \in 1..Len(c.data) /\ ~(j <= 0)
        BY <1>0, <1>2, <1>9, <3>0, <4>2
      <4>4. c.data[lo + j - R] # 0
        BY <1>6, <4>3
      <4> QED
        BY <3>0, <4>1, <4>3, <4>4
    <3> QED
      BY <3>1, <3>2
  <2>3. x = y
    <3>1. x = [j \in 1..K |-> x[j]]
      BY <1>3 DEF Rows
    <3> QED
      BY <2>2, <3>1
  <2> HIDE DEF y
  <2>4. 0 \notin ToSet(x)
    BY <1>3, <2>2 DEF ToSet
  <2> QED
    BY <2>1, <2>3, <2>4 DEF x, w
<1>10. CASE c.op = "setitem"
  <2>0. NeedsOld(c, i) /\ N = R /\ Hi(i, R) - lo = K /\ c.at \in Nat \ {0}
    BY <1>0, <1>10 DEF NeedsOld, K, lo, Fits
  <2> DEFINE v(j) == IF lo + j \in c.at..(c.at + Len(c.data) - 1) THEN c.data[(lo + j) - c.at + 1] ELSE old[j]
             y == [j \in 1..K |-> v(j)]
  <2>1. NewTile(c, i, old) = y
    <3>1. DOMAIN old = 1..K
      BY <1>5, <2>0
    <3>2. NewTile(c, i, old) = PatchedTile(c, i, old)
      BY <1>10 DEF NewTile
    <3>3. \A j : v(j) = LET r == (i - 1) * TileRows + j
                        IN  IF r \in c.at..(c.at + Len(c.data) - 1) THEN c.data[r - c.at + 1]
                            ELSE old[j]
      BY Zenon DEF lo, Lo
    <3>4. PatchedTile(c, i, old) = [j \in DOMAIN old |-> v(j)]
      <4> HIDE DEF v
      <4> QED
        BY <3>3 DEF PatchedTile
    <3> QED
      BY <3>1, <3>2, <3>4
  <2>2. ASSUME NEW j \in 1..K PROVE x[j] = v(j) /\ x[j] # 0
    <3>0. x[j] = IF lo + j \in c.at..(c.at + Len(c.data) - 1) THEN c.data[(lo + j) - c.at + 1]
                 ELSE image[lo + j]
      BY <1>4, <1>10
    <3>1. old[j] = image[lo + j] /\ old[j] # 0
      BY <1>5, <2>0
    <3>2. CASE lo + j \in c.at..(c.at + Len(c.data) - 1)
      <4>1. (lo + j) - c.at + 1 \in 1..Len(c.data)
        BY <1>0, <1>2, <2>0, <3>2
      <4>2. c.data[(lo + j) - c.at + 1] # 0
        BY <1>6, <4>1
      <4> QED
        BY <3>0, <3>2, <4>2
    <3>3. CASE lo + j \notin c.at..(c.at + Len(c.data) - 1)
      BY <3>0, <3>1, <3>3
    <3> QED
      BY <3>2, <3>3
  <2>3. x = y
    <3>1. x = [j \in 1..K |-> x[j]]
      BY <1>3 DEF Rows
    <3> HIDE DEF v
    <3> QED
      BY <2>2, <3>1
  <2> HIDE DEF y, v
  <2>4. 0 \notin ToSet(x)
    BY <1>3, <2>2 DEF ToSet
  <2> QED
    BY <2>1, <2>3, <2>4 DEF x, w
<1> QED
  BY <1>0, <1>8, <1>9, <1>10

-----------------------------------------------------------------------------
(* Encoded tiles.                                                          *)

Descs == [t : {"desc"}, pn : Nat, poff : Nat, fn : Nat, foff : Nat]
Units == [t : {"unit"}, rows : Rows, col : {"p", "f", "none"}, i : Nat, n : Nat]
Cells == Descs \cup Units

\* The n units from u[off + 1] on are the encoded rows in column col.
Spells(u, off, n, rows, col) ==
    /\ n \in Nat \ {0} /\ n = TileUnits(rows) /\ off \in Nat
    /\ \A k \in 1..n : u[off + k] = Unit(rows, col, k, n)

\* An encoded tile spells its rows.
LEMMA EncodedSpells ==
  ASSUME NEW rows \in Rows, Len(rows) > 0, NEW col \in {"p", "f"}
  PROVE  /\ Len(Encoded(rows, col)) \in Nat \ {0}
         /\ Encoded(rows, col) \in Seq(Units)
         /\ Spells(Encoded(rows, col), 0, Len(Encoded(rows, col)), rows, col)
<1> DEFINE n == TileUnits(rows)
           e == Encoded(rows, col)
<1>1. n \in Nat \ {0}
  <2>1. 1 \in 1..Len(rows) /\ rows[1] \in Vals \cup {0}
    BY DEF Rows
  <2> DEFINE r == rows[1]
  <2>3. n = IF r = 0 THEN 1 ELSE r
    BY DEF TileUnits
  <2>2. r \in Nat /\ n = IF r = 0 THEN 1 ELSE r
    <3>1. r \in Vals \cup {0}
      BY <2>1
    <3> HIDE DEF r
    <3>2. r \in Nat
      BY <3>1, ValueAssumption
    <3> QED
      BY <2>3, <3>2
  <2> HIDE DEF r, n
  <2> QED
    BY <2>2
<1>2. e = [k \in 1..n |-> Unit(rows, col, k, n)]
  BY DEF Encoded
<1> HIDE DEF n, e
<1>3. e \in [1..n -> Units]
  BY <1>1, <1>2 DEF Unit, Units
<1>4. Len(e) = n /\ e \in Seq(Units)
  BY <1>1, <1>3
<1>5. \A k \in 1..n : e[0 + k] = Unit(rows, col, k, n)
  BY <1>1, <1>2
<1>6. Spells(e, 0, n, rows, col)
  BY <1>1, <1>5 DEF Spells, n
<1> QED
  BY <1>1, <1>4, <1>6 DEF e

\* Tile i of section s, with n tiles and p units in the heap, is the encoded rows; or
\* empty, when a row was never written.
Keeps(s, n, p, i, rows) ==
    LET d == Payload(s[i]) IN
    IF 0 \in ToSet(rows) THEN d.n = 0
    ELSE d.off + d.n <= p /\ Spells(s, n + d.off, d.n, rows, d.col)

-----------------------------------------------------------------------------
(* The file and the cache agree with the image.                            *)

\* Every tile of the section holds its rows of the image.
FileOK ==
    /\ cards.rows \in Nat /\ cards.tiles = Tiles(cards.rows) /\ cards.pcount \in Nat
    /\ image \in Rows /\ Len(image) = cards.rows
    /\ sect \in Seq(Cells) /\ cards.tiles + cards.pcount <= Len(sect)
    /\ \A i \in 1..cards.tiles : sect[i] \in Descs
    /\ \A i \in 1..cards.tiles : Keeps(sect, cards.tiles, cards.pcount, i, TileOf(image, i))

\* The entries that are tiles of an image with n tiles.
TrueEntries(img, n) ==
    {e \in [key : 1..n, val : Rows, size : Nat] : e.val = TileOf(img, e.key) /\ 0 \notin ToSet(e.val)}

CacheOK == Budget(TrueEntries(image, cards.tiles), cache) /\ cache.cur <= cache.cap

\* The payload of a descriptor.
LEMMA PayloadIs ==
  ASSUME NEW d \in Descs
  PROVE  LET y == Payload(d)
         IN  /\ y.n \in Nat /\ y.off \in Nat /\ y.col \in {"p", "f"}
             /\ y.n = 0 => d.pn = 0 /\ d.fn = 0
             /\ d.pn > 0 => y = [col |-> "p", n |-> d.pn, off |-> d.poff]
             /\ d.pn = 0 => y = [col |-> "f", n |-> d.fn, off |-> d.foff]
BY DEF Payload, Descs

\* A tile of the file decodes to its rows.
LEMMA Decodes ==
  ASSUME FileOK, NEW i \in 1..cards.tiles
  PROVE  LET rows == TileOf(image, i)
         IN  /\ Decode(i, Len(rows), cards.tiles) = {IF 0 \in ToSet(rows) THEN NoRows ELSE rows}
             /\ rows \in Rows /\ Len(rows) = Cardinality(TileSpan(i, cards.rows))
             /\ Len(rows) \in Nat \ {0}
<1> DEFINE rows == TileOf(image, i)
           m == Len(rows)
           Q == cards.tiles
           d == Payload(sect[i])
           at == [k \in 1..d.n |-> Q + d.off + k]
<1>1. /\ Q \in Nat /\ cards.pcount \in Nat /\ Len(sect) \in Nat /\ Q + cards.pcount <= Len(sect)
      /\ i \in 1..Q /\ Keeps(sect, Q, cards.pcount, i, rows)
  <2>1. /\ cards.rows \in Nat /\ Q = Tiles(cards.rows) /\ cards.pcount \in Nat /\ sect \in Seq(Cells)
        /\ Q + cards.pcount <= Len(sect) /\ Keeps(sect, Q, cards.pcount, i, rows)
    BY DEF FileOK
  <2>2. Q \in Nat
    BY <2>1, TilesNat
  <2>3. Len(sect) \in Nat
    BY <2>1
  <2> QED
    BY <2>1, <2>2, <2>3
<1>2. sect[i] \in Descs /\ sect[i].t = "desc" /\ ~(i > Len(sect))
  <2>1. sect[i] \in Descs
    BY DEF FileOK
  <2>2. sect[i].t = "desc"
    BY <2>1 DEF Descs
  <2> HIDE DEF Q
  <2> QED
    BY <1>1, <2>1, <2>2
<1>3. rows \in Rows /\ m = Cardinality(TileSpan(i, cards.rows)) /\ m \in Nat \ {0}
  <2>1. image \in Rows /\ cards.rows = Len(image) /\ cards.rows \in Nat /\ i \in 1..Tiles(Len(image))
    BY DEF FileOK
  <2>2. rows \in Rows /\ m = Hi(i, Len(image)) - Lo(i) /\ m \in Nat \ {0}
    BY <2>1, TileRowsAre DEF Rows
  <2>3. Cardinality(TileSpan(i, cards.rows)) = Hi(i, cards.rows) - Lo(i)
    BY <2>1, TileShape
  <2> QED
    BY <2>1, <2>2, <2>3
<1>4. d.n \in Nat /\ d.off \in Nat
  BY <1>2, PayloadIs
<1>5. Decode(i, m, Q) =
        IF d.n = 0 \/ at[d.n] > Len(sect) THEN {NoRows}
        ELSE IF /\ sect[at[1]].t = "unit" /\ Len(sect[at[1]].rows) = m
                /\ [k \in 1..d.n |-> sect[at[k]]] = Encoded(sect[at[1]].rows, d.col)
             THEN {sect[at[1]].rows} ELSE {NoRows, [k \in 1..m |-> 0]}
  BY <1>2 DEF Decode
<1> HIDE DEF rows, m, Q, d
<1>6. CASE 0 \in ToSet(rows)
  <2>1. d.n = 0
    BY <1>1, <1>6 DEF Keeps, d
  <2>2. Decode(i, m, Q) = {NoRows}
    BY <1>5, <2>1
  <2> QED
    BY <1>3, <1>6, <2>2 DEF rows, m, Q
<1>7. CASE 0 \notin ToSet(rows)
  <2>1. d.off + d.n <= cards.pcount /\ Spells(sect, Q + d.off, d.n, rows, d.col)
    BY <1>1, <1>7 DEF Keeps, d
  <2>2. /\ d.n \in Nat \ {0} /\ d.n = TileUnits(rows)
        /\ \A k \in 1..d.n : sect[Q + d.off + k] = Unit(rows, d.col, k, d.n)
    BY <2>1 DEF Spells
  <2>3. at[d.n] = Q + d.off + d.n /\ at[1] = Q + d.off + 1 /\ 1 \in 1..d.n
    BY <2>2
  <2>4. ~(d.n = 0 \/ at[d.n] > Len(sect))
    <3> HIDE DEF at
    <3> QED
      BY <1>1, <1>4, <2>1, <2>2, <2>3
  <2>5. sect[at[1]] = Unit(rows, d.col, 1, d.n)
    BY <2>2, <2>3
  <2>6. sect[at[1]].t = "unit" /\ sect[at[1]].rows = rows
    BY <2>5 DEF Unit
  <2>7. [k \in 1..d.n |-> sect[at[k]]] = Encoded(rows, d.col)
    <3>1. \A k \in 1..d.n : sect[at[k]] = Unit(rows, d.col, k, d.n)
      BY <2>2
    <3>2. Encoded(rows, d.col) = [k \in 1..d.n |-> Unit(rows, d.col, k, d.n)]
      BY <2>2 DEF Encoded
    <3> QED
      BY <3>1, <3>2
  <2>8. Decode(i, m, Q) = {rows}
    <3> HIDE DEF at
    <3> QED
      BY <1>5, <2>4, <2>6, <2>7 DEF m
  <2> QED
    BY <1>3, <1>7, <2>8 DEF rows, m, Q
<1> QED
  BY <1>6, <1>7

\* get_or_decode_tile gives the rows of the image or an error, and leaves a cache of true
\* entries.
LEMMA Fetches ==
  ASSUME FileOK, CacheOK, NEW i \in 1..cards.tiles,
         NEW got \in Fetched(i, Cardinality(TileSpan(i, cards.rows)), cards.tiles)
  PROVE  /\ Budget(TrueEntries(image, cards.tiles), got.cache) /\ got.cache.cur <= got.cache.cap
         /\ Len(got.rows) = Cardinality(TileSpan(i, cards.rows)) =>
              got.rows = TileOf(image, i) /\ 0 \notin ToSet(TileOf(image, i))
<1> DEFINE E == TrueEntries(image, cards.tiles)
           n == Cardinality(TileSpan(i, cards.rows))
           rows == TileOf(image, i)
<1>0. /\ Decode(i, n, cards.tiles) = {IF 0 \in ToSet(rows) THEN NoRows ELSE rows}
      /\ rows \in Rows /\ Len(rows) = n /\ n \in Nat \ {0} /\ Len(NoRows) = 0
  BY Decodes DEF NoRows
<1>1. Budget(E, cache) /\ cache.cur <= cache.cap
  BY DEF CacheOK
<1>2. \A e \in E : e.val = TileOf(image, e.key) /\ 0 \notin ToSet(e.val)
  BY DEF TrueEntries
<1>3. 0 \notin ToSet(rows) => [key |-> i, val |-> rows, size |-> n] \in E
  BY <1>0 DEF TrueEntries
<1> HIDE DEF E, n, rows
<1>4. CASE i \in CachedKeys(cache)
  <2>1. got = [rows |-> CachedEntry(cache, i).val, cache |-> Touched(cache, i)]
    BY <1>4 DEF Fetched
  <2>2. CachedEntry(cache, i) \in E /\ CachedEntry(cache, i).key = i
    BY <1>1, <1>4, WithoutBudget
  <2>3. got.rows = rows /\ 0 \notin ToSet(rows)
    BY <1>2, <2>1, <2>2 DEF rows
  <2>4. Budget(E, Touched(cache, i)) /\ Touched(cache, i).cur <= Touched(cache, i).cap
    BY <1>1, <1>4, TouchedBudget
  <2> QED
    BY <2>1, <2>3, <2>4 DEF E, rows
<1>5. CASE i \notin CachedKeys(cache)
  <2>1. PICK d \in (IF tainted THEN {NoRows} ELSE Decode(i, n, cards.tiles)) :
           got = [rows |-> d, cache |-> IF d = NoRows THEN cache ELSE CachePut(cache, i, d, n)]
    BY <1>5 DEF Fetched, n
  <2>2. d = NoRows \/ (d = rows /\ 0 \notin ToSet(rows))
    BY <1>0, <2>1
  <2>3. CASE d = NoRows
    <3>1. got.rows = NoRows /\ got.cache = cache
      BY <2>1, <2>3
    <3> QED
      BY <1>0, <1>1, <3>1 DEF E, n
  <2>4. CASE d # NoRows
    <3>1. got.rows = rows /\ got.cache = CachePut(cache, i, rows, n) /\ 0 \notin ToSet(rows)
      BY <2>1, <2>2, <2>4
    <3>2. Sized(E)
      BY <1>1 DEF Budget
    <3>3. n \in Nat
      BY <1>0
    <3>4. Budget(E, CachePut(cache, i, rows, n)) /\ CachePut(cache, i, rows, n).cur <= CachePut(cache, i, rows, n).cap
      BY <1>1, <1>3, <3>1, <3>2, <3>3, PutBudget
    <3> QED
      BY <3>1, <3>4 DEF E, n, rows
  <2> QED
    BY <2>3, <2>4
<1> QED
  BY <1>4, <1>5

-----------------------------------------------------------------------------
(* What a call in progress has done and has yet to do.                     *)

\* The tile of x is encoded in the heaps of call c, with the rows it has after c.
Done(c, x) ==
    LET rows == TileOf(Result(c), x.tile)
        d == Payload(x.desc)
    IN  /\ 0 \notin ToSet(rows)
        /\ IF d.col = "p" THEN d.off + d.n <= Len(c.prim) /\ Spells(c.prim, d.off, d.n, rows, "p")
           ELSE d.off + d.n <= Len(c.fall) /\ Spells(c.fall, d.off, d.n, rows, "f")

Updates == [tile : Nat, desc : Descs]

\* The units of the tiles that call c has done are the units in its heaps.
Weights(c) == [k \in DOMAIN c.upd |-> c.upd[k].desc.pn + c.upd[k].desc.fn]
Reckoned(c) == SumTo(Weights(c), Len(c.upd)) = Len(c.prim) + Len(c.fall)

\* A call that writes: the cards are as it saw them, and of its tiles, in order, some are
\* done and the others to do.
WriteOK(c) ==
    /\ Fits(c) /\ c.cards = cards
    /\ c.ph = "encode" /\ c.op # "write" => c.main = SubSeq(sect, 1, cards.tiles)
    /\ c.upd \in Seq(Updates) /\ c.prim \in Seq(Units) /\ c.fall \in Seq(Units)
    /\ Len(c.upd) + Len(c.todo) = LastTile(c) - FirstTile(c) + 1
    /\ \A j \in 1..Len(c.todo) : c.todo[j] = FirstTile(c) + Len(c.upd) + j - 1
    /\ \A k \in 1..Len(c.upd) : c.upd[k].tile = FirstTile(c) + k - 1 /\ Done(c, c.upd[k])
    /\ Reckoned(c)

\* A call that reads: its tiles are tiles of the image.
ReadOK(c) ==
    /\ c.cards.rows = cards.rows /\ c.cards.tiles = cards.tiles
    /\ \A j \in 1..Len(c.todo) : c.todo[j] \in 1..cards.tiles

WorkOK(c) == Working(c) => IF c.op = "read" THEN ReadOK(c) ELSE WriteOK(c)

\* The file, the cache and the calls agree with the image.
Content == FileOK /\ CacheOK /\ \A t \in Threads : WorkOK(call[t])

\* A call that writes and has done nothing yet.
LEMMA FreshOK ==
  ASSUME FileOK, NEW c, Working(c), c.op # "read", c.cards = cards, c.ph = "main",
         c.upd = <<>>, c.prim = <<>>, c.fall = <<>>, Len(c.data) > 0,
         c.op = "write" => Len(c.data) = cards.rows,
         c.op = "setitem" => c.at \in Nat \ {0} /\ c.at + Len(c.data) - 1 <= cards.rows,
         Len(c.todo) = LastTile(c) - FirstTile(c) + 1,
         \A j \in 1..Len(c.todo) : c.todo[j] = FirstTile(c) + j - 1
  PROVE  WorkOK(c)
<1>1. Fits(c)
  BY DEF Fits, FileOK
<1>2. /\ c.upd \in Seq(Updates) /\ c.prim \in Seq(Units) /\ c.fall \in Seq(Units)
      /\ Len(c.upd) = 0
  OBVIOUS
<1>3. FirstTile(c) \in Nat /\ LastTile(c) \in Nat
  BY <1>1, Untouched
<1>4. Len(c.upd) + Len(c.todo) = LastTile(c) - FirstTile(c) + 1
  BY <1>2, <1>3
<1>5. \A j \in 1..Len(c.todo) : c.todo[j] = FirstTile(c) + Len(c.upd) + j - 1
  BY <1>2, <1>3
<1>6. \A k \in 1..Len(c.upd) : c.upd[k].tile = FirstTile(c) + k - 1 /\ Done(c, c.upd[k])
  BY <1>2
<1>7. ~(c.ph = "encode")
  OBVIOUS
<1>8. Reckoned(c)
  <2>1. Len(c.upd) = 0 /\ Len(c.prim) = 0 /\ Len(c.fall) = 0
    OBVIOUS
  <2>2. SumTo(Weights(c), 0) = 0
    BY SumToUnfolds
  <2> QED
    BY <2>1, <2>2 DEF Reckoned
<1> QED
  BY <1>1, <1>2, <1>4, <1>5, <1>6, <1>7, <1>8 DEF WorkOK, WriteOK

\* The fields of a new call.
LEMMA CallIs ==
  ASSUME NEW op, NEW todo, NEW data, NEW at
  PROVE  LET c == Call(op, todo, data, at)
             b == [c EXCEPT !.buffered = TRUE]
         IN  /\ c.op = op /\ c.ph = "main" /\ c.cards = cards /\ c.todo = todo /\ c.data = data
             /\ c.at = at /\ c.upd = <<>> /\ c.prim = <<>> /\ c.fall = <<>>
             /\ b.op = op /\ b.ph = "main" /\ b.cards = cards /\ b.todo = todo /\ b.data = data
             /\ b.at = at /\ b.upd = <<>> /\ b.prim = <<>> /\ b.fall = <<>>
BY DEF Call

\* write, as it begins.
LEMMA WriteBegins ==
  ASSUME Typed, FileOK, NEW data \in Seq(Vals), Len(data) = cards.rows, cards.rows > 0
  PROVE  WorkOK(Call("write", [i \in 1..cards.tiles |-> i], data, 1))
<1> DEFINE todo == [i \in 1..cards.tiles |-> i]
           c == Call("write", todo, data, 1)
<1>1. CardsOK(cards) /\ cards.tiles \in Nat
  BY DEF Typed, CardsOK
<1>2. todo \in Seq(Nat) /\ Len(todo) = cards.tiles /\ \A j \in 1..cards.tiles : todo[j] = j
  BY <1>1
<1> HIDE DEF todo
<1>3. Working(c)
  BY <1>1, <1>2, CallWorks
<1>4. /\ c.op = "write" /\ c.ph = "main" /\ c.cards = cards /\ c.todo = todo /\ c.data = data
      /\ c.upd = <<>> /\ c.prim = <<>> /\ c.fall = <<>>
  BY CallIs
<1> HIDE DEF c
<1>5. FirstTile(c) = 1 /\ LastTile(c) = cards.tiles
  BY <1>4 DEF FirstTile, LastTile
<1>6. Len(c.todo) = LastTile(c) - FirstTile(c) + 1
  BY <1>1, <1>2, <1>4, <1>5
<1>7. \A j \in 1..Len(c.todo) : c.todo[j] = FirstTile(c) + j - 1
  BY <1>1, <1>2, <1>4, <1>5
<1>8. WorkOK(c)
  BY <1>3, <1>4, <1>6, <1>7, FreshOK
<1> QED
  BY <1>8 DEF c, todo

\* extend, as it begins or as a drain goes on to it.
LEMMA ExtendBegins ==
  ASSUME Typed, FileOK, NEW data \in Seq(Vals), Len(data) > 0
  PROVE  WorkOK(ExtendCall(data)) /\ WorkOK(Drain(data))
<1> DEFINE todo == ExtendTodo(Len(data))
           N == cards.rows + Len(data)
           F == Tiles(cards.rows) + IF cards.rows % TileRows = 0 THEN 1 ELSE 0
           K == Tiles(N) - F + 1
<1>1. CardsOK(cards) /\ cards.rows \in Nat /\ Len(data) \in Nat
  BY DEF Typed, CardsOK
<1>2. todo \in Seq(Nat)
  BY <1>1, Todos
<1>3. F \in Nat /\ Tiles(N) \in Nat
  <2>0. N \in Nat
    BY <1>1
  <2> HIDE DEF N
  <2>1. Tiles(cards.rows) \in Nat /\ Tiles(N) \in Nat
    BY <1>1, <2>0, TilesNat
  <2>2. (IF cards.rows % TileRows = 0 THEN 1 ELSE 0) \in Nat
    OBVIOUS
  <2> QED
    BY <2>1, <2>2
<1>4. todo = [j \in 1..K |-> F + j - 1]
  BY DEF ExtendTodo
<1> HIDE DEF todo
<1>5. ASSUME NEW c, Working(c), c.op = "extend", c.ph = "main", c.cards = cards, c.todo = todo,
             c.data = data, c.upd = <<>>, c.prim = <<>>, c.fall = <<>>
      PROVE  WorkOK(c)
  <2>1. RowsAfter(c) = N
    BY <1>5 DEF RowsAfter
  <2>2. FirstTile(c) = F /\ LastTile(c) = Tiles(N)
    BY <1>5, <2>1 DEF FirstTile, LastTile
  <2>3. Fits(c)
    BY <1>5 DEF Fits, FileOK
  <2>4. F <= Tiles(N)
    BY <2>2, <2>3, Untouched
  <2> HIDE DEF F, N
  <2>5. K \in Nat
    BY <1>3, <2>4
  <2>6. Len(todo) = K /\ \A j \in 1..K : todo[j] = F + j - 1
    <3> HIDE DEF K
    <3> QED
      BY <1>4, <2>5
  <2>7. Len(c.todo) = LastTile(c) - FirstTile(c) + 1
    BY <1>5, <2>2, <2>6
  <2>8. \A j \in 1..Len(c.todo) : c.todo[j] = FirstTile(c) + j - 1
    BY <1>5, <2>2, <2>6
  <2> QED
    BY <1>5, <2>7, <2>8, FreshOK
<1> HIDE DEF F, N, K
<1> DEFINE a == Call("extend", todo, data, cards.rows + 1)
           b == [a EXCEPT !.buffered = TRUE]
<1>6. Working(a) /\ Working(b)
  BY <1>1, <1>2, CallWorks
<1>7. /\ a.op = "extend" /\ a.ph = "main" /\ a.cards = cards /\ a.todo = todo /\ a.data = data
      /\ a.upd = <<>> /\ a.prim = <<>> /\ a.fall = <<>>
      /\ b.op = "extend" /\ b.ph = "main" /\ b.cards = cards /\ b.todo = todo /\ b.data = data
      /\ b.upd = <<>> /\ b.prim = <<>> /\ b.fall = <<>>
  BY CallIs
<1>8. a = ExtendCall(data) /\ b = Drain(data)
  BY DEF ExtendCall, Drain, todo
<1> HIDE DEF a, b
<1>9. WorkOK(a) /\ WorkOK(b)
  BY <1>5, <1>6, <1>7
<1> QED
  BY <1>8, <1>9

\* setitem, as it begins.
LEMMA SetItemBegins ==
  ASSUME Typed, FileOK, NEW data \in Seq(Vals), Len(data) > 0, NEW at \in Nat \ {0},
         at + Len(data) - 1 <= cards.rows
  PROVE  WorkOK(Call("setitem", SetItemTodo(at, Len(data)), data, at))
<1> DEFINE todo == SetItemTodo(at, Len(data))
           c == Call("setitem", todo, data, at)
           F == Tiles(at)
           L == Tiles(at + Len(data) - 1)
           K == L - F + 1
<1>1. CardsOK(cards) /\ cards.rows \in Nat /\ Len(data) \in Nat \ {0}
  BY DEF Typed, CardsOK
<1>2. todo \in Seq(Nat)
  BY <1>1, Todos
<1>3. F \in Nat /\ L \in Nat
  <2>1. at + Len(data) - 1 \in Nat /\ at \in Nat
    BY <1>1
  <2> QED
    BY <2>1, TilesNat
<1>4. todo = [j \in 1..K |-> F + j - 1]
  BY DEF SetItemTodo
<1> HIDE DEF todo
<1>5. Working(c)
  BY <1>1, <1>2, CallWorks
<1>6. /\ c.op = "setitem" /\ c.ph = "main" /\ c.cards = cards /\ c.todo = todo /\ c.data = data
      /\ c.at = at /\ c.upd = <<>> /\ c.prim = <<>> /\ c.fall = <<>>
  BY CallIs
<1> HIDE DEF c
<1>7. FirstTile(c) = F /\ LastTile(c) = L
  BY <1>6 DEF FirstTile, LastTile
<1>8. Fits(c)
  BY <1>5, <1>6 DEF Fits, FileOK
<1>9. F <= L
  BY <1>7, <1>8, Untouched
<1> HIDE DEF F, L
<1>10. K \in Nat
  BY <1>3, <1>9
<1>11. Len(todo) = K /\ \A j \in 1..K : todo[j] = F + j - 1
  <2> HIDE DEF K
  <2> QED
    BY <1>4, <1>10
<1>12. Len(c.todo) = LastTile(c) - FirstTile(c) + 1
  BY <1>6, <1>7, <1>11
<1>13. \A j \in 1..Len(c.todo) : c.todo[j] = FirstTile(c) + j - 1
  BY <1>6, <1>7, <1>11
<1>14. WorkOK(c)
  BY <1>5, <1>6, <1>12, <1>13, FreshOK
<1> QED
  BY <1>14 DEF c, todo

\* A read, as it begins.
LEMMA ReadBegins ==
  ASSUME Typed, FileOK, NEW i \in 1..cards.tiles
  PROVE  WorkOK(Call("read", SubSeq(AllTiles, i, cards.tiles), <<>>, 0))
<1> DEFINE todo == SubSeq(AllTiles, i, cards.tiles)
           c == Call("read", todo, <<>>, 0)
           Q == cards.tiles
<1>1. Q \in Nat /\ i \in 1..Q
  BY DEF Typed, CardsOK
<1>2. \A k \in 1..Q : AllTiles[k] = k
  BY DEF AllTiles
<1>3. todo \in Seq(1..Q)
  <2> HIDE DEF Q
  <2>1. \A k \in i..Q : AllTiles[k] \in 1..Q
    BY <1>1, <1>2
  <2>2. i \in Int /\ Q \in Int
    BY <1>1
  <2>3. SubSeq(AllTiles, i, Q) \in Seq(1..Q)
    BY <2>1, <2>2, SubSeqProperties
  <2> QED
    BY <2>3 DEF Q
<1> HIDE DEF todo
<1>4. c.op = "read" /\ c.cards = cards /\ c.todo = todo
  BY CallIs
<1> HIDE DEF c
<1>5. \A j \in 1..Len(c.todo) : c.todo[j] \in 1..Q
  <2> DEFINE S == 1..Q
  <2>1. todo \in Seq(S)
    BY <1>3
  <2> HIDE DEF S
  <2>2. \A j \in 1..Len(todo) : todo[j] \in S
    BY <2>1
  <2> QED
    BY <1>4, <2>2 DEF S
<1>6. WorkOK(c)
  BY <1>4, <1>5 DEF WorkOK, ReadOK
<1> QED
  BY <1>6 DEF c, todo

\* What a heap spells it still spells with more behind it, and so does what is put there.
LEMMA SpellsOn ==
  ASSUME NEW a \in Seq(Units), NEW b \in Seq(Units)
  PROVE  /\ a \o b \in Seq(Units) /\ Len(a \o b) = Len(a) + Len(b)
         /\ \A off, n, rows, col :
              Spells(a, off, n, rows, col) /\ off + n <= Len(a) =>
                Spells(a \o b, off, n, rows, col) /\ off + n <= Len(a \o b)
         /\ \A n, rows, col :
              Spells(b, 0, n, rows, col) /\ n <= Len(b) =>
                Spells(a \o b, Len(a), n, rows, col) /\ Len(a) + n <= Len(a \o b)
<1> DEFINE w == a \o b
<1>1. /\ w \in Seq(Units) /\ Len(w) = Len(a) + Len(b) /\ Len(a) \in Nat /\ Len(b) \in Nat
      /\ \A q \in 1..(Len(a) + Len(b)) : w[q] = IF q <= Len(a) THEN a[q] ELSE b[q - Len(a)]
  BY ConcatProperties
<1> HIDE DEF w
<1>2. ASSUME NEW off, NEW n, NEW rows, NEW col, Spells(a, off, n, rows, col), off + n <= Len(a)
      PROVE  Spells(w, off, n, rows, col) /\ off + n <= Len(w)
  <2>1. n \in Nat /\ off \in Nat
    BY <1>2 DEF Spells
  <2>2. ASSUME NEW k \in 1..n PROVE w[off + k] = a[off + k]
    <3>1. off + k \in 1..(Len(a) + Len(b)) /\ off + k <= Len(a)
      BY <1>1, <1>2, <2>1
    <3> QED
      BY <1>1, <3>1
  <2> QED
    BY <1>1, <1>2, <2>1, <2>2 DEF Spells
<1>3. ASSUME NEW n, NEW rows, NEW col, Spells(b, 0, n, rows, col), n <= Len(b)
      PROVE  Spells(w, Len(a), n, rows, col) /\ Len(a) + n <= Len(w)
  <2>1. n \in Nat
    BY <1>3 DEF Spells
  <2>2. ASSUME NEW k \in 1..n PROVE w[Len(a) + k] = b[0 + k]
    <3>1. Len(a) + k \in 1..(Len(a) + Len(b)) /\ ~(Len(a) + k <= Len(a)) /\ (Len(a) + k) - Len(a) = 0 + k
      BY <1>1, <1>3, <2>1
    <3> QED
      BY <1>1, <3>1
  <2> QED
    BY <1>1, <1>3, <2>1, <2>2 DEF Spells
<1> QED
  BY <1>1, <1>2, <1>3 DEF w

\* One iteration of the encode loop: the tile goes from to do to done.
LEMMA TileEncoded ==
  ASSUME NEW c, WriteOK(c), c.ph = "encode", c.todo # <<>>, NEW i, i = Head(c.todo),
         NEW rows, rows = TileOf(Result(c), i), 0 \notin ToSet(rows)
  PROVE  WorkOK(WithTile(c, i, rows))
<1> DEFINE col == Column(c, i, rows)
           u == Encoded(rows, col)
           d == IF col = "p" THEN Desc(Len(u), Len(c.prim), 0, 0) ELSE Desc(0, 0, Len(u), Len(c.fall))
           x == [tile |-> i, desc |-> d]
           p == IF col = "p" THEN c.prim \o u ELSE c.prim
           f == IF col = "f" THEN c.fall \o u ELSE c.fall
           e == WithTile(c, i, rows)
           F == FirstTile(c)
           L == LastTile(c)
<1>0. /\ Fits(c) /\ c.cards = cards
      /\ c.op # "write" => c.main = SubSeq(sect, 1, cards.tiles)
      /\ c.upd \in Seq(Updates) /\ c.prim \in Seq(Units) /\ c.fall \in Seq(Units)
      /\ Len(c.upd) + Len(c.todo) = L - F + 1
      /\ \A j \in 1..Len(c.todo) : c.todo[j] = F + Len(c.upd) + j - 1
      /\ \A k \in 1..Len(c.upd) : c.upd[k].tile = F + k - 1 /\ Done(c, c.upd[k])
  BY DEF WriteOK
<1>1. Working(c) /\ c.op # "read" /\ DOMAIN c = Fields /\ c.todo \in Seq(Nat)
  BY <1>0 DEF Fits, Working
<1>2. e = [c EXCEPT !.todo = Tail(c.todo), !.upd = Append(c.upd, x), !.prim = p, !.fall = f]
  BY DEF WithTile
<1>3. col \in {"p", "f"}
  BY DEF Column
<1>4. /\ F \in Nat \ {0} /\ L \in Nat /\ L <= Tiles(RowsAfter(c)) /\ Tiles(RowsAfter(c)) \in Nat
      /\ Len(c.todo) \in Nat \ {0} /\ Len(c.upd) \in Nat
  <2>1. Len(c.todo) # 0
    BY <1>1
  <2> QED
    BY <1>0, <1>1, <2>1, Untouched
<1>5. i = F + Len(c.upd) /\ i \in 1..Tiles(RowsAfter(c)) /\ i \in Nat
  <2>1. i = c.todo[1] /\ 1 \in 1..Len(c.todo)
    BY <1>1, <1>4
  <2>2. i = F + Len(c.upd) + 1 - 1
    BY <1>0, <2>1
  <2> DEFINE T == Tiles(RowsAfter(c))
             m == Len(c.upd)
             n == Len(c.todo)
  <2>3. /\ F \in Nat \ {0} /\ L \in Nat /\ L <= T /\ T \in Nat /\ n \in Nat \ {0} /\ m \in Nat
        /\ m + n = L - F + 1 /\ i = F + m + 1 - 1
    BY <1>0, <1>4, <2>2
  <2> HIDE DEF F, L, T, m, n
  <2>4. i = F + m /\ i \in 1..T /\ i \in Nat
    BY <2>3
  <2> QED
    BY <2>4 DEF T, m
<1>6. rows \in Rows /\ Len(rows) > 0
  <2>1. Result(c) \in Rows /\ Len(Result(c)) = RowsAfter(c)
    BY <1>0, ResultIs
  <2>2. rows \in Rows /\ Len(rows) \in Nat \ {0}
    BY <1>5, <2>1, TileRowsAre DEF Rows
  <2> QED
    BY <2>2
<1>7. Len(u) \in Nat \ {0} /\ u \in Seq(Units) /\ Spells(u, 0, Len(u), rows, col)
  <2> HIDE DEF col
  <2> QED
    BY <1>3, <1>6, EncodedSpells
<1> HIDE DEF col, u
<1>8. /\ d \in Descs
      /\ col = "p" => Payload(d) = [col |-> "p", n |-> Len(u), off |-> Len(c.prim)]
      /\ col = "f" => Payload(d) = [col |-> "f", n |-> Len(u), off |-> Len(c.fall)]
  <2>1. Len(c.prim) \in Nat /\ Len(c.fall) \in Nat
    BY <1>0
  <2>2. CASE col = "p"
    BY <1>7, <2>1, <2>2 DEF Desc, Descs, Payload
  <2>3. CASE col = "f"
    BY <1>7, <2>1, <2>3 DEF Desc, Descs, Payload
  <2> QED
    BY <1>3, <2>2, <2>3
<1>9. /\ p \in Seq(Units) /\ f \in Seq(Units)
      /\ \A off, n, r, k : Spells(c.prim, off, n, r, k) /\ off + n <= Len(c.prim) =>
                             Spells(p, off, n, r, k) /\ off + n <= Len(p)
      /\ \A off, n, r, k : Spells(c.fall, off, n, r, k) /\ off + n <= Len(c.fall) =>
                             Spells(f, off, n, r, k) /\ off + n <= Len(f)
      /\ col = "p" => Spells(p, Len(c.prim), Len(u), rows, "p") /\ Len(c.prim) + Len(u) <= Len(p)
      /\ col = "f" => Spells(f, Len(c.fall), Len(u), rows, "f") /\ Len(c.fall) + Len(u) <= Len(f)
  <2>0. Len(u) <= Len(u)
    BY <1>7
  <2>1. CASE col = "p"
    <3>1. p = c.prim \o u /\ f = c.fall
      BY <2>1
    <3> QED
      BY <1>0, <1>7, <2>0, <2>1, <3>1, SpellsOn
  <2>2. CASE col = "f"
    <3>1. p = c.prim /\ f = c.fall \o u
      BY <2>2
    <3> QED
      BY <1>0, <1>7, <2>0, <2>2, <3>1, SpellsOn
  <2> QED
    BY <1>3, <2>1, <2>2
<1>10. x \in Updates /\ x.tile = i /\ x.desc = d
  BY <1>5, <1>8 DEF Updates
<1> HIDE DEF d, x, p, f
<1>11. /\ e.op = c.op /\ e.ph = c.ph /\ e.cards = c.cards /\ e.data = c.data /\ e.at = c.at
       /\ e.main = c.main /\ e.todo = Tail(c.todo) /\ e.upd = Append(c.upd, x)
       /\ e.prim = p /\ e.fall = f
  BY <1>1, <1>2 DEF Fields
<1>12. Working(e)
  BY <1>1, WorkGoesOn
<1> HIDE DEF e
<1>13. Fits(e)
  BY <1>0, <1>11, <1>12 DEF Fits
<1>14. RowsAfter(e) = RowsAfter(c)
  BY <1>11 DEF RowsAfter
<1>15. FirstTile(e) = F /\ LastTile(e) = L
  BY <1>11, <1>14 DEF FirstTile, LastTile
<1>16. Result(e) = Result(c)
  BY <1>11 DEF Result
<1>17. \A y : Done(c, y) => Done(e, y)
  <2> SUFFICES ASSUME NEW y, Done(c, y) PROVE Done(e, y)
    OBVIOUS
  <2> DEFINE r == TileOf(Result(c), y.tile)
             z == Payload(y.desc)
  <2>1. /\ 0 \notin ToSet(r)
        /\ IF z.col = "p" THEN z.off + z.n <= Len(c.prim) /\ Spells(c.prim, z.off, z.n, r, "p")
           ELSE z.off + z.n <= Len(c.fall) /\ Spells(c.fall, z.off, z.n, r, "f")
    BY DEF Done
  <2> HIDE DEF r, z
  <2>2. IF z.col = "p" THEN z.off + z.n <= Len(p) /\ Spells(p, z.off, z.n, r, "p")
        ELSE z.off + z.n <= Len(f) /\ Spells(f, z.off, z.n, r, "f")
    BY <1>9, <2>1
  <2> QED
    BY <1>11, <1>16, <2>1, <2>2 DEF Done, r, z
<1>18. Done(e, x)
  <2>1. TileOf(Result(e), x.tile) = rows /\ x.desc = d
    BY <1>10, <1>16
  <2>2. CASE col = "p"
    <3>1. /\ Payload(d).col = "p" /\ Payload(d).n = Len(u) /\ Payload(d).off = Len(c.prim)
      BY <1>8, <2>2
    <3> QED
      BY <1>9, <1>11, <2>1, <2>2, <3>1 DEF Done
  <2>3. CASE col = "f"
    <3>1. /\ Payload(d).col = "f" /\ Payload(d).n = Len(u) /\ Payload(d).off = Len(c.fall)
      BY <1>8, <2>3
    <3>2. Payload(d).col # "p"
      BY <3>1
    <3> QED
      BY <1>9, <1>11, <2>1, <2>3, <3>1, <3>2 DEF Done
  <2> QED
    BY <1>3, <2>2, <2>3
<1> HIDE DEF F, L
<1>19. /\ e.upd \in Seq(Updates) /\ Len(e.upd) = Len(c.upd) + 1
       /\ \A k \in 1..Len(c.upd) : e.upd[k] = c.upd[k]
       /\ e.upd[Len(c.upd) + 1] = x
  BY <1>0, <1>10, <1>11
<1>20. ASSUME NEW k \in 1..Len(e.upd) PROVE e.upd[k].tile = F + k - 1 /\ Done(e, e.upd[k])
  <2>1. CASE k \in 1..Len(c.upd)
    BY <1>0, <1>17, <1>19, <2>1
  <2>2. CASE k = Len(c.upd) + 1
    <3>1. e.upd[k] = x
      BY <1>19, <2>2
    <3>2. i = F + k - 1
      BY <1>4, <1>5, <2>2
    <3> QED
      BY <1>10, <1>18, <3>1, <3>2
  <2>3. k \in 1..Len(c.upd) \/ k = Len(c.upd) + 1
    BY <1>4, <1>19
  <2> QED
    BY <2>1, <2>2, <2>3
<1>21. /\ Len(e.todo) = Len(c.todo) - 1 /\ \A j \in 1..(Len(c.todo) - 1) : e.todo[j] = c.todo[j + 1]
  <2> DEFINE s == c.todo
  <2>1. s \in Seq(Nat) /\ s # <<>> /\ e.todo = Tail(s)
    BY <1>1, <1>11
  <2> HIDE DEF s
  <2>2. Len(Tail(s)) = Len(s) - 1 /\ \A j \in 1..(Len(s) - 1) : Tail(s)[j] = s[j + 1]
    BY <2>1, HeadTailProperties
  <2> QED
    BY <2>1, <2>2 DEF s
<1>22. Len(e.upd) + Len(e.todo) = L - F + 1
  <2> DEFINE m == Len(c.upd)
             n == Len(c.todo)
  <2>1. /\ F \in Nat /\ L \in Nat /\ m \in Nat /\ n \in Nat /\ m + n = L - F + 1
        /\ Len(e.upd) = m + 1 /\ Len(e.todo) = n - 1
    BY <1>0, <1>4, <1>19, <1>21
  <2> HIDE DEF m, n
  <2> QED
    BY <2>1
<1>23. ASSUME NEW j \in 1..Len(e.todo) PROVE e.todo[j] = F + Len(e.upd) + j - 1
  <2>1. e.todo[j] = c.todo[j + 1] /\ j + 1 \in 1..Len(c.todo)
    BY <1>4, <1>21
  <2>2. c.todo[j + 1] = F + Len(c.upd) + (j + 1) - 1
    BY <1>0, <2>1
  <2> QED
    BY <1>4, <1>19, <2>1, <2>2
<1>24. e.ph = "encode" /\ e.op # "write" => e.main = SubSeq(sect, 1, cards.tiles)
  BY <1>0, <1>11
<1>25. Reckoned(e)
  <2> DEFINE m == Len(c.upd)
             v == Weights(c)
             w == Weights(e)
             q == Len(c.prim)
             g == Len(c.fall)
  <2>1. m \in Nat /\ q \in Nat /\ g \in Nat /\ SumTo(v, m) = q + g
    BY <1>0, <1>4 DEF WriteOK, Reckoned
  <2>2. \A k \in 1..m : w[k] = v[k]
    BY <1>0, <1>4, <1>19 DEF Weights
  <2>3. w[m + 1] = d.pn + d.fn
    <3>1. m + 1 \in DOMAIN e.upd
      BY <1>4, <1>19
    <3>2. e.upd[m + 1] = x
      BY <1>19
    <3> QED
      BY <1>10, <3>1, <3>2 DEF Weights
  <2>4. d.pn + d.fn = Len(u) /\ Len(p) + Len(f) = q + g + Len(u)
    <3>1. Len(u) \in Nat
      BY <1>7
    <3>2. CASE col = "p"
      <4>1. d.pn = Len(u) /\ d.fn = 0
        BY <3>2 DEF d, Desc
      <4>2. p = c.prim \o u /\ f = c.fall
        BY <3>2 DEF p, f
      <4>3. Len(p) = q + Len(u) /\ Len(f) = g
        BY <1>0, <1>7, <4>2
      <4> HIDE DEF q, g
      <4> QED
        BY <2>1, <3>1, <4>1, <4>3
    <3>3. CASE col = "f"
      <4>1. d.pn = 0 /\ d.fn = Len(u)
        BY <3>3 DEF d, Desc
      <4>2. p = c.prim /\ f = c.fall \o u
        BY <3>3 DEF p, f
      <4>3. Len(p) = q /\ Len(f) = g + Len(u)
        BY <1>0, <1>7, <4>2
      <4> HIDE DEF q, g
      <4> QED
        BY <2>1, <3>1, <4>1, <4>3
    <3> QED
      BY <1>3, <3>2, <3>3
  <2>5. SumTo(w, m + 1) = SumTo(w, m) + w[m + 1]
    BY <2>1, SumToUnfolds
  <2>6. SumTo(w, m) = SumTo(v, m)
    BY <2>1, <2>2, SumToAgree
  <2> HIDE DEF m, v, w, q, g
  <2>7. SumTo(w, m + 1) = q + g + Len(u)
    BY <2>1, <2>3, <2>4, <2>5, <2>6
  <2> QED
    BY <1>11, <1>19, <2>4, <2>7 DEF Reckoned, m, w
<1>26. WriteOK(e)
  <2>1. e.prim \in Seq(Units) /\ e.fall \in Seq(Units) /\ e.cards = cards
    BY <1>0, <1>9, <1>11
  <2> QED
    BY <1>13, <1>15, <1>19, <1>20, <1>22, <1>23, <1>24, <1>25, <2>1 DEF WriteOK
<1> QED
  BY <1>1, <1>11, <1>26 DEF WorkOK, e

-----------------------------------------------------------------------------
(* What a call leaves of the section.                                      *)

\* What writing over a section leaves of it.
LEMMA WriteAtIs ==
  ASSUME NEW s \in Seq(Cells), NEW u \in Seq(Cells), NEW p \in Nat \ {0}
  PROVE  LET w == WriteAt(s, p, u)
         IN  /\ w \in Seq(Cells) /\ Len(s) <= Len(w) /\ p + Len(u) - 1 <= Len(w)
             /\ \A k \in 1..Len(u) : w[p + k - 1] = u[k]
             /\ \A q \in 1..Len(s) : q < p => w[q] = s[q]
             /\ \A q \in 1..Len(s) : q > p + Len(u) - 1 => w[q] = s[q]
<1> DEFINE K == IF Len(s) < p + Len(u) - 1 THEN p + Len(u) - 1 ELSE Len(s)
           w == WriteAt(s, p, u)
           v(q) == IF q \in p..(p + Len(u) - 1) THEN u[q - p + 1] ELSE IF q <= Len(s) THEN s[q] ELSE Junk
<1>1. Len(s) \in Nat /\ Len(u) \in Nat /\ K \in Nat /\ Len(s) <= K /\ p + Len(u) - 1 <= K
  OBVIOUS
<1>2. w = [q \in 1..K |-> v(q)]
  BY DEF WriteAt
<1>3. Junk \in Cells
  <2>1. <<>> \in Rows
    BY DEF Rows
  <2> QED
    BY <2>1 DEF Junk, Unit, Units, Cells
<1>4. ASSUME NEW q \in 1..K PROVE v(q) \in Cells
  <2>1. CASE q \in p..(p + Len(u) - 1)
    <3>1. q - p + 1 \in 1..Len(u)
      BY <1>1, <2>1
    <3> QED
      BY <2>1, <3>1
  <2>2. CASE q \notin p..(p + Len(u) - 1) /\ q <= Len(s)
    <3>1. q \in 1..Len(s)
      BY <1>1, <2>2
    <3> QED
      BY <2>2, <3>1
  <2>3. CASE q \notin p..(p + Len(u) - 1) /\ ~(q <= Len(s))
    BY <1>3, <2>3
  <2> QED
    BY <2>1, <2>2, <2>3
<1> HIDE DEF K, w
<1>5. ASSUME NEW k \in 1..Len(u) PROVE w[p + k - 1] = u[k]
  <2>1. p + k - 1 \in 1..K /\ p + k - 1 \in p..(p + Len(u) - 1) /\ (p + k - 1) - p + 1 = k
    BY <1>1
  <2>2. w[p + k - 1] = v(p + k - 1)
    BY <1>2, <2>1
  <2>3. v(p + k - 1) = u[(p + k - 1) - p + 1]
    BY <2>1
  <2> QED
    BY <2>1, <2>2, <2>3
<1>6. ASSUME NEW q \in 1..Len(s), q < p \/ q > p + Len(u) - 1 PROVE w[q] = s[q]
  <2>1. q \in 1..K /\ q \notin p..(p + Len(u) - 1) /\ q <= Len(s)
    BY <1>1, <1>6
  <2>2. w[q] = v(q)
    BY <1>2, <2>1
  <2>3. v(q) = s[q]
    BY <2>1
  <2> QED
    BY <2>2, <2>3
<1>7. w \in Seq(Cells) /\ Len(w) = K
  <2> HIDE DEF v
  <2>1. w \in [1..K -> Cells]
    BY <1>2, <1>4
  <2> QED
    BY <1>1, <2>1
<1> QED
  BY <1>1, <1>5, <1>6, <1>7 DEF w

\* The length of the old heap that call c keeps.
Base(c) == IF c.op = "write" THEN 0 ELSE c.cards.pcount

\* Section s has the table of call c, the heap it keeps, and its own heaps behind it.
Placing(c, s) ==
    LET n == Tiles(RowsAfter(c))
        b == n + Base(c)
    IN  /\ s \in Seq(Cells) /\ b + Len(c.prim) + Len(c.fall) <= Len(s)
        /\ \A i \in 1..n : s[i] = NewMain(c)[i]
        /\ \A k \in 1..Base(c) : s[n + k] = sect[c.cards.tiles + k]
        /\ \A k \in 1..Len(c.prim) : s[b + k] = c.prim[k]
        /\ \A k \in 1..Len(c.fall) : s[b + Len(c.prim) + k] = c.fall[k]

\* A call whose tiles are all done.
Finished(c) == WriteOK(c) /\ c.ph = "encode" /\ c.todo = <<>>

\* Where the heaps of a call go.
LEMMA PlacedIs ==
  ASSUME FileOK, NEW c, Finished(c), NEW k \in 1..Len(c.upd)
  PROVE  LET y == Payload(c.upd[k].desc)
             z == Payload(Placed(c)[k].desc)
         IN  /\ Placed(c)[k].desc \in Descs
             /\ z.col = y.col /\ z.n = y.n
             /\ z.off = y.off + Base(c) + IF y.col = "p" THEN 0 ELSE Len(c.prim)
             /\ Placed(c)[k].desc.pn = c.upd[k].desc.pn /\ Placed(c)[k].desc.fn = c.upd[k].desc.fn
<1> DEFINE x == c.upd[k]
           d == x.desc
           y == Payload(d)
           b == Base(c)
           P == Len(c.prim)
           e == Desc(d.pn, IF d.pn > 0 THEN d.poff + b ELSE d.poff,
                     d.fn, IF d.fn > 0 THEN d.foff + P + b ELSE d.foff)
<1>1. c.upd \in Seq(Updates) /\ c.prim \in Seq(Units) /\ c.cards = cards /\ Done(c, x)
  BY DEF Finished, WriteOK
<1>2. x \in Updates /\ P \in Nat /\ k \in DOMAIN c.upd
  BY <1>1
<1>3. d \in Descs
  BY <1>2 DEF Updates
<1>4. b \in Nat
  BY <1>1 DEF Base, FileOK
<1>5. Placed(c)[k] = [x EXCEPT !.desc = e]
  BY <1>2 DEF Placed, Base
<1> HIDE DEF x, b, P
<1>6. Placed(c)[k].desc = e
  BY <1>2, <1>5 DEF Updates
<1>7. y.n \in Nat \ {0}
  BY <1>1 DEF Done, Spells
<1> HIDE DEF d
<1>8. /\ d.pn \in Nat /\ d.poff \in Nat /\ d.fn \in Nat /\ d.foff \in Nat
  BY <1>3 DEF Descs
<1>9. e \in Descs /\ e.pn = d.pn /\ e.fn = d.fn
      /\ e.poff = (IF d.pn > 0 THEN d.poff + b ELSE d.poff)
      /\ e.foff = (IF d.fn > 0 THEN d.foff + P + b ELSE d.foff)
  <2> DEFINE poff == IF d.pn > 0 THEN d.poff + b ELSE d.poff
             foff == IF d.fn > 0 THEN d.foff + P + b ELSE d.foff
  <2>1. poff \in Nat /\ foff \in Nat
    BY <1>2, <1>4, <1>8
  <2>2. e = [t |-> "desc", pn |-> d.pn, poff |-> poff, fn |-> d.fn, foff |-> foff]
    BY DEF Desc
  <2> HIDE DEF poff, foff, e
  <2>3. e \in Descs
    BY <1>8, <2>1, <2>2 DEF Descs
  <2>4. e.pn = d.pn /\ e.fn = d.fn /\ e.poff = poff /\ e.foff = foff
    BY <2>2
  <2> QED
    BY <2>3, <2>4 DEF poff, foff
<1> HIDE DEF e
<1>10. CASE d.pn > 0
  <2>1. y = [col |-> "p", n |-> d.pn, off |-> d.poff]
    BY <1>10 DEF Payload
  <2>2. Payload(e) = [col |-> "p", n |-> d.pn, off |-> d.poff + b]
    BY <1>9, <1>10 DEF Payload
  <2> QED
    BY <1>4, <1>6, <1>8, <1>9, <2>1, <2>2 DEF d, x, b, P
<1>11. CASE ~(d.pn > 0)
  <2>1. y = [col |-> "f", n |-> d.fn, off |-> d.foff]
    BY <1>11 DEF Payload
  <2>2. d.fn > 0
    BY <1>7, <1>8, <2>1
  <2>3. Payload(e) = [col |-> "f", n |-> d.fn, off |-> d.foff + P + b]
    BY <1>9, <1>11, <2>2 DEF Payload
  <2>4. d.foff + P + b = d.foff + b + P
    BY <1>2, <1>4, <1>8
  <2> QED
    BY <1>6, <1>9, <2>1, <2>3, <2>4 DEF d, x, b, P
<1> QED
  BY <1>10, <1>11

\* The table that a call writes: its own tiles, and the others as they were.
LEMMA MainIs ==
  ASSUME FileOK, NEW c, Finished(c)
  PROVE  LET n == Tiles(RowsAfter(c))
             M == NewMain(c)
             F == FirstTile(c)
             L == LastTile(c)
         IN  /\ n \in Nat /\ M \in Seq(Descs) /\ Len(M) = n
             /\ \A i \in F..L : i - F + 1 \in 1..Len(c.upd) /\ M[i] = Placed(c)[i - F + 1].desc
             /\ \A i \in 1..n : i \notin F..L => M[i] = sect[i] /\ i \in 1..cards.tiles
<1> DEFINE n == Tiles(RowsAfter(c))
           M == NewMain(c)
           F == FirstTile(c)
           L == LastTile(c)
           mine(i) == {k \in DOMAIN c.upd : c.upd[k].tile = i}
           v(i) == IF mine(i) # {} THEN Placed(c)[CHOOSE k \in mine(i) : TRUE].desc ELSE c.main[i]
<1>1. /\ Fits(c) /\ c.cards = cards
      /\ c.op # "write" => c.main = SubSeq(sect, 1, cards.tiles)
      /\ c.upd \in Seq(Updates) /\ Len(c.todo) = 0
      /\ Len(c.upd) + Len(c.todo) = L - F + 1
      /\ \A k \in 1..Len(c.upd) : c.upd[k].tile = F + k - 1
  BY DEF Finished, WriteOK
<1>2. /\ F \in Nat \ {0} /\ L \in Nat /\ F <= L /\ L <= n /\ n \in Nat
      /\ c.op = "write" => F = 1 /\ L = n
      /\ \A i \in 1..n : i \notin F..L => i \in 1..c.cards.tiles
  BY <1>1, Untouched
<1>3. M = [i \in 1..n |-> v(i)]
  BY DEF NewMain
<1>4. DOMAIN c.upd = 1..Len(c.upd) /\ Len(c.upd) \in Nat
  BY <1>1
<1>5. Len(c.upd) = L - F + 1
  <2> DEFINE m == Len(c.upd)
  <2>1. m \in Nat /\ m + 0 = L - F + 1
    BY <1>1, <1>4
  <2> HIDE DEF m, L, F
  <2>2. m = L - F + 1
    BY <1>2, <2>1
  <2> QED
    BY <2>2 DEF m
<1> HIDE DEF F, L, n, M
<1>6. ASSUME NEW i \in F..L PROVE i - F + 1 \in 1..Len(c.upd) /\ mine(i) = {i - F + 1}
  <2>1. i - F + 1 \in 1..Len(c.upd) /\ F + (i - F + 1) - 1 = i
    BY <1>2, <1>5
  <2>2. c.upd[i - F + 1].tile = i
    BY <1>1, <2>1
  <2>3. ASSUME NEW k \in 1..Len(c.upd), c.upd[k].tile = i PROVE k = i - F + 1
    <3>1. i = F + k - 1
      BY <1>1, <2>3
    <3> QED
      BY <1>2, <1>4, <3>1
  <2> QED
    BY <1>4, <2>1, <2>2, <2>3
<1>7. ASSUME NEW i \in 1..n, i \notin F..L PROVE mine(i) = {}
  <2> SUFFICES ASSUME NEW k \in 1..Len(c.upd), c.upd[k].tile = i PROVE FALSE
    BY <1>4
  <2>1. i = F + k - 1
    BY <1>1
  <2> QED
    BY <1>2, <1>4, <1>5, <1>7, <2>1
<1>8. ASSUME NEW i \in F..L PROVE i \in 1..n /\ v(i) = Placed(c)[i - F + 1].desc
  <2>1. i \in 1..n
    BY <1>2
  <2> HIDE DEF mine
  <2>2. v(i) = Placed(c)[CHOOSE k \in {i - F + 1} : TRUE].desc
    BY <1>6
  <2>3. (CHOOSE k \in {i - F + 1} : TRUE) = i - F + 1
    OBVIOUS
  <2> QED
    BY <2>1, <2>2, <2>3
<1>9. ASSUME NEW i \in 1..n, i \notin F..L PROVE v(i) = sect[i] /\ i \in 1..cards.tiles
  <2>1. i \in 1..cards.tiles
    BY <1>1, <1>2, <1>9
  <2>2. c.op # "write"
    BY <1>2, <1>9
  <2>3. v(i) = c.main[i]
    <3> HIDE DEF mine
    <3> QED
      BY <1>7, <1>9
  <2>4. SubSeq(sect, 1, cards.tiles)[i] = sect[i]
    <3>1. cards.tiles \in Nat
      BY TileIsThere DEF FileOK
    <3> DEFINE Q == cards.tiles
    <3>2. \A k \in 1..Q : sect[k] \in Descs
      BY DEF FileOK
    <3>3. Q \in Int /\ Q - 1 + 1 = Q /\ i \in 1..Q /\ 1 + i - 1 = i
      BY <2>1, <3>1
    <3> HIDE DEF Q
    <3>4. \A k \in 1..(Q - 1 + 1) : SubSeq(sect, 1, Q)[k] = sect[1 + k - 1]
      BY <3>2, <3>3, SubSeqProperties
    <3>5. SubSeq(sect, 1, Q)[i] = sect[1 + i - 1]
      BY <3>3, <3>4
    <3> QED
      BY <3>3, <3>5 DEF Q
  <2> QED
    BY <1>1, <2>1, <2>2, <2>3, <2>4
<1>10. ASSUME NEW i \in 1..n PROVE v(i) \in Descs
  <2>1. CASE i \in F..L
    <3>1. Placed(c)[i - F + 1].desc \in Descs
      BY <1>6, <2>1, PlacedIs
    <3> QED
      BY <1>8, <2>1, <3>1
  <2>2. CASE i \notin F..L
    BY <1>9, <2>2 DEF FileOK
  <2> QED
    BY <2>1, <2>2
<1> HIDE DEF v
<1>11. M \in Seq(Descs) /\ Len(M) = n
  <2>1. M \in [1..n -> Descs]
    BY <1>3, <1>10
  <2> QED
    BY <1>2, <2>1
<1>12. \A i \in 1..n : M[i] = v(i)
  BY <1>3
<1>13. \A i \in F..L : i - F + 1 \in 1..Len(c.upd) /\ M[i] = Placed(c)[i - F + 1].desc
  BY <1>6, <1>8, <1>12
<1>14. \A i \in 1..n : i \notin F..L => M[i] = sect[i] /\ i \in 1..cards.tiles
  BY <1>9, <1>12
<1> QED
  BY <1>2, <1>11, <1>13, <1>14 DEF M, n, F, L

\* Two sequences of cells, one behind the other.
LEMMA Behind ==
  ASSUME NEW a \in Seq(Cells), NEW b \in Seq(Cells)
  PROVE  /\ a \o b \in Seq(Cells) /\ Len(a \o b) = Len(a) + Len(b)
         /\ Len(a) \in Nat /\ Len(b) \in Nat
         /\ \A k \in 1..Len(a) : (a \o b)[k] = a[k]
         /\ \A k \in 1..Len(b) : (a \o b)[Len(a) + k] = b[k]
<1> DEFINE w == a \o b
<1>1. /\ w \in Seq(Cells) /\ Len(w) = Len(a) + Len(b) /\ Len(a) \in Nat /\ Len(b) \in Nat
      /\ \A q \in 1..(Len(a) + Len(b)) : w[q] = IF q <= Len(a) THEN a[q] ELSE b[q - Len(a)]
  BY ConcatProperties
<1> HIDE DEF w
<1>2. ASSUME NEW k \in 1..Len(a) PROVE w[k] = a[k]
  <2>1. k \in 1..(Len(a) + Len(b)) /\ k <= Len(a)
    BY <1>1
  <2> QED
    BY <1>1, <2>1
<1>3. ASSUME NEW k \in 1..Len(b) PROVE w[Len(a) + k] = b[k]
  <2>1. Len(a) + k \in 1..(Len(a) + Len(b)) /\ ~(Len(a) + k <= Len(a)) /\ (Len(a) + k) - Len(a) = k
    BY <1>1
  <2> QED
    BY <1>1, <2>1
<1> QED
  BY <1>1, <1>2, <1>3 DEF w

\* Three of them, joined either way.
LEMMA Joined == \A a, b, d \in Seq(Cells) : (a \o b) \o d = a \o (b \o d)
<1> SUFFICES ASSUME NEW a \in Seq(Cells), NEW b \in Seq(Cells), NEW d \in Seq(Cells)
             PROVE  (a \o b) \o d = a \o (b \o d)
  OBVIOUS
<1> QED
  BY ConcatAssociative

\* Each of the calls that write leaves such a section.
LEMMA Places ==
  ASSUME FileOK, NEW c, Finished(c)
  PROVE  Placing(c, NewSect(c))
<1> DEFINE n == Tiles(RowsAfter(c))
           M == NewMain(c)
           Q == cards.tiles
           b == Base(c)
           P == Len(c.prim)
           F == Len(c.fall)
           own == c.prim \o c.fall
           s == NewSect(c)
<1>1. /\ Fits(c) /\ c.cards = cards /\ c.prim \in Seq(Units) /\ c.fall \in Seq(Units)
  BY DEF Finished, WriteOK
<1>2. c.op \in {"write", "extend", "setitem"} /\ (c.op # "extend" => RowsAfter(c) = cards.rows)
  BY <1>1, FitsFacts
<1>3. n \in Nat /\ M \in Seq(Cells) /\ Len(M) = n
  <2>1. n \in Nat /\ M \in Seq(Descs) /\ Len(M) = n
    BY MainIs
  <2> HIDE DEF M
  <2>2. M \in Seq(Cells)
    BY <2>1 DEF Cells
  <2> QED
    BY <2>1, <2>2
<1>4. c.prim \in Seq(Cells) /\ c.fall \in Seq(Cells) /\ P \in Nat /\ F \in Nat
  <2>1. ASSUME NEW u \in Seq(Units) PROVE u \in Seq(Cells)
    BY DEF Cells
  <2> QED
    BY <1>1, <2>1
<1>5. /\ own \in Seq(Cells) /\ Len(own) = P + F
      /\ \A k \in 1..P : own[k] = c.prim[k]
      /\ \A k \in 1..F : own[P + k] = c.fall[k]
  BY <1>4, Behind
<1>6. /\ sect \in Seq(Cells) /\ Q \in Nat /\ cards.pcount \in Nat /\ Q + cards.pcount <= Len(sect)
      /\ Q = Tiles(cards.rows) /\ b \in Nat
  BY <1>1, TileIsThere DEF FileOK, Base
<1>7. ASSUME s \in Seq(Cells), n + b + P + F <= Len(s),
             \A i \in 1..n : s[i] = M[i],
             \A k \in 1..b : s[n + k] = sect[Q + k],
             \A k \in 1..(P + F) : s[(n + b) + k] = own[k]
      PROVE  Placing(c, s)
  <2>1. \A k \in 1..P : s[(n + b) + k] = c.prim[k]
    <3> HIDE DEF n, b, P, F, own, s
    <3> QED
      BY <1>3, <1>4, <1>5, <1>6, <1>7
  <2>2. ASSUME NEW k \in 1..F PROVE s[(n + b) + P + k] = c.fall[k]
    <3> HIDE DEF n, b, P, F, own, s
    <3>1. P + k \in 1..(P + F) /\ (n + b) + (P + k) = (n + b) + P + k
      BY <1>3, <1>4, <1>6
    <3>2. s[(n + b) + (P + k)] = own[P + k]
      BY <1>7, <3>1
    <3> QED
      BY <1>5, <3>1, <3>2
  <2> HIDE DEF s
  <2> QED
    BY <1>1, <1>7, <2>1, <2>2 DEF Placing
<1> HIDE DEF n, M, Q, P, F, own
<1>8. CASE c.op = "write"
  <2>1. s = (M \o c.prim) \o c.fall /\ b = 0
    BY <1>8 DEF NewSect, WriteSect, M, Base
  <2>2. s = M \o own
    <3>1. (M \o c.prim) \o c.fall = M \o (c.prim \o c.fall)
      BY <1>3, <1>4, Joined
    <3> QED
      BY <2>1, <3>1 DEF own
  <2> HIDE DEF s, b
  <2>3. /\ s \in Seq(Cells) /\ Len(s) = n + (P + F)
        /\ \A i \in 1..n : s[i] = M[i]
        /\ \A k \in 1..(P + F) : s[n + k] = own[k]
    <3>1. /\ M \o own \in Seq(Cells) /\ Len(M \o own) = Len(M) + Len(own)
          /\ \A k \in 1..Len(M) : (M \o own)[k] = M[k]
          /\ \A k \in 1..Len(own) : (M \o own)[Len(M) + k] = own[k]
      BY <1>3, <1>5, Behind
    <3> QED
      BY <1>3, <1>5, <2>2, <3>1
  <2>4. n + b + P + F <= Len(s) /\ n + b = n
    BY <1>3, <1>4, <2>1, <2>3
  <2>5. \A k \in 1..b : s[n + k] = sect[Q + k]
    BY <2>1
  <2> QED
    BY <1>7, <2>3, <2>4, <2>5 DEF s
<1>9. CASE c.op = "extend"
  <2> DEFINE h == OldHeap(c)
             u == M \o h \o c.prim \o c.fall
  <2>0. b = cards.pcount
    BY <1>1, <1>9 DEF Base
  <2>1. s = WriteAt(sect, 1, u)
    BY <1>9 DEF NewSect, ExtendSect, M
  <2> HIDE DEF b
  <2>2. h \in Seq(Cells) /\ Len(h) = b /\ \A k \in 1..b : h[k] = sect[Q + k]
    <3>1. h = SubSeq(sect, Q + 1, Q + b)
      BY <1>1, <2>0 DEF OldHeap, Q
    <3>2. \A k \in (Q + 1)..(Q + b) : sect[k] \in Cells
      BY <1>6, <2>0
    <3>3. Q + 1 \in Int /\ Q + b \in Int
      BY <1>6
    <3>4. /\ h \in Seq(Cells)
          /\ Len(h) = IF Q + 1 <= Q + b THEN (Q + b) - (Q + 1) + 1 ELSE 0
          /\ \A k \in 1..((Q + b) - (Q + 1) + 1) : h[k] = sect[(Q + 1) + k - 1]
      BY <3>1, <3>2, <3>3, SubSeqProperties
    <3> HIDE DEF h
    <3>5. (Q + b) - (Q + 1) + 1 = b /\ \A k \in 1..b : (Q + 1) + k - 1 = Q + k
      BY <1>6
    <3>6. Len(h) = b
      BY <1>6, <3>4, <3>5
    <3> QED
      BY <3>4, <3>5, <3>6
  <2> HIDE DEF h
  <2> DEFINE a == M \o h
  <2>3. /\ a \in Seq(Cells) /\ Len(a) = n + b
        /\ \A i \in 1..n : a[i] = M[i]
        /\ \A k \in 1..b : a[n + k] = h[k]
    BY <1>3, <2>2, Behind
  <2>4. u = a \o own
    <3> HIDE DEF a
    <3>1. (a \o c.prim) \o c.fall = a \o (c.prim \o c.fall)
      BY <1>4, <2>3, Joined
    <3> QED
      BY <3>1 DEF own, a
  <2> HIDE DEF a, u
  <2>5. /\ u \in Seq(Cells) /\ Len(u) = (n + b) + (P + F)
        /\ \A k \in 1..(n + b) : u[k] = a[k]
        /\ \A k \in 1..(P + F) : u[(n + b) + k] = own[k]
    <3>1. /\ a \o own \in Seq(Cells) /\ Len(a \o own) = Len(a) + Len(own)
          /\ \A k \in 1..Len(a) : (a \o own)[k] = a[k]
          /\ \A k \in 1..Len(own) : (a \o own)[Len(a) + k] = own[k]
      BY <1>5, <2>3, Behind
    <3> QED
      BY <1>5, <2>3, <2>4, <3>1
  <2>6. /\ s \in Seq(Cells) /\ 1 + Len(u) - 1 <= Len(s)
        /\ \A k \in 1..Len(u) : s[1 + k - 1] = u[k]
    <3>1. 1 \in Nat \ {0}
      OBVIOUS
    <3> QED
      BY <1>6, <2>1, <2>5, <3>1, WriteAtIs
  <2> HIDE DEF s
  <2>7. \A k \in 1..((n + b) + (P + F)) : s[k] = u[k]
    <3> SUFFICES ASSUME NEW k \in 1..((n + b) + (P + F)) PROVE s[k] = u[k]
      OBVIOUS
    <3>1. k \in 1..Len(u) /\ 1 + k - 1 = k
      BY <1>3, <1>4, <1>6, <2>5
    <3> QED
      BY <2>6, <3>1
  <2>8. n + b + P + F <= Len(s)
    BY <1>3, <1>4, <1>6, <2>5, <2>6
  <2>9. ASSUME NEW i \in 1..n PROVE s[i] = M[i]
    <3>1. i \in 1..((n + b) + (P + F)) /\ i \in 1..(n + b)
      BY <1>3, <1>4, <1>6
    <3> QED
      BY <2>3, <2>5, <2>7, <3>1
  <2>10. ASSUME NEW k \in 1..b PROVE s[n + k] = sect[Q + k]
    <3>1. n + k \in 1..((n + b) + (P + F)) /\ n + k \in 1..(n + b)
      BY <1>3, <1>4, <1>6
    <3> QED
      BY <2>2, <2>3, <2>5, <2>7, <3>1
  <2>11. ASSUME NEW k \in 1..(P + F) PROVE s[(n + b) + k] = own[k]
    <3>1. (n + b) + k \in 1..((n + b) + (P + F))
      BY <1>3, <1>4, <1>6
    <3> QED
      BY <2>5, <2>7, <3>1
  <2> QED
    BY <1>7, <2>6, <2>8, <2>9, <2>10, <2>11 DEF s
<1>10. CASE c.op = "setitem"
  <2> DEFINE w == WriteAt(sect, 1, M)
  <2>0. b = cards.pcount /\ n = Q
    BY <1>1, <1>2, <1>6, <1>10 DEF Base, n, Q
  <2>1. s = WriteAt(w, (n + b) + 1, own)
    BY <1>1, <1>10, <2>0 DEF NewSect, SetItemSect, M, own, Q
  <2> HIDE DEF b
  <2>2. /\ w \in Seq(Cells) /\ Len(sect) <= Len(w)
        /\ \A k \in 1..Len(M) : w[1 + k - 1] = M[k]
        /\ \A q \in 1..Len(sect) : q > 1 + Len(M) - 1 => w[q] = sect[q]
    <3>1. 1 \in Nat \ {0}
      OBVIOUS
    <3> QED
      BY <1>3, <1>6, <3>1, WriteAtIs
  <2> HIDE DEF w
  <2>3. /\ s \in Seq(Cells) /\ (n + b) + 1 + Len(own) - 1 <= Len(s)
        /\ \A k \in 1..Len(own) : s[(n + b) + 1 + k - 1] = own[k]
        /\ \A q \in 1..Len(w) : q < (n + b) + 1 => s[q] = w[q]
    <3>1. (n + b) + 1 \in Nat \ {0}
      BY <1>3, <1>6
    <3> QED
      BY <1>5, <2>1, <2>2, <3>1, WriteAtIs
  <2> HIDE DEF s
  <2>4. n + b <= Len(sect) /\ Len(sect) \in Nat /\ Len(w) \in Nat /\ Len(s) \in Nat
    BY <1>6, <2>0, <2>2, <2>3
  <2>5. n + b + P + F <= Len(s)
    BY <1>3, <1>4, <1>5, <1>6, <2>3, <2>4
  <2>6. ASSUME NEW i \in 1..n PROVE s[i] = M[i]
    <3>1. i \in 1..Len(M) /\ 1 + i - 1 = i /\ i \in 1..Len(w) /\ i < (n + b) + 1
      BY <1>3, <1>6, <2>2, <2>4
    <3> QED
      BY <2>2, <2>3, <3>1
  <2>7. ASSUME NEW k \in 1..b PROVE s[n + k] = sect[Q + k]
    <3>1. /\ n + k \in 1..Len(sect) /\ n + k > 1 + Len(M) - 1 /\ n + k \in 1..Len(w)
          /\ n + k < (n + b) + 1
      BY <1>3, <1>6, <2>2, <2>4
    <3> QED
      BY <2>0, <2>2, <2>3, <3>1
  <2>8. ASSUME NEW k \in 1..(P + F) PROVE s[(n + b) + k] = own[k]
    <3>1. k \in 1..Len(own) /\ (n + b) + 1 + k - 1 = (n + b) + k
      BY <1>3, <1>4, <1>5, <1>6
    <3> QED
      BY <2>3, <3>1
  <2> QED
    BY <1>7, <2>3, <2>5, <2>6, <2>7, <2>8 DEF s
<1> QED
  BY <1>2, <1>8, <1>9, <1>10

\* Every tile of the section that a call leaves holds its rows of the image after the call.
LEMMA NewTilesKept ==
  ASSUME FileOK, NEW c, Finished(c), NEW s, Placing(c, s),
         NEW n, n = Tiles(RowsAfter(c)), NEW i \in 1..n
  PROVE  /\ s[i] \in Descs
         /\ Keeps(s, n, Base(c) + Len(c.prim) + Len(c.fall), i, TileOf(Result(c), i))
<1> DEFINE Q == cards.tiles
           b == Base(c)
           P == Len(c.prim)
           F == Len(c.fall)
           M == NewMain(c)
           rows == TileOf(Result(c), i)
           z == Payload(M[i])
<1>1. /\ Fits(c) /\ c.cards = cards /\ P \in Nat /\ F \in Nat
      /\ \A k \in 1..Len(c.upd) : c.upd[k].tile = FirstTile(c) + k - 1 /\ Done(c, c.upd[k])
      /\ c.upd \in Seq(Updates)
  BY DEF Finished, WriteOK
<1>2. /\ n \in Nat /\ M \in Seq(Descs) /\ Len(M) = n
      /\ \A j \in FirstTile(c)..LastTile(c) : /\ j - FirstTile(c) + 1 \in 1..Len(c.upd)
                                              /\ M[j] = Placed(c)[j - FirstTile(c) + 1].desc
      /\ \A j \in 1..n : j \notin FirstTile(c)..LastTile(c) => M[j] = sect[j] /\ j \in 1..Q
  BY MainIs
<1>3. s[i] = M[i] /\ M[i] \in Descs
  <2>1. s[i] = M[i]
    BY DEF Placing
  <2> HIDE DEF M
  <2> QED
    BY <1>2, <2>1
<1>4. /\ \A k \in 1..b : s[n + k] = sect[Q + k]
      /\ \A k \in 1..P : s[(n + b) + k] = c.prim[k]
      /\ \A k \in 1..F : s[(n + b) + P + k] = c.fall[k]
  BY <1>1 DEF Placing
<1>5. z.n \in Nat /\ z.off \in Nat /\ z.col \in {"p", "f"}
  BY <1>3, PayloadIs
<1>6. b \in Nat /\ cards.pcount \in Nat
  BY <1>1 DEF Base, FileOK
<1> HIDE DEF Q, b, P, F, M, rows
<1>7. CASE i \in FirstTile(c)..LastTile(c)
  <2> DEFINE k == i - FirstTile(c) + 1
             y == Payload(c.upd[k].desc)
  <2>1. k \in 1..Len(c.upd) /\ M[i] = Placed(c)[k].desc
    BY <1>2, <1>7
  <2>2. FirstTile(c) \in Nat
    BY <1>1, Untouched
  <2>3. c.upd[k].tile = i /\ Done(c, c.upd[k])
    <3>1. FirstTile(c) + k - 1 = i
      BY <1>2, <2>2
    <3> QED
      BY <1>1, <2>1, <3>1
  <2>4. z.col = y.col /\ z.n = y.n /\ z.off = y.off + b + IF y.col = "p" THEN 0 ELSE P
    BY <2>1, PlacedIs DEF b, P
  <2>5. /\ 0 \notin ToSet(rows)
        /\ IF y.col = "p" THEN y.off + y.n <= P /\ Spells(c.prim, y.off, y.n, rows, "p")
           ELSE y.off + y.n <= F /\ Spells(c.fall, y.off, y.n, rows, "f")
    BY <2>3 DEF Done, rows, P, F
  <2> HIDE DEF k, y, z
  <2>6. CASE y.col = "p"
    <3>1. /\ y.off \in Nat /\ y.n \in Nat \ {0} /\ y.n = TileUnits(rows)
          /\ \A j \in 1..y.n : c.prim[y.off + j] = Unit(rows, "p", j, y.n)
      BY <2>5, <2>6 DEF Spells
    <3>2. z.col = "p" /\ z.n = y.n /\ z.off = y.off + b /\ y.off + y.n <= P
      BY <1>6, <2>4, <2>5, <2>6, <3>1
    <3>3. ASSUME NEW j \in 1..y.n PROVE s[(n + z.off) + j] = Unit(rows, "p", j, y.n)
      <4>1. y.off + j \in 1..P /\ (n + z.off) + j = (n + b) + (y.off + j)
        BY <1>1, <1>2, <1>6, <3>1, <3>2
      <4> QED
        BY <1>4, <3>1, <4>1
    <3>4. Spells(s, n + z.off, z.n, rows, z.col)
      <4>1. n + z.off \in Nat
        BY <1>2, <1>5 DEF z
      <4> QED
        BY <3>1, <3>2, <3>3, <4>1 DEF Spells
    <3>5. z.off + z.n <= b + P + F
      BY <1>1, <1>6, <3>1, <3>2
    <3> QED
      BY <1>3, <2>5, <3>4, <3>5 DEF Keeps, z, rows, b, P, F
  <2>7. CASE y.col # "p"
    <3>1. /\ y.off \in Nat /\ y.n \in Nat \ {0} /\ y.n = TileUnits(rows)
          /\ \A j \in 1..y.n : c.fall[y.off + j] = Unit(rows, "f", j, y.n)
      BY <2>5, <2>7 DEF Spells
    <3>2. z.col = "f" /\ z.n = y.n /\ z.off = y.off + b + P /\ y.off + y.n <= F
      <4>1. z.col = "f"
        BY <1>5, <2>4, <2>7 DEF z
      <4> QED
        BY <2>4, <2>5, <2>7, <4>1
    <3>3. ASSUME NEW j \in 1..y.n PROVE s[(n + z.off) + j] = Unit(rows, "f", j, y.n)
      <4>1. y.off + j \in 1..F /\ (n + z.off) + j = (n + b) + P + (y.off + j)
        <5> DEFINE o == y.off
                   m == y.n
        <5>1. /\ o \in Nat /\ m \in Nat /\ j \in 1..m /\ o + m <= F /\ z.off = o + b + P
              /\ n \in Nat /\ b \in Nat /\ P \in Nat /\ F \in Nat
          BY <1>1, <1>2, <1>6, <3>1, <3>2
        <5> HIDE DEF o, m
        <5>2. o + j \in 1..F
          BY <5>1
        <5>3. (n + (o + b + P)) + j = (n + b) + P + (o + j)
          BY <5>1
        <5> QED
          BY <5>1, <5>2, <5>3 DEF o
      <4> QED
        BY <1>4, <3>1, <4>1
    <3>4. Spells(s, n + z.off, z.n, rows, z.col)
      <4>1. n + z.off \in Nat
        BY <1>2, <1>5 DEF z
      <4> QED
        BY <3>1, <3>2, <3>3, <4>1 DEF Spells
    <3>5. z.off + z.n <= b + P + F
      BY <1>1, <1>6, <3>1, <3>2
    <3> QED
      BY <1>3, <2>5, <3>4, <3>5 DEF Keeps, z, rows, b, P, F
  <2> QED
    BY <2>6, <2>7
<1>8. CASE i \notin FirstTile(c)..LastTile(c)
  <2>1. M[i] = sect[i] /\ i \in 1..Q
    BY <1>2, <1>8
  <2>2. rows = TileOf(image, i)
    BY <1>1, <1>8, Untouched DEF rows
  <2>3. Keeps(sect, Q, cards.pcount, i, rows)
    BY <2>1, <2>2 DEF FileOK, Q
  <2>4. c.op # "write"
    BY <1>1, <1>8, Untouched
  <2>5. b = cards.pcount
    BY <1>1, <2>4 DEF b, Base
  <2>6. z = Payload(sect[i])
    BY <2>1
  <2> HIDE DEF z
  <2>7. CASE 0 \in ToSet(rows)
    BY <1>3, <2>1, <2>3, <2>6, <2>7 DEF Keeps, rows
  <2>8. CASE 0 \notin ToSet(rows)
    <3>1. z.off + z.n <= b /\ Spells(sect, Q + z.off, z.n, rows, z.col)
      BY <2>3, <2>5, <2>6, <2>8 DEF Keeps
    <3>2. /\ z.n \in Nat \ {0} /\ z.n = TileUnits(rows) /\ z.off \in Nat
          /\ \A j \in 1..z.n : sect[(Q + z.off) + j] = Unit(rows, z.col, j, z.n)
      BY <1>5, <3>1 DEF Spells, z
    <3>3. ASSUME NEW j \in 1..z.n PROVE s[(n + z.off) + j] = Unit(rows, z.col, j, z.n)
      <4>1. /\ z.off + j \in 1..b /\ (n + z.off) + j = n + (z.off + j)
            /\ Q + (z.off + j) = (Q + z.off) + j
        <5>1. Q \in Nat
          BY TileIsThere DEF FileOK, Q
        <5> QED
          BY <1>2, <1>6, <3>1, <3>2, <5>1
      <4> QED
        BY <1>4, <3>2, <4>1
    <3>4. Spells(s, n + z.off, z.n, rows, z.col)
      <4>1. n + z.off \in Nat
        BY <1>2, <3>2
      <4> QED
        BY <3>2, <3>3, <4>1 DEF Spells
    <3>5. z.off + z.n <= b + P + F
      BY <1>1, <1>6, <3>1, <3>2
    <3>6. z = Payload(s[i])
      BY <1>3, <2>1, <2>6
    <3> QED
      BY <1>3, <2>8, <3>4, <3>5, <3>6 DEF Keeps, rows, b, P, F
  <2> QED
    BY <2>7, <2>8
<1> QED
  BY <1>7, <1>8

\* The cards that a call leaves.
LEMMA NewCardsAre ==
  ASSUME Typed, FileOK, NEW c, Finished(c)
  PROVE  LET k == NewCards(c)
         IN  /\ k.rows = RowsAfter(c) /\ k.tiles = Tiles(RowsAfter(c))
             /\ k.pcount = Base(c) + Len(c.prim) + Len(c.fall) /\ CardsOK(k)
<1>1. /\ Fits(c) /\ c.cards = cards /\ Working(c) /\ c.op # "read"
      /\ Len(c.prim) \in Nat /\ Len(c.fall) \in Nat
  BY DEF Finished, WriteOK, Fits
<1>2. c.op \in {"write", "extend", "setitem"} /\ (c.op # "extend" => RowsAfter(c) = cards.rows)
  BY <1>1, FitsFacts
<1>3. CardsOK(cards) /\ DOMAIN cards = {"rows", "tiles", "pcount"}
  BY DEF Typed, CardsOK
<1>4. cards.tiles = Tiles(cards.rows) /\ cards.pcount \in Nat
  BY DEF FileOK
<1>5. CardsOK(NewCards(c))
  BY <1>1, <1>3, NewCardsOK
<1>6. CASE c.op = "write"
  <2>1. NewCards(c) = [cards EXCEPT !.pcount = Len(c.prim) + Len(c.fall)]
    BY <1>6 DEF NewCards, WriteCards
  <2>2. Base(c) + Len(c.prim) + Len(c.fall) = Len(c.prim) + Len(c.fall)
    BY <1>1, <1>6 DEF Base
  <2> QED
    BY <1>2, <1>3, <1>4, <1>5, <1>6, <2>1, <2>2
<1>7. CASE c.op = "setitem"
  <2>1. NewCards(c) = [cards EXCEPT !.pcount = c.cards.pcount + Len(c.prim) + Len(c.fall)]
    BY <1>7 DEF NewCards, SetItemCards
  <2>2. Base(c) = c.cards.pcount
    BY <1>7 DEF Base
  <2> QED
    BY <1>2, <1>3, <1>4, <1>5, <1>7, <2>1, <2>2
<1>8. CASE c.op = "extend"
  <2> DEFINE k == [cards EXCEPT !.pcount = c.cards.pcount + Len(c.prim) + Len(c.fall)]
  <2>1. NewCards(c) = [k EXCEPT !.rows = RowsAfter(c), !.tiles = Tiles(RowsAfter(c))]
    BY <1>8 DEF NewCards, ExtendCards, SetItemCards
  <2>2. Base(c) = c.cards.pcount
    BY <1>8 DEF Base
  <2> QED
    BY <1>3, <1>5, <2>1, <2>2
<1> QED
  BY <1>2, <1>6, <1>7, <1>8

\* The file that a call leaves holds the image after the call.
LEMMA CommitKept ==
  ASSUME Typed, FileOK, NEW c, Finished(c),
         sect' = NewSect(c), cards' = NewCards(c), image' = Result(c)
  PROVE  FileOK'
<1> DEFINE n == Tiles(RowsAfter(c))
           p == Base(c) + Len(c.prim) + Len(c.fall)
           s == NewSect(c)
<1>1. cards'.rows = RowsAfter(c) /\ cards'.tiles = n /\ cards'.pcount = p
  BY NewCardsAre
<1>2. Placing(c, s)
  BY Places
<1>3. Fits(c) /\ Len(c.prim) \in Nat /\ Len(c.fall) \in Nat /\ c.cards = cards
  BY DEF Finished, WriteOK
<1>4. RowsAfter(c) \in Nat /\ Result(c) \in Rows /\ Len(Result(c)) = RowsAfter(c)
  BY <1>3, FitsFacts, ResultIs
<1>5. Base(c) \in Nat /\ n \in Nat
  BY <1>3, <1>4, TilesNat DEF Base, FileOK
<1>6. p \in Nat /\ n + p = (n + Base(c)) + Len(c.prim) + Len(c.fall)
  <2> HIDE DEF n
  <2> QED
    BY <1>3, <1>5
<1>7. s \in Seq(Cells) /\ n + p <= Len(s)
  BY <1>2, <1>6 DEF Placing
<1> HIDE DEF s, p, n
<1>8. \A i \in 1..n : s[i] \in Descs /\ Keeps(s, n, p, i, TileOf(Result(c), i))
  BY <1>2, NewTilesKept DEF p, n
<1> DEFINE x == sect'
           k == cards'
           g == image'
<1>9. /\ k.rows \in Nat /\ k.tiles = Tiles(k.rows) /\ k.pcount \in Nat
      /\ g \in Rows /\ Len(g) = k.rows
      /\ x \in Seq(Cells) /\ k.tiles + k.pcount <= Len(x)
      /\ \A i \in 1..k.tiles : x[i] \in Descs
      /\ \A i \in 1..k.tiles : Keeps(x, k.tiles, k.pcount, i, TileOf(g, i))
  BY <1>1, <1>4, <1>6, <1>7, <1>8 DEF s, n
<1> QED
  BY <1>9 DEF FileOK

-----------------------------------------------------------------------------
(* What a repack leaves of the section.                                    *)

\* Every blob lies in the heap: what repack_compressed_heap checks first.
BlobsInHeap == \A b \in Blobs : Blob(b).n > 0 => Blob(b).off + Blob(b).n <= cards.pcount

\* The blobs of the descriptors, and where they go.
LEMMA BlobsAre ==
  ASSUME FileOK
  PROVE  LET N == 2 * cards.tiles
             w == [x \in Blobs |-> Blob(x).n]
         IN  /\ cards.tiles \in Nat /\ N \in Nat /\ Blobs = 1..N
             /\ \A b \in 1..N : w[b] = Blob(b).n /\ Blob(b).n \in Nat /\ Blob(b).off \in Nat
             /\ \A b \in 1..N : NewOff(b) = SumTo(w, b - 1)
             /\ NewPcount = SumTo(w, N)
             /\ \A i \in 1..cards.tiles :
                  /\ 2 * i - 1 \in 1..N /\ 2 * i \in 1..N
                  /\ Blob(2 * i - 1) = [n |-> sect[i].pn, off |-> sect[i].poff]
                  /\ Blob(2 * i) = [n |-> sect[i].fn, off |-> sect[i].foff]
<1> DEFINE Q == cards.tiles
           N == 2 * Q
           w == [x \in Blobs |-> Blob(x).n]
<1>1. Q \in Nat /\ \A i \in 1..Q : sect[i] \in Descs
  BY TileIsThere DEF FileOK
<1>2. N \in Nat /\ Blobs = 1..N
  BY <1>1 DEF Blobs
<1>3. ASSUME NEW b \in 1..N PROVE Blob(b).n \in Nat /\ Blob(b).off \in Nat
  <2> DEFINE d == sect[(b + 1) \div 2]
  <2>1. (b + 1) \div 2 \in 1..Q
    <3> HIDE DEF Q
    <3> QED
      BY <1>1
  <2>2. d \in Descs
    BY <1>1, <2>1
  <2>3. Blob(b) = IF b % 2 = 1 THEN [n |-> d.pn, off |-> d.poff] ELSE [n |-> d.fn, off |-> d.foff]
    BY DEF Blob
  <2> HIDE DEF d
  <2> QED
    BY <2>2, <2>3 DEF Descs
<1>4. \A b \in 1..N : w[b] = Blob(b).n
  BY <1>2
<1>5. \A b \in 1..N : NewOff(b) = SumTo(w, b - 1)
  BY DEF NewOff
<1>6. NewPcount = SumTo(w, N)
  <2>1. NewPcount = SumTo(w, (2 * cards.tiles + 1) - 1)
    BY DEF NewPcount, NewOff
  <2>2. (2 * cards.tiles + 1) - 1 = N
    BY <1>1
  <2> HIDE DEF w
  <2> QED
    BY <2>1, <2>2
<1>7. ASSUME NEW i \in 1..Q
      PROVE  /\ 2 * i - 1 \in 1..N /\ 2 * i \in 1..N
             /\ Blob(2 * i - 1) = [n |-> sect[i].pn, off |-> sect[i].poff]
             /\ Blob(2 * i) = [n |-> sect[i].fn, off |-> sect[i].foff]
  <2> HIDE DEF Q
  <2>1. /\ 2 * i - 1 \in 1..N /\ 2 * i \in 1..N
        /\ ((2 * i - 1) + 1) \div 2 = i /\ (2 * i + 1) \div 2 = i
        /\ (2 * i - 1) % 2 = 1 /\ (2 * i) % 2 = 0
    BY <1>1
  <2>2. Blob(2 * i - 1) = [n |-> sect[i].pn, off |-> sect[i].poff]
    BY <2>1 DEF Blob
  <2>3. Blob(2 * i) = [n |-> sect[i].fn, off |-> sect[i].foff]
    BY <2>1 DEF Blob
  <2> QED
    BY <2>1, <2>2, <2>3
<1> QED
  BY <1>1, <1>2, <1>3, <1>4, <1>5, <1>6, <1>7

\* What a repack is to leave: every blob is in its place, unit by unit.
LEMMA PackedIs ==
  ASSUME FileOK, BlobsInHeap
  PROVE  /\ NewPcount \in Nat /\ PackedUnits \in Seq(Cells) /\ Len(PackedUnits) = NewPcount
         /\ \A b \in Blobs : NewOff(b) \in Nat /\ NewOff(b) + Blob(b).n <= NewPcount
         /\ \A b \in Blobs : \A k \in 1..Blob(b).n :
              PackedUnits[NewOff(b) + k] = sect[cards.tiles + Blob(b).off + k]
         /\ \A p \in 1..NewPcount : \E k \in 1..cards.pcount : PackedUnits[p] = sect[cards.tiles + k]
<1> DEFINE Q == cards.tiles
           N == 2 * Q
           w == [x \in Blobs |-> Blob(x).n]
           S == NewPcount
           at(p, b) == p \in (NewOff(b) + 1)..(NewOff(b) + Blob(b).n)
           v(p) == LET b == CHOOSE b \in Blobs : at(p, b)
                   IN  sect[Q + Blob(b).off + p - NewOff(b)]
<1>1. /\ Q \in Nat /\ N \in Nat /\ Blobs = 1..N
      /\ \A b \in 1..N : w[b] = Blob(b).n /\ Blob(b).n \in Nat /\ Blob(b).off \in Nat
      /\ \A b \in 1..N : NewOff(b) = SumTo(w, b - 1)
      /\ S = SumTo(w, N)
  BY BlobsAre
<1> HIDE DEF w, N
<1>2. /\ \A m \in 0..N : SumTo(w, m) \in Nat
      /\ \A m \in 1..N : SumTo(w, m) = SumTo(w, m - 1) + w[m]
      /\ \A l, m \in 0..N : l <= m => SumTo(w, l) <= SumTo(w, m)
  <2>1. \A b \in 1..N : w[b] \in Nat
    BY <1>1
  <2> QED
    BY <1>1, <2>1, SumToNat
<1>3. ASSUME NEW b \in 1..N
      PROVE  NewOff(b) \in Nat /\ NewOff(b) + Blob(b).n = SumTo(w, b) /\ SumTo(w, b) <= S
  <2>1. b - 1 \in 0..N /\ b \in 0..N /\ N \in 0..N /\ b <= N
    BY <1>1
  <2>2. SumTo(w, b - 1) \in Nat /\ SumTo(w, b) = SumTo(w, b - 1) + w[b] /\ SumTo(w, b) <= SumTo(w, N)
    BY <1>2, <2>1
  <2> QED
    BY <1>1, <2>2
<1>4. S \in Nat
  <2>1. N \in 0..N
    BY <1>1
  <2> QED
    BY <1>1, <1>2, <2>1
<1>5. ASSUME NEW b \in 1..N, NEW c \in 1..N, NEW p \in Nat, at(p, b), at(p, c) PROVE ~(b < c)
  <2> SUFFICES ASSUME b < c PROVE FALSE
    OBVIOUS
  <2>1. b \in 0..N /\ c - 1 \in 0..N /\ b <= c - 1
    BY <1>1
  <2>2. SumTo(w, b) <= NewOff(c)
    BY <1>1, <1>2, <2>1
  <2>3. p <= SumTo(w, b) /\ NewOff(c) < p /\ NewOff(c) \in Nat /\ SumTo(w, b) \in Nat
    BY <1>2, <1>3, <1>5, <2>1
  <2> QED
    BY <2>2, <2>3
<1>6. ASSUME NEW b \in 1..N, NEW p \in Nat, at(p, b)
      PROVE  v(p) = sect[Q + Blob(b).off + p - NewOff(b)]
  <2> DEFINE c == CHOOSE c \in Blobs : at(p, c)
  <2>1. c \in 1..N /\ at(p, c)
    <3> HIDE DEF at
    <3> QED
      BY <1>1, <1>6
  <2>2. c = b
    <3> HIDE DEF c
    <3>1. ~(b < c) /\ ~(c < b)
      <4> HIDE DEF at
      <4> QED
        BY <1>5, <1>6, <2>1
    <3> QED
      BY <1>1, <2>1, <3>1
  <2>3. v(p) = sect[Q + Blob(c).off + p - NewOff(c)]
    OBVIOUS
  <2> HIDE DEF c, v
  <2> QED
    BY <2>2, <2>3
<1>7. ASSUME NEW p \in 1..S
      PROVE  v(p) \in Cells /\ \E k \in 1..cards.pcount : v(p) = sect[Q + k]
  <2>1. p - 1 \in Nat /\ p - 1 < SumTo(w, N)
    BY <1>1, <1>4
  <2>2. PICK b \in 1..N : SumTo(w, b - 1) <= p - 1 /\ p - 1 < SumTo(w, b - 1) + w[b]
    <3>1. \A b \in 1..N : w[b] \in Nat
      BY <1>1
    <3> QED
      BY <1>1, <2>1, <3>1, SumToCovers
  <2>3. /\ NewOff(b) <= p - 1 /\ p - 1 < NewOff(b) + Blob(b).n
        /\ NewOff(b) \in Nat /\ Blob(b).n \in Nat /\ Blob(b).off \in Nat /\ p \in Nat
    BY <1>1, <1>3, <1>4, <2>2
  <2>4. at(p, b) /\ Blob(b).n > 0
    BY <2>3
  <2>5. Blob(b).off + Blob(b).n <= cards.pcount
    BY <1>1, <2>4 DEF BlobsInHeap
  <2>6. /\ sect \in Seq(Cells) /\ Q + cards.pcount <= Len(sect) /\ cards.pcount \in Nat
        /\ Len(sect) \in Nat
    BY DEF FileOK
  <2> HIDE DEF Q
  <2>7. /\ Q + Blob(b).off + p - NewOff(b) \in 1..Len(sect)
        /\ Blob(b).off + p - NewOff(b) \in 1..cards.pcount
        /\ Q + (Blob(b).off + p - NewOff(b)) = Q + Blob(b).off + p - NewOff(b)
    <3> DEFINE o == Blob(b).off
               m == Blob(b).n
               z == NewOff(b)
               l == Len(sect)
               u == cards.pcount
    <3>1. /\ Q \in Nat /\ o \in Nat /\ m \in Nat /\ z \in Nat /\ l \in Nat /\ u \in Nat /\ p \in Nat
          /\ z <= p - 1 /\ p - 1 < z + m /\ o + m <= u /\ Q + u <= l
      BY <1>1, <2>3, <2>5, <2>6
    <3> HIDE DEF o, m, z, l, u
    <3>2. Q + o + p - z \in 1..l /\ o + p - z \in 1..u /\ Q + (o + p - z) = Q + o + p - z
      BY <3>1
    <3> QED
      BY <3>2 DEF o, z, l, u
  <2>8. v(p) = sect[Q + Blob(b).off + p - NewOff(b)]
    <3> HIDE DEF v, at
    <3> QED
      BY <1>6, <2>3, <2>4
  <2> HIDE DEF v
  <2> DEFINE i == Q + Blob(b).off + p - NewOff(b)
             k == Blob(b).off + p - NewOff(b)
  <2>9. i \in 1..Len(sect) /\ k \in 1..cards.pcount /\ Q + k = i /\ v(p) = sect[i]
    BY <2>7, <2>8
  <2> HIDE DEF i, k
  <2>10. v(p) = sect[Q + k]
    BY <2>9
  <2> QED
    BY <2>6, <2>9, <2>10
<1>8. PackedUnits = [p \in 1..S |-> v(p)]
  BY DEF PackedUnits
<1>9. PackedUnits \in Seq(Cells) /\ Len(PackedUnits) = S
  <2> HIDE DEF v, S
  <2>1. PackedUnits \in [1..S -> Cells]
    BY <1>7, <1>8
  <2> QED
    BY <1>4, <2>1
<1>10. ASSUME NEW b \in 1..N, NEW k \in 1..Blob(b).n
       PROVE  PackedUnits[NewOff(b) + k] = sect[Q + Blob(b).off + k]
  <2> DEFINE p == NewOff(b) + k
  <2>1. /\ NewOff(b) \in Nat /\ Blob(b).n \in Nat /\ Blob(b).off \in Nat
        /\ NewOff(b) + Blob(b).n <= S
    BY <1>1, <1>3
  <2> HIDE DEF S, Q
  <2>2. /\ p \in 1..S /\ p \in Nat /\ at(p, b)
        /\ Q + Blob(b).off + p - NewOff(b) = Q + Blob(b).off + k
    <3> DEFINE f == NewOff(b)
               n == Blob(b).n
               o == Blob(b).off
    <3>1. f \in Nat /\ n \in Nat /\ o \in Nat /\ f + n <= S /\ S \in Nat /\ Q \in Nat /\ k \in 1..n
      BY <1>1, <1>4, <2>1
    <3> HIDE DEF f, n, o
    <3>2. f + k \in 1..S /\ f + k \in Nat /\ f + k \in (f + 1)..(f + n) /\ Q + o + (f + k) - f = Q + o + k
      BY <3>1
    <3> QED
      BY <3>2 DEF f, n, o
  <2> HIDE DEF p
  <2>3. PackedUnits[p] = v(p)
    <3> HIDE DEF v
    <3> QED
      BY <1>8, <2>2
  <2>4. v(p) = sect[Q + Blob(b).off + p - NewOff(b)]
    <3> HIDE DEF v, at
    <3> QED
      BY <1>6, <2>2
  <2> HIDE DEF v
  <2> QED
    BY <2>2, <2>3, <2>4 DEF p
<1>11. ASSUME NEW p \in 1..S PROVE \E k \in 1..cards.pcount : PackedUnits[p] = sect[Q + k]
  <2> HIDE DEF v, S
  <2> QED
    BY <1>7, <1>8
<1> QED
  BY <1>1, <1>3, <1>4, <1>9, <1>10, <1>11

\* The table lays claim to no more units than the heap has.
Spare == NewPcount <= cards.pcount

\* The plans of a repack fit the heap: every blob goes behind the one before.
LEMMA PlansAreFit ==
  ASSUME FileOK, BlobsInHeap, Spare
  PROVE  /\ PlansFit(Plans, 2 * cards.tiles, cards.pcount, NewPcount)
         /\ \A b \in 1..(2 * cards.tiles) :
              /\ Plans[b].old = Blob(b).off /\ Plans[b].new = NewOff(b) /\ Plans[b].n = Blob(b).n
<1> DEFINE N == 2 * cards.tiles
           w == [x \in Blobs |-> Blob(x).n]
           L == cards.pcount
           S == NewPcount
<1>1. /\ N \in Nat /\ Blobs = 1..N
      /\ \A b \in 1..N : w[b] = Blob(b).n /\ Blob(b).n \in Nat /\ Blob(b).off \in Nat
      /\ \A b \in 1..N : NewOff(b) = SumTo(w, b - 1)
  BY BlobsAre
<1>2. /\ S \in Nat /\ \A b \in 1..N : NewOff(b) \in Nat /\ NewOff(b) + Blob(b).n <= S
  BY <1>1, PackedIs
<1>3. L \in Nat /\ S <= L
  BY DEF FileOK, Spare
<1>4. /\ DOMAIN Plans = 1..N
      /\ \A b \in 1..N : Plans[b].old = Blob(b).off /\ Plans[b].new = NewOff(b) /\ Plans[b].n = Blob(b).n
  BY <1>1 DEF Plans
<1>5. \A b \in 1..N : Blob(b).n > 0 => Blob(b).off + Blob(b).n <= L
  BY <1>1 DEF BlobsInHeap
<1> HIDE DEF w, N, L, S
<1>6. ASSUME NEW a \in 1..N, NEW b \in 1..N, a < b PROVE NewOff(a) + Blob(a).n <= NewOff(b)
  <2>1. /\ \A m \in 1..N : SumTo(w, m) = SumTo(w, m - 1) + w[m]
        /\ \A l, m \in 0..N : l <= m => SumTo(w, l) <= SumTo(w, m)
    <3>1. \A m \in 1..N : w[m] \in Nat
      BY <1>1
    <3> QED
      BY <1>1, <3>1, SumToNat
  <2>2. a \in 0..N /\ b - 1 \in 0..N /\ a <= b - 1
    BY <1>1, <1>6
  <2>3. SumTo(w, a) <= SumTo(w, b - 1) /\ SumTo(w, a) = SumTo(w, a - 1) + w[a]
    BY <2>1, <2>2
  <2> QED
    BY <1>1, <2>3
<1>7. ASSUME NEW a \in 1..N, NEW b \in 1..N, a # b
      PROVE  NewOff(a) + Blob(a).n <= NewOff(b) \/ NewOff(b) + Blob(b).n <= NewOff(a)
  <2>1. a < b \/ b < a
    BY <1>1, <1>7
  <2> QED
    BY <1>6, <2>1
<1>8. ArePlans(Plans, N)
  BY <1>1, <1>2, <1>4 DEF ArePlans
<1>9. PlansFit(Plans, N, L, S)
  BY <1>2, <1>3, <1>4, <1>5, <1>7, <1>8 DEF PlansFit
<1> QED
  BY <1>4, <1>9 DEF N, L, S

\* The moves of the blobs leave what they are to leave, if none goes over its own end.
LEMMA HeapMoved ==
  ASSUME FileOK, BlobsInHeap, Spare, ~Clobbers(Plans, cards.pcount, CHUNK)
  PROVE  PackedHeap = PackedUnits
<1> DEFINE Q == cards.tiles
           N == 2 * Q
           w == [x \in Blobs |-> Blob(x).n]
           L == cards.pcount
           S == NewPcount
           h == Heap
           g == PackedHeap
           u == PackedUnits
<1>1. /\ Q \in Nat /\ N \in Nat /\ Blobs = 1..N
      /\ \A b \in 1..N : w[b] = Blob(b).n /\ Blob(b).n \in Nat /\ Blob(b).off \in Nat
      /\ \A b \in 1..N : NewOff(b) = SumTo(w, b - 1)
      /\ S = SumTo(w, N)
  BY BlobsAre
<1>2. /\ S \in Nat /\ u \in Seq(Cells) /\ Len(u) = S
      /\ \A b \in 1..N : NewOff(b) \in Nat /\ NewOff(b) + Blob(b).n <= S
      /\ \A b \in 1..N : \A k \in 1..Blob(b).n : u[NewOff(b) + k] = sect[Q + Blob(b).off + k]
  BY <1>1, PackedIs
<1>3. L \in Nat /\ sect \in Seq(Cells) /\ Q + L <= Len(sect)
  BY DEF FileOK
<1>4. /\ PlansFit(Plans, N, L, S)
      /\ \A b \in 1..N : Plans[b].old = Blob(b).off /\ Plans[b].new = NewOff(b) /\ Plans[b].n = Blob(b).n
  BY PlansAreFit
<1>5. \A b \in 1..N : Blob(b).n > 0 => Blob(b).off + Blob(b).n <= L
  BY <1>1 DEF BlobsInHeap
<1>6. h = SubSeq(sect, Q + 1, Q + L) /\ g = MovedHeap(h, Plans, S, CHUNK)
  BY DEF Heap, PackedHeap
<1>7. CHUNK \in Nat \ {0} /\ ~Clobbers(Plans, L, CHUNK)
  BY ChunkAssumption
<1> HIDE DEF w, N, L, S, h, g, u, Q
<1>8. h \in Seq(Cells) /\ Len(h) = L /\ \A k \in 1..L : h[k] = sect[Q + k]
  <2>1. Q + 1 \in Nat \ {0} /\ Q + L \in Int /\ Q + L <= Len(sect)
    BY <1>1, <1>3
  <2>2. /\ h \in Seq(Cells)
        /\ Len(h) = IF Q + 1 <= Q + L THEN (Q + L) - (Q + 1) + 1 ELSE 0
        /\ \A k \in 1..((Q + L) - (Q + 1) + 1) : h[k] = sect[(Q + 1) + k - 1]
    BY <1>3, <1>6, <2>1, SubSeqTyped
  <2>3. (Q + L) - (Q + 1) + 1 = L /\ (Q + 1 <= Q + L <=> L > 0)
    BY <1>1, <1>3
  <2>4. \A k \in 1..L : (Q + 1) + k - 1 = Q + k
    BY <1>1, <1>3
  <2> QED
    <3>1. Len(h) = IF L > 0 THEN L ELSE 0
      BY <2>2, <2>3
    <3>2. Len(h) = L
      BY <1>3, <3>1
    <3>3. \A k \in 1..L : h[k] = sect[(Q + 1) + k - 1]
      BY <2>2, <2>3
    <3>4. \A k \in 1..L : h[k] = sect[Q + k]
      BY <2>4, <3>3
    <3> QED
      BY <2>2, <3>2, <3>4
<1>9. g \in Seq(Cells) /\ Len(g) = S /\ BlobsMoved(Plans, N, h, g)
  <2>1. h \in Seq(Cells) /\ Len(h) = L /\ PlansFit(Plans, N, L, S)
    BY <1>4, <1>8
  <2>2. /\ MovedHeap(h, Plans, S, CHUNK) \in Seq(Cells)
        /\ Len(MovedHeap(h, Plans, S, CHUNK)) = S
        /\ BlobsMoved(Plans, N, h, MovedHeap(h, Plans, S, CHUNK))
    BY <1>7, <2>1, MovedHeapIs
  <2> QED
    BY <1>6, <2>2
<1>10. ASSUME NEW p \in 1..S PROVE g[p] = u[p]
  <2>1. p - 1 \in Nat /\ p - 1 < SumTo(w, N)
    BY <1>1, <1>2
  <2>2. PICK b \in 1..N : SumTo(w, b - 1) <= p - 1 /\ p - 1 < SumTo(w, b - 1) + w[b]
    <3>1. \A b \in 1..N : w[b] \in Nat
      BY <1>1
    <3> QED
      BY <1>1, <2>1, <3>1, SumToCovers
  <2> DEFINE o == Blob(b).off
             m == Blob(b).n
             z == NewOff(b)
             k == p - z
  <2>3. o \in Nat /\ m \in Nat /\ z \in Nat /\ z <= p - 1 /\ p - 1 < z + m
    BY <1>1, <1>2, <2>2
  <2>4. m > 0 => o + m <= L
    BY <1>5
  <2>5. Plans[b].old = o /\ Plans[b].new = z /\ Plans[b].n = m
    BY <1>4
  <2>6. \A j \in 1..m : u[z + j] = sect[Q + o + j]
    BY <1>2
  <2> HIDE DEF o, m, z
  <2>7. k \in 1..m /\ z + k = p /\ o + k \in 1..L
    BY <1>2, <1>3, <2>3, <2>4
  <2> HIDE DEF k
  <2>8. g[z + k] = h[o + k]
    BY <1>9, <2>5, <2>7 DEF BlobsMoved
  <2>9. h[o + k] = sect[Q + (o + k)] /\ Q + (o + k) = Q + o + k
    BY <1>1, <1>8, <2>3, <2>7
  <2> QED
    BY <2>6, <2>7, <2>8, <2>9
<1>11. g = u
  BY <1>2, <1>9, <1>10, SeqEqual
<1> QED
  BY <1>11 DEF g, u

\* The file that a repack leaves holds the same image.
LEMMA RepackKept ==
  ASSUME Typed, FileOK, BlobsInHeap, image' = image,
         sect' = PackedMain \o PackedUnits, cards' = [cards EXCEPT !.pcount = NewPcount]
  PROVE  /\ FileOK' /\ Len(sect') = cards.tiles + NewPcount
         /\ \A i \in 1..cards.tiles : sect'[i].pn = sect[i].pn /\ sect'[i].fn = sect[i].fn
         /\ \A k \in 1..NewPcount : sect'[cards.tiles + k] = PackedUnits[k]
<1> DEFINE Q == cards.tiles
           M == PackedMain
           h == PackedUnits
           s == M \o h
           S == NewPcount
           B(i) == IF sect[i].pn > 0 THEN 2 * i - 1 ELSE 2 * i
<1>1. /\ Q \in Nat /\ cards.rows \in Nat /\ Q = Tiles(cards.rows) /\ image \in Rows
      /\ Len(image) = cards.rows
      /\ \A i \in 1..Q : sect[i] \in Descs /\ Keeps(sect, Q, cards.pcount, i, TileOf(image, i))
  BY TileIsThere DEF FileOK
<1>2. /\ S \in Nat /\ h \in Seq(Cells) /\ Len(h) = S
      /\ \A b \in Blobs : NewOff(b) \in Nat /\ NewOff(b) + Blob(b).n <= S
      /\ \A b \in Blobs : \A k \in 1..Blob(b).n : h[NewOff(b) + k] = sect[Q + Blob(b).off + k]
  BY PackedIs
<1>3. \A i \in 1..Q : /\ 2 * i - 1 \in Blobs /\ 2 * i \in Blobs
                      /\ Blob(2 * i - 1) = [n |-> sect[i].pn, off |-> sect[i].poff]
                      /\ Blob(2 * i) = [n |-> sect[i].fn, off |-> sect[i].foff]
  BY BlobsAre
<1>4. cards'.rows = cards.rows /\ cards'.tiles = Q /\ cards'.pcount = S
  BY DEF Typed, CardsOK
<1> HIDE DEF h, S, Q
<1>5. ASSUME NEW i \in 1..Q
      PROVE  /\ M[i] = Desc(sect[i].pn, Target(2 * i - 1), sect[i].fn, Target(2 * i))
             /\ M[i] \in Descs
             /\ B(i) \in Blobs
             /\ Payload(sect[i]).n = Blob(B(i)).n /\ Payload(sect[i]).off = Blob(B(i)).off
             /\ Payload(M[i]).n = Payload(sect[i]).n /\ Payload(M[i]).col = Payload(sect[i]).col
             /\ Payload(M[i]).n > 0 => Payload(M[i]).off = NewOff(B(i))
  <2> DEFINE d == sect[i]
             a == Target(2 * i - 1)
             f == Target(2 * i)
  <2>1. M[i] = Desc(d.pn, a, d.fn, f)
    BY DEF PackedMain, Q
  <2>2. /\ d.pn \in Nat /\ d.poff \in Nat /\ d.fn \in Nat /\ d.foff \in Nat
    BY <1>1 DEF Descs
  <2>3. /\ 2 * i - 1 \in Blobs /\ 2 * i \in Blobs
        /\ Blob(2 * i - 1).n = d.pn /\ Blob(2 * i).n = d.fn
        /\ Blob(2 * i - 1).off = d.poff /\ Blob(2 * i).off = d.foff
    <3>1. /\ 2 * i - 1 \in Blobs /\ 2 * i \in Blobs
          /\ Blob(2 * i - 1) = [n |-> d.pn, off |-> d.poff]
          /\ Blob(2 * i) = [n |-> d.fn, off |-> d.foff]
      BY <1>3, Zenon
    <3> HIDE DEF d
    <3> QED
      BY <3>1
  <2>4. /\ a \in Nat /\ f \in Nat /\ (d.pn > 0 => a = NewOff(2 * i - 1))
        /\ (d.fn > 0 => f = NewOff(2 * i))
    <3>1. NewOff(2 * i - 1) \in Nat /\ NewOff(2 * i) \in Nat
      BY <1>2, <2>3
    <3>2. a = (IF d.pn = 0 THEN 0 ELSE NewOff(2 * i - 1)) /\ f = (IF d.fn = 0 THEN 0 ELSE NewOff(2 * i))
      BY <2>3 DEF Target
    <3> HIDE DEF a, f, d
    <3> QED
      BY <2>2, <3>1, <3>2
  <2> HIDE DEF d, a, f, M
  <2>5. M[i] \in Descs
    BY <2>1, <2>2, <2>4 DEF Desc, Descs
  <2>6. CASE d.pn > 0
    <3>1. B(i) = 2 * i - 1
      BY <2>6 DEF d
    <3>2. Payload(d) = [col |-> "p", n |-> d.pn, off |-> d.poff]
      BY <2>6 DEF Payload
    <3>3. Payload(M[i]) = [col |-> "p", n |-> d.pn, off |-> a]
      BY <2>1, <2>6 DEF Payload, Desc
    <3> QED
      BY <2>1, <2>3, <2>4, <2>5, <2>6, <3>1, <3>2, <3>3 DEF d, a, f
  <2>7. CASE ~(d.pn > 0)
    <3>1. B(i) = 2 * i
      BY <2>7 DEF d
    <3>2. Payload(d) = [col |-> "f", n |-> d.fn, off |-> d.foff]
      BY <2>7 DEF Payload
    <3>3. Payload(M[i]) = [col |-> "f", n |-> d.fn, off |-> f]
      BY <2>1, <2>7 DEF Payload, Desc
    <3> QED
      BY <2>1, <2>3, <2>4, <2>5, <2>7, <3>1, <3>2, <3>3 DEF d, a, f
  <2> QED
    BY <2>6, <2>7
<1>6. M \in Seq(Cells) /\ Len(M) = Q
  <2>1. M = [i \in 1..Q |-> M[i]]
    BY DEF PackedMain, Q
  <2> HIDE DEF M
  <2>2. M \in [1..Q -> Cells]
    BY <1>5, <2>1 DEF Cells
  <2> QED
    BY <1>1, <2>2
<1> HIDE DEF M, B
<1>7. /\ s \in Seq(Cells) /\ Len(s) = Q + S
      /\ \A k \in 1..Q : s[k] = M[k]
      /\ \A k \in 1..S : s[Q + k] = h[k]
  BY <1>2, <1>6, Behind
<1> HIDE DEF s
<1>8. ASSUME NEW i \in 1..Q PROVE s[i] \in Descs /\ Keeps(s, Q, S, i, TileOf(image, i))
  <2> DEFINE rows == TileOf(image, i)
             d == Payload(sect[i])
             e == Payload(M[i])
             b == B(i)
  <2>1. s[i] = M[i] /\ M[i] \in Descs
    BY <1>5, <1>7
  <2>2. /\ b \in Blobs /\ d.n = Blob(b).n /\ d.off = Blob(b).off /\ e.n = d.n /\ e.col = d.col
        /\ e.n > 0 => e.off = NewOff(b)
    BY <1>5
  <2>3. Keeps(sect, Q, cards.pcount, i, rows)
    BY <1>1
  <2> HIDE DEF rows, d, e, b
  <2>4. CASE 0 \in ToSet(rows)
    <3>1. e.n = 0
      BY <2>2, <2>3, <2>4 DEF Keeps, d
    <3> QED
      BY <2>1, <2>4, <3>1 DEF Keeps, e, rows
  <2>5. CASE 0 \notin ToSet(rows)
    <3>1. Spells(sect, Q + d.off, d.n, rows, d.col)
      BY <2>3, <2>5 DEF Keeps, d
    <3>2. /\ d.n \in Nat \ {0} /\ d.n = TileUnits(rows)
          /\ \A k \in 1..d.n : sect[(Q + d.off) + k] = Unit(rows, d.col, k, d.n)
      BY <3>1 DEF Spells
    <3>3. e.n > 0 /\ e.off = NewOff(b) /\ e.off \in Nat /\ e.off + e.n <= S
      <4>1. NewOff(b) \in Nat /\ NewOff(b) + Blob(b).n <= S
        BY <1>2, <2>2
      <4>2. e.n > 0
        BY <2>2, <3>2
      <4>3. e.off = NewOff(b) /\ e.n = Blob(b).n
        BY <2>2, <4>2
      <4> QED
        BY <4>1, <4>2, <4>3
    <3>4. ASSUME NEW k \in 1..d.n PROVE s[(Q + e.off) + k] = Unit(rows, d.col, k, d.n)
      <4>1. e.off + k \in 1..S /\ (Q + e.off) + k = Q + (e.off + k)
        <5>1. e.off + e.n <= S /\ e.n = d.n /\ e.off \in Nat /\ d.n \in Nat
          BY <2>2, <3>2, <3>3
        <5> QED
          BY <1>1, <1>2, <5>1
      <4>2. h[e.off + k] = sect[Q + d.off + k]
        BY <1>2, <2>2, <3>3
      <4> QED
        BY <1>7, <3>2, <4>1, <4>2
    <3>5. Spells(s, Q + e.off, e.n, rows, e.col)
      <4>1. Q + e.off \in Nat
        BY <1>1, <3>3
      <4> QED
        BY <2>2, <3>2, <3>4, <4>1 DEF Spells
    <3> QED
      BY <2>1, <2>5, <3>3, <3>5 DEF Keeps, e, rows
  <2> QED
    BY <2>4, <2>5
<1> DEFINE x == sect'
           k == cards'
           g == image'
<1>9. /\ k.rows \in Nat /\ k.tiles = Tiles(k.rows) /\ k.pcount \in Nat
      /\ g \in Rows /\ Len(g) = k.rows
      /\ x \in Seq(Cells) /\ k.tiles + k.pcount <= Len(x)
      /\ \A i \in 1..k.tiles : x[i] \in Descs
      /\ \A i \in 1..k.tiles : Keeps(x, k.tiles, k.pcount, i, TileOf(g, i))
  <2>1. x = s
    BY DEF s, M, h
  <2>2. Q + S <= Len(s)
    BY <1>1, <1>2, <1>7
  <2> HIDE DEF x, k, g
  <2>3. k.rows = cards.rows /\ k.tiles = Q /\ k.pcount = S /\ g = image
    BY <1>4 DEF k, g
  <2> QED
    BY <1>1, <1>2, <1>7, <1>8, <2>1, <2>2, <2>3
<1>10. FileOK'
  BY <1>9 DEF FileOK
<1>11. Len(sect') = Q + S
  BY <1>7 DEF s, M, h
<1>12. ASSUME NEW i \in 1..Q PROVE sect'[i].pn = sect[i].pn /\ sect'[i].fn = sect[i].fn
  <2>1. sect'[i] = Desc(sect[i].pn, Target(2 * i - 1), sect[i].fn, Target(2 * i))
    BY <1>5, <1>7 DEF s, M, h
  <2> QED
    BY <2>1 DEF Desc
<1>13. \A j \in 1..S : sect'[Q + j] = h[j]
  BY <1>7 DEF s, M, h
<1> QED
  BY <1>10, <1>11, <1>12, <1>13 DEF Q, S, h

-----------------------------------------------------------------------------
(* What a repack leaves of the heap.                                       *)

\* Summing pairs first.
LEMMA SumOfPairs ==
  ASSUME NEW v, NEW w, NEW N \in Nat, \A b \in 1..(2 * N) : w[b] \in Nat,
         \A i \in 1..N : v[i] = w[2 * i - 1] + w[2 * i]
  PROVE  SumTo(w, 2 * N) = SumTo(v, N)
<1> DEFINE S == {k \in Nat : k <= N => SumTo(w, 2 * k) = SumTo(v, k)}
<1>1. 0 \in S
  BY SumToUnfolds
<1>2. ASSUME NEW k \in Nat, k \in S PROVE k + 1 \in S
  <2> SUFFICES ASSUME k + 1 <= N PROVE SumTo(w, 2 * (k + 1)) = SumTo(v, k + 1)
    OBVIOUS
  <2>1. /\ 2 * k \in Nat /\ 2 * k + 1 \in Nat /\ (2 * k + 1) + 1 = 2 * (k + 1)
        /\ 2 * k \in 0..(2 * N) /\ 2 * k + 1 \in 1..(2 * N) /\ 2 * (k + 1) \in 1..(2 * N)
        /\ 2 * (k + 1) - 1 = 2 * k + 1 /\ k + 1 \in 1..N /\ 2 * N \in Nat
    OBVIOUS
  <2>2. SumTo(w, 2 * k + 1) = SumTo(w, 2 * k) + w[2 * k + 1]
    BY <2>1, SumToUnfolds
  <2>3. SumTo(w, (2 * k + 1) + 1) = SumTo(w, 2 * k + 1) + w[(2 * k + 1) + 1]
    BY <2>1, SumToUnfolds
  <2>4. SumTo(v, k + 1) = SumTo(v, k) + v[k + 1]
    BY SumToUnfolds
  <2>5. v[k + 1] = w[2 * k + 1] + w[2 * (k + 1)]
    BY <2>1
  <2>6. SumTo(w, 2 * k) = SumTo(v, k)
    BY <1>2, <2>1
  <2>7. SumTo(w, 2 * k) \in Nat
    BY <2>1, SumToNat
  <2> DEFINE a == SumTo(w, 2 * k)
             b == w[2 * k + 1]
             d == w[2 * (k + 1)]
  <2>8. a \in Nat /\ b \in Nat /\ d \in Nat
    BY <2>1, <2>7
  <2>9. SumTo(w, 2 * (k + 1)) = (a + b) + d /\ SumTo(v, k + 1) = a + (b + d)
    BY <2>1, <2>2, <2>3, <2>4, <2>5, <2>6
  <2> HIDE DEF a, b, d
  <2> QED
    BY <2>8, <2>9
<1> HIDE DEF S
<1>3. \A k \in Nat : k \in S
  BY <1>1, <1>2, SetInduction
<1> QED
  BY <1>3 DEF S

\* The units that the table of the section lays claim to.
TableUnits == SumTo([i \in 1..cards.tiles |-> sect[i].pn + sect[i].fn], cards.tiles)

\* They are what a repack counts, blob by blob.
LEMMA PcountIs == FileOK => NewPcount = TableUnits
<1> SUFFICES ASSUME FileOK PROVE NewPcount = TableUnits
  OBVIOUS
<1> DEFINE Q == cards.tiles
           w == [x \in Blobs |-> Blob(x).n]
           v == [i \in 1..Q |-> sect[i].pn + sect[i].fn]
<1>1. /\ Q \in Nat /\ \A b \in 1..(2 * Q) : w[b] = Blob(b).n /\ Blob(b).n \in Nat
      /\ NewPcount = SumTo(w, 2 * Q)
      /\ \A i \in 1..Q : /\ 2 * i - 1 \in 1..(2 * Q) /\ 2 * i \in 1..(2 * Q)
                         /\ Blob(2 * i - 1) = [n |-> sect[i].pn, off |-> sect[i].poff]
                         /\ Blob(2 * i) = [n |-> sect[i].fn, off |-> sect[i].foff]
  BY BlobsAre
<1>2. TableUnits = SumTo(v, Q)
  BY DEF TableUnits
<1>3. \A i \in 1..Q : v[i] = sect[i].pn + sect[i].fn
  OBVIOUS
<1> HIDE DEF w, v, Q
<1>4. ASSUME NEW i \in 1..Q PROVE v[i] = w[2 * i - 1] + w[2 * i]
  <2>1. w[2 * i - 1] = sect[i].pn /\ w[2 * i] = sect[i].fn
    <3>1. w[2 * i - 1] = Blob(2 * i - 1).n /\ w[2 * i] = Blob(2 * i).n
      BY <1>1
    <3>2. /\ Blob(2 * i - 1) = [n |-> sect[i].pn, off |-> sect[i].poff]
          /\ Blob(2 * i) = [n |-> sect[i].fn, off |-> sect[i].foff]
      BY <1>1, Zenon
    <3>3. Blob(2 * i - 1).n = sect[i].pn /\ Blob(2 * i).n = sect[i].fn
      BY <3>2
    <3> QED
      BY <3>1, <3>3
  <2> QED
    BY <1>3, <2>1
<1>5. \A b \in 1..(2 * Q) : w[b] \in Nat
  BY <1>1
<1>6. SumTo(w, 2 * Q) = SumTo(v, Q)
  BY <1>1, <1>4, <1>5, SumOfPairs
<1> QED
  BY <1>1, <1>2, <1>6

\* And in the next state.
LEMMA PcountStays == FileOK' => NewPcount' = TableUnits'
<1> DEFINE Counted == NewPcount = TableUnits
<1>1. FileOK => Counted
  BY PcountIs
<1> HIDE DEF Counted
<1>2. FileOK' => Counted'
  BY <1>1, PTL
<1> QED
  BY <1>2 DEF Counted

\* A call adds to the heap what its tiles take, and what they had before stays in it.
LEMMA CommitSpare ==
  ASSUME Typed, FileOK, Spare, NEW c, Finished(c), sect' = NewSect(c), cards' = NewCards(c),
         FileOK'
  PROVE  Spare'
<1> DEFINE n == Tiles(RowsAfter(c))
           P == Len(c.prim)
           G == Len(c.fall)
           M == NewMain(c)
           F == FirstTile(c)
           K == Len(c.upd)
           Q == IF c.op = "write" THEN 0 ELSE cards.tiles
           u == Weights(c)
           w == [i \in 1..cards.tiles |-> sect[i].pn + sect[i].fn]
           v == [i \in 1..n |-> sect'[i].pn + sect'[i].fn]
<1>1. /\ Fits(c) /\ c.cards = cards /\ P \in Nat /\ G \in Nat /\ c.todo = <<>>
      /\ K \in Nat /\ c.upd \in Seq(Updates)
      /\ K + Len(c.todo) = LastTile(c) - F + 1 /\ SumTo(u, K) = P + G
  BY DEF Finished, WriteOK, Reckoned
<1>2. cards'.tiles = n /\ cards'.pcount = Base(c) + P + G /\ cards.pcount \in Nat
  BY NewCardsAre DEF FileOK
<1>3. TableUnits' = SumTo(v, n)
  BY <1>2 DEF TableUnits
<1>4. F \in Nat \ {0} /\ LastTile(c) \in Nat /\ LastTile(c) = F + K - 1
  <2>1. F \in Nat \ {0} /\ LastTile(c) \in Nat
    BY <1>1, Untouched
  <2>2. Len(c.todo) = 0
    BY <1>1
  <2> HIDE DEF F, K
  <2> QED
    BY <1>1, <2>1, <2>2
<1>5. /\ n \in Nat /\ M \in Seq(Descs) /\ Len(M) = n
      /\ \A i \in F..LastTile(c) : i - F + 1 \in 1..K /\ M[i] = Placed(c)[i - F + 1].desc
      /\ \A i \in 1..n : i \notin F..LastTile(c) => M[i] = sect[i] /\ i \in 1..cards.tiles
  BY MainIs
<1>6. \A i \in 1..n : sect'[i] = M[i]
  BY Places DEF Placing
<1>7. cards.tiles \in Nat /\ \A i \in 1..cards.tiles : sect[i].pn \in Nat /\ sect[i].fn \in Nat
  BY TileIsThere DEF FileOK, Descs
<1>8. c.op = "write" => F = 1 /\ LastTile(c) = n
  <2>1. c.op = "write" => RowsAfter(c) = cards.rows /\ cards.tiles = Tiles(cards.rows)
    BY <1>1, FitsFacts DEF FileOK
  <2> QED
    BY <1>1, <2>1 DEF FirstTile, LastTile
<1>9. \A i \in 1..n : v[i] = sect'[i].pn + sect'[i].fn
  OBVIOUS
<1>10. \A i \in 1..cards.tiles : w[i] = sect[i].pn + sect[i].fn
  OBVIOUS
<1>11. TableUnits = SumTo(w, cards.tiles)
  BY DEF TableUnits
<1> HIDE DEF v, w, n, M, F, P, G
<1>12. ASSUME NEW k \in 1..K
       PROVE  /\ u[k] = c.upd[k].desc.pn + c.upd[k].desc.fn /\ u[k] \in Nat
              /\ Placed(c)[k].desc.pn = c.upd[k].desc.pn /\ Placed(c)[k].desc.fn = c.upd[k].desc.fn
  <2>1. k \in DOMAIN c.upd /\ c.upd[k] \in Updates
    BY <1>1
  <2>2. u[k] = c.upd[k].desc.pn + c.upd[k].desc.fn
    BY <2>1 DEF Weights
  <2>3. c.upd[k].desc.pn \in Nat /\ c.upd[k].desc.fn \in Nat
    BY <2>1 DEF Updates, Descs
  <2>4. Placed(c)[k].desc.pn = c.upd[k].desc.pn /\ Placed(c)[k].desc.fn = c.upd[k].desc.fn
    BY PlacedIs
  <2> QED
    BY <2>2, <2>3, <2>4
<1> HIDE DEF u, K
<1>13. IsPatch(v, w, u, F, K, Q, n)
  <2>1. Q \in Nat /\ \A i \in 1..Q : w[i] \in Nat
    BY <1>7, <1>10
  <2>2. ASSUME NEW i \in 1..n, i \in F..(F + K - 1) PROVE v[i] = u[i - F + 1]
    <3>1. i - F + 1 \in 1..K /\ M[i] = Placed(c)[i - F + 1].desc
      BY <1>4, <1>5, <2>2
    <3> QED
      BY <1>6, <1>9, <1>12, <3>1
  <2>3. ASSUME NEW i \in 1..n, i \notin F..(F + K - 1) PROVE i <= Q /\ v[i] = w[i]
    <3>1. M[i] = sect[i] /\ i \in 1..cards.tiles
      BY <1>4, <1>5, <2>3
    <3>2. c.op # "write"
      BY <1>4, <1>5, <1>8, <2>3
    <3> QED
      BY <1>6, <1>7, <1>9, <1>10, <3>1, <3>2
  <2>4. \A i \in 1..K : u[i] \in Nat
    BY <1>12
  <2> QED
    BY <1>1, <1>4, <1>5, <2>1, <2>2, <2>3, <2>4 DEF IsPatch
<1>14. SumTo(v, n) <= SumTo(w, Q) + SumTo(u, K)
  BY <1>13, SumToPatch
<1>15. SumTo(w, Q) <= Base(c) /\ SumTo(w, Q) \in Nat /\ Base(c) \in Nat
  <2>1. CASE c.op = "write"
    BY <2>1, SumToUnfolds DEF Base
  <2>2. CASE c.op # "write"
    <3>1. TableUnits <= cards.pcount
      BY PcountIs DEF Spare
    <3>2. SumTo(w, cards.tiles) \in Nat
      <4>1. \A i \in 1..cards.tiles : w[i] \in Nat
        BY <1>7, <1>10
      <4>2. cards.tiles \in 0..cards.tiles
        BY <1>7
      <4> QED
        BY <1>7, <4>1, <4>2, SumToNat
    <3> QED
      BY <1>1, <1>2, <1>11, <2>2, <3>1, <3>2 DEF Base
  <2> QED
    BY <2>1, <2>2
<1>16. SumTo(v, n) \in Nat
  <2>1. \A i \in 1..n : v[i] \in Nat
    <3> SUFFICES ASSUME NEW i \in 1..n PROVE v[i] \in Nat
      OBVIOUS
    <3>1. M[i] \in Descs
      BY <1>5
    <3> QED
      BY <1>6, <1>9, <3>1 DEF Descs
  <2>2. n \in 0..n
    BY <1>5
  <2> QED
    BY <1>5, <2>1, <2>2, SumToNat
<1>17. TableUnits' <= cards'.pcount
  BY <1>1, <1>2, <1>3, <1>14, <1>15, <1>16
<1> QED
  BY <1>17, PcountStays DEF Spare

\* A repack leaves the table with its lengths, and a heap of as many units.
LEMMA RepackSpare ==
  ASSUME Typed, FileOK, BlobsInHeap, image' = image,
         sect' = PackedMain \o PackedUnits, cards' = [cards EXCEPT !.pcount = NewPcount]
  PROVE  Spare'
<1> DEFINE Q == cards.tiles
           v == [i \in 1..Q |-> sect'[i].pn + sect'[i].fn]
           w == [i \in 1..Q |-> sect[i].pn + sect[i].fn]
<1>1. cards'.tiles = Q /\ cards'.pcount = NewPcount /\ NewPcount \in Nat
  BY PackedIs DEF Typed, CardsOK
<1>2. Q \in Nat
  BY TileIsThere DEF FileOK
<1>3. /\ FileOK'
      /\ \A i \in 1..Q : sect'[i].pn = sect[i].pn /\ sect'[i].fn = sect[i].fn
  BY RepackKept
<1>4. TableUnits' = SumTo(v, Q) /\ TableUnits = SumTo(w, Q)
  BY <1>1 DEF TableUnits
<1>5. \A i \in 1..Q : v[i] = w[i]
  BY <1>3
<1> HIDE DEF v, w, Q
<1>6. SumTo(v, Q) = SumTo(w, Q)
  BY <1>2, <1>5, SumToAgree
<1>7. NewPcount' = cards'.pcount
  BY <1>1, <1>3, <1>4, <1>6, PcountIs, PcountStays
<1> QED
  BY <1>1, <1>7 DEF Spare

-----------------------------------------------------------------------------
(* Every step keeps the content.                                           *)

\* A call that is what d was, over the same file.
LEMMA WorkStays ==
  ASSUME NEW t \in Threads, NEW d, WorkOK(d), call'[t] = d, UNCHANGED <<cards, sect, image>>
  PROVE  WorkOK(call[t])'
<1>1. Working(call[t])' => Working(d)
  BY DEF Working, CardsOK
<1>2. ReadOK(d) => ReadOK(call[t])'
  BY DEF ReadOK
<1>3. ASSUME WriteOK(d) PROVE WriteOK(call[t])'
  <2>1. /\ Result(call[t])' = Result(d) /\ RowsAfter(call[t])' = RowsAfter(d)
        /\ FirstTile(call[t])' = FirstTile(d) /\ LastTile(call[t])' = LastTile(d)
    BY DEF Result, RowsAfter, FirstTile, LastTile
  <2>2. Fits(call[t])'
    BY <1>3 DEF WriteOK, Fits, Working, CardsOK
  <2>3. ASSUME NEW x, Done(d, x) PROVE Done(call[t], x)'
    BY <2>1, <2>3 DEF Done
  <2>4. Reckoned(call[t])'
    BY <1>3 DEF WriteOK, Reckoned, Weights
  <2> QED
    BY <1>3, <2>1, <2>2, <2>3, <2>4 DEF WriteOK
<1> QED
  BY <1>1, <1>2, <1>3 DEF WorkOK

\* A step that leaves the file and the image.
LEMMA ContentStays ==
  ASSUME Typed, Content, NEW t \in Threads, UNCHANGED <<cards, sect, image>>, CacheOK',
         NEW d, WorkOK(d), call' = call \/ Becomes(t, d)
  PROVE  Content'
<1>1. FileOK'
  BY DEF Content, FileOK
<1>2. ASSUME NEW u \in Threads PROVE WorkOK(call[u])'
  <2>1. call'[u] = call[u] \/ (call'[u] = d)
    BY Calls
  <2>2. WorkOK(call[u])
    BY DEF Content
  <2>3. CASE call'[u] = call[u]
    BY <2>2, <2>3, WorkStays
  <2>4. CASE call'[u] = d
    BY <2>4, WorkStays
  <2> QED
    BY <2>1, <2>3, <2>4
<1> QED
  BY <1>1, <1>2 DEF Content

\* A cache of true entries stays one while the file and the image stay.
LEMMA CacheStays ==
  ASSUME UNCHANGED <<cards, image>>, NEW k, cache' = k,
         Budget(TrueEntries(image, cards.tiles), k), k.cur <= k.cap
  PROVE  CacheOK'
BY DEF CacheOK

\* Calls that are not at work.
LEMMA NoWork ==
  /\ WorkOK(Idle) /\ WorkOK(Waiting)
  /\ \A c : c.op = "pop" => WorkOK(c)
BY Kinds DEF WorkOK, Waiting, Working

\* One tile of a read.
LEMMA ReadTileKept ==
  ASSUME Typed, Content, NEW t \in Threads, ReadTile(t)
  PROVE  Content'
<1> DEFINE c == call[t]
           i == Head(c.todo)
           n == Cardinality(TileSpan(i, c.cards.rows))
<1>1. gil = None /\ UNCHANGED <<cards, sect, image>> /\ c.op = "read"
  BY DEF ReadTile, Runs, file, ghosts
<1>2. Working(c)
  BY <1>1, Runner DEF ReadTile
<1>3. FileOK /\ CacheOK /\ ReadOK(c)
  BY <1>1, <1>2 DEF Content, WorkOK
<1>4. c.todo \in Seq(Nat) /\ c.todo # <<>> /\ DOMAIN c = Fields
  BY <1>1, <1>2 DEF Working
<1>5. i \in 1..cards.tiles
  <2>1. i = c.todo[1] /\ 1 \in 1..Len(c.todo)
    BY <1>4
  <2> QED
    BY <1>3, <2>1 DEF ReadOK
<1>6. n = Cardinality(TileSpan(i, cards.rows)) /\ c.cards.tiles = cards.tiles
  BY <1>3 DEF ReadOK
<1>7. PICK got \in Fetched(i, n, c.cards.tiles) :
         /\ cache' = got.cache
         /\ Becomes(t, IF Len(got.rows) # n \/ Len(c.todo) = 1 THEN Idle ELSE [c EXCEPT !.todo = Tail(@)])
  BY DEF ReadTile
<1>8. got \in Fetched(i, Cardinality(TileSpan(i, cards.rows)), cards.tiles)
  BY <1>6, <1>7
<1> DEFINE d == [c EXCEPT !.todo = Tail(c.todo)]
<1>9. Becomes(t, Idle) \/ Becomes(t, d)
  BY <1>7
<1> HIDE DEF i, n
<1>10. Budget(TrueEntries(image, cards.tiles), got.cache) /\ got.cache.cur <= got.cache.cap
  BY <1>3, <1>5, <1>8, Fetches
<1>11. CacheOK'
  BY <1>1, <1>7, <1>10, CacheStays
<1>12. WorkOK(d)
  <2> DEFINE s == c.todo
  <2>1. s \in Seq(Nat) /\ s # <<>> /\ d.todo = Tail(s) /\ d.op = "read" /\ d.cards = c.cards
    BY <1>1, <1>4 DEF Fields
  <2>2. \A j \in 1..Len(s) : s[j] \in 1..cards.tiles
    BY <1>3 DEF ReadOK
  <2> HIDE DEF s, d
  <2>3. Len(Tail(s)) = Len(s) - 1 /\ Len(s) \in Nat /\ \A j \in 1..Len(Tail(s)) : Tail(s)[j] = s[j + 1]
    BY <2>1, HeadTailProperties
  <2>4. ASSUME NEW j \in 1..Len(d.todo) PROVE d.todo[j] \in 1..cards.tiles
    <3>1. j \in 1..Len(Tail(s)) /\ j + 1 \in 1..Len(s)
      BY <2>1, <2>3
    <3> QED
      BY <2>1, <2>2, <2>3, <3>1
  <2> QED
    BY <1>3, <2>1, <2>4 DEF WorkOK, ReadOK
<1> HIDE DEF d
<1> QED
  BY <1>1, <1>9, <1>11, <1>12, ContentStays, NoWork

\* The cache is not touched.
LEMMA CacheSame ==
  ASSUME Content, UNCHANGED <<cards, image, cache>> PROVE CacheOK'
BY DEF Content, CacheOK

\* The descriptor table is read.
LEMMA LoadMainKept ==
  ASSUME Typed, Content, NEW t \in Threads, LoadMain(t)
  PROVE  Content'
<1> DEFINE c == call[t]
           m == IF c.op = "write" THEN <<>> ELSE SubSeq(sect, 1, c.cards.tiles)
           d == [c EXCEPT !.ph = "encode", !.main = m]
<1>1. /\ gil = None /\ UNCHANGED <<cards, sect, image, cache>> /\ c.op \in {"write", "extend", "setitem"}
      /\ Becomes(t, d)
  BY DEF LoadMain, Runs, file, ghosts
<1>2. Working(c)
  BY <1>1, Runner DEF LoadMain
<1>3. WriteOK(c) /\ c.op # "read"
  BY <1>1, <1>2 DEF Content, WorkOK
<1>4. Working(d)
  BY <1>2, <1>3, WorkGoesOn
<1>5. /\ d.op = c.op /\ d.cards = c.cards /\ d.todo = c.todo /\ d.data = c.data /\ d.at = c.at
      /\ d.main = m /\ d.upd = c.upd /\ d.prim = c.prim /\ d.fall = c.fall
  BY <1>2 DEF Working, Fields
<1> HIDE DEF d
<1>6. Fits(d)
  BY <1>3, <1>4, <1>5 DEF WriteOK, Fits
<1>7. FirstTile(d) = FirstTile(c) /\ LastTile(d) = LastTile(c) /\ Result(d) = Result(c)
  BY <1>5 DEF FirstTile, LastTile, RowsAfter, Result
<1>8. \A x : Done(c, x) => Done(d, x)
  BY <1>5, <1>7 DEF Done
<1>9. d.op # "write" => d.main = SubSeq(sect, 1, cards.tiles)
  BY <1>3, <1>5 DEF WriteOK
<1>10. WriteOK(d)
  <2> HIDE DEF c, m
  <2>1. Reckoned(d)
    BY <1>3, <1>5 DEF WriteOK, Reckoned, Weights
  <2> QED
    BY <1>3, <1>5, <1>6, <1>7, <1>8, <1>9, <2>1 DEF WriteOK
<1>11. WorkOK(d)
  BY <1>3, <1>5, <1>10 DEF WorkOK
<1>12. CacheOK'
  BY <1>1, CacheSame
<1> QED
  BY <1>1, <1>11, <1>12, ContentStays

\* One tile is encoded.
LEMMA EncodeTileKept ==
  ASSUME Typed, Content, NEW t \in Threads, EncodeTile(t)
  PROVE  Content'
<1> DEFINE c == call[t]
           i == Head(c.todo)
           n == IF NeedsOld(c, i) THEN Cardinality(TileSpan(i, c.cards.rows)) ELSE 0
           olds == IF n > 0 THEN Fetched(i, n, c.cards.tiles) ELSE {[rows |-> NoRows, cache |-> cache]}
<1>1. /\ gil = None /\ UNCHANGED <<cards, sect, image>>
      /\ c # Idle /\ c.ph = "encode" /\ c.todo # <<>>
  BY DEF EncodeTile, file
<1>2. Working(c) /\ c.op # "read" /\ c.todo \in Seq(Nat)
  BY <1>1, Runner DEF Working
<1>3. FileOK /\ CacheOK /\ WriteOK(c)
  BY <1>2 DEF Content, WorkOK
<1>4. PICK got \in olds :
         /\ cache' = got.cache
         /\ \/ Becomes(t, Idle)
            \/ Len(got.rows) = n /\ Becomes(t, WithTile(c, i, NewTile(c, i, got.rows)))
  BY DEF EncodeTile, Fails
<1>5. Fits(c) /\ c.cards = cards
  BY <1>3 DEF WriteOK
<1>6. i \in FirstTile(c)..LastTile(c)
  <2> DEFINE F == FirstTile(c)
             L == LastTile(c)
             a == Len(c.upd)
             b == Len(c.todo)
  <2>0. /\ c.upd \in Seq(Updates) /\ a + b = L - F + 1
        /\ \A j \in 1..Len(c.todo) : c.todo[j] = F + a + j - 1
    BY <1>3 DEF WriteOK
  <2>1. i = c.todo[1] /\ b \in Nat \ {0}
    <3>1. b # 0
      BY <1>1, <1>2
    <3> QED
      BY <1>1, <1>2, <3>1
  <2>2. i = F + a + 1 - 1 /\ a \in Nat /\ a + b = L - F + 1
    <3>1. 1 \in 1..Len(c.todo)
      BY <2>1
    <3>2. a \in Nat
      BY <2>0
    <3>3. c.todo[1] = F + a + 1 - 1
      <4> HIDE DEF F, a
      <4> QED
        BY <2>0, <3>1
    <3> QED
      BY <2>0, <2>1, <3>2, <3>3
  <2>3. F \in Nat /\ L \in Nat
    BY <1>5, Untouched
  <2> HIDE DEF F, L, a, b
  <2>4. i \in F..L
    BY <2>1, <2>2, <2>3
  <2> QED
    BY <2>4 DEF F, L
<1>7. NeedsOld(c, i) => i \in 1..cards.tiles
  BY <1>5, <1>6, Untouched
<1> DEFINE old == IF NeedsOld(c, i) THEN TileOf(image, i) ELSE <<>>
<1>8. /\ Budget(TrueEntries(image, cards.tiles), got.cache) /\ got.cache.cur <= got.cache.cap
      /\ Len(got.rows) = n => got.rows = old /\ 0 \notin ToSet(old)
  <2>1. CASE NeedsOld(c, i)
    <3>1. i \in 1..cards.tiles /\ n = Cardinality(TileSpan(i, cards.rows))
      BY <1>5, <1>7, <2>1
    <3>2. n > 0
      <4>1. cards.rows \in Nat /\ i \in 1..Tiles(cards.rows)
        BY <1>3, <3>1 DEF FileOK
      <4>2. /\ n = Hi(i, cards.rows) - Lo(i) /\ Lo(i) \in Nat /\ Hi(i, cards.rows) \in Nat
            /\ Lo(i) < Hi(i, cards.rows)
        BY <3>1, <4>1, TileShape
      <4> HIDE DEF n
      <4> QED
        BY <4>2
    <3>3. got \in Fetched(i, Cardinality(TileSpan(i, cards.rows)), cards.tiles)
      BY <1>4, <1>5, <3>1, <3>2
    <3> HIDE DEF n, i, olds
    <3>4. /\ Budget(TrueEntries(image, cards.tiles), got.cache) /\ got.cache.cur <= got.cache.cap
          /\ Len(got.rows) = n => got.rows = TileOf(image, i) /\ 0 \notin ToSet(TileOf(image, i))
      BY <1>3, <3>1, <3>3, Fetches
    <3> QED
      BY <2>1, <3>4
  <2>2. CASE ~NeedsOld(c, i)
    <3>1. n = 0 /\ got = [rows |-> <<>>, cache |-> cache] /\ old = <<>>
      BY <1>4, <2>2 DEF NoRows
    <3>2. got.cache = cache /\ got.rows = <<>>
      BY <3>1
    <3>3. 0 \notin ToSet(<<>>)
      BY DEF ToSet
    <3> QED
      BY <1>3, <3>1, <3>2, <3>3 DEF CacheOK
  <2> QED
    BY <2>1, <2>2
<1> HIDE DEF n, olds
<1>9. CacheOK'
  BY <1>1, <1>4, <1>8, CacheStays
<1>10. CASE Becomes(t, Idle)
  BY <1>1, <1>9, <1>10, ContentStays, NoWork
<1>11. CASE Len(got.rows) = n /\ Becomes(t, WithTile(c, i, NewTile(c, i, got.rows)))
  <2> DEFINE rows == TileOf(Result(c), i)
  <2>1. got.rows = old /\ 0 \notin ToSet(old)
    BY <1>8, <1>11
  <2>2. NewTile(c, i, got.rows) = rows /\ 0 \notin ToSet(rows)
    BY <1>5, <1>6, <2>1, NewTileIs
  <2> HIDE DEF rows, old
  <2>3. WorkOK(WithTile(c, i, rows))
    BY <1>1, <1>3, <2>2, TileEncoded DEF rows
  <2> QED
    BY <1>1, <1>9, <1>11, <2>2, <2>3, ContentStays
<1> QED
  BY <1>4, <1>10, <1>11

\* The cache is cleared, whatever becomes of the file.
LEMMA CacheCleared ==
  ASSUME Content, cache' = Clear(cache) PROVE CacheOK'
<1>1. cache.cap \in Nat
  BY DEF Content, CacheOK, Budget, Caches
<1>2. Sized(TrueEntries(image', cards'.tiles))
  BY DEF Sized, TrueEntries
<1>3. Budget(TrueEntries(image', cards'.tiles), cache') /\ cache'.cur <= cache'.cap
  BY <1>1, <1>2, EmptyBudget DEF Clear
<1> QED
  BY <1>3 DEF CacheOK

\* A call that only reads, while the image keeps its shape.
LEMMA ReaderStays ==
  ASSUME Content, NEW u \in Threads, call'[u] = call[u], call[u].op \notin Writers,
         cards'.rows = cards.rows, cards'.tiles = cards.tiles
  PROVE  WorkOK(call[u])'
<1>1. CASE Working(call[u])
  <2>1. call[u].op = "read"
    BY <1>1 DEF Working, Writers
  <2>2. ReadOK(call[u])
    BY <1>1, <2>1 DEF Content, WorkOK
  <2>3. ReadOK(call[u])'
    BY <2>2 DEF ReadOK
  <2> QED
    BY <2>1, <2>3 DEF WorkOK
<1>2. CASE ~Working(call[u])
  BY <1>2 DEF WorkOK, Working, CardsOK
<1> QED
  BY <1>1, <1>2

\* A call commits: only calls that read are still under way.
LEMMA CommitContent ==
  ASSUME Typed, Solo, Content, NEW t \in Threads, Commit(t)
  PROVE  Content'
<1> DEFINE c == call[t]
<1>1. /\ gil = None /\ c # Idle /\ c.ph = "encode" /\ c.todo = <<>>
      /\ sect' = NewSect(c) /\ cards' = NewCards(c) /\ cache' = Clear(cache) /\ image' = Result(c)
      /\ Becomes(t, Idle)
  BY DEF Commit, ReadyToCommit
<1>2. Working(c) /\ c.op # "read"
  BY <1>1, Runner DEF Working
<1>3. FileOK /\ CacheOK /\ WriteOK(c)
  BY <1>2 DEF Content, WorkOK
<1>4. Finished(c) /\ Fits(c) /\ c.cards = cards
  BY <1>1, <1>3 DEF Finished, WriteOK
<1>5. FileOK'
  BY <1>1, <1>3, <1>4, CommitKept
<1>6. CacheOK'
  BY <1>1, CacheCleared
<1>7. call'[t] = Idle /\ \A u \in Threads \ {t} : call'[u] = call[u]
  BY <1>1, Calls
<1>8. ASSUME NEW u \in Threads PROVE WorkOK(call[u])'
  <2>1. CASE u = t
    <3>1. call'[u] = Idle
      BY <1>7, <2>1
    <3> QED
      BY <3>1, Kinds DEF WorkOK, Working
  <2>2. CASE u # t
    <3>1. call'[u] = call[u]
      BY <1>7, <2>2
    <3>2. c.op \in Writers /\ call[u].op \notin Writers
      <4>1. c.op \in Writers
        BY <1>2 DEF Working, Writers
      <4> QED
        BY <2>2, <4>1 DEF Solo
    <3>3. CASE c.op = "extend"
      <4>1. call[u] = Idle
        BY <2>2, <3>3 DEF Solo
      <4> QED
        BY <3>1, <4>1, Kinds DEF WorkOK, Working
    <3>4. CASE c.op # "extend"
      <4>1. cards'.rows = cards.rows /\ cards'.tiles = cards.tiles
        <5>1. cards'.rows = RowsAfter(c) /\ cards'.tiles = Tiles(RowsAfter(c))
          BY <1>1, <1>3, <1>4, NewCardsAre
        <5>2. RowsAfter(c) = cards.rows /\ cards.tiles = Tiles(cards.rows)
          BY <1>3, <1>4, <3>4, FitsFacts DEF FileOK
        <5> QED
          BY <5>1, <5>2
      <4> QED
        BY <3>1, <3>2, <4>1, ReaderStays
    <3> QED
      BY <3>3, <3>4
  <2> QED
    BY <2>1, <2>2
<1> QED
  BY <1>5, <1>6, <1>8 DEF Content

\* What a repack does that does not go over the end of a tile.
LEMMA Repacked ==
  ASSUME FileOK, Spare, NEW t \in Threads, Repack(t), gil' = None, ~clobbered'
  PROVE  /\ MayRun(t, "setitem") /\ BlobsInHeap
         /\ sect' = PackedMain \o PackedUnits /\ cards' = [cards EXCEPT !.pcount = NewPcount]
         /\ cache' = Clear(cache) /\ UNCHANGED <<call, image>>
<1>1. mutex = None
  BY ThreadAssumption DEF Repack, Starts
<1>2. /\ MayRun(t, "setitem") /\ Repacks
      /\ sect' = PackedMain \o PackedHeap /\ cards' = [cards EXCEPT !.pcount = NewPcount]
      /\ cache' = Clear(cache) /\ UNCHANGED <<call, image>>
      /\ clobbered' = (clobbered \/ Clobbers(Plans, cards.pcount, CHUNK))
  BY <1>1 DEF Repack, Starts
<1>3. BlobsInHeap /\ ~Clobbers(Plans, cards.pcount, CHUNK)
  BY <1>2 DEF Repacks, BlobsInHeap
<1>4. PackedHeap = PackedUnits
  BY <1>3, HeapMoved
<1> QED
  BY <1>2, <1>3, <1>4

\* A repack: nobody writes, and the calls that read see the tiles they saw.
LEMMA RepackContent ==
  ASSUME Typed, Solo, Coordinated, Content, Spare, NEW t \in Threads, Repack(t), gil' = None,
         ~clobbered'
  PROVE  Content'
<1>1. /\ MayRun(t, "setitem") /\ BlobsInHeap
      /\ sect' = PackedMain \o PackedUnits /\ cards' = [cards EXCEPT !.pcount = NewPcount]
      /\ cache' = Clear(cache) /\ call' = call /\ image' = image
  BY Repacked DEF Content
<1>2. \A u \in Threads : call[u].op \notin Writers
  <2>1. "setitem" \in Writers
    BY DEF Writers
  <2> QED
    BY <1>1, <2>1, Starter
<1>4. FileOK'
  BY <1>1, RepackKept DEF Content
<1>5. CacheOK'
  BY <1>1, CacheCleared
<1>6. cards'.rows = cards.rows /\ cards'.tiles = cards.tiles
  BY <1>1 DEF Typed, CardsOK
<1>7. \A u \in Threads : WorkOK(call[u])'
  BY <1>1, <1>2, <1>6, ReaderStays
<1> QED
  BY <1>4, <1>5, <1>7 DEF Content

\* A call enters.
LEMMA EntersContent ==
  ASSUME Typed, Content, NEW t \in Threads, NEW c, WorkOK(c), Enters(t, c)
  PROVE  Content'
<1>1. UNCHANGED <<cards, sect, image, cache>> /\ (Becomes(t, c) \/ Becomes(t, Waiting))
  BY DEF Enters, Starts, Becomes, file, ghosts
<1>2. CacheOK'
  BY <1>1, CacheSame
<1> QED
  BY <1>1, <1>2, ContentStays, NoWork

\* The context: fed and left.
LEMMA ContextContent ==
  ASSUME Typed, Content, NEW t \in Threads,
         ExitContext(t) \/ \E data \in Seq(Vals) : BufferRows(t, data)
  PROVE  Content'
<1>1. CASE ExitContext(t)
  <2>1. /\ UNCHANGED <<cards, sect, image, cache>>
        /\ \/ call' = call \/ Becomes(t, Waiting)
           \/ pending.rows # <<>> /\ Becomes(t, Drain(pending.rows))
    BY <1>1 DEF ExitContext, Starts, Becomes, Drain, file, ghosts
  <2>2. CacheOK'
    BY <2>1, CacheSame
  <2>3. pending.rows # <<>> => WorkOK(Drain(pending.rows))
    <3>1. pending.rows \in Seq(Vals)
      BY DEF Typed
    <3>2. pending.rows # <<>> => Len(pending.rows) > 0
      BY <3>1
    <3> QED
      BY <3>1, <3>2, ExtendBegins DEF Content
  <2> QED
    BY <2>1, <2>2, <2>3, ContentStays, NoWork
<1>2. ASSUME NEW data \in Seq(Vals), BufferRows(t, data) PROVE Content'
  <2> DEFINE c == [op |-> "pop", ph |-> "main",
                   n |-> AlignedDrainRows(cards.rows, pending.total + Len(data))]
  <2>1. /\ UNCHANGED <<cards, sect, image, cache>>
        /\ call' = call \/ Becomes(t, Waiting) \/ Becomes(t, c)
    BY <1>2 DEF BufferRows, Starts, Becomes, file, ghosts
  <2>2. c.op = "pop"
    OBVIOUS
  <2> HIDE DEF c
  <2>3. CacheOK'
    BY <2>1, CacheSame
  <2> QED
    BY <2>1, <2>2, <2>3, ContentStays, NoWork
<1> QED
  BY <1>1, <1>2

\* The operations that begin a call or change the HDU at once.
LEMMA ChangeContent ==
  ASSUME Typed, Solo, Coordinated, Content, Spare, NEW t \in Threads, Read(t) \/ Change(t),
         gil' = None, ~clobbered'
  PROVE  Content'
<1>0. FileOK /\ CacheOK /\ cards.rows \in Nat /\ TileRows \in Nat \ {0}
  BY TileAssumption DEF Content, FileOK
<1>1. CASE Read(t)
  <2>1. PICK i \in 1..cards.tiles : BeginRead(t, SubSeq(AllTiles, i, cards.tiles))
    BY <1>1 DEF Read
  <2> QED
    BY <1>0, <2>1, ReadBegins, EntersContent DEF BeginRead
<1>2. CASE \E data \in [1..cards.rows -> Vals] : cards.rows > 0 /\ BeginWrite(t, data)
  <2>1. PICK data \in [1..cards.rows -> Vals] : cards.rows > 0 /\ BeginWrite(t, data)
    BY <1>2
  <2>2. data \in Seq(Vals) /\ Len(data) = cards.rows
    BY <1>0, <2>1, FunIsSeq DEF BeginWrite
  <2> QED
    BY <1>0, <2>1, <2>2, WriteBegins, EntersContent DEF BeginWrite
<1>3. CASE \E data \in Seqs(TileRows + 1) : BeginExtend(t, data) \/ BufferRows(t, data)
  <2>1. PICK data \in Seqs(TileRows + 1) : BeginExtend(t, data) \/ BufferRows(t, data)
    BY <1>3
  <2>2. data \in Seq(Vals) /\ Len(data) > 0
    BY <1>0, Datas
  <2> QED
    BY <1>0, <2>1, <2>2, ExtendBegins, EntersContent, ContextContent DEF BeginExtend
<1>4. CASE \E at \in 1..cards.rows, data \in Seqs(TileRows) : BeginSetItem(t, at, data)
  <2>1. PICK at \in 1..cards.rows, data \in Seqs(TileRows) : BeginSetItem(t, at, data)
    BY <1>4
  <2>2. data \in Seq(Vals) /\ Len(data) > 0 /\ at \in Nat \ {0}
    BY <1>0, Datas
  <2> QED
    BY <1>0, <2>1, <2>2, SetItemBegins, EntersContent DEF BeginSetItem
<1>5. CASE RepackFails(t) \/ EnterContext(t) \/ Close(t)
  <2>1. UNCHANGED <<cards, sect, image, cache>> /\ (call' = call \/ Becomes(t, Waiting))
    BY <1>5 DEF RepackFails, EnterContext, Close, Starts, Becomes, file, ghosts
  <2>2. CacheOK'
    BY <2>1, CacheSame
  <2> QED
    BY <2>1, <2>2, ContentStays, NoWork
<1>6. CASE \E cap \in Capacities : ResizeCache(t, cap)
  <2>1. PICK cap \in Capacities : ResizeCache(t, cap)
    BY <1>6
  <2>2. UNCHANGED <<cards, sect, image>> /\ call' = call /\ cache' = SetCapacity(cache, cap)
    BY <2>1 DEF ResizeCache, file, ghosts
  <2> DEFINE k == SetCapacity(cache, cap)
  <2>3. Budget(TrueEntries(image, cards.tiles), k) /\ k.cur <= k.cap
    BY <1>0, CacheAssumption, SetCapacityBudget DEF CacheOK
  <2> HIDE DEF k
  <2>4. CacheOK'
    BY <2>2, <2>3, CacheStays DEF k
  <2> QED
    BY <2>2, <2>4, ContentStays, NoWork
<1>7. CASE ClearCache(t)
  <2>1. UNCHANGED <<cards, sect, image>> /\ call' = call /\ cache' = Clear(cache)
    BY <1>7 DEF ClearCache, file, ghosts
  <2>2. CacheOK'
    BY <2>1, CacheCleared
  <2> QED
    BY <2>1, <2>2, ContentStays, NoWork
<1> QED
  BY <1>1, <1>2, <1>3, <1>4, <1>5, <1>6, <1>7, RepackContent, ContextContent DEF Change

\* The steps of a call that ends without having written, or of a drain.
LEMMA PopContent ==
  ASSUME Typed, Content, NEW t \in Threads, Popped(t) \/ PopFails(t) \/ CommitFails(t)
  PROVE  Content'
<1>1. UNCHANGED <<cards, sect, image, cache>> /\ gil = None
  BY DEF Popped, PopFails, CommitFails, ReadyToCommit, Runs, file, ghosts
<1>2. CacheOK'
  BY <1>1, CacheSame
<1>3. CASE Popped(t)
  <2> DEFINE n == Least(call[t].n, Len(pending.rows))
             q == SubSeq(pending.rows, 1, n)
  <2>1. Popping(call[t]) /\ n > 0 /\ Becomes(t, Drain(q))
    BY <1>1, <1>3, Runner DEF Popped, Drain
  <2>2. q \in Seq(Vals) /\ Len(q) = n
    BY <2>1, PoppedRows
  <2> HIDE DEF n, q
  <2>3. WorkOK(Drain(q))
    BY <2>1, <2>2, ExtendBegins DEF Content
  <2> QED
    BY <1>1, <1>2, <2>1, <2>3, ContentStays
<1>4. CASE PopFails(t) \/ CommitFails(t)
  <2>1. Becomes(t, Idle)
    BY <1>4 DEF PopFails, CommitFails, Fails
  <2> QED
    BY <1>1, <1>2, <2>1, ContentStays, NoWork
<1> QED
  BY <1>3, <1>4

\* A step that makes a caller wait.
LEMMA BlocksContent ==
  ASSUME Typed, Content, NEW t \in Threads, Blocks(t) PROVE Content'
<1>1. UNCHANGED <<cards, sect, image, cache>> /\ Becomes(t, Waiting)
  BY DEF Blocks
<1>2. CacheOK'
  BY <1>1, CacheSame
<1> QED
  BY <1>1, <1>2, ContentStays, NoWork

\* Every other step keeps the content.
LEMMA StepContent ==
  ASSUME Typed, Solo, Coordinated, Content, Spare, Next, gil' = None, ~clobbered' PROVE Content'
<1>1. ASSUME NEW t \in Threads, GoesOn(t) PROVE Content'
  BY <1>1, ReadTileKept, LoadMainKept, EncodeTileKept, CommitContent, PopContent DEF GoesOn
<1> QED
  BY <1>1, ChangeContent DEF Next

\* Only a commit and a repack change the section or its cards.
LEMMA SectMoves ==
  ASSUME NEW t \in Threads, Read(t) \/ Change(t) \/ GoesOn(t)
  PROVE  UNCHANGED <<cards, sect>> \/ Commit(t) \/ Repack(t)
<1>1. ASSUME GoesOn(t) PROVE UNCHANGED <<cards, sect>> \/ Commit(t)
  BY <1>1 DEF GoesOn, ReadTile, LoadMain, EncodeTile, CommitFails, Popped, PopFails, file
<1>2. ASSUME Read(t) \/ Change(t) PROVE UNCHANGED <<cards, sect>> \/ Repack(t)
  <2>1. ASSUME NEW c, Enters(t, c) PROVE UNCHANGED <<cards, sect>>
    BY <2>1 DEF Enters, Starts, file
  <2> QED
    BY <1>2, <2>1 DEF Read, Change, BeginRead, BeginWrite, BeginExtend, BeginSetItem, BufferRows,
       RepackFails, EnterContext, ExitContext, ResizeCache, ClearCache, Close, Starts, file
<1> QED
  BY <1>1, <1>2

\* What a commit does.
LEMMA Committed ==
  ASSUME Typed, Content, NEW t \in Threads, Commit(t)
  PROVE  /\ Typed /\ FileOK /\ Finished(call[t])
         /\ sect' = NewSect(call[t]) /\ cards' = NewCards(call[t]) /\ call' # call
<1> DEFINE c == call[t]
<1>1. /\ gil = None /\ c # Idle /\ c.ph = "encode" /\ c.todo = <<>>
      /\ sect' = NewSect(c) /\ cards' = NewCards(c) /\ Becomes(t, Idle)
  BY DEF Commit, ReadyToCommit
<1>2. Working(c) /\ c.op # "read"
  BY <1>1, Runner DEF Working
<1>3. Finished(c)
  BY <1>1, <1>2 DEF Content, WorkOK, Finished
<1>4. call'[t] = Idle
  BY <1>1, Calls
<1> QED
  BY <1>1, <1>3, <1>4 DEF Content

\* No step makes the table lay claim to more than the heap has.
LEMMA SpareStep ==
  ASSUME Typed, Solo, Coordinated, Content, Spare, Next, gil' = None, ~clobbered', Content'
  PROVE  Spare'
<1>0. FileOK /\ FileOK'
  BY DEF Content
<1>1. PICK t \in Threads : UNCHANGED <<cards, sect>> \/ Commit(t) \/ Repack(t)
  BY SectMoves DEF Next
<1>2. CASE UNCHANGED <<cards, sect>>
  BY <1>2 DEF Spare, NewPcount, NewOff, Blobs, Blob
<1>3. CASE Commit(t)
  <2>1. Finished(call[t]) /\ sect' = NewSect(call[t]) /\ cards' = NewCards(call[t])
    BY <1>3, Committed
  <2> QED
    BY <1>0, <2>1, CommitSpare
<1>4. CASE Repack(t)
  BY <1>0, <1>4, Repacked, RepackSpare
<1> QED
  BY <1>1, <1>2, <1>3, <1>4

\* What a repack has clobbered stays so.
LEMMA ClobberMoves ==
  ASSUME Next
  PROVE  clobbered' = clobbered \/ clobbered' = (clobbered \/ Clobbers(Plans, cards.pcount, CHUNK))
<1>2. ASSUME NEW t \in Threads, GoesOn(t) PROVE clobbered' = clobbered
  BY <1>2 DEF GoesOn, ReadTile, LoadMain, EncodeTile, Commit, CommitFails, Popped, PopFails, ghosts
<1>3. ASSUME NEW t \in Threads, Read(t) \/ Change(t)
      PROVE  clobbered' = clobbered \/ clobbered' = (clobbered \/ Clobbers(Plans, cards.pcount, CHUNK))
  <2>1. ASSUME NEW c, Enters(t, c) PROVE clobbered' = clobbered
    BY <2>1 DEF Enters, Starts, ghosts
  <2>2. ASSUME NEW data, BufferRows(t, data) PROVE clobbered' = clobbered
    BY <2>2 DEF BufferRows, Starts, ghosts
  <2>3. ASSUME Repack(t)
        PROVE  \/ clobbered' = clobbered
               \/ clobbered' = (clobbered \/ Clobbers(Plans, cards.pcount, CHUNK))
    BY <2>3 DEF Repack, Starts, ghosts
  <2>4. ASSUME RepackFails(t) \/ EnterContext(t) \/ ExitContext(t) \/ ClearCache(t) \/ Close(t)
        PROVE  clobbered' = clobbered
    BY <2>4 DEF RepackFails, EnterContext, ExitContext, ClearCache, Close, Starts, ghosts
  <2>5. ASSUME NEW cap, ResizeCache(t, cap) PROVE clobbered' = clobbered
    BY <2>5 DEF ResizeCache, ghosts
  <2> QED
    BY <1>3, <2>1, <2>2, <2>3, <2>4, <2>5
       DEF Read, Change, BeginRead, BeginWrite, BeginExtend, BeginSetItem
<1> QED
  BY <1>2, <1>3 DEF Next

LEMMA ClobberedStays == ASSUME [Next]_vars, ~clobbered' PROVE ~clobbered
BY ClobberMoves DEF vars

\* An image that was just created: no tile was written.
LEMMA InitContent == Init => Content
<1> SUFFICES ASSUME Init PROVE Content
  OBVIOUS
<1>1. PICK n \in 0..(TileRows + 1) : cards = [rows |-> n, tiles |-> Tiles(n), pcount |-> 0]
  BY DEF Init
<1>2. n \in Nat /\ Tiles(n) \in Nat
  BY TileAssumption, TilesNat
<1>3. NoDesc \in Descs /\ Payload(NoDesc).n = 0
  BY DEF NoDesc, Desc, Descs, Payload
<1>4. cards.rows = n /\ cards.tiles = Tiles(n) /\ cards.pcount = 0
  BY <1>1
<1> DEFINE Q == Tiles(n)
<1>5. sect = [i \in 1..Q |-> NoDesc] /\ image = [r \in 1..n |-> 0]
  BY <1>4 DEF Init
<1>6. Q \in Nat
  BY <1>2
<1>7. image \in Rows /\ Len(image) = n
  <2>1. image \in [1..n -> Vals \cup {0}]
    BY <1>5
  <2> QED
    BY <1>2, <1>5, <2>1 DEF Rows
<1>8. ASSUME NEW i \in 1..Q PROVE 0 \in ToSet(TileOf(image, i))
  <2> DEFINE x == TileOf(image, i)
  <2>1. image \in Seq({0})
    BY <1>2, <1>5
  <2>2. i \in 1..Tiles(Len(image))
    BY <1>7
  <2>3. x \in Seq({0}) /\ Len(x) \in Nat \ {0}
    BY <2>1, <2>2, TileRowsAre
  <2> HIDE DEF x
  <2>4. 1 \in DOMAIN x /\ x[1] = 0
    BY <2>3
  <2> QED
    BY <2>4 DEF ToSet, x
<1> HIDE DEF Q
<1>9. sect \in Seq(Cells) /\ Len(sect) = Q /\ \A i \in 1..Q : sect[i] = NoDesc
  BY <1>3, <1>5, <1>6 DEF Cells
<1>10. FileOK
  <2>1. ASSUME NEW i \in 1..Q PROVE sect[i] \in Descs /\ Keeps(sect, Q, 0, i, TileOf(image, i))
    BY <1>3, <1>8, <1>9 DEF Keeps
  <2>2. Q + 0 <= Len(sect)
    BY <1>6, <1>9
  <2> QED
    BY <1>2, <1>4, <1>7, <1>9, <2>1, <2>2 DEF FileOK, Q
<1>11. CacheOK
  <2>1. PICK cap \in Capacities : cache = EmptyCache(cap)
    BY DEF Init
  <2>2. cap \in Nat /\ Sized(TrueEntries(image, cards.tiles))
    BY CacheAssumption DEF Sized, TrueEntries
  <2> QED
    BY <2>1, <2>2, EmptyBudget DEF CacheOK
<1>12. \A t \in Threads : WorkOK(call[t])
  BY NoWork DEF Init
<1> QED
  BY <1>10, <1>11, <1>12 DEF Content

\* Its table lays claim to nothing.
LEMMA InitSpare == ASSUME Init, Content PROVE Spare
<1> DEFINE Q == cards.tiles
           v == [i \in 1..Q |-> sect[i].pn + sect[i].fn]
<1>1. FileOK /\ Q \in Nat
  BY TileIsThere DEF Content, FileOK
<1>2. sect = [i \in 1..Q |-> NoDesc] /\ cards.pcount = 0
  BY DEF Init
<1>3. \A i \in 1..Q : v[i] = 0
  BY <1>2 DEF NoDesc, Desc
<1>4. NewPcount = SumTo(v, Q)
  BY <1>1, PcountIs DEF TableUnits
<1> HIDE DEF v, Q
<1>5. SumTo(v, Q) <= 0
  <2>1. \A i \in 1..Q : v[i] \in Nat
    BY <1>3
  <2>2. SumTo(v, Q) \in Nat
    <3>1. Q \in 0..Q
      BY <1>1
    <3> QED
      BY <1>1, <2>1, <3>1, SumToNat
  <2>3. ASSUME 0 < SumTo(v, Q) PROVE FALSE
    <3>1. 0 \in Nat /\ 0 < SumTo(v, Q)
      BY <2>3
    <3>2. PICK b \in 1..Q : SumTo(v, b - 1) <= 0 /\ 0 < SumTo(v, b - 1) + v[b]
      BY <1>1, <2>1, <3>1, SumToCovers
    <3>3. v[b] = 0 /\ b - 1 \in 0..Q
      BY <1>1, <1>3
    <3>4. SumTo(v, b - 1) \in Nat
      BY <1>1, <2>1, <3>3, SumToNat
    <3> QED
      BY <3>2, <3>3, <3>4
  <2> QED
    BY <2>2, <2>3
<1> QED
  BY <1>2, <1>4, <1>5 DEF Spare

\* The invariant of callers that change the image one at a time, while no repack has
\* clobbered a tile.
Sound == Typed /\ (gil = None => Solo) /\ (~clobbered => Content /\ Spare)

\* It holds from the first state on.
LEMMA SoundHolds == ASSUME Coordinated PROVE Spec => []Sound
<1>1. Init => Sound
  <2> SUFFICES ASSUME Init PROVE Sound
    OBVIOUS
  <2>1. Typed /\ Solo /\ Content
    BY InitTyped, InitSolo, InitContent
  <2>2. Spare
    BY <2>1, InitSpare
  <2> QED
    BY <2>1, <2>2 DEF Sound
<1>2. ASSUME Sound, [Next]_vars PROVE Sound'
  <2>1. Typed' /\ (~clobbered' => ~clobbered)
    BY <1>2, StepTyped, ClobberedStays DEF Sound
  <2>2. CASE UNCHANGED vars
    <3>1. UNCHANGED <<cards, sect, image, cache, call, gil, mutex, pending>>
      BY <2>2 DEF vars
    <3>2. gil' = None => Solo'
      BY <1>2, <3>1 DEF Solo, Sound
    <3>3. ASSUME ~clobbered' PROVE Content' /\ Spare'
      <4>1. Typed /\ Content /\ Spare
        BY <1>2, <2>1, <3>3 DEF Sound
      <4>2. CacheOK'
        BY <3>1, <4>1, CacheSame
      <4>3. FileOK' /\ \A t \in Threads : WorkOK(call[t])'
        BY <3>1, <4>1, WorkStays DEF Content, FileOK
      <4>4. Spare'
        BY <3>1, <4>1 DEF Spare, NewPcount, NewOff, Blobs, Blob
      <4> QED
        BY <4>2, <4>3, <4>4 DEF Content
    <3> QED
      BY <2>1, <3>2, <3>3 DEF Sound
  <2>3. CASE Next /\ gil' = None
    <3>0. Typed /\ Solo
      BY <1>2, <2>3, NextRuns DEF Sound
    <3>1. PICK t \in Threads : Quiet \/ Steps(t)
      BY <2>3, <3>0, NextSteps DEF Next
    <3>2. Solo'
      BY <3>0, <3>1, SoloStep
    <3>3. ASSUME ~clobbered' PROVE Content' /\ Spare'
      <4>1. Content /\ Spare
        BY <1>2, <2>1, <3>3 DEF Sound
      <4>2. Content'
        BY <2>3, <3>0, <3>3, <4>1, StepContent
      <4> QED
        BY <2>3, <3>0, <3>3, <4>1, <4>2, SpareStep
    <3> QED
      BY <2>1, <3>2, <3>3 DEF Sound
  <2>4. CASE Next /\ gil' # None
    <3>1. PICK t \in Threads : Blocks(t)
      BY <2>4, NextBlocks
    <3>2. ASSUME ~clobbered' PROVE Content' /\ Spare'
      <4>1. Typed /\ Content /\ Spare
        BY <1>2, <2>1, <3>2 DEF Sound
      <4>2. UNCHANGED <<cards, sect>>
        BY <3>1 DEF Blocks
      <4>3. Spare'
        BY <4>1, <4>2 DEF Spare, NewPcount, NewOff, Blobs, Blob
      <4> QED
        BY <3>1, <4>1, <4>3, BlocksContent
    <3> QED
      BY <2>1, <2>4, <3>2 DEF Sound
  <2> QED
    BY <1>2, <2>2, <2>3, <2>4
<1>3. Sound /\ [Next]_vars => Sound'
  BY <1>2
<1> QED
  BY <1>1, <1>3, PTL DEF Spec

\* With callers that change the HDU one at a time, every tile of the section decodes to
\* the rows that the calls that returned have written, after any sequence of write, extend,
\* setitem, repack, drains and failed calls, with readers in between: no call loses, mixes
\* or half-writes a tile, whatever the tile size, the values, the fallback column, the cap
\* of the buffer and the number of threads, unless a repack has copied a tile longer than a
\* chunk up over its own end (write.rs, extending.rs and repack.rs of hdu_image_compressed).
THEOREM ImageReadsBack ==
  ASSUME Coordinated PROVE Spec => []TilesReadBack
<1>1. Sound => TilesReadBack
  <2> SUFFICES ASSUME FileOK PROVE TilesReadBack
    BY DEF Sound, Content, TilesReadBack
  <2>1. ASSUME NEW i \in 1..cards.tiles
        PROVE  LET rows == TileOf(image, i)
               IN  Decode(i, Len(rows), cards.tiles) = {IF 0 \in ToSet(rows) THEN NoRows ELSE rows}
    BY Decodes
  <2> QED
    BY <2>1 DEF TilesReadBack
<1> QED
  BY <1>1, SoundHolds, PTL

\* With such callers, a tile in the cache is the tile in the file: no read, extend or
\* setitem leaves one behind that a later write, extend or repack has changed, through
\* evictions and resizes, unless a repack has clobbered a tile (get_or_decode_tile, and the
\* clear at the end of every write).
THEOREM CacheIsCoherent ==
  ASSUME Coordinated PROVE Spec => []CacheCoherent
<1>1. Sound => CacheCoherent
  <2> SUFFICES ASSUME CacheOK, NEW i \in CachedKeys(cache) PROVE CachedEntry(cache, i).val = TileOf(image, i)
    BY DEF Sound, Content, CacheCoherent
  <2>1. CachedEntry(cache, i) \in TrueEntries(image, cards.tiles) /\ CachedEntry(cache, i).key = i
    BY WithoutBudget DEF CacheOK
  <2> QED
    BY <2>1 DEF TrueEntries
<1> QED
  BY <1>1, SoundHolds, PTL

\* With such callers, the copies of a repack put every tile where its new descriptor
\* says and leave nothing else in the heap, in place or through the staging area, whatever
\* the lengths of the tiles, their order and the gaps between them, unless a tile longer
\* than a chunk moves up over its own end (repack_compressed_heap, stream_copy_in_file).
\* The invariant behind it says that no table lays claim to more units than the heap has:
\* the repacked heap always fits where the old one was.
THEOREM RepackLeavesNoGaps ==
  ASSUME Coordinated PROVE Spec => RepackCompacts
<1> DEFINE A == UNCHANGED call /\ cards' # cards /\ ~clobbered' => sect' = PackedMain \o PackedUnits
<1>1. ASSUME Sound, [Next]_vars PROVE [A]_vars
  <2> SUFFICES ASSUME Next, UNCHANGED call, cards' # cards, ~clobbered'
               PROVE  sect' = PackedMain \o PackedUnits
    BY <1>1
  <2>1. Typed /\ FileOK /\ Content /\ Spare
    BY <1>1, ClobberedStays DEF Sound, Content
  <2>2. gil' = None
    BY NextBlocks DEF Blocks
  <2>3. PICK t \in Threads : Commit(t) \/ Repack(t)
    BY SectMoves DEF Next
  <2>4. ~Commit(t)
    BY <2>1, Committed
  <2> QED
    BY <2>1, <2>2, <2>3, <2>4, Repacked
<1> HIDE DEF A
<1>2. Sound /\ [Next]_vars => [A]_vars
  BY <1>1
<1> QED
  BY <1>2, SoundHolds, PTL DEF Spec, RepackCompacts, A


-----------------------------------------------------------------------------
(* The types, and the bound on the rows.                                   *)

\* Behind its first n cells a section holds units.
UnitsPast(s, n) == \A q \in 1..Len(s) : q > n => s[q] \in Units

\* What is written over a section are units, past its first n cells.
LEMMA WriteAtUnits ==
  ASSUME NEW s \in Seq(Cells), NEW u \in Seq(Cells), NEW p \in Nat \ {0}, NEW n \in Nat,
         UnitsPast(s, n), \A k \in 1..Len(u) : p + k - 1 > n => u[k] \in Units
  PROVE  WriteAt(s, p, u) \in Seq(Cells) /\ UnitsPast(WriteAt(s, p, u), n)
<1> DEFINE K == IF Len(s) < p + Len(u) - 1 THEN p + Len(u) - 1 ELSE Len(s)
           w == WriteAt(s, p, u)
           v(q) == IF q \in p..(p + Len(u) - 1) THEN u[q - p + 1] ELSE IF q <= Len(s) THEN s[q] ELSE Junk
<1>1. Len(s) \in Nat /\ Len(u) \in Nat /\ K \in Nat
  OBVIOUS
<1>2. w = [q \in 1..K |-> v(q)] /\ w \in Seq(Cells)
  BY WriteAtIs DEF WriteAt
<1>3. Junk \in Units
  <2>1. <<>> \in Rows
    BY DEF Rows
  <2> QED
    BY <2>1 DEF Junk, Unit, Units
<1>4. ASSUME NEW q \in 1..K, q > n PROVE v(q) \in Units
  <2>1. CASE q \in p..(p + Len(u) - 1)
    <3>1. q - p + 1 \in 1..Len(u) /\ p + (q - p + 1) - 1 > n
      BY <1>1, <1>4, <2>1
    <3>2. u[q - p + 1] \in Units
      BY <3>1
    <3> QED
      BY <2>1, <3>2
  <2>2. CASE q \notin p..(p + Len(u) - 1) /\ q <= Len(s)
    <3>1. q \in 1..Len(s)
      BY <1>1, <2>2
    <3>2. s[q] \in Units
      BY <1>4, <3>1 DEF UnitsPast
    <3> QED
      BY <2>2, <3>2
  <2>3. CASE q \notin p..(p + Len(u) - 1) /\ ~(q <= Len(s))
    BY <1>3, <2>3
  <2> QED
    BY <2>1, <2>2, <2>3
<1> HIDE DEF K, w, v
<1>5. DOMAIN w = 1..K /\ \A q \in 1..K : w[q] = v(q)
  BY <1>2
<1>6. Len(w) = K
  BY <1>1, <1>2, <1>5
<1>7. UnitsPast(w, n)
  BY <1>4, <1>5, <1>6 DEF UnitsPast
<1> QED
  BY <1>2, <1>7 DEF w

\* Behind the table come units.
LEMMA BehindUnits ==
  ASSUME NEW a \in Seq(Cells), NEW u \in Seq(Units)
  PROVE  a \o u \in Seq(Cells) /\ UnitsPast(a \o u, Len(a))
<1>1. u \in Seq(Cells)
  BY DEF Cells
<1> DEFINE w == a \o u
<1>2. /\ w \in Seq(Cells) /\ Len(w) = Len(a) + Len(u) /\ Len(a) \in Nat /\ Len(u) \in Nat
      /\ \A k \in 1..Len(u) : w[Len(a) + k] = u[k]
  BY <1>1, Behind
<1> HIDE DEF w
<1>3. ASSUME NEW q \in 1..Len(w), q > Len(a) PROVE w[q] \in Units
  <2>1. q - Len(a) \in 1..Len(u) /\ Len(a) + (q - Len(a)) = q
    BY <1>2, <1>3
  <2>2. w[q] = u[q - Len(a)]
    BY <1>2, <2>1
  <2> QED
    BY <2>1, <2>2
<1> QED
  BY <1>2, <1>3 DEF UnitsPast, w

\* A heap of units, joined with units.
LEMMA UnitsJoin ==
  \A u, v \in Seq(Units) : u \o v \in Seq(Units)
OBVIOUS

\* More rows, more tiles.
LEMMA TilesGrow ==
  ASSUME NEW m \in Nat, NEW n \in Nat, m <= n PROVE Tiles(m) <= Tiles(n)
<1>1. Tiles(m) \in Nat /\ Tiles(n) \in Nat
  BY TilesNat
<1>2. CASE Tiles(m) = 0
  BY <1>1, <1>2
<1>3. CASE Tiles(m) # 0
  <2> DEFINE i == Tiles(m)
  <2>1. i \in Nat \ {0}
    BY <1>1, <1>3
  <2> HIDE DEF i
  <2>2. Lo(i) \in Nat
    BY <2>1, Products
  <2>3. i <= Tiles(m)
    BY <1>1 DEF i
  <2>4. Lo(i) < m
    BY <2>1, <2>3, TileIsThere
  <2>5. Lo(i) < n
    BY <2>2, <2>4
  <2>6. i <= Tiles(n)
    BY <2>1, <2>5, TileIsThere
  <2> QED
    BY <2>6 DEF i
<1> QED
  BY <1>2, <1>3

\* The section is the table and, behind it, units.
SectTyped == UnitsPast(sect, cards.tiles)

\* The section that a call leaves.
LEMMA CommitTyped ==
  ASSUME Typed, FileOK, SectTyped, NEW c, Finished(c), sect' = NewSect(c), cards' = NewCards(c)
  PROVE  SectTyped'
<1> DEFINE n == Tiles(RowsAfter(c))
           M == NewMain(c)
           Q == cards.tiles
           own == c.prim \o c.fall
           s == NewSect(c)
<1>1. /\ Fits(c) /\ c.cards = cards /\ c.prim \in Seq(Units) /\ c.fall \in Seq(Units)
  BY DEF Finished, WriteOK
<1>2. /\ c.op \in {"write", "extend", "setitem"} /\ (c.op # "extend" => RowsAfter(c) = cards.rows)
      /\ cards.rows \in Nat /\ RowsAfter(c) \in Nat /\ cards.rows <= RowsAfter(c)
  BY <1>1, FitsFacts
<1>3. n \in Nat /\ M \in Seq(Cells) /\ Len(M) = n
  <2>1. n \in Nat /\ M \in Seq(Descs) /\ Len(M) = n
    BY MainIs
  <2> HIDE DEF M
  <2>2. M \in Seq(Cells)
    BY <2>1 DEF Cells
  <2> QED
    BY <2>1, <2>2
<1>4. own \in Seq(Units)
  BY <1>1, UnitsJoin
<1>5. /\ sect \in Seq(Cells) /\ Q \in Nat /\ cards.pcount \in Nat /\ Q + cards.pcount <= Len(sect)
      /\ Q = Tiles(cards.rows)
  BY TileIsThere DEF FileOK
<1>6. cards'.tiles = n
  BY NewCardsAre
<1>7. Q <= n
  BY <1>2, <1>5, TilesGrow
<1>8. UnitsPast(sect, n)
  <2> HIDE DEF n, Q
  <2>1. UnitsPast(sect, Q)
    BY DEF SectTyped, Q
  <2> QED
    BY <1>3, <1>5, <1>7, <2>1 DEF UnitsPast
<1>9. \A u \in Seq(Units) : u \in Seq(Cells)
  BY DEF Cells
<1> HIDE DEF n, M, Q, own
<1>10. CASE c.op = "write"
  <2>1. s = (M \o c.prim) \o c.fall
    BY <1>10 DEF NewSect, WriteSect, M
  <2>2. s = M \o own
    BY <1>1, <1>3, <1>9, <2>1, Joined DEF own
  <2> HIDE DEF s
  <2>3. UnitsPast(s, n)
    BY <1>3, <1>4, <2>2, BehindUnits
  <2> QED
    BY <1>6, <2>3 DEF SectTyped, s
<1>11. CASE c.op = "extend"
  <2> DEFINE h == OldHeap(c)
             b == cards.pcount
             u == M \o (h \o own)
  <2>1. h \in Seq(Units)
    <3>1. h = SubSeq(sect, Q + 1, Q + b)
      BY <1>1 DEF OldHeap, Q
    <3>2. \A k \in (Q + 1)..(Q + b) : sect[k] \in Units
      <4> SUFFICES ASSUME NEW k \in (Q + 1)..(Q + b) PROVE sect[k] \in Units
        OBVIOUS
      <4>1. k \in 1..Len(sect) /\ k > Q
        <5> HIDE DEF b
        <5>1. b \in Nat /\ Q + b <= Len(sect) /\ Len(sect) \in Nat
          BY <1>5 DEF b
        <5> QED
          BY <1>5, <5>1
      <4> QED
        BY <4>1 DEF SectTyped, UnitsPast, Q
    <3>3. Q + 1 \in Int /\ Q + b \in Int
      BY <1>5
    <3> HIDE DEF h, b
    <3> QED
      BY <3>1, <3>2, <3>3, SubSeqProperties
  <2>2. s = WriteAt(sect, 1, ((M \o h) \o c.prim) \o c.fall)
    BY <1>11 DEF NewSect, ExtendSect, M
  <2> HIDE DEF h
  <2>3. ((M \o h) \o c.prim) \o c.fall = u
    <3>1. (M \o h) \in Seq(Cells)
      BY <1>3, <1>9, <2>1, Behind
    <3>2. ((M \o h) \o c.prim) \o c.fall = (M \o h) \o own
      <4> DEFINE a == M \o h
      <4>1. a \in Seq(Cells)
        BY <3>1
      <4> HIDE DEF a
      <4>2. (a \o c.prim) \o c.fall = a \o (c.prim \o c.fall)
        BY <1>1, <1>9, <4>1, Joined
      <4> QED
        BY <4>2 DEF a, own
    <3>3. (M \o h) \o own = M \o (h \o own)
      BY <1>3, <1>4, <1>9, <2>1, Joined
    <3> QED
      BY <3>2, <3>3
  <2>4. u \in Seq(Cells) /\ UnitsPast(u, n)
    <3> DEFINE g == h \o own
    <3>1. g \in Seq(Units)
      BY <1>4, <2>1, UnitsJoin
    <3> HIDE DEF g
    <3>2. M \o g \in Seq(Cells) /\ UnitsPast(M \o g, Len(M))
      BY <1>3, <3>1, BehindUnits
    <3> QED
      BY <1>3, <3>2 DEF g
  <2> HIDE DEF u, s
  <2>5. \A k \in 1..Len(u) : 1 + k - 1 > n => u[k] \in Units
    <3> SUFFICES ASSUME NEW k \in 1..Len(u), 1 + k - 1 > n PROVE u[k] \in Units
      OBVIOUS
    <3>1. k > n
      BY <1>3, <2>4
    <3> QED
      BY <2>4, <3>1 DEF UnitsPast
  <2>6. UnitsPast(s, n)
    <3>1. 1 \in Nat \ {0}
      OBVIOUS
    <3> QED
      BY <1>3, <1>5, <1>8, <2>2, <2>3, <2>4, <2>5, <3>1, WriteAtUnits
  <2> QED
    BY <1>6, <2>6 DEF SectTyped, s
<1>12. CASE c.op = "setitem"
  <2> DEFINE w == WriteAt(sect, 1, M)
             p == Q + cards.pcount + 1
  <2>1. s = WriteAt(w, p, own)
    BY <1>1, <1>12 DEF NewSect, SetItemSect, M, own, Q
  <2>2. w \in Seq(Cells) /\ UnitsPast(w, n)
    <3>1. 1 \in Nat \ {0}
      OBVIOUS
    <3>2. \A k \in 1..Len(M) : 1 + k - 1 > n => M[k] \in Units
      BY <1>3
    <3> QED
      BY <1>3, <1>5, <1>8, <3>1, <3>2, WriteAtUnits
  <2>3. p \in Nat \ {0}
    BY <1>5
  <2> HIDE DEF w, p, s
  <2>4. \A k \in 1..Len(own) : own[k] \in Units
    BY <1>4
  <2>5. own \in Seq(Cells)
    BY <1>4, <1>9
  <2>6. UnitsPast(s, n)
    BY <1>3, <2>1, <2>2, <2>3, <2>4, <2>5, WriteAtUnits
  <2> QED
    BY <1>6, <2>6 DEF SectTyped, s
<1> QED
  BY <1>2, <1>10, <1>11, <1>12

\* The section that a repack leaves.
LEMMA RepackTyped ==
  ASSUME Typed, FileOK, SectTyped, BlobsInHeap, image' = image,
         sect' = PackedMain \o PackedUnits, cards' = [cards EXCEPT !.pcount = NewPcount]
  PROVE  SectTyped'
<1> DEFINE Q == cards.tiles
           S == NewPcount
<1>1. cards'.tiles = Q
  BY DEF Typed, CardsOK
<1>2. Q \in Nat /\ cards.pcount \in Nat /\ sect \in Seq(Cells) /\ Q + cards.pcount <= Len(sect)
  BY TileIsThere DEF FileOK
<1>3. S \in Nat /\ \A p \in 1..S : \E k \in 1..cards.pcount : PackedUnits[p] = sect[Q + k]
  BY PackedIs
<1>4. Len(sect') = Q + S /\ \A k \in 1..S : sect'[Q + k] = PackedUnits[k]
  BY RepackKept
<1> HIDE DEF Q, S
<1>5. ASSUME NEW q \in 1..Len(sect'), q > Q PROVE sect'[q] \in Units
  <2>1. q - Q \in 1..S /\ Q + (q - Q) = q
    BY <1>2, <1>3, <1>4, <1>5
  <2>2. PICK k \in 1..cards.pcount : PackedUnits[q - Q] = sect[Q + k]
    BY <1>3, <2>1
  <2>3. sect'[q] = sect[Q + k]
    BY <1>4, <2>1, <2>2
  <2>4. Q + k \in 1..Len(sect) /\ Q + k > Q
    BY <1>2
  <2>5. sect[Q + k] \in Units
    BY <2>4 DEF SectTyped, UnitsPast, Q
  <2> QED
    BY <2>3, <2>5
<1> QED
  BY <1>1, <1>5 DEF SectTyped, UnitsPast, Q

\* Every step keeps the section typed.
LEMMA SectStep ==
  ASSUME Typed, Content, Spare, SectTyped, Next, gil' = None, ~clobbered' PROVE SectTyped'
<1>0. FileOK
  BY DEF Content
<1>1. PICK t \in Threads : UNCHANGED <<cards, sect>> \/ Commit(t) \/ Repack(t)
  BY SectMoves DEF Next
<1>2. CASE UNCHANGED <<cards, sect>>
  BY <1>2 DEF SectTyped, UnitsPast
<1>3. CASE Commit(t)
  BY <1>3, Committed, CommitTyped
<1>4. CASE Repack(t)
  BY <1>0, <1>4, Repacked, RepackTyped
<1> QED
  BY <1>1, <1>2, <1>3, <1>4

\* The cards are a record of three.
Cards == [rows : Nat, tiles : Nat, pcount : Nat]

\* Every step keeps them so.
LEMMA CardsStep ==
  ASSUME Typed, Content, Spare, cards \in Cards, Next, gil' = None, ~clobbered' PROVE cards' \in Cards
<1>0. FileOK
  BY DEF Content
<1>1. PICK t \in Threads : UNCHANGED <<cards, sect>> \/ Commit(t) \/ Repack(t)
  BY SectMoves DEF Next
<1>2. CASE UNCHANGED <<cards, sect>>
  BY <1>2
<1>3. CASE Commit(t)
  <2> DEFINE c == call[t]
  <2>1. Typed /\ FileOK /\ Finished(c) /\ cards' = NewCards(c)
    BY <1>3, Committed
  <2> HIDE DEF c
  <2>2. /\ Fits(c) /\ c.cards = cards /\ Len(c.prim) \in Nat /\ Len(c.fall) \in Nat
    BY <2>1 DEF Finished, WriteOK
  <2>3. /\ c.op \in {"write", "extend", "setitem"} /\ RowsAfter(c) \in Nat
        /\ Tiles(RowsAfter(c)) \in Nat
    BY <2>2, FitsFacts, TilesNat
  <2>4. cards.pcount + Len(c.prim) + Len(c.fall) \in Nat /\ Len(c.prim) + Len(c.fall) \in Nat
    <3> DEFINE x == Len(c.prim)
               y == Len(c.fall)
               z == cards.pcount
    <3>1. x \in Nat /\ y \in Nat /\ z \in Nat
      BY <2>1, <2>2 DEF FileOK
    <3> HIDE DEF x, y, z
    <3>2. z + x + y \in Nat /\ x + y \in Nat
      BY <3>1
    <3> QED
      BY <3>2 DEF x, y, z
  <2> DEFINE k == [cards EXCEPT !.pcount = cards.pcount + Len(c.prim) + Len(c.fall)]
  <2>5. k \in Cards
    BY <2>4 DEF Cards
  <2>6. CASE c.op = "write"
    <3>1. cards' = [cards EXCEPT !.pcount = Len(c.prim) + Len(c.fall)]
      BY <2>1, <2>6 DEF NewCards, WriteCards
    <3> QED
      BY <2>4, <3>1 DEF Cards
  <2>7. CASE c.op = "setitem"
    BY <2>1, <2>2, <2>5, <2>7 DEF NewCards, SetItemCards
  <2>8. CASE c.op = "extend"
    <3>1. cards' = [k EXCEPT !.rows = RowsAfter(c), !.tiles = Tiles(RowsAfter(c))]
      BY <2>1, <2>2, <2>8 DEF NewCards, ExtendCards, SetItemCards
    <3> HIDE DEF k
    <3> QED
      BY <2>3, <2>5, <3>1 DEF Cards
  <2> QED
    BY <2>3, <2>6, <2>7, <2>8
<1>4. CASE Repack(t)
  <2>1. cards' = [cards EXCEPT !.pcount = NewPcount] /\ FileOK /\ BlobsInHeap
    BY <1>0, <1>4, Repacked
  <2>2. NewPcount \in Nat
    BY <2>1, PackedIs
  <2> QED
    BY <2>1, <2>2 DEF Cards
<1> QED
  BY <1>1, <1>2, <1>3, <1>4

\* The flags, and the threads that have the mutex and the GIL.
Flags ==
    /\ {tainted, open, lost, clobbered} \subseteq BOOLEAN /\ pending.on \in BOOLEAN
    /\ mutex \in Threads \cup {None} /\ gil \in Threads \cup {None}

\* Every step keeps their types.
LEMMA FlagsStep ==
  ASSUME Typed, Flags, [Next]_vars PROVE Flags'
<1>0. /\ tainted \in BOOLEAN /\ open \in BOOLEAN /\ lost \in BOOLEAN /\ pending.on \in BOOLEAN
      /\ mutex \in Threads \cup {None} /\ DOMAIN pending = {"on", "rows", "total"}
  BY DEF Flags, Typed
<1>1. ASSUME NEW t \in Threads, GoesOn(t)
      PROVE  /\ tainted' \in BOOLEAN /\ open' \in BOOLEAN /\ lost' \in BOOLEAN
             /\ pending'.on \in BOOLEAN /\ mutex' \in Threads \cup {None}
  <2>1. CASE ReadTile(t) \/ LoadMain(t) \/ Commit(t)
    BY <1>0, <2>1 DEF ReadTile, LoadMain, Commit, file, ghosts
  <2>2. CASE EncodeTile(t)
    <3>1. UNCHANGED <<tainted, open, pending, mutex>> /\ (lost' = lost \/ Fails(t))
      BY <2>2 DEF EncodeTile, file
    <3> QED
      BY <1>0, <3>1 DEF Fails
  <2>3. CASE CommitFails(t)
    BY <1>0, <2>3 DEF CommitFails, Fails
  <2>4. CASE Popped(t) \/ PopFails(t)
    BY <1>0, <2>4 DEF Popped, PopFails, file, ghosts
  <2> QED
    BY <1>1, <2>1, <2>2, <2>3, <2>4 DEF GoesOn
<1>2. ASSUME NEW t \in Threads, Read(t) \/ Change(t)
      PROVE  /\ tainted' \in BOOLEAN /\ open' \in BOOLEAN /\ lost' \in BOOLEAN
             /\ pending'.on \in BOOLEAN /\ mutex' \in Threads \cup {None}
  <2>1. ASSUME NEW c, Enters(t, c) PROVE UNCHANGED <<tainted, open, lost, pending, mutex>>
    BY <2>1 DEF Enters, Starts, file, ghosts
  <2>2. ASSUME NEW data, BufferRows(t, data)
        PROVE  UNCHANGED <<tainted, open, lost>> /\ pending'.on = pending.on /\ mutex' \in {mutex, t}
    BY <1>0, <2>2 DEF BufferRows, Starts, file, ghosts
  <2>3. CASE Repack(t) \/ RepackFails(t) \/ EnterContext(t) \/ Close(t)
    BY <1>0, <2>3 DEF Repack, RepackFails, EnterContext, Close, Starts, file, ghosts, NoBuffer
  <2>4. CASE ExitContext(t)
    <3>1. /\ UNCHANGED <<tainted, open, mutex>> /\ (lost' = lost \/ lost' = TRUE)
          /\ pending' = pending \/ pending' = NoBuffer
      BY <2>4 DEF ExitContext, Starts, file, ghosts
    <3>2. NoBuffer.on = FALSE
      BY DEF NoBuffer
    <3> QED
      BY <1>0, <3>1, <3>2
  <2>5. CASE ClearCache(t) \/ \E cap \in Capacities : ResizeCache(t, cap)
    BY <1>0, <2>5 DEF ClearCache, ResizeCache, file, ghosts
  <2>6. \/ \E c : Enters(t, c)
        \/ \E data : BufferRows(t, data)
        \/ Repack(t) \/ RepackFails(t) \/ EnterContext(t) \/ Close(t) \/ ExitContext(t)
        \/ ClearCache(t) \/ \E cap \in Capacities : ResizeCache(t, cap)
    BY <1>2 DEF Read, Change, BeginRead, BeginWrite, BeginExtend, BeginSetItem
  <2> QED
    BY <1>0, <2>1, <2>2, <2>3, <2>4, <2>5, <2>6
<1>5. ASSUME Next PROVE clobbered' \in BOOLEAN
  <2>1. clobbered \in BOOLEAN
    BY DEF Flags
  <2>2. PICK b : clobbered' = clobbered \/ clobbered' = (clobbered \/ b)
    BY <1>5, ClobberMoves
  <2> QED
    BY <2>1, <2>2
<1>6. ASSUME Next PROVE gil' \in Threads \cup {None}
  BY <1>6, NextBlocks DEF Blocks
<1>3. CASE UNCHANGED vars
  BY <1>3 DEF Flags, vars
<1>4. CASE Next
  <2>1. /\ tainted' \in BOOLEAN /\ open' \in BOOLEAN /\ lost' \in BOOLEAN
        /\ pending'.on \in BOOLEAN /\ mutex' \in Threads \cup {None}
    BY <1>1, <1>2, <1>4 DEF Next
  <2> QED
    BY <1>4, <1>5, <1>6, <2>1 DEF Flags
<1> QED
  BY <1>3, <1>4

\* What is in the buffer and in the hands of an extend fits the bound on the rows.
Room ==
    /\ Len(pending.rows) <= pending.total /\ (~pending.on => pending.total = 0)
    /\ cards.rows + pending.total <= MaxRows
    /\ \A t \in Threads :
         call[t].op = "extend" => cards.rows + Len(call[t].data) + pending.total <= MaxRows

\* Every step keeps the room.
LEMMA RoomStep ==
  ASSUME Typed, Solo, Content, Room, NEW t \in Threads, Quiet \/ Steps(t) PROVE Room'
<1> USE Kinds
<1>0. /\ Typed /\ Solo /\ Content /\ CardsOK(cards) /\ cards.rows \in Nat /\ pending.rows \in Seq(Vals)
      /\ pending.total \in Nat /\ Len(pending.rows) \in Nat /\ MaxRows \in Nat
  BY TileAssumption DEF Typed, CardsOK
<1>1. CASE Quiet
  BY <1>1 DEF Quiet, Unmoved, Room
<1>2. CASE Opens
  <2>1. /\ call' = call /\ \A u \in Threads : call[u] = Idle
        /\ pending'.total = 0 /\ pending'.rows = <<>> /\ cards'.rows = cards.rows
    BY <1>2 DEF Opens, AllIdle, NoBuffer, Unmoved
  <2>2. cards.rows <= MaxRows
    BY <1>0 DEF Room
  <2> QED
    BY <1>0, <2>1, <2>2 DEF Room
<1>3. ASSUME NEW c, Begins(t, c) PROVE Room'
  <2>1. /\ cards'.rows = cards.rows /\ pending' = pending /\ ~pending.on
        /\ c.op = "extend" => cards.rows + Len(c.data) <= MaxRows
        /\ Len(c.data) \in Nat
    BY <1>3 DEF Begins, Unmoved, Working
  <2>2. call'[t] = c /\ \A u \in Threads \ {t} : call'[u] = call[u]
    BY <1>0, <1>3, Calls DEF Begins
  <2>3. pending.total = 0
    BY <2>1 DEF Room
  <2>4. c.op = "extend" => cards.rows + Len(c.data) + pending.total <= MaxRows
    BY <1>0, <2>1, <2>3
  <2> QED
    BY <2>1, <2>2, <2>4 DEF Room
<1>4. ASSUME NEW data, Buffers(t, data) PROVE Room'
  <2> DEFINE total == pending.total + Len(data)
             c == [op |-> "pop", ph |-> "main", n |-> AlignedDrainRows(cards.rows, total)]
  <2>1. /\ \A u \in Threads : call[u] = Idle
        /\ cards'.rows = cards.rows /\ data \in Seq(Vals) /\ pending.on
        /\ pending' = [pending EXCEPT !.rows = @ \o data, !.total = total]
        /\ cards.rows + total <= MaxRows
        /\ call' = call \/ Becomes(t, c)
    BY <1>4 DEF Buffers, Unmoved, AllIdle
  <2>2. pending'.total = total /\ pending'.rows = pending.rows \o data /\ pending'.on = pending.on
    BY <1>0, <2>1 DEF Typed
  <2>3. Len(pending'.rows) <= total
    <3>1. Len(pending'.rows) = Len(pending.rows) + Len(data) /\ Len(data) \in Nat
      BY <1>0, <2>1, <2>2
    <3> QED
      BY <1>0, <3>1 DEF Room
  <2>4. c.op = "pop"
    OBVIOUS
  <2> HIDE DEF total, c
  <2>5. \A u \in Threads : call'[u].op # "extend"
    <3>1. Becomes(t, c) => call'[t] = c /\ \A u \in Threads \ {t} : call'[u] = call[u]
      BY <1>0, Calls
    <3> QED
      BY <2>1, <2>4, <3>1
  <2> QED
    BY <2>1, <2>2, <2>3, <2>5 DEF Room
<1>5. CASE Leaves(t)
  <2>1. /\ \A u \in Threads : call[u] = Idle
        /\ cards'.rows = cards.rows
        /\ ~pending'.on /\ pending'.total = 0 /\ Len(pending'.rows) = 0
    BY <1>5 DEF Leaves, Unmoved, AllIdle, NoBuffer
  <2>2. cards.rows <= MaxRows /\ cards.rows + 0 = cards.rows
        /\ cards.rows + Len(pending.rows) + 0 <= MaxRows
    BY <1>0 DEF Room
  <2>3. CASE call' = call
    BY <2>1, <2>2, <2>3 DEF Room
  <2>4. CASE Becomes(t, Drain(pending.rows))
    <3>1. Drain(pending.rows).data = pending.rows
      BY <1>0, DrainWorks
    <3>2. call'[t] = Drain(pending.rows) /\ \A u \in Threads \ {t} : call'[u] = call[u]
      BY <1>0, <2>4, Calls
    <3> QED
      BY <2>1, <2>2, <3>1, <3>2 DEF Room
  <2> QED
    BY <1>5, <2>3, <2>4 DEF Leaves
<1>6. ASSUME NEW d, Continues(t, d) PROVE Room'
  <2>1. /\ cards'.rows = cards.rows /\ pending' = pending
        /\ d.op = call[t].op /\ d.data = call[t].data
    BY <1>6 DEF Continues, SameCall, Unmoved
  <2>2. call'[t] = d /\ \A u \in Threads \ {t} : call'[u] = call[u]
    BY <1>0, <1>6, Calls DEF Continues
  <2> QED
    BY <2>1, <2>2 DEF Room
<1>7. CASE Stops(t)
  <2>1. pending' = pending /\ cards'.rows = cards.rows /\ Becomes(t, Idle)
    BY <1>7 DEF Stops, Unmoved
  <2>2. call'[t] = Idle /\ \A u \in Threads \ {t} : call'[u] = call[u]
    BY <1>0, <2>1, Calls
  <2> QED
    BY <2>1, <2>2 DEF Room
<1>8. CASE Commits(t)
  <2> DEFINE c == call[t]
  <2>1. /\ pending' = pending /\ Becomes(t, Idle) /\ Working(c) /\ c.op # "read"
        /\ cards'.rows = IF c.op = "extend" THEN c.cards.rows + Len(c.data) ELSE cards.rows
    BY <1>8 DEF Commits
  <2>2. call'[t] = Idle /\ \A u \in Threads \ {t} : call'[u] = call[u]
    BY <1>0, <2>1, Calls
  <2>3. CASE c.op = "extend"
    <3>1. \A u \in Threads \ {t} : call[u] = Idle
      BY <1>0, <2>3 DEF Solo
    <3>2. c.cards = cards
      BY <1>0, <2>1 DEF Content, WorkOK, WriteOK
    <3>3. cards'.rows + pending.total <= MaxRows
      BY <2>1, <2>3, <3>2 DEF Room
    <3> QED
      BY <2>1, <2>2, <3>1, <3>3 DEF Room
  <2>4. CASE c.op # "extend"
    BY <2>1, <2>2, <2>4 DEF Room
  <2> QED
    BY <2>3, <2>4
<1>9. CASE Pops(t)
  <2> DEFINE n == Least(call[t].n, Len(pending.rows))
             q == SubSeq(pending.rows, 1, n)
             rest == SubSeq(pending.rows, n + 1, Len(pending.rows))
  <2>1. /\ cards'.rows = cards.rows /\ Popping(call[t])
        /\ pending' = [pending EXCEPT !.rows = rest, !.total = Len(rest)] /\ Becomes(t, Drain(q))
    BY <1>9 DEF Pops, Unmoved
  <2>2. /\ n \in 0..Len(pending.rows) /\ q \in Seq(Vals) /\ Len(q) = n /\ rest \in Seq(Vals)
    BY <1>0, <2>1, PoppedRows
  <2>3. Len(rest) = Len(pending.rows) - n
    <3> HIDE DEF n
    <3> QED
      BY <1>0, <2>2
  <2>4. pending.on /\ \A u \in Threads \ {t} : call[u] = Idle
    BY <1>0, <2>1 DEF Solo
  <2> HIDE DEF n, q, rest
  <2>5. Drain(q).op = "extend" /\ Drain(q).data = q
    BY <1>0, <2>2, DrainWorks
  <2>6. pending'.on = pending.on /\ pending'.rows = rest /\ pending'.total = Len(rest)
    BY <1>0, <2>1 DEF Typed
  <2>7. call'[t] = Drain(q) /\ \A u \in Threads \ {t} : call'[u] = call[u]
    BY <1>0, <2>1, Calls
  <2>8. /\ cards.rows + Len(rest) <= MaxRows /\ cards.rows + Len(q) + Len(rest) <= MaxRows
        /\ Len(rest) <= Len(rest)
    BY <1>0, <2>2, <2>3 DEF Room
  <2> QED
    BY <2>1, <2>4, <2>5, <2>6, <2>7, <2>8 DEF Room
<1>10. CASE PopsBadly(t)
  <2> DEFINE n == Least(call[t].n, Len(pending.rows))
             rest == SubSeq(pending.rows, n + 1, Len(pending.rows))
  <2>1. /\ Becomes(t, Idle) /\ cards'.rows = cards.rows /\ Popping(call[t])
        /\ pending' = [pending EXCEPT !.rows = SubSeq(@, n + 1, Len(@))]
    BY <1>10 DEF PopsBadly, Unmoved
  <2>2. n \in 0..Len(pending.rows)
    BY <1>0, <2>1, PoppedRows
  <2>3. Len(rest) <= Len(pending.rows) /\ Len(rest) \in Nat
    <3> HIDE DEF n
    <3> QED
      BY <1>0, <2>2
  <2>4. call'[t] = Idle /\ \A u \in Threads \ {t} : call'[u] = call[u]
    BY <1>0, <2>1, Calls
  <2>5. pending'.on = pending.on /\ pending'.rows = rest /\ pending'.total = pending.total
    BY <1>0, <2>1 DEF Typed
  <2> HIDE DEF rest
  <2>6. Len(rest) <= pending.total
    BY <1>0, <2>3 DEF Room
  <2> QED
    BY <2>1, <2>4, <2>5, <2>6 DEF Room
<1> QED
  BY <1>1, <1>2, <1>3, <1>4, <1>5, <1>6, <1>7, <1>8, <1>9, <1>10 DEF Steps

\* The types of the state, beside what Sound says.
Shape == Flags /\ (~clobbered => Room /\ SectTyped /\ cards \in Cards)

\* The first state has them.
LEMMA InitShape == Init => Shape
<1> SUFFICES ASSUME Init PROVE Shape
  OBVIOUS
<1>1. Flags
  BY DEF Init, Flags, NoBuffer
<1>2. Room
  <2>1. PICK n \in 0..(TileRows + 1) : cards = [rows |-> n, tiles |-> Tiles(n), pcount |-> 0]
    BY DEF Init
  <2>2. cards.rows = n
    BY <2>1
  <2>3. n \in Nat /\ n + 0 <= MaxRows
    BY TileAssumption, RowAssumption
  <2>4. pending.total = 0 /\ Len(pending.rows) = 0 /\ \A t \in Threads : call[t].op # "extend"
    BY Kinds DEF Init, NoBuffer
  <2> QED
    BY <2>2, <2>3, <2>4 DEF Room
<1>3. SectTyped
  <2>1. cards.tiles \in Nat
    BY InitTyped DEF Typed, CardsOK
  <2>2. sect = [i \in 1..cards.tiles |-> NoDesc]
    BY DEF Init
  <2>3. Len(sect) = cards.tiles
    BY <2>1, <2>2
  <2> QED
    BY <2>1, <2>3 DEF SectTyped, UnitsPast
<1>4. cards \in Cards
  <2>1. PICK n \in 0..(TileRows + 1) : cards = [rows |-> n, tiles |-> Tiles(n), pcount |-> 0]
    BY DEF Init
  <2>2. n \in Nat /\ Tiles(n) \in Nat
    BY TileAssumption, TilesNat
  <2> QED
    BY <2>1, <2>2 DEF Cards
<1> QED
  BY <1>1, <1>2, <1>3, <1>4 DEF Shape

\* With such callers, the state keeps its types: ZNAXISn and NAXIS2 agree with each other
\* and with the image, which never outgrows the bound through any number of drains; the
\* section is a table of descriptors and, behind it, only units of encoded tiles, never a
\* descriptor that an extend, a setitem or a repack that clobbered nothing has left there.
THEOREM ImageTypeCorrect ==
  ASSUME Coordinated PROVE Spec => []TypeOK
<1>1. Init => Shape
  BY InitShape
<1>2. ASSUME Sound, Shape, [Next]_vars PROVE Shape'
  <2>1. Flags'
    BY <1>2, FlagsStep DEF Sound, Shape
  <2> SUFFICES ASSUME ~clobbered' PROVE Room' /\ SectTyped' /\ cards' \in Cards
    BY <2>1 DEF Shape
  <2>2. Typed /\ Content /\ Spare /\ Room /\ SectTyped /\ cards \in Cards
    BY <1>2, ClobberedStays DEF Sound, Shape
  <2>3. CASE UNCHANGED vars
    BY <2>2, <2>3 DEF vars, Room, SectTyped, UnitsPast
  <2>4. CASE Next /\ gil' = None
    <3>0. Solo
      BY <1>2, <2>4, NextRuns DEF Sound
    <3>1. PICK t \in Threads : Quiet \/ Steps(t)
      BY <2>2, <2>4, <3>0, NextSteps DEF Next
    <3> QED
      BY <2>2, <2>4, <3>0, <3>1, RoomStep, SectStep, CardsStep
  <2>5. CASE Next /\ gil' # None
    <3>1. PICK t \in Threads : Blocks(t)
      BY <2>5, NextBlocks
    <3>2. UNCHANGED <<cards, sect, pending>> /\ Becomes(t, Waiting)
      BY <3>1 DEF Blocks
    <3>3. SectTyped' /\ cards' \in Cards
      BY <2>2, <3>2 DEF SectTyped, UnitsPast
    <3>4. call'[t] = Waiting /\ Waiting.op # "extend" /\ \A u \in Threads \ {t} : call'[u] = call[u]
      BY <2>2, <3>2, Calls DEF Waiting
    <3>5. Room'
      BY <2>2, <3>2, <3>4 DEF Room
    <3> QED
      BY <3>3, <3>5
  <2> QED
    BY <1>2, <2>3, <2>4, <2>5
<1>3. Sound /\ Shape /\ [Next]_vars => Shape'
  BY <1>2
<1>4. Sound /\ Shape => TypeOK
  <2> SUFFICES ASSUME Sound, Shape PROVE TypeOK
    OBVIOUS
  <2>6. Flags /\ Typed
    BY DEF Shape, Sound
  <2>4. pending.rows \in Rows /\ pending.total \in Nat
    BY <2>6 DEF Typed, Rows
  <2> SUFFICES ASSUME ~clobbered
               PROVE  /\ cards \in [rows : 0..MaxRows, tiles : 0..Tiles(MaxRows), pcount : Nat]
                      /\ cards.tiles = Tiles(cards.rows)
                      /\ image \in Rows /\ Len(image) = cards.rows
                      /\ \A p \in DOMAIN sect : sect[p].t = IF p <= cards.tiles THEN "desc" ELSE "unit"
    BY <2>4, <2>6 DEF TypeOK, Flags
  <2>0. Room /\ SectTyped /\ cards \in Cards
    BY DEF Shape
  <2>1. Typed /\ FileOK
    BY DEF Sound, Content
  <2>2. cards \in [rows : 0..MaxRows, tiles : 0..Tiles(MaxRows), pcount : Nat]
    <3>1. /\ cards.rows \in Nat /\ cards.tiles = Tiles(cards.rows) /\ cards.pcount \in Nat
          /\ MaxRows \in Nat /\ pending.total \in Nat
      BY <2>1, TileAssumption DEF FileOK, Typed
    <3>2. cards.rows <= MaxRows
      BY <2>0, <3>1 DEF Room
    <3>3. Tiles(cards.rows) <= Tiles(MaxRows) /\ Tiles(cards.rows) \in Nat /\ Tiles(MaxRows) \in Nat
      BY <3>1, <3>2, TilesGrow, TilesNat
    <3>4. cards.rows \in 0..MaxRows /\ cards.tiles \in 0..Tiles(MaxRows)
      BY <3>1, <3>2, <3>3
    <3> QED
      BY <2>0, <3>1, <3>4 DEF Cards
  <2>3. ASSUME NEW p \in DOMAIN sect PROVE sect[p].t = IF p <= cards.tiles THEN "desc" ELSE "unit"
    <3>1. p \in 1..Len(sect) /\ p \in Nat /\ cards.tiles \in Nat
      BY <2>1 DEF FileOK, Typed, CardsOK
    <3>2. CASE p <= cards.tiles
      <4>1. p \in 1..cards.tiles
        BY <3>1, <3>2
      <4>2. sect[p] \in Descs
        BY <2>1, <4>1 DEF FileOK
      <4> QED
        BY <3>2, <4>2 DEF Descs
    <3>3. CASE ~(p <= cards.tiles)
      <4>1. p > cards.tiles
        BY <3>1, <3>3
      <4>2. sect[p] \in Units
        BY <2>0, <3>1, <4>1 DEF SectTyped, UnitsPast
      <4> QED
        BY <3>3, <4>2 DEF Units
    <3> QED
      BY <3>2, <3>3
  <2>5. image \in Rows /\ Len(image) = cards.rows /\ cards.tiles = Tiles(cards.rows)
    BY <2>1 DEF FileOK
  <2> QED
    BY <2>2, <2>3, <2>5
<1> QED
  BY <1>1, <1>3, <1>4, SoundHolds, PTL DEF Spec
=============================================================================
