----------------------------- MODULE TileCache -----------------------------
(* BytesBoundLruCache of cache.rs: an LRU cache bounded by the bytes it     *)
(* holds. A cache is a record: lru is the sequence of entries, least        *)
(* recently used first, cur the bytes counted so far, cap the capacity.     *)
EXTENDS SequencesExt, PrefixSums

EmptyCache(cap) == [lru |-> <<>>, cur |-> 0, cap |-> cap]

CachedKeys(c) == {c.lru[i].key : i \in DOMAIN c.lru}

Where(c, key) == CHOOSE i \in DOMAIN c.lru : c.lru[i].key = key
CachedEntry(c, key) == c.lru[Where(c, key)]

LruWithout(c, key) == IF key \in CachedKeys(c) THEN RemoveAt(c.lru, Where(c, key)) ELSE c.lru

\* The bytes of the first n entries.
LruBytes(c, n) == SumTo([i \in DOMAIN c.lru |-> c.lru[i].size], n)

\* get: a hit becomes the most recently used entry.
Touched(c, key) == [c EXCEPT !.lru = Append(LruWithout(c, key), CachedEntry(c, key))]

\* The eviction loop of put and set_capacity: entries go, the oldest first, until
\* what is left and size more bytes fit into cap.
Evicted(c, size, cap) ==
    LET fits == {n \in 0..Len(c.lru) : c.cur - LruBytes(c, n) + size <= cap \/ n = Len(c.lru)}
        n    == CHOOSE n \in fits : \A m \in fits : n <= m
    IN  [c EXCEPT !.lru = SubSeq(@, n + 1, Len(@)), !.cur = @ - LruBytes(c, n)]

\* put: a value larger than the cache is not kept, an entry with the same key is
\* replaced.
CachePut(c, key, val, size) ==
    IF c.cap = 0 \/ size > c.cap THEN c
    ELSE LET old  == IF key \in CachedKeys(c) THEN CachedEntry(c, key).size ELSE 0
             gone == [c EXCEPT !.lru = LruWithout(c, key), !.cur = @ - old]
             room == Evicted(gone, size, c.cap)
         IN  [room EXCEPT !.lru = Append(@, [key |-> key, val |-> val, size |-> size]),
                          !.cur = @ + size]

\* Mutant: a smaller capacity only limits what is put later.
SetCapacityLater(c, cap) == [c EXCEPT !.cap = cap]

SetCapacity(c, cap) == [Evicted(c, 0, cap) EXCEPT !.cap = cap]

Clear(c) == EmptyCache(c.cap)

\* The count is the size of the entries, no key is there twice, and the capacity is kept.
WithinBudget(c) ==
    /\ c.cur = LruBytes(c, Len(c.lru))
    /\ c.cur <= c.cap
    /\ \A i, j \in DOMAIN c.lru : c.lru[i].key = c.lru[j].key => i = j
=============================================================================
