--------------------------- MODULE FoundationHash ---------------------------
(***************************************************************************)
(* The hash table of third-party/foundation/hash.h, which maps the ids of  *)
(* entities to the indices of their components.  The entries lie in an     *)
(* array; the chain of a bucket runs through it by indices.                *)
(*                                                                         *)
(* Indices are 1 .. Len(data) here and End is 0: index i of the code is    *)
(* i + 1.  A table is a record of its buckets and its entries.             *)
(***************************************************************************)
EXTENDS Naturals, Sequences, SequencesExt, FiniteSetsExt

CONSTANTS
  BaseBuckets   \* grow makes size * 2 + BaseBuckets buckets; 10 in the code

ASSUME HashAssumption == BaseBuckets \in Nat \ {0, 1}

End      == 0
NewTable == [buckets |-> <<>>, data |-> <<>>]

BucketOf(h, key) == (key % Len(h.buckets)) + 1

\* The chain of bucket b, up to and including its End: the nth entry is at n.
Chain(h, b) ==
  LET node[n \in Nat] ==
        IF n = 0 THEN h.buckets[b]
        ELSE IF node[n - 1] = End THEN End ELSE h.data[node[n - 1]].next
  IN  [n \in 0 .. Len(h.data) |-> node[n]]

\* find: the first entry of the key's bucket that has the key, and the one
\* before it in the chain.
Find(h, key) ==
  IF h.buckets = <<>> THEN [bucket |-> End, prev |-> End, i |-> End]
  ELSE LET b == BucketOf(h, key)
           chain == Chain(h, b)
           n == Min({m \in DOMAIN chain :
                       chain[m] = End \/ h.data[chain[m]].key = key})
       IN [bucket |-> b, prev |-> IF n = 0 THEN End ELSE chain[n - 1], i |-> chain[n]]

\* hash::get, with a default.
HashGet(h, key, default) ==
  LET i == Find(h, key).i IN IF i = End THEN default ELSE h.data[i].value

HashHas(h, key) == Find(h, key).i # End

\* Entry i becomes the successor of fr.prev, or the head of fr's bucket.
Link(h, fr, i) ==
  IF fr.prev = End THEN [h EXCEPT !.buckets[fr.bucket] = i]
                   ELSE [h EXCEPT !.data[fr.prev].next = i]

\* multi_hash::insert into a table with room: a new entry goes before the
\* first one with its key.
Insert(h, entry) ==
  LET fr == Find(h, entry.key)
      added == [h EXCEPT !.data = Append(@, [entry EXCEPT !.next = fr.i])]
  IN  Link(added, fr, Len(added.data))

\* grow: every entry of the array is inserted into a new table, in order,
\* whether a chain reaches it or not.
Grow(h) ==
  LET size == Len(h.data) * 2 + BaseBuckets
      empty == [buckets |-> [b \in 1 .. size |-> End], data |-> <<>>]
      table[n \in 0 .. Len(h.data)] ==
        IF n = 0 THEN empty ELSE Insert(table[n - 1], h.data[n])
  IN  table[Len(h.data)]

\* full: the load reaches 0.7
Full(h) == 10 * Len(h.data) >= 7 * Len(h.buckets)

\* hash::set
HashSet(h, key, value) ==
  LET ready == IF h.buckets = <<>> THEN Grow(h) ELSE h
      fr == Find(ready, key)
      entry == [key |-> key, next |-> End, value |-> value]
      stored == IF fr.i # End
                  THEN [ready EXCEPT !.data[fr.i].value = value]
                  ELSE Link([ready EXCEPT !.data = Append(@, entry)], fr, Len(ready.data) + 1)
  IN  IF Full(stored) THEN Grow(stored) ELSE stored

\* erase: unlink the entry; drop it if it is the last of the array, or else
\* copy the last one over it and relink that.  Nothing drops the last one then.
Erase(h, fr) ==
  LET last == Len(h.data)
      unlinked == Link(h, fr, h.data[fr.i].next)
      moved == [unlinked EXCEPT !.data[fr.i] = unlinked.data[last]]
  IN  IF fr.i = last THEN [unlinked EXCEPT !.data = Front(@)]
      ELSE Link(moved, Find(moved, moved.data[fr.i].key), fr.i)

\* hash::remove
HashRemove(h, key) ==
  LET fr == Find(h, key) IN IF fr.i = End THEN h ELSE Erase(h, fr)

----------------------------------------------------------------------------
\* The entries that some chain reaches; the others are copies that erase left.
Linked(h) ==
  (UNION {{Chain(h, b)[n] : n \in 0 .. Len(h.data)} : b \in DOMAIN h.buckets}) \ {End}

Ghosts(h) == DOMAIN h.data \ Linked(h)

\* The next growth of the table, or the removal of key, links a ghost again.
GrowthResurrects(h, key) ==
  /\ Ghosts(h) # {}
  /\ 10 * (Len(h.data) + IF HashHas(h, key) THEN 0 ELSE 1) >= 7 * Len(h.buckets)

RemovalResurrects(h, key) ==
  /\ HashHas(h, key)
  /\ Find(h, key).i # Len(h.data)
  /\ Len(h.data) \in Ghosts(h)
============================================================================
