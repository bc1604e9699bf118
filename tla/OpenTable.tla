------------------------------ MODULE OpenTable ------------------------------
(***************************************************************************)
(* The hash table inside the cache of the C runtime, c/src/cache.c: open   *)
(* addressing with linear probing, deletion by shifting the entries behind *)
(* the hole back, and doubling at three quarters full.  ByteCache takes it *)
(* for granted that the table finds exactly the entries it holds.  Names   *)
(* begin with Table where a module that extends this one has its own.      *)
(***************************************************************************)
EXTENDS Integers, FiniteSets

CONSTANTS Keys,
          Hashes,     \* values of hash_key, of which slot_for takes the low bits
          InitSlots,  \* slots at cache_init; 1024 in the code
          Empty       \* a NULL slot

TableParameters == /\ Empty \notin Keys
                   /\ Hashes \subseteq Nat
                   /\ InitSlots \in Nat /\ InitSlots >= 4
                   /\ \E n \in 2..30 : InitSlots = 2 ^ n

VARIABLES hash,     \* hash_key of each key
          slots, nslots,
          count,    \* c->count
          stored    \* the entries put and not dropped

tableVars == <<hash, slots, nslots, count, stored>>

Slots == 0..(nslots - 1)
Home(k, n) == hash[k] % n

\* d slots after i, around a table of n.
After(i, d, n) == (i + d) % n

\* The first slot from i on that holds one of S, as every probe loop finds it.
FirstFrom(i, table, n, S) ==
  LET d == CHOOSE d \in 0..(n - 1) : /\ table[After(i, d, n)] \in S
                                     /\ \A e \in 0..(d - 1) : table[After(i, e, n)] \notin S
  IN After(i, d, n)

\* find_slot stops at the key or at an empty slot.
Lookup(k) == slots[FirstFrom(Home(k, nslots), slots, nslots, {k, Empty})]

\* Linear probing for a free slot.
Place(table, n, k) == [table EXCEPT ![FirstFrom(Home(k, n), table, n, {Empty})] = k]

-----------------------------------------------------------------------------

\* grow_table: every entry is put into a table of twice the size, in slot order.
GrownTable ==
  LET n == 2 * nslots
      grown[i \in 0..nslots] ==
        IF i = 0 THEN [s \in 0..(n - 1) |-> Empty]
        ELSE IF slots[i - 1] = Empty THEN grown[i - 1]
        ELSE Place(grown[i - 1], n, slots[i - 1])
  IN grown[nslots]

\* Mutant of MustGrow: grows only when the table is full.
MustGrowWhenFull == count + 1 > nslots

MustGrow == count + 1 > (nslots * 3) \div 4

\* The table side of cache_put, for a key find_slot did not find.
Insert(k) == /\ k \notin stored
             /\ IF MustGrow
                THEN /\ nslots' = 2 * nslots
                     /\ slots' = Place(GrownTable, 2 * nslots, k)
                ELSE /\ slots' = Place(slots, nslots, k)
                     /\ UNCHANGED nslots
             /\ count' = count + 1
             /\ stored' = stored \cup {k}
             /\ UNCHANGED hash

\* Mutant of MayMove: an entry at home in the hole stays behind it.
MayMoveNotHome(k, hole, at) ==
  LET fromHole(i) == (i - hole + nslots) % nslots
  IN fromHole(Home(k, nslots)) > fromHole(at)

\* An entry may move back into the hole unless its home lies after the hole
\* and up to where it is.
MayMove(k, hole, at) ==
  LET fromHole(i) == (i - hole + nslots) % nslots
      home == fromHole(Home(k, nslots))
  IN home = 0 \/ home > fromHole(at)

\* One turn of the loop of remove_from_table, which has come to slot at.
ShiftBack(acc, at) ==
  IF MayMove(acc.table[at], acc.hole, at)
  THEN [table |-> [acc.table EXCEPT ![acc.hole] = acc.table[at], ![at] = Empty],
        hole |-> at]
  ELSE acc

\* remove_from_table: the hole moves with each entry shifted into it, until
\* the scan meets an empty slot, behind which is another cluster.
Removed(k) ==
  LET first == FirstFrom(Home(k, nslots), slots, nslots, {k, Empty})
      cluster == CHOOSE d \in 1..nslots :
                   /\ slots[After(first, d, nslots)] \in {Empty, k}
                   /\ \A e \in 1..(d - 1) : slots[After(first, e, nslots)] \notin {Empty, k}
      shifted[d \in 0..(cluster - 1)] ==
        IF d = 0 THEN [table |-> [slots EXCEPT ![first] = Empty], hole |-> first]
        ELSE ShiftBack(shifted[d - 1], After(first, d, nslots))
  IN shifted[cluster - 1].table

\* The table side of drop_entry.
Delete(k) == /\ k \in stored
             /\ slots' = Removed(k)
             /\ count' = count - 1
             /\ stored' = stored \ {k}
             /\ UNCHANGED <<hash, nslots>>

TableInit == /\ hash \in [Keys -> Hashes]
             /\ nslots = InitSlots
             /\ slots = [i \in 0..(InitSlots - 1) |-> Empty]
             /\ count = 0
             /\ stored = {}

TableNext == \E k \in Keys : Insert(k) \/ Delete(k)

TableSpec == TableInit /\ [][TableNext]_tableVars

-----------------------------------------------------------------------------
(* Correctness *)

TableTypeOK == /\ hash \in [Keys -> Hashes]
               /\ nslots \in Nat
               /\ slots \in [Slots -> Keys \cup {Empty}]
               /\ count \in 0..nslots
               /\ stored \subseteq Keys

\* The comment at cache.c:80: after any puts and drops, with any collisions
\* and wherever a cluster wraps, a free slot remains, so that probing ends.
SlotRemains == \E i \in Slots : slots[i] = Empty

\* The comment at cache.c:52: probing finds a key exactly when the cache holds
\* it, so a deletion hides no entry and leaves none behind.
FindsExactly == \A k \in Keys : Lookup(k) = k <=> k \in stored
=============================================================================
