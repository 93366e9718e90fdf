----------------------------- MODULE CacheArrays ----------------------------
(***************************************************************************)
(* The arrays under the user cache (userinfo.c): the uid array that grows  *)
(* by grow_array, the memory block with the names, and the order that      *)
(* qsort and bsearch go by, a difference of ids cut to an int.             *)
(***************************************************************************)
EXTENDS Integers, SequencesExt

CONSTANTS
  Width,       \* bits of uid_t and of int; long is wider
  BlockRoom    \* the first capacity of the memory block, 1024 in the code

ASSUME CacheArraysAssumption == Width \in Nat \ {0} /\ BlockRoom \in Nat

Half == 2 ^ (Width - 1)
Uids == 0..(2 * Half - 1)

AsInt(d) == ((d + Half) % (2 * Half)) - Half

uid_cache_uid_sortcmp(a, b) == AsInt(a.uid - b.uid)

uid_cache_uid_searchcmp_Reversed(key, ent) == AsInt(ent.uid - key)
uid_cache_uid_searchcmp(key, ent) == AsInt(key - ent.uid)

(* qsort (external) may do anything if the comparison is not an order.     *)
Before(a, b) == uid_cache_uid_sortcmp(a, b) < 0
IsOrder(s) ==
  \A i, j, k \in DOMAIN s :
    /\ Before(s[i], s[j]) => ~Before(s[j], s[i])
    /\ Before(s[i], s[j]) /\ Before(s[j], s[k]) => Before(s[i], s[k])
Permuted(s) == {[i \in DOMAIN s |-> s[f[i]]] : f \in {g \in [DOMAIN s -> DOMAIN s] : IsInjective(g)}}
qsort(s) == IF IsOrder(s) THEN {SortSeq(s, Before)} ELSE Permuted(s)

(* bsearch (external) halves [l, u); TRUE if it finds an entry.            *)
bsearch(key, s) ==
  LET found[l \in 0..Len(s), u \in 0..Len(s)] ==
        LET mid == (l + u) \div 2
            cmp == uid_cache_uid_searchcmp(key, s[mid + 1])
        IN  l < u /\ CASE cmp < 0 -> found[l, mid]
                       [] cmp > 0 -> found[mid + 1, u]
                       [] OTHER   -> TRUE
  IN  found[0, Len(s)]

init_memory_block == [size |-> 0, capacity |-> BlockRoom]

FirstCapacity == 8

grow_array(capacity) == IF capacity = 0 THEN FirstCapacity ELSE 2 * capacity

(* grow_memory_block doubles until the new size fits.                      *)
Doubled(capacity, size) ==
  LET cap[c \in 0..(2 * size + capacity + FirstCapacity)] ==
        IF c >= size THEN c ELSE cap[grow_array(c)]
  IN  cap[capacity]

grow_memory_block_Once(block, amount) ==
  LET size == block.size + amount
  IN  [ size |-> size,
        capacity |-> IF size >= block.capacity THEN grow_array(block.capacity) ELSE block.capacity ]
grow_memory_block(block, amount) ==
  LET size == block.size + amount
  IN  [ size |-> size,
        capacity |-> IF size >= block.capacity THEN Doubled(block.capacity, size) ELSE block.capacity ]
=============================================================================
