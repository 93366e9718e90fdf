-------------------------------- MODULE Arena -------------------------------
(***************************************************************************)
(* The arena of arena.c: blocks from which memory is handed out from the   *)
(* front, and which are freed all at once.  Only the block added last is   *)
(* used.                                                                   *)
(***************************************************************************)
EXTENDS Integers, Sequences

CONSTANT MinRoom     \* min_block_room

ASSUME ArenaAssumption == MinRoom \in Nat

VARIABLE arena       \* blocks [size, used], and history: the regions handed out

NewArena == [blocks |-> <<>>, regions |-> {}]

arena_init == arena = NewArena

Fits_Off(b, amount) == b.size - b.used + 1 >= amount
Fits(b, amount) == b.size - b.used >= amount

add_block(blocks, room_wanted) ==
  Append(blocks, [size |-> IF room_wanted < MinRoom THEN MinRoom ELSE room_wanted, used |-> 0])

arena_malloc(amount) ==
  LET cur == Len(arena.blocks)
      blocks == IF cur > 0 /\ Fits(arena.blocks[cur], amount) THEN arena.blocks
                ELSE add_block(arena.blocks, amount)
      b == Len(blocks)
      used == blocks[b].used
  IN  arena' = [ blocks |-> [blocks EXCEPT ![b] = [size |-> blocks[b].size, used |-> used + amount]],
                 regions |-> arena.regions \cup {[block |-> b, from |-> used, to |-> used + amount]} ]

arena_free == arena' = NewArena

ArenaNext == arena_free \/ \E amount \in Nat \ {0} : arena_malloc(amount)

ArenaSpec == arena_init /\ [][ArenaNext]_arena
-----------------------------------------------------------------------------
Overlap(q, r) == q.block = r.block /\ q.from < r.to /\ r.from < q.to

(* What arena_malloc hands out lies within its block and overlaps nothing  *)
(* handed out before, also when a block is exactly full or a request is    *)
(* larger than a block.                                                    *)
ArenaDisjoint ==
  \A r \in arena.regions :
    /\ r.from < r.to /\ r.to <= arena.blocks[r.block].size
    /\ \A q \in arena.regions : Overlap(q, r) => q = r
=============================================================================
