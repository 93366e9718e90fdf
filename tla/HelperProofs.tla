---------------------------- MODULE HelperProofs ----------------------------
(***************************************************************************)
(* The two helpers that stand on their own.                                *)
(*                                                                         *)
(* rate_limiter.c respects its rate (WindowBound) and never delays beyond  *)
(* it (NoExcessDelay), for any number of workers, any request sizes, any   *)
(* credit and any steps of the wall clock.                                 *)
(*                                                                         *)
(* arena.c hands out no memory twice (ArenaDisjoint), for every sequence   *)
(* of requests and every size of block.                                    *)
(***************************************************************************)
EXTENDS RateLimiter, Arena, TLAPS

(***************************************************************************)
(* The rate limiter.                                                       *)
(***************************************************************************)
(* The units that time, the credit and steps of the clock have paid for at *)
(* time t, counted from the observer's mark.                               *)
Paid(t) == mark.position + (t - mark.time) + Credit + mark.jumped

InCriticalSection(w) == pc[w] \in {"compute", "store", "unlock"}

(* Only the holder of the mutex is in the critical section. *)
Locked == \A w \in Worker : InCriticalSection(w) => mutex = {w}

Bounds ==
  /\ mark.time <= now
  /\ mark.position <= admitted
  /\ front <= admitted
  /\ \A w \in Worker : position[w] <= admitted
  /\ accumulated_sleep_time <= admitted - Credit

(* Sleeping for what the limiter still has accumulated would pay for       *)
(* everything accepted so far, unless an accepted request is not stored.   *)
LimiterPays ==
  (\A w \in Worker : pc[w] # "store") => admitted <= Paid(now + Remaining(clock))

StorePays ==
  \A w \in Worker : pc[w] = "store" =>
     admitted <= Paid(now + MaxOf(time_to_sleep[w] - MaxOf(clock - time[w], 0), -Credit))

(* Each accepted request that sleeps as told is paid for when it wakes.    *)
SleepPays ==
  \A w \in Worker :
    /\ pc[w] \in {"store", "unlock", "nanosleep"} =>
         /\ position[w] <= Paid(now + MaxOf(time_to_sleep[w], 0))
         /\ time_to_sleep[w] <= position[w] - Credit
    /\ pc[w] = "asleep" => position[w] <= Paid(MaxOf(wake[w], now))

Inv ==
  /\ TypeOK
  /\ Locked
  /\ Bounds
  /\ LimiterPays
  /\ StorePays
  /\ SleepPays
  /\ WindowBound

----------------------------------------------------------------------------
USE DEF MaxOf, SleepTime

(* Every variable keeps its type. *)
THEOREM TypeCorrect == Spec => []TypeOK
<1>1. Init => TypeOK
  BY RateLimiterAssumption DEF Init, rate_limiter_init, TypeOK, PC
<1>2. TypeOK /\ [Next]_vars => TypeOK'
  <2>. SUFFICES ASSUME TypeOK, [Next]_vars PROVE TypeOK'
    OBVIOUS
  <2>. USE RateLimiterAssumption DEF TypeOK, PC, environment, limiter, locals, history
  <2>1. ASSUME NEW w \in Worker, Request(w) PROVE TypeOK'
    BY <2>1 DEF Request, Move
  <2>2. ASSUME NEW w \in Worker, Lock(w) PROVE TypeOK'
    BY <2>2 DEF Lock, MutexFree, Move
  <2>3. ASSUME NEW w \in Worker, Compute(w) PROVE TypeOK'
    BY <2>3 DEF Compute, Move, Remaining, Elapsed
  <2>4. ASSUME NEW w \in Worker, Store(w) PROVE TypeOK'
    BY <2>4 DEF Store, Move
  <2>5. ASSUME NEW w \in Worker, Unlock(w) PROVE TypeOK'
    BY <2>5 DEF Unlock, Release, Move
  <2>6. ASSUME NEW w \in Worker, Sleep(w) PROVE TypeOK'
    BY <2>6 DEF Sleep, Move
  <2>7. ASSUME NEW w \in Worker, Return(w) PROVE TypeOK'
    BY <2>7 DEF Return, Leave, Move
  <2>8. ASSUME NEW w \in Worker, Interrupted(w) PROVE TypeOK'
    BY <2>8 DEF Interrupted, Leave, Move
  <2>9. CASE Tick
    BY <2>9 DEF Tick
  <2>10. CASE StepClock
    BY <2>10 DEF StepClock
  <2>11. CASE StartMeasuring
    BY <2>11 DEF StartMeasuring
  <2>12. CASE UNCHANGED vars
    BY <2>12 DEF vars
  <2>. QED
    BY <2>1, <2>2, <2>3, <2>4, <2>5, <2>6, <2>7, <2>8, <2>9, <2>10, <2>11, <2>12
    DEF Next, Step
<1>. QED
  BY <1>1, <1>2, PTL DEF Spec

(* No two workers are between mutex_lock and mutex_unlock. *)
LEMMA LockedStep ==
  ASSUME TypeOK, Locked, [Next]_vars
  PROVE  Locked'
<1>. USE DEF Locked, InCriticalSection, TypeOK, PC, environment, limiter, locals, history
<1>1. ASSUME NEW w \in Worker, Request(w) PROVE Locked'
  BY <1>1 DEF Request, Move
<1>2. ASSUME NEW w \in Worker, Lock(w) PROVE Locked'
  BY <1>2 DEF Lock, MutexFree, Move
<1>3. ASSUME NEW w \in Worker, Compute(w) PROVE Locked'
  BY <1>3 DEF Compute, Move
<1>4. ASSUME NEW w \in Worker, Store(w) PROVE Locked'
  BY <1>4 DEF Store, Move
<1>5. ASSUME NEW w \in Worker, Unlock(w) PROVE Locked'
  BY <1>5 DEF Unlock, Release, Move
<1>6. ASSUME NEW w \in Worker, Sleep(w) PROVE Locked'
  BY <1>6 DEF Sleep, Move
<1>7. ASSUME NEW w \in Worker, Return(w) PROVE Locked'
  BY <1>7 DEF Return, Leave, Move
<1>8. ASSUME NEW w \in Worker, Interrupted(w) PROVE Locked'
  BY <1>8 DEF Interrupted, Leave, Move
<1>9. CASE Tick \/ StepClock \/ StartMeasuring
  BY <1>9 DEF Tick, StepClock, StartMeasuring
<1>10. CASE UNCHANGED vars
  BY <1>10 DEF vars
<1>. QED
  BY <1>1, <1>2, <1>3, <1>4, <1>5, <1>6, <1>7, <1>8, <1>9, <1>10 DEF Next, Step

(* Each worker's step keeps what is accepted paid for.  The limiter's own  *)
(* account (LimiterPays) passes to the worker at Compute (StorePays) and   *)
(* back at Store: this is where the mutex is needed.                       *)
LEMMA InvStep ==
  ASSUME Inv, [Next]_vars
  PROVE  Bounds' /\ LimiterPays' /\ StorePays' /\ SleepPays' /\ WindowBound'
<1>. USE RateLimiterAssumption
     DEF Inv, TypeOK, PC, Bounds, LimiterPays, StorePays, SleepPays, WindowBound, Paid,
         Remaining, Elapsed, environment, limiter, locals, history
<1>0. Locked' /\ Locked
  BY LockedStep
<1>1. ASSUME NEW w \in Worker, Request(w)
      PROVE  Bounds' /\ LimiterPays' /\ StorePays' /\ SleepPays' /\ WindowBound'
  BY <1>1 DEF Request, Move
<1>2. ASSUME NEW w \in Worker, Lock(w)
      PROVE  Bounds' /\ LimiterPays' /\ StorePays' /\ SleepPays' /\ WindowBound'
  BY <1>2 DEF Lock, MutexFree, Move
<1>3. ASSUME NEW w \in Worker, Compute(w)
      PROVE  Bounds' /\ LimiterPays' /\ StorePays' /\ SleepPays' /\ WindowBound'
  <2>1. \A v \in Worker : pc[v] # "store"
    BY <1>0, <1>3, Zenon DEF Compute, Move, Locked, InCriticalSection
  <2>2. admitted <= Paid(now + Remaining(clock))
    BY <2>1
  <2>3. Bounds'
    BY <1>3 DEF Compute, Move
  <2>4. LimiterPays'
    BY <1>3 DEF Compute, Move
  <2>5. StorePays'
    BY <1>3, <2>1, <2>2 DEF Compute, Move
  <2>6. SleepPays'
    BY <1>3, <2>2 DEF Compute, Move
  <2>7. WindowBound'
    BY <1>3 DEF Compute
  <2>. QED
    BY <2>3, <2>4, <2>5, <2>6, <2>7
<1>4. ASSUME NEW w \in Worker, Store(w)
      PROVE  Bounds' /\ LimiterPays' /\ StorePays' /\ SleepPays' /\ WindowBound'
  <2>1. \A v \in Worker : v # w => pc[v] # "store"
    BY <1>0, <1>4 DEF Store, Move, Locked, InCriticalSection
  <2>2. Bounds' /\ SleepPays' /\ WindowBound'
    BY <1>4 DEF Store, Move
  <2>3. LimiterPays'
    BY <1>4 DEF Store, Move
  <2>4. StorePays'
    BY <1>4, <2>1 DEF Store, Move
  <2>. QED
    BY <2>2, <2>3, <2>4
<1>5. ASSUME NEW w \in Worker, Unlock(w)
      PROVE  Bounds' /\ LimiterPays' /\ StorePays' /\ SleepPays' /\ WindowBound'
  BY <1>5 DEF Unlock, Release, Move
<1>6. ASSUME NEW w \in Worker, Sleep(w)
      PROVE  Bounds' /\ LimiterPays' /\ StorePays' /\ SleepPays' /\ WindowBound'
  BY <1>6 DEF Sleep, Move
<1>7. ASSUME NEW w \in Worker, Return(w)
      PROVE  Bounds' /\ LimiterPays' /\ StorePays' /\ SleepPays' /\ WindowBound'
  BY <1>7 DEF Return, Leave, Move
<1>8. ASSUME NEW w \in Worker, Interrupted(w)
      PROVE  Bounds' /\ LimiterPays' /\ StorePays' /\ SleepPays' /\ WindowBound'
  BY <1>8 DEF Interrupted, Leave, Move
<1>9. CASE Tick
  BY <1>9 DEF Tick
<1>10. CASE StepClock
  BY <1>10 DEF StepClock
<1>11. CASE StartMeasuring
  BY <1>11 DEF StartMeasuring
<1>12. CASE UNCHANGED vars
  BY <1>12 DEF vars
<1>. QED
  BY <1>1, <1>2, <1>3, <1>4, <1>5, <1>6, <1>7, <1>8, <1>9, <1>10, <1>11, <1>12, Zenon
  DEF Next, Step

(* The invariant holds in every reachable state.                           *)
LEMMA Invariance == Spec => []Inv
<1>1. Init => Inv
  <2>1. Init => Locked /\ Bounds /\ LimiterPays /\ StorePays /\ SleepPays /\ WindowBound
    BY RateLimiterAssumption
    DEF Init, rate_limiter_init, Locked, InCriticalSection, Bounds, LimiterPays, StorePays,
        SleepPays, WindowBound, Paid, Remaining, Elapsed
  <2>2. Init => TypeOK
    BY RateLimiterAssumption DEF Init, rate_limiter_init, TypeOK, PC
  <2>. QED
    BY <2>1, <2>2 DEF Inv
<1>2. Inv /\ TypeOK' /\ [Next]_vars => Inv'
  BY InvStep, LockedStep DEF Inv
<1>. QED
  BY <1>1, <1>2, TypeCorrect, PTL DEF Spec

(***************************************************************************)
(* --read-rate and --write-rate hold over every window of time: the        *)
(* requests accepted in it and slept out never exceed its length, plus the *)
(* idle credit and the forward steps of the wall clock.                    *)
(***************************************************************************)
THEOREM RateRespected == Spec => []WindowBound
BY Invariance, PTL DEF Inv

(***************************************************************************)
(* No request sleeps longer than what was accepted up to it needs, even    *)
(* when the wall clock is set back.                                        *)
(***************************************************************************)
THEOREM DelayBounded == Spec => []NoExcessDelay
<1>1. Inv => NoExcessDelay
  BY DEF Inv, SleepPays, NoExcessDelay
<1>. QED
  BY Invariance, <1>1, PTL

(***************************************************************************)
(* The arena.                                                              *)
(***************************************************************************)
Blocks == Seq([size : Nat, used : Nat])
Regions == [block : Nat \ {0}, from : Nat, to : Nat]

(* Regions lie in the used part of their block, so that what follows it is *)
(* free.                                                                   *)
InUsedPart(a) ==
  \A r \in a.regions :
    r.block \in 1..Len(a.blocks) /\ r.from < r.to /\ r.to <= a.blocks[r.block].used
IArena ==
  /\ arena \in [blocks : Blocks, regions : SUBSET Regions]
  /\ \A b \in 1..Len(arena.blocks) : arena.blocks[b].used <= arena.blocks[b].size
  /\ InUsedPart(arena)
  /\ \A q, r \in arena.regions : Overlap(q, r) => q = r

(* An element of a sequence over T is in T.                                *)
LEMMA ElementIn ==
  ASSUME NEW T, NEW s \in Seq(T), NEW i \in 1..Len(s)
  PROVE  s[i] \in T
OBVIOUS

(* A new block is large enough and empty, and leaves the others alone.     *)
LEMMA NewBlock ==
  ASSUME NEW blocks \in Blocks, NEW amount \in Nat \ {0}
  PROVE  LET new == add_block(blocks, amount)
         IN  /\ new \in Blocks /\ Len(new) = Len(blocks) + 1
             /\ new[Len(new)].used = 0 /\ new[Len(new)].size \in Nat /\ amount <= new[Len(new)].size
             /\ \A b \in 1..Len(blocks) : new[b] = blocks[b]
<1> DEFINE ent == [size |-> IF amount < MinRoom THEN MinRoom ELSE amount, used |-> 0]
<1>1. ent \in [size : Nat, used : Nat] /\ ent.used = 0 /\ ent.size \in Nat /\ amount <= ent.size
  BY ArenaAssumption
<1>2. add_block(blocks, amount) = Append(blocks, ent)
  BY DEF add_block
<1> HIDE DEF ent
<1> QED BY <1>1, <1>2 DEF Blocks

(* arena_malloc keeps the invariant: the new region is behind the used     *)
(* part of the block and within the block.                                 *)
LEMMA MallocStep ==
  ASSUME IArena, NEW amount \in Nat \ {0}, arena_malloc(amount)
  PROVE  IArena'
<1> DEFINE cur == Len(arena.blocks)
           fits == cur > 0 /\ Fits(arena.blocks[cur], amount)
           blocks == IF fits THEN arena.blocks ELSE add_block(arena.blocks, amount)
           b == Len(blocks)
           used == blocks[b].used
           ent == [size |-> blocks[b].size, used |-> used + amount]
           new == [block |-> b, from |-> used, to |-> used + amount]
<1>1. arena.blocks \in Blocks /\ cur \in Nat /\ arena.regions \in SUBSET Regions
  BY DEF IArena, Blocks
<1>2. /\ blocks \in Blocks /\ b \in 1..Len(blocks) /\ cur <= b
      /\ blocks[b] \in [size : Nat, used : Nat]
      /\ used \in Nat /\ blocks[b].size \in Nat /\ used + amount <= blocks[b].size
      /\ \A c \in 1..cur : blocks[c] = arena.blocks[c]
      /\ \A c \in 1..b : blocks[c].used <= blocks[c].size
  <2>1. CASE fits
    <3>0. cur \in 1..cur
      BY <1>1, <2>1
    <3>1. cur \in 1..cur /\ arena.blocks[cur] \in [size : Nat, used : Nat]
      BY <1>1, <3>0, ElementIn, Zenon DEF Blocks
    <3>2. blocks = arena.blocks /\ b = cur
      BY <2>1
    <3>3. \A c \in 1..cur : arena.blocks[c].used <= arena.blocks[c].size
      BY DEF IArena
    <3>4. arena.blocks[cur].used + amount <= arena.blocks[cur].size
      BY <2>1, <3>1 DEF Fits
    <3> HIDE DEF blocks, b
    <3>5. used = arena.blocks[cur].used /\ Len(blocks) = cur
      BY <3>2
    <3> HIDE DEF used
    <3> QED BY <1>1, <3>1, <3>2, <3>3, <3>4, <3>5
  <2>2. CASE ~fits
    <3>1. blocks = add_block(arena.blocks, amount)
      BY <2>2
    <3>2. /\ blocks \in Blocks /\ b = cur + 1
          /\ used = 0 /\ blocks[b].size \in Nat /\ amount <= blocks[b].size
          /\ \A c \in 1..cur : blocks[c] = arena.blocks[c]
      BY <1>1, <3>1, NewBlock
    <3> HIDE DEF blocks
    <3>0. b \in 1..Len(blocks)
      BY <1>1, <3>2
    <3>3. b \in 1..Len(blocks) /\ blocks[b] \in [size : Nat, used : Nat]
      BY <3>0, <3>2, ElementIn, Zenon DEF Blocks
    <3>4. \A c \in 1..b : blocks[c].used <= blocks[c].size
      <4> SUFFICES ASSUME NEW c \in 1..b PROVE blocks[c].used <= blocks[c].size
        OBVIOUS
      <4>1. CASE c \in 1..cur
        BY <3>2, <4>1 DEF IArena
      <4>2. CASE c = b
        BY <3>2, <4>2
      <4> QED BY <1>1, <3>2, <4>1, <4>2
    <3> QED BY <1>1, <3>2, <3>3, <3>4
  <2> QED BY <2>1, <2>2, Zenon
<1>3. arena' = [blocks |-> [blocks EXCEPT ![b] = ent], regions |-> arena.regions \cup {new}]
  BY DEF arena_malloc
<1>a. b \in Nat \ {0}
  BY <1>2
<1> HIDE DEF fits, blocks, b, used
<1>4. /\ ent \in [size : Nat, used : Nat] /\ ent.used = used + amount /\ ent.size = blocks[b].size
      /\ new \in Regions /\ new.block = b /\ new.from = used /\ new.to = used + amount
  BY <1>2, <1>a DEF Regions
<1> HIDE DEF ent, new
<1>5. /\ arena'.blocks \in Blocks /\ Len(arena'.blocks) = b /\ Len(blocks) = b /\ b \in Nat \ {0}
      /\ arena'.blocks[b] = ent /\ \A c \in 1..b : c # b => arena'.blocks[c] = blocks[c]
      /\ arena'.regions = arena.regions \cup {new}
  <2>1. Len(blocks) = b
    BY DEF b
  <2> QED BY <1>2, <1>3, <1>4, <2>1 DEF Blocks
<1>6. arena' \in [blocks : Blocks, regions : SUBSET Regions]
  BY <1>1, <1>3, <1>4, <1>5
<1>7. \A c \in 1..Len(arena'.blocks) : arena'.blocks[c].used <= arena'.blocks[c].size
  BY <1>2, <1>4, <1>5
<1>8. ASSUME NEW r \in arena.regions
      PROVE  /\ r.block \in 1..b /\ r.from \in Nat /\ r.to \in Nat /\ r.from < r.to
             /\ r.to <= blocks[r.block].used
  BY <1>1, <1>2, <1>8 DEF IArena, InUsedPart, Regions
<1>9. InUsedPart(arena')
  <2> SUFFICES ASSUME NEW r \in arena'.regions
               PROVE  /\ r.block \in 1..b /\ r.from < r.to
                      /\ r.to <= arena'.blocks[r.block].used
    BY <1>5 DEF InUsedPart
  <2>1. CASE r = new
    BY <1>2, <1>4, <1>5, <2>1
  <2>2. CASE r \in arena.regions
    <3>1. CASE r.block = b
      <4>1. r.to <= used
        BY <1>8, <2>2, <3>1 DEF used
      <4> QED BY <1>2, <1>4, <1>5, <1>8, <2>2, <3>1, <4>1
    <3>2. CASE r.block # b
      BY <1>5, <1>8, <2>2, <3>2
    <3> QED BY <3>1, <3>2
  <2> QED BY <1>5, <2>1, <2>2
<1>10. \A r \in arena.regions : ~Overlap(new, r) /\ ~Overlap(r, new)
  <2> SUFFICES ASSUME NEW r \in arena.regions, r.block = b
               PROVE  ~(used < r.to)
    BY <1>4 DEF Overlap
  <2>1. r.to <= used
    BY <1>8 DEF used
  <2> QED BY <1>2, <1>8, <2>1
<1>11. \A q, r \in arena'.regions : Overlap(q, r) => q = r
  BY <1>5, <1>10 DEF IArena
<1> QED BY <1>6, <1>7, <1>9, <1>11 DEF IArena

(* Memory that the arena has handed out since it was last freed never      *)
(* overlaps and never reaches beyond its block.                            *)
THEOREM ArenaHandsOutOnce == ArenaSpec => []ArenaDisjoint
<1>1. arena_init => IArena
  BY DEF arena_init, NewArena, IArena, InUsedPart, Blocks
<1>2. IArena /\ [ArenaNext]_arena => IArena'
  <2> SUFFICES ASSUME IArena, [ArenaNext]_arena PROVE IArena'
    OBVIOUS
  <2>1. CASE arena_free
    BY <2>1 DEF arena_free, NewArena, IArena, InUsedPart, Blocks
  <2>2. ASSUME NEW amount \in Nat \ {0}, arena_malloc(amount) PROVE IArena'
    BY <2>2, MallocStep
  <2>3. CASE UNCHANGED arena
    BY <2>3 DEF IArena, InUsedPart
  <2> QED BY <2>1, <2>2, <2>3 DEF ArenaNext
<1>3. IArena => ArenaDisjoint
  <2> SUFFICES ASSUME IArena, NEW r \in arena.regions
               PROVE  /\ r.from < r.to /\ r.to <= arena.blocks[r.block].size
                      /\ \A q \in arena.regions : Overlap(q, r) => q = r
    BY DEF ArenaDisjoint
  <2>1. r.block \in 1..Len(arena.blocks) /\ r.to \in Nat
    BY DEF IArena, InUsedPart, Regions
  <2>2. arena.blocks[r.block] \in [size : Nat, used : Nat]
    <3>1. arena.blocks \in Blocks
      BY DEF IArena
    <3> QED BY <2>1, <3>1, ElementIn, Zenon DEF Blocks
  <2> QED BY <2>1, <2>2 DEF IArena, InUsedPart
<1> QED BY <1>1, <1>2, <1>3, PTL DEF ArenaSpec
=============================================================================
