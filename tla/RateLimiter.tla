---------------------------- MODULE RateLimiter ----------------------------
(***************************************************************************)
(* The rate limiter behind --read-rate and --write-rate (rate_limiter.c),  *)
(* shared by the FUSE workers that run bindfs_read or bindfs_write.        *)
(*                                                                         *)
(* One unit of time is the time the configured rate takes to clear one     *)
(* unit of size, so that size / rate is size itself.  `now' is elapsed     *)
(* time; `clock' is what gettimeofday returns, which also advances with    *)
(* time but may be stepped by an administrator or by NTP.                  *)
(***************************************************************************)
EXTENDS Integers

CONSTANTS
  Worker,    \* FUSE worker threads
  Size,      \* sizes of read and write requests
  Credit,    \* - rate_limiter_idle_credit
  Jump,      \* steps the wall clock may be set by
  MaxUnits,  \* bound: no request begins that would take the total above it
  MaxTime,   \* bound: time stops here once no worker sleeps
  MaxJumps   \* bound on the number of steps of the wall clock

ASSUME RateLimiterAssumption ==
  /\ Size \subseteq Nat
  /\ Credit \in Nat
  /\ Jump \subseteq Int
  /\ MaxUnits \in Nat /\ MaxTime \in Nat /\ MaxJumps \in Nat

VARIABLES
  now, clock, jumps,
  last_modified, accumulated_sleep_time, mutex,  \* struct RateLimiter
  pc, size, time, time_to_sleep, wake,           \* locals of each worker
  admitted,   \* history: total size of the requests the limiter has accepted
  position,   \* history: each worker's request's place in that total
  front,      \* history: highest place a request slept through to its end
  mark        \* history: where an observer started to measure

limiter == <<last_modified, accumulated_sleep_time, mutex>>
locals == <<pc, size, time, time_to_sleep, wake>>
environment == <<now, clock, jumps>>
history == <<admitted, position, front, mark>>
vars == <<environment, limiter, locals, history>>

PC == {"idle", "lock", "compute", "store", "unlock", "nanosleep", "asleep"}

MaxOf(a, b) == IF a >= b THEN a ELSE b

(***************************************************************************)
(* rate_limiter_init: the clock reads 0 and the credit is full.            *)
(***************************************************************************)
rate_limiter_init ==
  /\ last_modified = clock
  /\ accumulated_sleep_time = -Credit
  /\ mutex = {}

Init ==
  /\ now = 0 /\ clock = 0 /\ jumps = 0
  /\ rate_limiter_init
  /\ pc = [w \in Worker |-> "idle"]
  /\ size = [w \in Worker |-> 0]
  /\ time = [w \in Worker |-> 0]
  /\ time_to_sleep = [w \in Worker |-> 0]
  /\ wake = [w \in Worker |-> 0]
  /\ admitted = 0
  /\ position = [w \in Worker |-> 0]
  /\ front = 0
  /\ mark = [time |-> 0, position |-> 0, jumped |-> 0]

Move(w, from, to) == pc[w] = from /\ pc' = [pc EXCEPT ![w] = to]

(***************************************************************************)
(* bindfs_read and bindfs_write call rate_limiter_wait before any I/O.     *)
(***************************************************************************)
Request(w) ==
  /\ Move(w, "idle", "lock")
  /\ \E s \in Size :
       /\ admitted + s <= MaxUnits
       /\ size' = [size EXCEPT ![w] = s]
  /\ UNCHANGED <<environment, limiter, time, time_to_sleep, wake, history>>

(***************************************************************************)
(* rate_limiter_wait_nosleep, between its mutex_lock and mutex_unlock.     *)
(***************************************************************************)
MutexFree_Always == TRUE
MutexFree == mutex = {}

Lock(w) ==
  /\ Move(w, "lock", "compute")
  /\ MutexFree
  /\ mutex' = {w}
  /\ UNCHANGED <<environment, last_modified, accumulated_sleep_time,
                 size, time, time_to_sleep, wake, history>>

Elapsed_MayBeNegative(t) == t - last_modified
Elapsed(t) == MaxOf(t - last_modified, 0)

(* What is left of the accumulated sleep at clock value t. *)
Remaining_NotClamped(t) == accumulated_sleep_time - Elapsed(t)
Remaining(t) == MaxOf(accumulated_sleep_time - Elapsed(t), -Credit)

Compute(w) ==
  /\ Move(w, "compute", "store")
  /\ time' = [time EXCEPT ![w] = clock]
  /\ time_to_sleep' = [time_to_sleep EXCEPT ![w] = Remaining(clock) + size[w]]
  /\ admitted' = admitted + size[w]
  /\ position' = [position EXCEPT ![w] = admitted + size[w]]
  /\ UNCHANGED <<environment, limiter, size, wake, front, mark>>

Store(w) ==
  /\ Move(w, "store", "unlock")
  /\ accumulated_sleep_time' = time_to_sleep[w]
  /\ last_modified' = time[w]
  /\ UNCHANGED <<environment, mutex, size, time, time_to_sleep, wake, history>>

Release_Forgotten(w) == mutex' = mutex
Release(w) == mutex' = mutex \ {w}

Unlock(w) ==
  /\ Move(w, "unlock", "nanosleep")
  /\ Release(w)
  /\ UNCHANGED <<environment, last_modified, accumulated_sleep_time,
                 size, time, time_to_sleep, wake, history>>

(***************************************************************************)
(* sleep_seconds: a negative time does not sleep, and nanosleep's relative *)
(* timeout is not affected by a step of the wall clock.                    *)
(***************************************************************************)
Sleep(w) ==
  /\ Move(w, "nanosleep", "asleep")
  /\ wake' = [wake EXCEPT ![w] = now + MaxOf(time_to_sleep[w], 0)]
  /\ UNCHANGED <<environment, limiter, size, time, time_to_sleep, history>>

(* rate_limiter_wait returns and its locals go out of scope. *)
Leave(w) ==
  /\ Move(w, "asleep", "idle")
  /\ size' = [size EXCEPT ![w] = 0]
  /\ time' = [time EXCEPT ![w] = 0]
  /\ time_to_sleep' = [time_to_sleep EXCEPT ![w] = 0]
  /\ wake' = [wake EXCEPT ![w] = 0]
  /\ position' = [position EXCEPT ![w] = 0]

(* nanosleep returns when its time is up, or later. *)
Return(w) ==
  /\ Leave(w)
  /\ now >= wake[w]
  /\ front' = MaxOf(front, position[w])
  /\ UNCHANGED <<environment, limiter, admitted, mark>>

(* SIGUSR1 is handled without SA_RESTART and nanosleep's result is ignored, *)
(* so a signal delivered to the worker ends its sleep.                      *)
Interrupted(w) ==
  /\ Leave(w)
  /\ now < wake[w]
  /\ UNCHANGED <<environment, limiter, admitted, front, mark>>

(***************************************************************************)
(* The environment: time, the wall clock and the observer.                 *)
(***************************************************************************)
Tick ==
  /\ now < MaxTime \/ \E w \in Worker : pc[w] = "asleep" /\ now < wake[w]
  /\ now' = now + 1
  /\ clock' = clock + 1
  /\ UNCHANGED <<jumps, limiter, locals, history>>

StepClock ==
  /\ jumps < MaxJumps
  /\ jumps' = jumps + 1
  /\ \E j \in Jump :
       /\ clock' = clock + j
       /\ mark' = [time |-> mark.time, position |-> mark.position,
                   jumped |-> mark.jumped + MaxOf(j, 0)]
  /\ UNCHANGED <<now, limiter, locals, admitted, position, front>>

StartMeasuring ==
  /\ mark' = [time |-> now, position |-> admitted, jumped |-> 0]
  /\ UNCHANGED <<environment, limiter, locals, admitted, position, front>>

Step(w) ==
  Lock(w) \/ Compute(w) \/ Store(w) \/ Unlock(w) \/ Sleep(w) \/ Return(w)

Next ==
  \/ \E w \in Worker : Request(w) \/ Step(w) \/ Interrupted(w)
  \/ Tick \/ StepClock \/ StartMeasuring

Spec == Init /\ [][Next]_vars

(* A worker keeps running and time keeps passing; nothing obliges clients  *)
(* to send requests, the clock to be stepped or signals to arrive.         *)
FairSpec == Spec /\ WF_vars(Tick) /\ \A w \in Worker : WF_vars(Step(w))

----------------------------------------------------------------------------
(* The credit bounds every sleep time from below. *)
SleepTime == {s \in Int : s >= -Credit}

TypeOK ==
  /\ now \in Nat /\ clock \in Int /\ jumps \in Nat
  /\ last_modified \in Int
  /\ accumulated_sleep_time \in SleepTime
  /\ mutex \in SUBSET Worker
  /\ pc \in [Worker -> PC]
  /\ size \in [Worker -> Nat]
  /\ time \in [Worker -> Int]
  /\ time_to_sleep \in [Worker -> SleepTime]
  /\ wake \in [Worker -> Int]
  /\ admitted \in Nat
  /\ position \in [Worker -> Nat]
  /\ front \in Nat
  /\ mark \in [time : Nat, position : Nat, jumped : Nat]

(***************************************************************************)
(* "Allow at most N bytes per second" (man page, --read-rate): from any    *)
(* moment on, the requests accepted after it and slept through to the end  *)
(* add up to at most the time since then, plus the idle credit, plus       *)
(* whatever the wall clock was stepped forward.  Idle periods before that  *)
(* moment earn nothing beyond the credit, and steps of the clock backwards *)
(* never let more through.                                                 *)
(***************************************************************************)
WindowBound ==
  front - mark.position <= (now - mark.time) + Credit + mark.jumped

(***************************************************************************)
(* However the wall clock is stepped, no request is told to sleep longer   *)
(* than clearing everything accepted up to and including it takes, less    *)
(* the initial credit: elapsed < 0 must not be added to the sleep.         *)
(***************************************************************************)
NoExcessDelay ==
  \A w \in Worker : pc[w] \in {"unlock", "nanosleep"} =>
                      time_to_sleep[w] <= position[w] - Credit

(***************************************************************************)
(* Every request that enters rate_limiter_wait returns from it: the mutex  *)
(* is always released and no sleep is without end.                         *)
(***************************************************************************)
RequestReturns ==
  \A w \in Worker : pc[w] # "idle" ~> pc[w] = "idle"
=============================================================================
