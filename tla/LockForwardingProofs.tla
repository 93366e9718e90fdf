------------------------ MODULE LockForwardingProofs ------------------------
(***************************************************************************)
(* Proofs about LockForwarding, for every set of clients, of processes in  *)
(* the source directory and of worker threads.                             *)
(***************************************************************************)
EXTENDS LockForwarding, TLAPS

(* No two holders of one kind of lock are in conflict.                     *)
Exclusive(locks) == \A g, h \in DOMAIN locks : g # h => Compatible(locks[g], locks[h])

(* The inductive invariant: a worker executes the request of a client that *)
(* waits for it, and no two workers the same one; a client with a request  *)
(* under way has given up the locks it is about; and what a client relies  *)
(* on is the lock of its open file, or unless disturbed that of bindfs.    *)
RequestsServed ==
  /\ \A w \in Worker : serving[w] # None => want[serving[w]] # NoRequest
  /\ \A v, w \in Worker : serving[v] = serving[w] /\ v # w => serving[v] = None
  /\ \A c \in Client :
       /\ want[c].op = "flock" => held[c].flock = None
       /\ want[c].op = "lock" => held[c].lock = None
       /\ want[c].op \in {"open", "release"} => held[c] = NoLocks
       /\ want[c].op \in {"flock", "lock"} => forwarding
       /\ c \notin open => held[c] = NoLocks /\ want[c].op \in {"open", None}

FlocksInv ==
  /\ Exclusive(flocks)
  /\ Exclusive([c \in Client |-> held[c].flock])
  /\ forwarding => \A c \in Client : held[c].flock # None => flocks[c] = held[c].flock

FcntlInv ==
  /\ Exclusive(plocks)
  /\ forwarding => \A c \in Client \ disturbed :
       /\ held[c].lock # None => plocks[BINDFS] = held[c].lock
       /\ want[c].op = "lock" /\ before[c] # None => plocks[BINDFS] = before[c]

Inv == TypeOK /\ RequestsServed /\ FlocksInv /\ FcntlInv

(* Changing one entry to a free mode keeps a table of locks exclusive.     *)
LEMMA FreeKeepsExclusive ==
  ASSUME NEW locks, NEW S, locks \in [S -> LockMode], Exclusive(locks),
         NEW h \in S, NEW m \in LockMode, Free(locks, h, m)
  PROVE  Exclusive([locks EXCEPT ![h] = m])
<1> SUFFICES ASSUME NEW a \in S, NEW b \in S, a # b
             PROVE  Compatible([locks EXCEPT ![h] = m][a], [locks EXCEPT ![h] = m][b])
  BY DEF Exclusive
<1>1. Compatible(locks[a], locks[b])
  BY DEF Exclusive
<1>2. /\ a # h => Compatible(m, locks[a])
      /\ b # h => Compatible(m, locks[b])
  BY DEF Free
<1> QED
  BY <1>1, <1>2 DEF Compatible

(* No lock is always free.                                                 *)
LEMMA NoneIsFree ==
  ASSUME NEW locks, NEW h
  PROVE  Free(locks, h, None)
BY DEF Free, Compatible

(* The fields of a request.                                                *)
LEMMA RequestFields ==
  ASSUME NEW r \in Requests
  PROVE  /\ r.op \in {"open", "release", "flock", "lock"}
         /\ r.mode \in LockMode
         /\ r # NoRequest
<1>1. r.op \in {"open", "release", "flock", "lock"}
  BY Zenon DEF Requests
<1>2. r.mode \in LockMode
  BY Zenon DEF Requests, LockMode
<1>3. NoRequest.op = "none"
  BY DEF NoRequest, None
<1>4. r # NoRequest
  BY <1>1, <1>3
<1> QED
  BY <1>1, <1>2, <1>4

(* The invariant holds at the start.                                       *)
LEMMA InitInv == Init => Inv
<1> SUFFICES ASSUME Init PROVE Inv
  OBVIOUS
<1>1. TypeOK
  BY LockAssumption DEF Init, TypeOK, LockMode, NoLocks, Holder, main_accepts
<1>2. RequestsServed
  BY DEF Init, RequestsServed, NoRequest, NoLocks, None
<1>3. FlocksInv /\ FcntlInv
  BY DEF Init, FlocksInv, FcntlInv, Exclusive, Compatible, NoLocks, NoRequest, None
<1> QED
  BY <1>1, <1>2, <1>3 DEF Inv

(* A client that makes a request gives up relying on the lock.             *)
LEMMA AskStep ==
  ASSUME Inv, NEW c \in Client, NEW r \in Requests, Ask(c, r)
  PROVE  Inv'
<1> USE DEF Inv
<1>0. r # NoRequest /\ r.op \in {"open", "release", "flock", "lock"}
  BY RequestFields
<1>1. TypeOK'
  BY DEF TypeOK, Ask, NoLocks, LockMode
<1>2. RequestsServed'
  BY <1>0 DEF TypeOK, RequestsServed, Ask, NoLocks, forwarding, None
<1>3. FlocksInv'
  BY <1>0 DEF TypeOK, FlocksInv, Ask, NoLocks, forwarding, Exclusive, Compatible
<1>4. FcntlInv'
  BY <1>0 DEF TypeOK, FcntlInv, Ask, NoLocks, forwarding
<1> QED
  BY <1>1, <1>2, <1>3, <1>4

(* Without the handlers, locks inside the mountpoint.                      *)
LEMMA KernelLockStep ==
  ASSUME Inv, NEW c \in Client, NEW r \in Requests, KernelLock(c, r)
  PROVE  Inv'
<1> USE DEF Inv
<1>0. r.op \in {"flock", "lock"} /\ r.mode \in LockMode
  BY RequestFields, LockAssumption DEF KernelLock, TypeOK
<1>1. TypeOK'
  BY <1>0 DEF TypeOK, KernelLock
<1>2. RequestsServed'
  BY <1>0 DEF TypeOK, RequestsServed, KernelLock, NoLocks, NoRequest, forwarding, None
<1>3. FlocksInv'
  <2>1. CASE r.op = "lock"
    BY <2>1 DEF TypeOK, FlocksInv, KernelLock, forwarding, Exclusive
  <2>2. CASE r.op = "flock"
    <3> DEFINE inside == [d \in Client |-> held[d].flock]
    <3>1. inside \in [Client -> LockMode] /\ Exclusive(inside) /\ Free(inside, c, r.mode)
      BY <2>2 DEF TypeOK, FlocksInv, KernelLock
    <3>2. Exclusive([inside EXCEPT ![c] = r.mode])
      BY <1>0, <3>1, FreeKeepsExclusive
    <3>3. inside' = [inside EXCEPT ![c] = r.mode]
      BY <2>2 DEF TypeOK, KernelLock
    <3> QED
      BY <3>2, <3>3 DEF FlocksInv, KernelLock, forwarding, Exclusive
  <2> QED
    BY <1>0, <2>1, <2>2
<1>4. FcntlInv'
  BY DEF FcntlInv, KernelLock, forwarding, Exclusive
<1> QED
  BY <1>1, <1>2, <1>3, <1>4

(* A worker takes a request that no other worker has.                      *)
LEMMA ReceiveStep ==
  ASSUME Inv, NEW w \in Worker, NEW c \in Client, Receive(w, c)
  PROVE  Inv'
<1> USE DEF Inv
<1>1. TypeOK'
  BY DEF TypeOK, Receive
<1>2. RequestsServed'
  BY DEF TypeOK, RequestsServed, Receive, forwarding
<1>3. FlocksInv' /\ FcntlInv'
  BY DEF FlocksInv, FcntlInv, Receive, forwarding, Exclusive
<1> QED
  BY <1>1, <1>2, <1>3

(* What an answer leaves of RequestsServed, whatever the locks it reports. *)
LEMMA AnswerServed ==
  ASSUME TypeOK, RequestsServed, NEW w \in Worker, NEW c \in Client, serving[w] = c,
         NEW locks \in [flock : LockMode, lock : LockMode], Answer(w, c, locks),
         UNCHANGED settings, open' \in SUBSET Client, open' \ {c} = open \ {c},
         c \notin open' => locks = NoLocks
  PROVE  RequestsServed'
<1>1. c # None
  BY LockAssumption DEF None
<1>2. \A v \in Worker \ {w} : serving[v] # c
  BY <1>1 DEF RequestsServed
<1>3. /\ serving' \in [Worker -> Client \cup {None}] /\ serving'[w] = None
      /\ \A v \in Worker \ {w} : serving'[v] = serving[v]
      /\ want'[c] = NoRequest /\ held'[c] = locks
      /\ \A d \in Client \ {c} : want'[d] = want[d] /\ held'[d] = held[d] /\ (d \in open' <=> d \in open)
  BY DEF TypeOK, Answer
<1>4. \A v \in Worker : serving'[v] # None => want'[serving'[v]] # NoRequest
  BY <1>2, <1>3 DEF RequestsServed, TypeOK
<1>5. \A u, v \in Worker : serving'[u] = serving'[v] /\ u # v => serving'[u] = None
  BY <1>3 DEF RequestsServed
<1>6. ASSUME NEW d \in Client
      PROVE  /\ want'[d].op = "flock" => held'[d].flock = None
             /\ want'[d].op = "lock" => held'[d].lock = None
             /\ want'[d].op \in {"open", "release"} => held'[d] = NoLocks
             /\ want'[d].op \in {"flock", "lock"} => forwarding'
             /\ d \notin open' => held'[d] = NoLocks /\ want'[d].op \in {"open", None}
  <2>1. CASE d = c
    BY <2>1, <1>3 DEF NoRequest, None
  <2>2. CASE d # c
    BY <2>2, <1>3 DEF RequestsServed, forwarding
  <2> QED
    BY <2>1, <2>2
<1> QED
  BY <1>4, <1>5, <1>6 DEF RequestsServed

(* bindfs_open adds an open file without a lock.                           *)
LEMMA OpenStep ==
  ASSUME Inv, NEW w \in Worker, bindfs_open(w)
  PROVE  Inv'
<1> DEFINE c == serving[w]
<1> USE DEF Inv
<1>0. c \in Client /\ serving[w] = c /\ want[c].op = "open" /\ held[c] = NoLocks
  BY DEF bindfs_open, TypeOK, RequestsServed
<1> HIDE DEF c
<1>1. /\ Answer(w, c, NoLocks) /\ open' = open \cup {c}
      /\ UNCHANGED <<settings, calls, flocks, plocks, disturbed>>
      /\ NoLocks \in [flock : LockMode, lock : LockMode]
  BY <1>0 DEF bindfs_open, NoLocks, LockMode
<1>2. TypeOK'
  BY <1>0, <1>1 DEF TypeOK, Answer, LockMode
<1>3. RequestsServed'
  BY <1>0, <1>1, AnswerServed DEF TypeOK
<1>4. held' = held
  BY <1>0, <1>1 DEF TypeOK, Answer
<1>5. FlocksInv'
  BY <1>1, <1>4 DEF FlocksInv, forwarding, Exclusive
<1>6. FcntlInv'
  BY <1>0, <1>1, <1>4 DEF TypeOK, FcntlInv, Answer, forwarding, Exclusive, NoRequest, None
<1> QED
  BY <1>2, <1>3, <1>5, <1>6

(* bindfs_flock, in its three outcomes.                                    *)
LEMMA FlockStep ==
  ASSUME Inv, NEW w \in Worker, bindfs_flock(w)
  PROVE  Inv'
<1> DEFINE c == serving[w]
           m == want[c].mode
<1> USE DEF Inv
<1>0. /\ c \in Client /\ serving[w] = c /\ want[c].op = "flock" /\ held[c].flock = None
      /\ m \in LockMode /\ forwarding /\ c \in open
  <2>1. c \in Client /\ want[c].op = "flock"
    BY DEF bindfs_flock, TypeOK
  <2>2. want[c] \in Requests
    BY <2>1 DEF TypeOK, NoRequest, None
  <2> QED
    BY <2>1, <2>2, RequestFields DEF RequestsServed, None
<1> HIDE DEF c, m
<1>1. UNCHANGED <<settings, calls, plocks, open, disturbed>>
  BY DEF bindfs_flock
<1>2. ASSUME NEW l \in LockMode, Free(flocks, c, l), flocks' = [flocks EXCEPT ![c] = l],
             NEW k \in LockMode, k = None \/ k = l,
             Answer(w, c, [held[c] EXCEPT !.flock = k])
      PROVE  Inv'
  <2> DEFINE locks == [held[c] EXCEPT !.flock = k]
  <2>1. locks \in [flock : LockMode, lock : LockMode] /\ locks.flock = k /\ locks.lock = held[c].lock
    BY <1>0 DEF TypeOK
  <2> HIDE DEF locks
  <2>2. Answer(w, c, locks)
    BY <1>2 DEF locks
  <2>3. TypeOK'
    BY <1>0, <1>1, <1>2, <2>1, <2>2 DEF TypeOK, Answer, LockMode, Holder
  <2>4. RequestsServed'
    BY <1>0, <1>1, <2>1, <2>2, AnswerServed DEF TypeOK
  <2>5. Exclusive(flocks')
    <3>1. flocks \in [Holder -> LockMode] /\ c \in Holder
      BY <1>0 DEF TypeOK, Holder
    <3> QED
      BY <3>1, <1>2, FreeKeepsExclusive, Zenon DEF FlocksInv
  <2>6. \A d \in Client : held'[d].flock # None => flocks'[d] = held'[d].flock
    BY <1>0, <1>2, <2>1, <2>2 DEF FlocksInv, TypeOK, Answer, Holder
  <2>7. Exclusive([d \in Client |-> held'[d].flock])
    BY <2>3, <2>5, <2>6 DEF Exclusive, Compatible, TypeOK, Holder
  <2>8. FlocksInv'
    BY <2>5, <2>6, <2>7 DEF FlocksInv
  <2>9. FcntlInv'
    BY <1>0, <1>1, <2>1, <2>2 DEF TypeOK, FcntlInv, Answer, forwarding, Exclusive, NoRequest, None
  <2> QED
    BY <2>3, <2>4, <2>8, <2>9
<1>3. ASSUME flocks' = [flocks EXCEPT ![c] = None], UNCHANGED <<serving, want, before, held>>
      PROVE  Inv'
  <2>1. TypeOK'
    BY <1>0, <1>1, <1>3 DEF TypeOK, LockMode, Holder
  <2>2. RequestsServed'
    BY <1>1, <1>3 DEF RequestsServed, forwarding
  <2>3. FlocksInv'
    <3>1. Exclusive(flocks')
      <4>1. flocks \in [Holder -> LockMode] /\ c \in Holder /\ None \in LockMode
        BY <1>0 DEF TypeOK, Holder, LockMode
      <4> QED
        BY <4>1, <1>3, FreeKeepsExclusive, NoneIsFree, Zenon DEF FlocksInv
    <3> QED
      BY <3>1, <1>0, <1>1, <1>3 DEF FlocksInv, forwarding, Exclusive, TypeOK, Holder
  <2>4. FcntlInv'
    BY <1>1, <1>3 DEF FcntlInv, forwarding, Exclusive
  <2> QED
    BY <2>1, <2>2, <2>3, <2>4
<1>4. held[c] = [held[c] EXCEPT !.flock = None] /\ None \in LockMode /\ Free(flocks, c, None)
  BY <1>0, NoneIsFree DEF TypeOK, LockMode
<1> QED
  BY <1>0, <1>2, <1>3, <1>4 DEF bindfs_flock, c, m

(* bindfs_lock, in its two outcomes.                                       *)
LEMMA LockStep ==
  ASSUME Inv, NEW w \in Worker, bindfs_lock(w)
  PROVE  Inv'
<1> DEFINE c == serving[w]
           m == want[c].mode
<1> USE DEF Inv
<1>0. /\ c \in Client /\ serving[w] = c /\ want[c].op = "lock" /\ held[c].lock = None
      /\ m \in LockMode /\ forwarding /\ c \in open
  <2>1. c \in Client /\ want[c].op = "lock"
    BY DEF bindfs_lock, TypeOK
  <2>2. want[c] \in Requests
    BY <2>1 DEF TypeOK, NoRequest, None
  <2> QED
    BY <2>1, <2>2, RequestFields DEF RequestsServed, None
<1> HIDE DEF c, m
<1>1. UNCHANGED <<settings, calls, flocks, open>>
  BY DEF bindfs_lock
<1>2. ASSUME NEW l \in LockMode, Answer(w, c, [held[c] EXCEPT !.lock = l]),
             disturbed' \in SUBSET Client,
             plocks' \in [Owner -> LockMode], FcntlInv'
      PROVE  Inv'
  <2> DEFINE locks == [held[c] EXCEPT !.lock = l]
  <2>1. locks \in [flock : LockMode, lock : LockMode] /\ locks.flock = held[c].flock
    BY <1>0 DEF TypeOK
  <2> HIDE DEF locks
  <2>2. Answer(w, c, locks)
    BY <1>2 DEF locks
  <2>3. TypeOK'
    BY <1>0, <1>1, <1>2, <2>1, <2>2 DEF TypeOK, Answer, LockMode
  <2>4. RequestsServed'
    BY <1>0, <1>1, <2>1, <2>2, AnswerServed DEF TypeOK
  <2>5. \A d \in Client : held'[d].flock = held[d].flock
    BY <1>0, <2>1, <2>2 DEF TypeOK, Answer
  <2>6. FlocksInv'
    BY <1>1, <2>5 DEF FlocksInv, forwarding, Exclusive
  <2> QED
    BY <1>2, <2>3, <2>4, <2>6
<1>3. CASE /\ Free(plocks, BINDFS, m)
           /\ plocks' = [plocks EXCEPT ![BINDFS] = m]
           /\ Answer(w, c, [held[c] EXCEPT !.lock = m])
           /\ disturbed' = (disturbed \ {c}) \cup Others(c)
  <2>1. plocks \in [Owner -> LockMode] /\ BINDFS \in Owner
    BY DEF TypeOK, Owner
  <2>2. Exclusive(plocks') /\ plocks' \in [Owner -> LockMode] /\ plocks'[BINDFS] = m
    BY <1>0, <1>3, <2>1, FreeKeepsExclusive, Zenon DEF FcntlInv
  <2>3. disturbed' \in SUBSET Client
    BY <1>3 DEF TypeOK, Others
  <2>4. ASSUME NEW d \in Client \ disturbed'
        PROVE  /\ held'[d].lock # None => plocks'[BINDFS] = held'[d].lock
               /\ want'[d].op = "lock" /\ before'[d] # None => plocks'[BINDFS] = before'[d]
    <3>1. CASE d = c
      BY <1>0, <1>3, <2>2, <3>1 DEF TypeOK, Answer, NoRequest, None
    <3>2. CASE d # c
      <4>1. held[d].lock = None /\ want[d].op # "lock"
        BY <1>3, <2>4, <3>2 DEF Others
      <4>2. held'[d] = held[d] /\ want'[d] = want[d]
        BY <1>0, <1>3, <3>2 DEF TypeOK, Answer
      <4> QED
        BY <4>1, <4>2
    <3> QED
      BY <3>1, <3>2
  <2> QED
    BY <1>0, <1>2, <1>3, <2>2, <2>3, <2>4, Zenon DEF FcntlInv
<1>4. CASE /\ Answer(w, c, [held[c] EXCEPT !.lock = before[c]])
           /\ UNCHANGED <<plocks, disturbed>>
  <2>1. before[c] \in LockMode /\ plocks' \in [Owner -> LockMode] /\ disturbed' \in SUBSET Client
    BY <1>0, <1>4 DEF TypeOK
  <2>2. ASSUME NEW d \in Client \ disturbed
        PROVE  /\ held'[d].lock # None => plocks[BINDFS] = held'[d].lock
               /\ want'[d].op = "lock" /\ before'[d] # None => plocks[BINDFS] = before'[d]
    BY <1>0, <1>4, <2>2 DEF FcntlInv, TypeOK, Answer, NoRequest, None
  <2>3. FcntlInv'
    BY <1>4, <2>2 DEF FcntlInv, Exclusive
  <2> QED
    BY <1>2, <1>4, <2>1, <2>3
<1> QED
  BY <1>3, <1>4 DEF bindfs_lock, c, m

(* bindfs_release drops all locks of its open file.                        *)
LEMMA ReleaseStep ==
  ASSUME Inv, NEW w \in Worker, bindfs_release(w)
  PROVE  Inv'
<1> DEFINE c == serving[w]
<1> USE DEF Inv
<1>0. c \in Client /\ serving[w] = c /\ want[c].op = "release" /\ held[c] = NoLocks
  BY DEF bindfs_release, TypeOK, RequestsServed
<1> HIDE DEF c
<1>1. /\ Answer(w, c, NoLocks) /\ open' = open \ {c}
      /\ flocks' = [flocks EXCEPT ![c] = None] /\ plocks' = [plocks EXCEPT ![BINDFS] = None]
      /\ disturbed' = (disturbed \ {c}) \cup Others(c)
      /\ UNCHANGED <<settings, calls>>
      /\ NoLocks \in [flock : LockMode, lock : LockMode] /\ None \in LockMode
  BY <1>0 DEF bindfs_release, NoLocks, LockMode, c
<1>2. TypeOK'
  BY <1>0, <1>1 DEF TypeOK, Answer, Others, Owner, Holder
<1>3. RequestsServed'
  BY <1>0, <1>1, AnswerServed DEF TypeOK
<1>4. held' = held /\ want'[c] = NoRequest /\ \A d \in Client \ {c} : want'[d] = want[d]
  BY <1>0, <1>1 DEF TypeOK, Answer
<1>5. FlocksInv'
  <2>1. flocks \in [Holder -> LockMode] /\ c \in Holder
    BY <1>0 DEF TypeOK, Holder
  <2>2. Exclusive(flocks')
    BY <1>1, <2>1, FreeKeepsExclusive, NoneIsFree, Zenon DEF FlocksInv
  <2>3. \A d \in Client : held[d].flock # None => flocks'[d] = flocks[d]
    BY <1>0, <1>1, <2>1 DEF NoLocks, Holder
  <2> QED
    BY <1>1, <1>4, <2>2, <2>3 DEF FlocksInv, forwarding
<1>6. FcntlInv'
  <2>1. plocks \in [Owner -> LockMode] /\ BINDFS \in Owner
    BY DEF TypeOK, Owner
  <2>2. Exclusive(plocks')
    BY <1>1, <2>1, FreeKeepsExclusive, NoneIsFree, Zenon DEF FcntlInv
  <2>3. \A d \in Client \ disturbed' : held'[d].lock = None /\ want'[d].op # "lock"
    <3>1. NoLocks.lock = None /\ NoRequest.op # "lock"
      BY DEF NoLocks, NoRequest, None
    <3>2. \A d \in Client \ disturbed' : d # c => held[d].lock = None /\ want[d].op # "lock"
      BY <1>1 DEF Others
    <3> QED
      BY <1>0, <1>4, <3>1, <3>2
  <2> QED
    BY <2>2, <2>3 DEF FcntlInv
<1> QED
  BY <1>2, <1>3, <1>5, <1>6

(* Locks that are taken in the source directory.                           *)
LEMMA LocalStep ==
  ASSUME Inv, NEW p \in Local, NEW m \in LockMode, LocalFlock(p, m) \/ LocalLock(p, m)
  PROVE  Inv'
<1> USE DEF Inv
<1>0. p \notin Client /\ p # BINDFS /\ p \in Holder /\ p \in Owner
  BY LockAssumption DEF Holder, Owner
<1>1. CASE LocalFlock(p, m)
  <2>1. TypeOK'
    BY <1>0, <1>1 DEF TypeOK, LocalFlock, Holder
  <2>2. RequestsServed'
    BY <1>1 DEF RequestsServed, LocalFlock, forwarding
  <2>3. Exclusive(flocks')
    BY <1>0, <1>1, FreeKeepsExclusive, Zenon DEF FlocksInv, TypeOK, LocalFlock
  <2>4. FlocksInv'
    BY <1>0, <1>1, <2>3 DEF FlocksInv, TypeOK, LocalFlock, forwarding, Exclusive
  <2>5. FcntlInv'
    BY <1>1 DEF FcntlInv, LocalFlock, forwarding, Exclusive
  <2> QED
    BY <2>1, <2>2, <2>4, <2>5
<1>2. CASE LocalLock(p, m)
  <2>1. TypeOK'
    BY <1>0, <1>2 DEF TypeOK, LocalLock
  <2>2. RequestsServed'
    BY <1>2 DEF RequestsServed, LocalLock, forwarding
  <2>3. Exclusive(plocks')
    BY <1>0, <1>2, FreeKeepsExclusive, Zenon DEF FcntlInv, TypeOK, LocalLock
  <2>4. FcntlInv'
    BY <1>0, <1>2, <2>3 DEF FcntlInv, TypeOK, LocalLock, forwarding
  <2>5. FlocksInv'
    BY <1>2 DEF FlocksInv, LocalLock, forwarding, Exclusive
  <2> QED
    BY <2>1, <2>2, <2>4, <2>5
<1> QED
  BY <1>1, <1>2

(* Every step keeps the invariant.                                         *)
LEMMA StepInv == Inv /\ [Next]_vars => Inv'
<1> SUFFICES ASSUME Inv, [Next]_vars PROVE Inv'
  OBVIOUS
<1>1. CASE UNCHANGED vars
  BY <1>1 DEF vars, Inv, TypeOK, RequestsServed, FlocksInv, FcntlInv, Exclusive, forwarding
<1>2. CASE Next
  BY <1>2, AskStep, KernelLockStep, ReceiveStep, OpenStep, FlockStep, LockStep, ReleaseStep,
     LocalStep DEF Next, Handle, LockMode
<1> QED
  BY <1>1, <1>2
-----------------------------------------------------------------------------
(* Type correctness; and only open files have flocks.                      *)
THEOREM TypeCorrect == Spec => []TypeOK
<1>1. Inv => TypeOK
  BY DEF Inv
<1> QED
  BY InitInv, StepInv, <1>1, PTL DEF Spec

(* A client of the mount that nobody has disturbed and a process in the    *)
(* source directory never rely on conflicting fcntl locks.                 *)
THEOREM FcntlExcludes == Spec => []FcntlExclusion
<1>1. Inv => FcntlExclusion
  <2> SUFFICES ASSUME Inv, forwarding, NEW c \in Client \ disturbed, NEW p \in Local
               PROVE  Compatible(held[c].lock, plocks[p])
    BY DEF FcntlExclusion
  <2>1. Compatible(plocks[BINDFS], plocks[p])
    BY LockAssumption DEF Inv, TypeOK, FcntlInv, Exclusive, Owner
  <2> QED
    BY <2>1 DEF Inv, FcntlInv, Compatible
<1> QED
  BY InitInv, StepInv, <1>1, PTL DEF Spec
-----------------------------------------------------------------------------
(* Flocks refine LockTable.  In the table, a step changes the entry of a   *)
(* client if it changes what the client relies on ...                      *)
LEMMA ClientEntry ==
  ASSUME TypeOK, NEW c \in Client, NEW m, held'[c].flock = m,
         \A d \in Client \ {c} : held'[d].flock = held[d].flock,
         \A p \in Local : flocks'[p] = flocks[p], UNCHANGED settings
  PROVE  table' = [table EXCEPT ![c] = m]
BY LockAssumption, Zenon DEF table, forwarding, Holder

(* ... and two entries of it never conflict.                               *)
TableOK == \A g, h \in Holder : g # h => Compatible(table[g], table[h])

(* The invariant makes the table exclusive.                                *)
LEMMA TableExclusive == Inv => TableOK
<1> SUFFICES ASSUME Inv, NEW g \in Holder, NEW h \in Holder, g # h
             PROVE  Compatible(table[g], table[h])
  BY DEF TableOK
<1>1. CASE forwarding
  <2>1. table[g] \in {flocks[g], None} /\ table[h] \in {flocks[h], None}
    BY <1>1 DEF table, Inv, FlocksInv
  <2>2. Compatible(flocks[g], flocks[h])
    BY DEF Inv, TypeOK, FlocksInv, Exclusive
  <2> QED
    BY <2>1, <2>2 DEF Compatible
<1>2. CASE ~forwarding
  <2>1. CASE g \in Client /\ h \in Client
    BY <2>1 DEF table, Inv, FlocksInv, Exclusive
  <2>2. CASE g \notin Client \/ h \notin Client
    BY <1>2, <2>2 DEF table, Compatible
  <2> QED
    BY <2>1, <2>2
<1> QED
  BY <1>1, <1>2

(* A step that changes one entry of the table is a step of LockTable if    *)
(* the table is exclusive afterwards.                                      *)
LEMMA EntryChange ==
  ASSUME NEW h \in Holder, NEW m \in LockMode, table' = [table EXCEPT ![h] = m], TableOK'
  PROVE  Table!Next
<1>1. CASE m = None
  BY <1>1, Zenon DEF Table!Next, Table!Drop, Table!None, None
<1>2. CASE m \in Mode
  <2>0. table'[h] = m /\ \A g \in Holder \ {h} : table'[g] = table[g]
    BY Zenon DEF table
  <2>1. \A g \in Holder \ {h} : Compatible(m, table[g])
    BY <2>0 DEF TableOK
  <2>2. Table!Grant(h, m)
    BY <2>1 DEF Table!Grant, Table!Compatible, Table!None, Compatible, None
  <2> QED
    BY <1>2, <2>2 DEF Table!Next, Table!Mode, Mode
<1> QED
  BY <1>1, <1>2 DEF LockMode

(* Every step is a step of the table or leaves it alone.                   *)
LEMMA StepRefines ==
  ASSUME Inv, Inv', TableOK', [Next]_vars
  PROVE  [Table!Next]_table
<1> USE DEF Inv
<1>1. ASSUME NEW c \in Client, \A d \in Client \ {c} : held'[d].flock = held[d].flock,
             \A p \in Local : flocks'[p] = flocks[p], UNCHANGED settings
      PROVE  Table!Next
  <2>1. held'[c].flock \in LockMode
    BY DEF TypeOK
  <2>2. table' = [table EXCEPT ![c] = held'[c].flock]
    BY <1>1, ClientEntry
  <2> QED
    BY <2>1, <2>2, EntryChange, Zenon DEF Holder
<1>2. ASSUME NEW c \in Client, NEW r \in Requests, Ask(c, r) \/ KernelLock(c, r)
      PROVE  Table!Next
  <2>1. \A d \in Client \ {c} : held'[d].flock = held[d].flock
    BY <1>2 DEF Ask, KernelLock, TypeOK
  <2> QED
    BY <1>1, <1>2, <2>1 DEF Ask, KernelLock
<1>3. ASSUME NEW w \in Worker, NEW c \in Client, Receive(w, c)
      PROVE  UNCHANGED table
  BY <1>3 DEF Receive, table, forwarding
<1>4. ASSUME NEW w \in Worker, Handle(w)
      PROVE  Table!Next
  <2>1. serving[w] \in Client
    BY <1>4 DEF Handle, bindfs_open, bindfs_flock, bindfs_lock, bindfs_release, TypeOK
  <2>2. UNCHANGED settings /\ \A p \in Local : flocks'[p] = flocks[p]
    BY <1>4, <2>1, LockAssumption
       DEF Handle, bindfs_open, bindfs_flock, bindfs_lock, bindfs_release, TypeOK, Holder
  <2>3. \A d \in Client \ {serving[w]} : held'[d].flock = held[d].flock
    BY <1>4, <2>1 DEF Handle, bindfs_open, bindfs_flock, bindfs_lock, bindfs_release, TypeOK, Answer
  <2> QED
    BY <1>1, <2>1, <2>2, <2>3
<1>5. ASSUME NEW p \in Local, NEW m \in LockMode, LocalFlock(p, m)
      PROVE  [Table!Next]_table
  <2>1. p \in Holder \ Client
    BY LockAssumption DEF Holder
  <2>2. CASE forwarding
    <3>1. table' = [table EXCEPT ![p] = m]
      BY <1>5, <2>1, <2>2, Zenon DEF LocalFlock, TypeOK, table, forwarding
    <3> QED
      BY <2>1, <3>1, EntryChange, Zenon
  <2>3. CASE ~forwarding
    BY <1>5, <2>3 DEF LocalFlock, table, forwarding
  <2> QED
    BY <2>2, <2>3
<1>6. ASSUME NEW p \in Local, NEW m \in LockMode, LocalLock(p, m)
      PROVE  UNCHANGED table
  BY <1>6 DEF LocalLock, table, forwarding
<1>7. CASE UNCHANGED vars
  BY <1>7 DEF vars, table, forwarding
<1> QED
  BY <1>2, <1>3, <1>4, <1>5, <1>6, <1>7 DEF Next, LockMode

(* The flocks of the mount and the source directory implement LockTable:   *)
(* an exclusive flock excludes all others wherever they were taken, and    *)
(* only its holder's own requests end it.                                  *)
THEOREM FlocksImplementTable == Spec => ImplementsTable
<1>1. Init => Table!Init
  BY DEF Init, Table!Init, Table!None, table, NoLocks, None
<1>2. Inv /\ Inv' /\ TableOK' /\ [Next]_vars => [Table!Next]_table
  BY StepRefines
<1> QED
  BY InitInv, StepInv, TableExclusive, <1>1, <1>2, PTL DEF Spec, ImplementsTable, Table!Spec
=============================================================================
