--------------------------- MODULE LockForwarding ---------------------------
(***************************************************************************)
(* --enable-lock-forwarding: lock requests of the clients of the mount,    *)
(* the worker threads of the FUSE loop that pass them on to the file in    *)
(* the source directory (bindfs_lock, bindfs_flock), and processes that    *)
(* lock the same file in the source directory itself.                      *)
(*                                                                         *)
(* There is one file, and locks cover all of it.  A client opens it once   *)
(* at a time, which gives bindfs one open file per client; an flock        *)
(* belongs to the open file, an fcntl lock to the process, and that is     *)
(* bindfs for all clients.                                                 *)
(***************************************************************************)
EXTENDS Integers, FiniteSets

CONSTANTS
  Client,   \* processes with the file open in the mount
  Local,    \* processes with the file open in the source directory
  Worker,   \* threads of the FUSE loop
  Calls,    \* which lock calls programs make: sets of "flock" and "lock" (fcntl)
  BINDFS    \* bindfs, as the owner of fcntl locks

ASSUME LockAssumption ==
  /\ Client \cap Local = {} /\ BINDFS \notin Local
  /\ "none" \notin Client
  /\ Calls \subseteq SUBSET {"flock", "lock"}

VARIABLES
  settings,
  calls,      \* the calls made in this behaviour
  flocks,     \* flocks on the file in the source directory, by open file
  plocks,     \* fcntl locks on it, by process
  open,       \* clients for which bindfs has the file open
  want,       \* the request that each client waits for
  before,     \* the fcntl lock that it had when it made the request
  serving,    \* the client whose request a worker executes
  held,       \* the locks that a client may rely on: it has been told of them
              \* and has no request under way that changes them
  disturbed   \* history: clients whose fcntl lock another client's request has touched

vars == <<settings, calls, flocks, plocks, open, want, before, serving, held, disturbed>>

None == "none"
Mode == {"SH", "EX"}
Holder == Client \cup Local
Owner == Local \cup {BINDFS}
LockMode == Mode \cup {None}
NoLocks == [flock |-> None, lock |-> None]
Requests ==
  [op : {"open", "release"}, mode : {None}, wait : {FALSE}] \cup
  [op : {"flock", "lock"}, mode : LockMode, wait : {FALSE}] \cup
  [op : {"flock", "lock"}, mode : Mode, wait : {TRUE}]
NoRequest == [op |-> None, mode |-> None, wait |-> FALSE]

Compatible(m, n) == None \in {m, n} \/ (m = "SH" /\ n = "SH")
Free(locks, h, m) == \A g \in DOMAIN locks \ {h} : Compatible(m, locks[g])

(***************************************************************************)
(* main refuses lock forwarding in single-threaded mode, and removes the   *)
(* handlers unless it is enabled: the kernel then keeps the locks of the   *)
(* mount by itself.                                                        *)
(***************************************************************************)
main_accepts_Any(s) == TRUE
main_accepts(s) == ~(s.enable_lock_forwarding /\ ~s.multithreaded)

forwarding == settings.enable_lock_forwarding

Init ==
  /\ settings \in {s \in [enable_lock_forwarding : BOOLEAN, multithreaded : BOOLEAN] : main_accepts(s)}
  /\ calls \in Calls
  /\ flocks = [h \in Holder |-> None]
  /\ plocks = [o \in Owner |-> None]
  /\ open = {}
  /\ want = [c \in Client |-> NoRequest]
  /\ before = [c \in Client |-> None]
  /\ serving = [w \in Worker |-> None]
  /\ held = [c \in Client |-> NoLocks]
  /\ disturbed = {}

(***************************************************************************)
(* Clients.  While a request is under way its client does not rely on the  *)
(* lock that it is about; a close gives up both.                           *)
(***************************************************************************)
Ask(c, r) ==
  /\ want[c] = NoRequest
  /\ (r.op = "open") = (c \notin open)
  /\ r.op \in {"flock", "lock"} => forwarding /\ r.op \in calls
  /\ want' = [want EXCEPT ![c] = r]
  /\ before' = [before EXCEPT ![c] = held[c].lock]
  /\ held' = [held EXCEPT ![c] =
       CASE r.op = "release" -> NoLocks
         [] r.op = "flock"   -> [@ EXCEPT !.flock = None]
         [] r.op = "lock"    -> [@ EXCEPT !.lock = None]
         [] OTHER            -> @]
  /\ UNCHANGED <<settings, calls, flocks, plocks, open, serving, disturbed>>

(* Without the handlers: locking inside the mountpoint (external).         *)
KernelLock(c, r) ==
  LET inside == [d \in Client |-> held[d][r.op]]
  IN  /\ ~forwarding
      /\ want[c] = NoRequest /\ c \in open
      /\ r.op \in calls
      /\ Free(inside, c, r.mode)
      /\ held' = [held EXCEPT ![c][r.op] = r.mode]
      /\ UNCHANGED <<settings, calls, flocks, plocks, open, want, before, serving, disturbed>>

(***************************************************************************)
(* Workers.  In single-threaded mode a request is read only when the one   *)
(* before has been answered.                                               *)
(***************************************************************************)
Receive(w, c) ==
  /\ serving[w] = None
  /\ ~settings.multithreaded => \A v \in Worker : serving[v] = None
  /\ want[c] # NoRequest /\ \A v \in Worker : serving[v] # c
  /\ serving' = [serving EXCEPT ![w] = c]
  /\ UNCHANGED <<settings, calls, flocks, plocks, open, want, before, held, disturbed>>

(* The handler of the request has returned; its client now has these locks.*)
Answer(w, c, locks) ==
  /\ serving' = [serving EXCEPT ![w] = None]
  /\ want' = [want EXCEPT ![c] = NoRequest]
  /\ held' = [held EXCEPT ![c] = locks]
  /\ before' = [before EXCEPT ![c] = None]

Others(c) == {d \in Client \ {c} : held[d].lock # None \/ want[d].op = "lock"}

bindfs_open(w) ==
  LET c == serving[w]
  IN  /\ c # None /\ want[c].op = "open"
      /\ open' = open \cup {c}
      /\ Answer(w, c, NoLocks)
      /\ UNCHANGED <<settings, calls, flocks, plocks, disturbed>>

(* flock: an open file that changes its lock first loses the one it had.   *)
(* A request that need not wait fails (EWOULDBLOCK), the others block the  *)
(* worker.                                                                 *)
bindfs_flock_Unchecked(w) ==
  LET c == serving[w]
      m == want[c].mode
  IN  /\ c # None /\ want[c].op = "flock"
      /\ \/ /\ Free(flocks, c, m)
            /\ flocks' = [flocks EXCEPT ![c] = m]
            /\ Answer(w, c, [held[c] EXCEPT !.flock = m])
         \/ /\ ~Free(flocks, c, m)
            /\ flocks' = [flocks EXCEPT ![c] = None]
            /\ Answer(w, c, [held[c] EXCEPT !.flock = m])
      /\ UNCHANGED <<settings, calls, plocks, open, disturbed>>
bindfs_flock(w) ==
  LET c == serving[w]
      m == want[c].mode
  IN  /\ c # None /\ want[c].op = "flock"
      /\ \/ /\ Free(flocks, c, m)
            /\ flocks' = [flocks EXCEPT ![c] = m]
            /\ Answer(w, c, [held[c] EXCEPT !.flock = m])
         \/ /\ ~Free(flocks, c, m) /\ ~want[c].wait
            /\ flocks' = [flocks EXCEPT ![c] = None]
            /\ Answer(w, c, held[c])
         \/ /\ ~Free(flocks, c, m) /\ want[c].wait /\ flocks[c] # None
            /\ flocks' = [flocks EXCEPT ![c] = None]
            /\ UNCHANGED <<serving, want, before, held>>
      /\ UNCHANGED <<settings, calls, plocks, open, disturbed>>

(* fcntl: the lock of bindfs changes, whichever client asked for it; other *)
(* clients that have or ask for a lock are disturbed.  A failing request   *)
(* leaves it.                                                              *)
bindfs_lock_Unchecked(w) ==
  LET c == serving[w]
      m == want[c].mode
  IN  /\ c # None /\ want[c].op = "lock"
      /\ IF Free(plocks, BINDFS, m) THEN plocks' = [plocks EXCEPT ![BINDFS] = m] ELSE UNCHANGED plocks
      /\ Answer(w, c, [held[c] EXCEPT !.lock = m])
      /\ UNCHANGED <<settings, calls, flocks, open, disturbed>>
bindfs_lock(w) ==
  LET c == serving[w]
      m == want[c].mode
  IN  /\ c # None /\ want[c].op = "lock"
      /\ \/ /\ Free(plocks, BINDFS, m)
            /\ plocks' = [plocks EXCEPT ![BINDFS] = m]
            /\ Answer(w, c, [held[c] EXCEPT !.lock = m])
            /\ disturbed' = (disturbed \ {c}) \cup Others(c)
         \/ /\ ~Free(plocks, BINDFS, m) /\ ~want[c].wait
            /\ Answer(w, c, [held[c] EXCEPT !.lock = before[c]])
            /\ UNCHANGED <<plocks, disturbed>>
      /\ UNCHANGED <<settings, calls, flocks, open>>

(* close: the open file goes with its flock, and with it every fcntl lock  *)
(* that the process has on the file.                                       *)
bindfs_release_KeepsOpen(w) ==
  LET c == serving[w]
  IN  /\ c # None /\ want[c].op = "release"
      /\ open' = open \ {c}
      /\ Answer(w, c, NoLocks)
      /\ UNCHANGED <<settings, calls, flocks, plocks, disturbed>>
bindfs_release(w) ==
  LET c == serving[w]
  IN  /\ c # None /\ want[c].op = "release"
      /\ open' = open \ {c}
      /\ flocks' = [flocks EXCEPT ![c] = None]
      /\ plocks' = [plocks EXCEPT ![BINDFS] = None]
      /\ disturbed' = (disturbed \ {c}) \cup Others(c)
      /\ Answer(w, c, NoLocks)
      /\ UNCHANGED <<settings, calls>>

(***************************************************************************)
(* A process in the source directory, which does not wait for locks.       *)
(***************************************************************************)
LocalFlock(p, m) ==
  /\ "flock" \in calls /\ Free(flocks, p, m)
  /\ flocks' = [flocks EXCEPT ![p] = m]
  /\ UNCHANGED <<settings, calls, plocks, open, want, before, serving, held, disturbed>>

LocalLock(p, m) ==
  /\ "lock" \in calls /\ Free(plocks, p, m)
  /\ plocks' = [plocks EXCEPT ![p] = m]
  /\ UNCHANGED <<settings, calls, flocks, open, want, before, serving, held, disturbed>>

Handle(w) == bindfs_open(w) \/ bindfs_flock(w) \/ bindfs_lock(w) \/ bindfs_release(w)

Next ==
  \/ \E c \in Client, r \in Requests : Ask(c, r) \/ KernelLock(c, r)
  \/ \E w \in Worker : Handle(w) \/ \E c \in Client : Receive(w, c)
  \/ \E p \in Local, m \in Mode \cup {None} : LocalFlock(p, m) \/ LocalLock(p, m)

Spec == Init /\ [][Next]_vars

(* The kernel hands requests out in the order they were made, so none is   *)
(* passed over for ever by a thread that becomes free again and again; and *)
(* a thread that does not wait for a lock goes on.                         *)
FairSpec ==
  /\ Spec
  /\ \A c \in Client : SF_vars(\E w \in Worker : Receive(w, c))
  /\ \A w \in Worker : WF_vars(Handle(w))
-----------------------------------------------------------------------------
(* Types; and only an open file has an flock.                              *)
TypeOK ==
  /\ settings \in [enable_lock_forwarding : BOOLEAN, multithreaded : BOOLEAN]
  /\ calls \in Calls
  /\ flocks \in [Holder -> LockMode]
  /\ plocks \in [Owner -> LockMode]
  /\ open \subseteq Client /\ disturbed \subseteq Client
  /\ want \in [Client -> Requests \cup {NoRequest}]
  /\ before \in [Client -> LockMode]
  /\ serving \in [Worker -> Client \cup {None}]
  /\ held \in [Client -> [flock : LockMode, lock : LockMode]]
  /\ \A c \in Client : flocks[c] # None => c \in open

(* The flocks that clients of the mount rely on and, with forwarding,      *)
(* those of the source directory together are one lock table: bindfs and   *)
(* the FUSE loop add nothing to it and lose nothing.                       *)
table == [h \in Holder |-> IF h \in Client THEN held[h].flock
                           ELSE IF forwarding THEN flocks[h] ELSE None]
Table == INSTANCE LockTable WITH Holder <- Holder, mode <- table
ImplementsTable == Table!Spec

(* With forwarding, a client of the mount and a process in the source      *)
(* directory never rely on conflicting fcntl locks, unless another client  *)
(* of the mount has changed the lock or closed the file since: bindfs owns *)
(* the locks of all clients.                                               *)
FcntlExclusion ==
  forwarding => \A c \in Client \ disturbed, p \in Local : Compatible(held[c].lock, plocks[p])

(* What the manual says of --enable-lock-forwarding, "locking a file in    *)
(* the bindfs mount will also lock the file in the source directory", for  *)
(* fcntl locks.                                                            *)
FcntlReachesSource ==
  forwarding => \A c \in Client : held[c].lock # None => plocks[BINDFS] = held[c].lock

(* Why main insists on --multithreaded; the manual: otherwise "bindfs will *)
(* deadlock as soon as there is lock contention".  A request that gives a  *)
(* lock up is always served, with a thread for every client that waits.    *)
UnlockServed ==
  \A c \in Client : want[c] # NoRequest /\ want[c].mode = None ~> want[c] = NoRequest
=============================================================================
