--------------------------- MODULE FileOpsProofs ----------------------------
(***************************************************************************)
(* For any number of threads and any requests in any order, no file        *)
(* descriptor is lost (NoFdLeak), and the source and the handlers keep     *)
(* their types (TypeOK).  The lemmas that only serve the proof that        *)
(* every step keeps an invariant are steps of that proof.                  *)
(***************************************************************************)
EXTENDS FileOps, FiniteSetTheorems, WellFoundedInduction, TLAPS

Fields == {"req", "path", "to", "func", "st", "also", "fd", "ret", "before", "target"}
IsCall(c) == DOMAIN c = Fields /\ c = [f \in Fields |-> c[f]]

Holding == {"chown_new_file", "release"}

(* A thread holds a descriptor only while it is about to hand it out or to *)
(* close it.                                                               *)
FdInv ==
  /\ fds \in [Ino -> Int] /\ handles \in [Ino -> Int]
  /\ DOMAIN pc = Worker /\ pc = [w \in Worker |-> pc[w]]
  /\ DOMAIN call = Worker /\ call = [w \in Worker |-> call[w]]
  /\ \A w \in Worker :
       /\ IsCall(call[w])
       /\ pc[w] \notin Holding => call[w].fd = None
  /\ NoFdLeak

(* How many threads hold a descriptor when one of them changes what it     *)
(* holds.                                                                  *)
LEMMA Counted ==
  ASSUME NEW A \in SUBSET Worker, NEW B \in SUBSET Worker, NEW w \in Worker,
         \A v \in Worker \ {w} : v \in B <=> v \in A
  PROVE  /\ Cardinality(A) \in Nat
         /\ Cardinality(B) = Cardinality(A) + (IF w \in B THEN 1 ELSE 0)
                                            - (IF w \in A THEN 1 ELSE 0)
<1> DEFINE C == A \ {w}
<1>1. IsFiniteSet(Worker) /\ C \in SUBSET Worker
  BY FileOpsAssumption
<1>2. IsFiniteSet(A) /\ IsFiniteSet(C)
  BY <1>1, FS_Subset
<1>3. Cardinality(A) \in Nat /\ Cardinality(C) \in Nat
  BY <1>2, FS_CardinalityType
<1>4. Cardinality(C) = IF w \in A THEN Cardinality(A) - 1 ELSE Cardinality(A)
  BY <1>2, FS_RemoveElement
<1>5. w \notin C
  OBVIOUS
<1>6. CASE w \in B
  <2>1. B = C \cup {w}
    BY <1>6
  <2> HIDE DEF C
  <2>2. Cardinality(C \cup {w}) = Cardinality(C) + 1
    BY <1>2, <1>5, FS_AddElement, Zenon
  <2> QED BY <1>3, <1>4, <1>6, <2>1, <2>2
<1>7. CASE w \notin B
  <2>1. B = C
    BY <1>7
  <2> HIDE DEF C
  <2> QED BY <1>3, <1>4, <1>7, <2>1
<1> QED BY <1>6, <1>7

(* A step in which a handler that holds no descriptor opens and closes     *)
(* none.                                                                   *)
Quiet(w) ==
  /\ fds' = fds /\ handles' = handles
  /\ pc[w] \notin Holding
  /\ \E to : pc' = [pc EXCEPT ![w] = to]
  /\ \/ call' = call
     \/ \E x : call' = [call EXCEPT ![w].path = x]
     \/ \E x : call' = [call EXCEPT ![w].to = x]
     \/ \E x : call' = [call EXCEPT ![w].func = x]
     \/ \E x : call' = [call EXCEPT ![w].also = x]
     \/ \E x : call' = [call EXCEPT ![w].st = x]
     \/ \E x : call' = [call EXCEPT ![w].ret = x]

(* At the start nothing is open.                                           *)
LEMMA FdInit == Init => FdInv
<1> SUFFICES ASSUME Init PROVE FdInv
  OBVIOUS
<1>1. fds = [i \in Ino |-> 0] /\ handles = [i \in Ino |-> 0]
  BY DEF Init
<1>2. pc = [w \in Worker |-> "idle"] /\ call = [w \in Worker |-> NoCall]
  BY DEF Init
<1>3. IsCall(NoCall) /\ NoCall.fd = None
  BY DEF IsCall, Fields, NoCall
<1>4. ASSUME NEW i \in Ino
      PROVE  fds[i] = handles[i] + Cardinality({w \in Worker : call[w].fd = i})
  <2>1. {w \in Worker : call[w].fd = i} = {}
    BY <1>2, <1>3, FileOpsAssumption
  <2>2. Cardinality({}) = 0
    BY FS_EmptySet
  <2>3. fds[i] = 0 /\ handles[i] = 0
    BY <1>1
  <2> QED BY <2>1, <2>2, <2>3
<1>5. fds \in [Ino -> Int] /\ handles \in [Ino -> Int]
  BY <1>1
<1>6. \A w \in Worker : IsCall(call[w]) /\ call[w].fd = None
  BY <1>2, <1>3
<1>7. /\ DOMAIN pc = Worker /\ pc = [w \in Worker |-> pc[w]]
      /\ DOMAIN call = Worker /\ call = [w \in Worker |-> call[w]]
  BY <1>2
<1> QED BY <1>4, <1>5, <1>6, <1>7, Zenon DEF FdInv, NoFdLeak

(* Every step keeps the invariant, one case per kind of handler.           *)
LEMMA FdStep == FdInv /\ [Next]_vars => FdInv'

(* One thread moves: what has to be shown for the invariant.               *)
<1>OneThread.
  ASSUME FdInv, NEW w \in Worker, NEW to, NEW c,
         pc' = [pc EXCEPT ![w] = to], call' = [call EXCEPT ![w] = c],
         IsCall(c),
         to \notin Holding => c.fd = None,
         fds' \in [Ino -> Int], handles' \in [Ino -> Int],
         \A i \in Ino : fds'[i] - fds[i] =
           (handles'[i] - handles[i]) + (IF c.fd = i THEN 1 ELSE 0) - (IF call[w].fd = i THEN 1 ELSE 0)
  PROVE  FdInv'
  <2> USE <1>OneThread
  <2>1. /\ DOMAIN pc' = Worker /\ pc' = [v \in Worker |-> pc'[v]]
        /\ pc'[w] = to /\ \A v \in Worker \ {w} : pc'[v] = pc[v]
    BY Zenon DEF FdInv
  <2>2. /\ DOMAIN call' = Worker /\ call' = [v \in Worker |-> call'[v]]
        /\ call'[w] = c /\ \A v \in Worker \ {w} : call'[v] = call[v]
    BY DEF FdInv
  <2>3. ASSUME NEW v \in Worker
        PROVE  /\ IsCall(call'[v])
               /\ pc'[v] \notin Holding => call'[v].fd = None
    <3>1. CASE v = w
      BY <2>1, <2>2, <3>1
    <3>2. CASE v # w
      BY <2>1, <2>2, <3>2, Zenon DEF FdInv
    <3> QED BY <3>1, <3>2
  <2>4. ASSUME NEW i \in Ino
        PROVE  fds'[i] = handles'[i] + Cardinality({v \in Worker : call'[v].fd = i})
    <3> DEFINE A == {v \in Worker : call[v].fd = i}
               B == {v \in Worker : call'[v].fd = i}
    <3>1. A \in SUBSET Worker /\ B \in SUBSET Worker /\ \A v \in Worker \ {w} : v \in B <=> v \in A
      BY <2>2
    <3>2. (w \in A <=> call[w].fd = i) /\ (w \in B <=> c.fd = i)
      BY <2>2
    <3>3. fds[i] = handles[i] + Cardinality(A)
      BY Zenon DEF FdInv, NoFdLeak
    <3>4. fds[i] \in Int /\ handles[i] \in Int /\ fds'[i] \in Int /\ handles'[i] \in Int
      BY DEF FdInv
    <3> HIDE DEF A, B
    <3>5. /\ Cardinality(A) \in Nat
          /\ Cardinality(B) = Cardinality(A) + (IF w \in B THEN 1 ELSE 0)
                                             - (IF w \in A THEN 1 ELSE 0)
      BY <3>1, Counted
    <3>6. fds'[i] = handles'[i] + Cardinality(B)
      BY <3>2, <3>3, <3>4, <3>5
    <3> QED BY <3>6 DEF B
  <2> QED BY <2>1, <2>2, <2>3, <2>4, Zenon DEF FdInv, NoFdLeak

(* The other locals of a handler can change without the descriptor.        *)
<1>OtherFields.
  ASSUME NEW c, IsCall(c), NEW x
  PROVE  /\ IsCall([c EXCEPT !.path = x]) /\ [c EXCEPT !.path = x].fd = c.fd
         /\ IsCall([c EXCEPT !.to = x]) /\ [c EXCEPT !.to = x].fd = c.fd
         /\ IsCall([c EXCEPT !.func = x]) /\ [c EXCEPT !.func = x].fd = c.fd
         /\ IsCall([c EXCEPT !.also = x]) /\ [c EXCEPT !.also = x].fd = c.fd
         /\ IsCall([c EXCEPT !.st = x]) /\ [c EXCEPT !.st = x].fd = c.fd
         /\ IsCall([c EXCEPT !.ret = x]) /\ [c EXCEPT !.ret = x].fd = c.fd
  BY <1>OtherFields, Zenon DEF IsCall, Fields

(* Such a step keeps the invariant.                                        *)
<1>QuietStep.
  ASSUME FdInv, NEW w \in Worker, Quiet(w)
  PROVE  FdInv'
  <2> USE <1>QuietStep
  <2>1. PICK to : pc' = [pc EXCEPT ![w] = to]
    BY Zenon DEF Quiet
  <2>2. IsCall(call[w]) /\ call[w].fd = None
    BY DEF Quiet, FdInv
  <2>3. \E c : call' = [call EXCEPT ![w] = c] /\ IsCall(c) /\ c.fd = None
    <3>1. CASE call' = call
      <4>1. call' = [call EXCEPT ![w] = call[w]]
        BY <3>1 DEF FdInv
      <4> QED BY <2>2, <4>1, Zenon
    <3>2. CASE \E x : call' = [call EXCEPT ![w].path = x]
      <4>1. PICK x : call' = [call EXCEPT ![w] = [call[w] EXCEPT !.path = x]]
        BY <3>2, Zenon
      <4>2. IsCall([call[w] EXCEPT !.path = x]) /\ [call[w] EXCEPT !.path = x].fd = None
        BY <2>2, <1>OtherFields, Zenon
      <4> QED BY <4>1, <4>2, Zenon
    <3>3. CASE \E x : call' = [call EXCEPT ![w].to = x]
      <4>1. PICK x : call' = [call EXCEPT ![w] = [call[w] EXCEPT !.to = x]]
        BY <3>3, Zenon
      <4>2. IsCall([call[w] EXCEPT !.to = x]) /\ [call[w] EXCEPT !.to = x].fd = None
        BY <2>2, <1>OtherFields, Zenon
      <4> QED BY <4>1, <4>2, Zenon
    <3>4. CASE \E x : call' = [call EXCEPT ![w].func = x]
      <4>1. PICK x : call' = [call EXCEPT ![w] = [call[w] EXCEPT !.func = x]]
        BY <3>4, Zenon
      <4>2. IsCall([call[w] EXCEPT !.func = x]) /\ [call[w] EXCEPT !.func = x].fd = None
        BY <2>2, <1>OtherFields, Zenon
      <4> QED BY <4>1, <4>2, Zenon
    <3>5. CASE \E x : call' = [call EXCEPT ![w].also = x]
      <4>1. PICK x : call' = [call EXCEPT ![w] = [call[w] EXCEPT !.also = x]]
        BY <3>5, Zenon
      <4>2. IsCall([call[w] EXCEPT !.also = x]) /\ [call[w] EXCEPT !.also = x].fd = None
        BY <2>2, <1>OtherFields, Zenon
      <4> QED BY <4>1, <4>2, Zenon
    <3>6. CASE \E x : call' = [call EXCEPT ![w].st = x]
      <4>1. PICK x : call' = [call EXCEPT ![w] = [call[w] EXCEPT !.st = x]]
        BY <3>6, Zenon
      <4>2. IsCall([call[w] EXCEPT !.st = x]) /\ [call[w] EXCEPT !.st = x].fd = None
        BY <2>2, <1>OtherFields, Zenon
      <4> QED BY <4>1, <4>2, Zenon
    <3>7. CASE \E x : call' = [call EXCEPT ![w].ret = x]
      <4>1. PICK x : call' = [call EXCEPT ![w] = [call[w] EXCEPT !.ret = x]]
        BY <3>7, Zenon
      <4>2. IsCall([call[w] EXCEPT !.ret = x]) /\ [call[w] EXCEPT !.ret = x].fd = None
        BY <2>2, <1>OtherFields, Zenon
      <4> QED BY <4>1, <4>2, Zenon
    <3> QED BY <3>1, <3>2, <3>3, <3>4, <3>5, <3>6, <3>7 DEF Quiet
  <2>4. PICK c : call' = [call EXCEPT ![w] = c] /\ IsCall(c) /\ c.fd = None
    BY <2>3, Zenon
  <2>5. fds' \in [Ino -> Int] /\ handles' \in [Ino -> Int]
    BY DEF Quiet, FdInv
  <2>6. \A i \in Ino : fds'[i] - fds[i] =
          (handles'[i] - handles[i]) + (IF c.fd = i THEN 1 ELSE 0) - (IF call[w].fd = i THEN 1 ELSE 0)
    BY <2>2, <2>4, SMTT(20) DEF Quiet, FdInv
  <2> QED BY <2>1, <2>4, <2>5, <2>6, <1>OneThread, Zenon

(* The steps of all handlers but those of create, open and release.        *)
<1>QuietActions.
  ASSUME FdInv, NEW w \in Worker,
         \/ ProcessPath(w) \/ ProcessTo(w)
         \/ bindfs_mknod(w) \/ bindfs_mkdir(w) \/ bindfs_symlink(w)
         \/ delete_file(w) \/ delete_lstat(w) \/ symlink_first(w) \/ target_first(w)
         \/ delete_target(w) \/ delete_main(w) \/ delete_also(w)
         \/ bindfs_rename(w) \/ rename(w) \/ bindfs_link(w)
         \/ chmod_lstat(w) \/ bindfs_chmod(w) \/ bindfs_chown(w) \/ lchown(w)
  PROVE  Quiet(w)
  <2> USE <1>QuietActions
  <2> USE DEF Quiet, Done, Goto, FilesUnchanged, Holding
  <2>1. CASE ProcessPath(w)
    BY <2>1, Zenon DEF ProcessPath
  <2>2. CASE ProcessTo(w)
    BY <2>2, Zenon DEF ProcessTo
  <2>3. CASE bindfs_mknod(w)
    BY <2>3 DEF bindfs_mknod, Make
  <2>4. CASE bindfs_mkdir(w)
    BY <2>4 DEF bindfs_mkdir, Make
  <2>5. CASE bindfs_symlink(w)
    BY <2>5 DEF bindfs_symlink, Make
  <2>6. CASE delete_file(w)
    BY <2>6 DEF delete_file
  <2>7. CASE delete_lstat(w)
    BY <2>7 DEF delete_lstat
  <2>8. CASE symlink_first(w)
    BY <2>8 DEF symlink_first
  <2>9. CASE target_first(w)
    BY <2>9 DEF target_first
  <2>10. CASE delete_target(w)
    BY <2>10 DEF delete_target
  <2>11. CASE delete_main(w)
    BY <2>11 DEF delete_main
  <2>12. CASE delete_also(w)
    BY <2>12, Zenon DEF delete_also
  <2>13. CASE bindfs_rename(w)
    BY <2>13 DEF bindfs_rename
  <2>14. CASE rename(w)
    BY <2>14, Zenon DEF rename
  <2>15. CASE bindfs_link(w)
    BY <2>15, Zenon DEF bindfs_link
  <2>16. CASE chmod_lstat(w)
    BY <2>16 DEF chmod_lstat
  <2>17. CASE bindfs_chmod(w)
    BY <2>17, Zenon DEF bindfs_chmod, chmod
  <2>18. CASE bindfs_chown(w)
    BY <2>18, Zenon DEF bindfs_chown
  <2>19. CASE lchown(w)
    BY <2>19 DEF lchown
  <2> QED BY <2>1, <2>2, <2>3, <2>4, <2>5, <2>6, <2>7, <2>8, <2>9, <2>10, <2>11, <2>12,
             <2>13, <2>14, <2>15, <2>16, <2>17, <2>18, <2>19, Zenon

(* Counting one more or one less, on an inode or on nothing.               *)
<1>Counter.
  ASSUME NEW f \in [Ino -> Int], NEW i
  PROVE  [f EXCEPT ![i] = @ + 1] \in [Ino -> Int] /\ [f EXCEPT ![i] = @ - 1] \in [Ino -> Int]
  <2> USE <1>Counter
  <2>1. CASE i \in Ino
    BY <2>1
  <2>2. CASE i \notin Ino
    <3>1. [f EXCEPT ![i] = @ + 1] = f /\ [f EXCEPT ![i] = @ - 1] = f
      BY <2>2
    <3> QED BY <3>1, Zenon
  <2> QED BY <2>1, <2>2

(* Opening a file.                                                         *)
<1>OpeningSteps.
  ASSUME FdInv, NEW w \in Worker, NEW i,
         pc[w] \notin Holding, pc' = [pc EXCEPT ![w] = "chown_new_file"],
         Opened(w, i), handles' = handles
  PROVE  FdInv'
  <2> USE <1>OpeningSteps
  <2> DEFINE c == [call[w] EXCEPT !.fd = i]
  <2>1. IsCall(call[w]) /\ call[w].fd = None
    BY DEF FdInv
  <2>2. IsCall(c) /\ c.fd = i
    BY <2>1 DEF IsCall, Fields
  <2>3. call' = [call EXCEPT ![w] = c]
    BY DEF Opened
  <2>4. fds' \in [Ino -> Int] /\ handles' \in [Ino -> Int]
    BY <1>Counter DEF FdInv, Opened
  <2> HIDE DEF c
  <2>5. None \notin Ino
    BY FileOpsAssumption
  <2>6. ASSUME NEW j \in Ino
        PROVE  fds'[j] - fds[j] =
                 (handles'[j] - handles[j]) + (IF c.fd = j THEN 1 ELSE 0) - (IF call[w].fd = j THEN 1 ELSE 0)
    <3>1. fds[j] \in Int /\ handles[j] \in Int
      BY DEF FdInv
    <3>2. fds'[j] = (IF i = j THEN fds[j] + 1 ELSE fds[j]) /\ handles'[j] = handles[j]
      BY DEF FdInv, Opened
    <3> QED BY <3>1, <3>2, <2>1, <2>2, <2>5
  <2> QED BY <2>2, <2>3, <2>4, <2>6, <1>OneThread, Zenon DEF Holding

(* bindfs_create opens a file, which its thread holds until it has been    *)
(* chowned, or fails.                                                      *)
<1>CreateKeeps.
  ASSUME FdInv, NEW w \in Worker, bindfs_create(w)
  PROVE  FdInv'
  <2> USE <1>CreateKeeps
  <2>1. pc[w] \notin Holding /\ handles' = handles
    BY DEF bindfs_create, Holding
  <2>2. CASE \E i : Opened(w, i) /\ Goto(w, "create", "chown_new_file")
    BY <2>1, <2>2, <1>OpeningSteps, Zenon DEF Goto
  <2>3. CASE \E ret : Done(w, "create", ret) /\ fds' = fds
    <3>1. Quiet(w)
      BY <2>1, <2>3, Zenon DEF Quiet, Done, Goto
    <3> QED BY <3>1, <1>QuietStep
  <2> QED BY <2>2, <2>3 DEF bindfs_create

(* bindfs_open hands the descriptor to the kernel in the step that opens   *)
(* the file.                                                               *)
<1>OpenKeeps.
  ASSUME FdInv, NEW w \in Worker, bindfs_open(w)
  PROVE  FdInv'
  <2> USE <1>OpenKeeps
  <2>1. pc[w] \notin Holding
    BY DEF bindfs_open, Holding
  <2>2. CASE UNCHANGED <<fds, handles>>
    <3>1. Quiet(w)
      BY <2>1, <2>2 DEF bindfs_open, Quiet, Done, Goto
    <3> QED BY <3>1, <1>QuietStep
  <2>3. CASE \E i : /\ fds' = [fds EXCEPT ![i] = @ + 1]
                    /\ handles' = [handles EXCEPT ![i] = @ + 1]
                    /\ Done(w, "open", OK)
    <3> DEFINE c == [call[w] EXCEPT !.ret = OK]
    <3>1. PICK i : /\ fds' = [fds EXCEPT ![i] = @ + 1]
                   /\ handles' = [handles EXCEPT ![i] = @ + 1]
                   /\ Done(w, "open", OK)
      BY <2>3, Zenon
    <3>2. IsCall(call[w]) /\ call[w].fd = None
      BY <2>1 DEF FdInv
    <3>3. IsCall(c) /\ c.fd = None
      BY <3>2, <1>OtherFields, Zenon
    <3>4. call' = [call EXCEPT ![w] = c] /\ pc' = [pc EXCEPT ![w] = "done"]
      BY <3>1 DEF Done, Goto
    <3> HIDE DEF c
    <3>5. fds' \in [Ino -> Int] /\ handles' \in [Ino -> Int]
      BY <3>1, <1>Counter DEF FdInv
    <3>6. ASSUME NEW j \in Ino
          PROVE  fds'[j] - fds[j] =
                   (handles'[j] - handles[j]) + (IF c.fd = j THEN 1 ELSE 0) - (IF call[w].fd = j THEN 1 ELSE 0)
      <4>1. fds[j] \in Int /\ handles[j] \in Int
        BY DEF FdInv
      <4>2. /\ fds'[j] = (IF i = j THEN fds[j] + 1 ELSE fds[j])
            /\ handles'[j] = (IF i = j THEN handles[j] + 1 ELSE handles[j])
        BY <3>1 DEF FdInv
      <4> QED BY <4>1, <4>2, <3>2, <3>3
    <3> QED BY <3>3, <3>4, <3>5, <3>6, <1>OneThread, Zenon
  <2> QED BY <2>2, <2>3 DEF bindfs_open

(* bindfs_create hands the descriptor to the kernel whatever               *)
(* chown_new_file returned.                                                *)
<1>ChownNewFileKeeps.
  ASSUME FdInv, NEW w \in Worker, chown_new_file(w)
  PROVE  FdInv'
  <2> USE <1>ChownNewFileKeeps
  <2>1. PICK ret : HandOut(w, ret)
    BY Zenon DEF chown_new_file
  <2>2. fds' = fds /\ IsCall(call[w])
    BY DEF chown_new_file, FdInv
  <2>3. PICK x : /\ pc' = [pc EXCEPT ![w] = "done"]
                 /\ call' = [call EXCEPT ![w] = [call[w] EXCEPT !.ret = x, !.fd = None]]
                 /\ handles' = IF call[w].fd # None
                               THEN [handles EXCEPT ![call[w].fd] = @ + 1] ELSE handles
    <3>1. CASE call[w].fd # None
      BY <2>1, <3>1, Zenon DEF HandOut, Goto
    <3>2. CASE call[w].fd = None
      <4>1. /\ pc' = [pc EXCEPT ![w] = "done"]
            /\ call' = [call EXCEPT ![w] = [call[w] EXCEPT !.ret = ret]]
            /\ handles' = handles
        BY <2>1, <3>2 DEF HandOut, Done, Goto
      <4>2. [call[w] EXCEPT !.ret = ret] = [call[w] EXCEPT !.ret = ret, !.fd = None]
        BY <2>2, <3>2, Zenon DEF IsCall, Fields
      <4> QED BY <3>2, <4>1, <4>2, Zenon
    <3> QED BY <3>1, <3>2, Zenon
  <2> DEFINE c == [call[w] EXCEPT !.ret = x, !.fd = None]
  <2>4. IsCall(c) /\ c.fd = None
    BY <2>2, Zenon DEF IsCall, Fields
  <2>5. call' = [call EXCEPT ![w] = c]
    BY <2>3
  <2> HIDE DEF c
  <2>6. fds' \in [Ino -> Int] /\ handles' \in [Ino -> Int]
    BY <2>2, <2>3, <1>Counter DEF FdInv
  <2>7. None \notin Ino
    BY FileOpsAssumption
  <2>8. ASSUME NEW j \in Ino
        PROVE  fds'[j] - fds[j] =
                 (handles'[j] - handles[j]) + (IF c.fd = j THEN 1 ELSE 0) - (IF call[w].fd = j THEN 1 ELSE 0)
    <3>1. fds[j] \in Int /\ handles[j] \in Int
      BY DEF FdInv
    <3>2. fds'[j] = fds[j] /\ handles'[j] = (IF call[w].fd = j THEN handles[j] + 1 ELSE handles[j])
      BY <2>2, <2>3, <2>7 DEF FdInv
    <3> QED BY <3>1, <3>2, <2>4, <2>7
  <2> QED BY <2>3, <2>4, <2>5, <2>6, <2>8, <1>OneThread, Zenon

(* bindfs_release closes what the kernel has given back.                   *)
<1>ReleaseKeeps.
  ASSUME FdInv, NEW w \in Worker, bindfs_release(w)
  PROVE  FdInv'
  <2> USE <1>ReleaseKeeps
  <2> DEFINE c == [call[w] EXCEPT !.ret = OK, !.fd = None]
  <2>1. IsCall(call[w])
    BY DEF FdInv
  <2>2. IsCall(c) /\ c.fd = None
    BY <2>1, Zenon DEF IsCall, Fields
  <2>3. call' = [call EXCEPT ![w] = c] /\ pc' = [pc EXCEPT ![w] = "done"]
    BY Zenon DEF bindfs_release, Goto
  <2> HIDE DEF c
  <2>4. fds' = [fds EXCEPT ![call[w].fd] = @ - 1] /\ handles' = handles
    BY DEF bindfs_release, Close
  <2>5. fds' \in [Ino -> Int] /\ handles' \in [Ino -> Int]
    BY <2>4, <1>Counter DEF FdInv
  <2>6. None \notin Ino
    BY FileOpsAssumption
  <2>7. ASSUME NEW j \in Ino
        PROVE  fds'[j] - fds[j] =
                 (handles'[j] - handles[j]) + (IF c.fd = j THEN 1 ELSE 0) - (IF call[w].fd = j THEN 1 ELSE 0)
    <3>1. fds[j] \in Int /\ handles[j] \in Int
      BY DEF FdInv
    <3>2. fds'[j] = (IF call[w].fd = j THEN fds[j] - 1 ELSE fds[j]) /\ handles'[j] = handles[j]
      BY <2>4 DEF FdInv
    <3> QED BY <3>1, <3>2, <2>2, <2>6
  <2> QED BY <2>2, <2>3, <2>5, <2>7, <1>OneThread, Zenon

(* A release takes the descriptor from the kernel.                         *)
<1>ReceiveReleaseKeeps.
  ASSUME FdInv, NEW w \in Worker, ReceiveRelease(w)
  PROVE  FdInv'
  <2> USE <1>ReceiveReleaseKeeps
  <2>1. PICK r \in Request[settings], i \in Ino :
                            /\ pc[w] = "idle" /\ pc' = [pc EXCEPT ![w] = "release"]
                            /\ handles' = [handles EXCEPT ![i] = @ - 1] /\ fds' = fds
                            /\ call' = [call EXCEPT ![w] = [NoCall EXCEPT !.req = r, !.fd = i]]
    BY Zenon DEF ReceiveRelease, Goto
  <2> DEFINE c == [NoCall EXCEPT !.req = r, !.fd = i]
  <2>2. IsCall(c) /\ c.fd = i
    BY Zenon DEF IsCall, Fields, NoCall
  <2>3. call[w].fd = None
    BY <2>1 DEF FdInv, Holding
  <2>4. call' = [call EXCEPT ![w] = c]
    BY <2>1
  <2> HIDE DEF c
  <2>5. fds' \in [Ino -> Int] /\ handles' \in [Ino -> Int]
    BY <2>1 DEF FdInv
  <2>6. None \notin Ino
    BY FileOpsAssumption
  <2>7. ASSUME NEW j \in Ino
        PROVE  fds'[j] - fds[j] =
                 (handles'[j] - handles[j]) + (IF c.fd = j THEN 1 ELSE 0) - (IF call[w].fd = j THEN 1 ELSE 0)
    <3>1. fds[j] \in Int /\ handles[j] \in Int
      BY DEF FdInv
    <3>2. fds'[j] = fds[j] /\ handles'[j] = (IF i = j THEN handles[j] - 1 ELSE handles[j])
      BY <2>1 DEF FdInv
    <3> QED BY <3>1, <3>2, <2>2, <2>3, <2>6
  <2> QED BY <2>1, <2>2, <2>4, <2>5, <2>7, <1>OneThread, Zenon DEF Holding

(* Where a call begins and where it ends, nothing is held.                 *)
<1>EmptyCallKeeps.
  ASSUME FdInv, NEW w \in Worker, Receive(w) \/ Reply(w)
  PROVE  FdInv'
  <2> USE <1>EmptyCallKeeps
  <2>1. \E to, c : /\ pc' = [pc EXCEPT ![w] = to] /\ call' = [call EXCEPT ![w] = c]
                   /\ IsCall(c) /\ c.fd = None
    <3>1. CASE Receive(w)
      <4>1. PICK r : /\ pc' = [pc EXCEPT ![w] = FirstStep(r.op)]
                     /\ call' = [call EXCEPT ![w] =
                          [NoCall EXCEPT !.req = r, !.path = r.path, !.target = realpath(r.path),
                                         !.before = Snapshot]]
        BY <3>1, Zenon DEF Receive, Goto
      <4> DEFINE c == [NoCall EXCEPT !.req = r, !.path = r.path, !.target = realpath(r.path),
                                     !.before = Snapshot]
      <4>2. IsCall(c) /\ c.fd = None
        BY Zenon DEF IsCall, Fields, NoCall
      <4>3. call' = [call EXCEPT ![w] = c]
        BY <4>1
      <4> HIDE DEF c
      <4> QED BY <4>1, <4>2, <4>3, Zenon
    <3>2. CASE Reply(w)
      <4>1. pc' = [pc EXCEPT ![w] = "idle"] /\ call' = [call EXCEPT ![w] = NoCall]
        BY <3>2 DEF Reply, Goto
      <4>2. IsCall(NoCall) /\ NoCall.fd = None
        BY DEF IsCall, Fields, NoCall
      <4> QED BY <4>1, <4>2, Zenon
    <3> QED BY <3>1, <3>2
  <2>2. PICK to, c : /\ pc' = [pc EXCEPT ![w] = to] /\ call' = [call EXCEPT ![w] = c]
                     /\ IsCall(c) /\ c.fd = None
    BY <2>1, Zenon
  <2>3. fds' = fds /\ handles' = handles
    BY Zenon DEF Receive, Reply, FilesUnchanged
  <2>4. call[w].fd = None
    <3>1. pc[w] \in {"idle", "done"}
      BY Zenon DEF Receive, Reply, Goto
    <3> QED BY <3>1 DEF FdInv, Holding
  <2>5. fds' \in [Ino -> Int] /\ handles' \in [Ino -> Int]
    BY <2>3 DEF FdInv
  <2>6. \A j \in Ino : fds'[j] - fds[j] =
          (handles'[j] - handles[j]) + (IF c.fd = j THEN 1 ELSE 0) - (IF call[w].fd = j THEN 1 ELSE 0)
    BY <2>2, <2>3, <2>4 DEF FdInv
  <2> QED BY <2>2, <2>5, <2>6, <1>OneThread, Zenon
<1> SUFFICES ASSUME FdInv, [Next]_vars PROVE FdInv'
  OBVIOUS
<1>1. ASSUME NEW w \in Worker, Step(w) PROVE FdInv'
  <2>1. CASE Receive(w) \/ Reply(w)
    BY <2>1, <1>EmptyCallKeeps
  <2>2. CASE ReceiveRelease(w)
    BY <2>2, <1>ReceiveReleaseKeeps
  <2>3. CASE bindfs_create(w)
    BY <2>3, <1>CreateKeeps
  <2>4. CASE chown_new_file(w)
    BY <2>4, <1>ChownNewFileKeeps
  <2>5. CASE bindfs_open(w)
    BY <2>5, <1>OpenKeeps
  <2>6. CASE bindfs_release(w)
    BY <2>6, <1>ReleaseKeeps
  <2>7. CASE Quiet(w)
    BY <2>7, <1>QuietStep
  <2> QED BY <1>1, <2>1, <2>2, <2>3, <2>4, <2>5, <2>6, <2>7, <1>QuietActions DEF Step
<1>2. CASE UNCHANGED <<fds, handles, pc, call>>
  BY <1>2 DEF FdInv, NoFdLeak
<1> QED BY <1>1, <1>2 DEF Next, SourceChmod, vars

(* For any number of threads, names, users and requests: every descriptor  *)
(* that bindfs has open on the source directory is held by a handler that  *)
(* is still running or known to the kernel, which will release it.         *)
THEOREM DescriptorsKept == Spec => []NoFdLeak
<1>1. FdInv => NoFdLeak
  BY DEF FdInv
<1> QED BY <1>1, FdInit, FdStep, PTL DEF Spec
-----------------------------------------------------------------------------
(***************************************************************************)
(* Names and the source directory.                                         *)
(***************************************************************************)
(* Every set of naturals that is not empty has a least element.            *)
LEMMA Least ==
  ASSUME NEW T \in SUBSET Nat, T # {}
  PROVE  \E x \in T : \A y \in T : x <= y
<1>1. PICK R : IsWellFoundedOn(R, Nat) /\ R = {ss \in Nat \X Nat : ss[1] < ss[2]}
  BY NatLessThanWellFounded DEF OpToRel
<1>2. PICK x \in T : \A y \in T : ~(<<y, x>> \in R)
  BY <1>1, WFMin, Zenon
<1>3. \A y \in T : <<y, x>> \in R <=> y < x
  BY <1>1
<1>4. \A y \in T : ~(y < x)
  BY <1>2, <1>3, Zenon
<1>5. ASSUME NEW y \in T PROVE x <= y
  <2>1. x \in Nat /\ y \in Nat
    OBVIOUS
  <2> QED BY <1>4, <2>1
<1> QED BY <1>5

(* A name that is not a link is where the lookup of it ends.               *)
LEMMA WalkStays ==
  ASSUME NEW next, NEW p, next[p] = p
  PROVE  WalkFrom(next, p) = p
<1> DEFINE N == Cardinality(Path)
           step[n \in 0..N] == IF n = 0 THEN p ELSE next[step[n - 1]]
<1>1. N \in Nat
  BY FS_CardinalityType, FileOpsAssumption
<1> HIDE DEF N
<1>2. step = [n \in 0..N |-> IF n = 0 THEN p ELSE next[step[n - 1]]]
  <2> DEFINE s == [n \in 0..N |-> p]
  <2>1. s = [n \in 0..N |-> IF n = 0 THEN p ELSE next[s[n - 1]]]
    BY <1>1
  <2> HIDE DEF s
  <2> QED BY <2>1, Zenon
<1> HIDE DEF step
<1>3. {n \in 0..N : step[n] # p} = {}
  <2> SUFFICES ASSUME {n \in 0..N : step[n] # p} # {} PROVE FALSE
    OBVIOUS
  <2>1. PICK x \in {n \in 0..N : step[n] # p} : \A y \in {n \in 0..N : step[n] # p} : x <= y
    <3>1. {n \in 0..N : step[n] # p} \in SUBSET Nat
      BY <1>1
    <3> QED BY <3>1, Least, Zenon
  <2>2. x # 0 /\ x \in 0..N
    BY <1>1, <1>2, <2>1
  <2>3. x - 1 \in 0..N /\ step[x - 1] = p
    BY <1>1, <2>1, <2>2
  <2>4. step[x] = next[step[x - 1]]
    BY <1>2, <2>2, Zenon
  <2> QED BY <2>1, <2>3, <2>4
<1>4. step[N] = p
  BY <1>1, <1>3
<1> QED BY <1>4 DEF WalkFrom, step, N

(* The inodes that exist are those with a name or a descriptor.            *)
SourceOK(e, n, f) ==
  /\ e \in [Path -> Ino \cup {None}] /\ n \in [Ino -> Nodes]
  /\ \A i \in Ino : IF i \in Range(e) \/ f[i] > 0 THEN n[i].kind # None ELSE n[i] = NoNode

(* What lstat says of a name.                                              *)
LEMMA KindFacts ==
  ASSUME SourceOK(entry, inode, fds), NEW p
  PROVE  /\ NodeAt(p) \in Nodes /\ Kind(p) \in {None, "reg", "dir", "lnk"}
         /\ p \in Path => /\ Kind(p) = NodeAt(p).kind
                          /\ Kind(p) = None <=> entry[p] = None
         /\ p # MNT /\ Kind(p) # None =>
              /\ p \in Path /\ entry[p] \in Ino /\ entry[p] \in Range(entry)
              /\ NodeAt(p) = inode[entry[p]]
<1>1. NoNode \in Nodes /\ NoNode.kind = None
  BY FileOpsAssumption, Zenon DEF Nodes, NoNode, Names
<1>2. p \in Path /\ entry[p] # None =>
        entry[p] \in Ino /\ entry[p] \in Range(entry) /\ inode[entry[p]].kind # None
  BY DEF SourceOK, Range
<1>3. NodeAt(p) \in Nodes
  BY <1>1, <1>2 DEF NodeAt, SourceOK
<1>4. \A node \in Nodes : node.kind \in {None, "reg", "dir", "lnk"}
  BY DEF Nodes
<1>5. p \in Path => p # MNT
  BY FileOpsAssumption
<1> QED BY <1>1, <1>2, <1>3, <1>4, <1>5 DEF Kind, NodeAt

(***************************************************************************)
(* Types.                                                                  *)
(***************************************************************************)
(* Which request brings a handler to a step.                               *)
DeleteSteps == {"delete_file", "delete_lstat", "symlink_first", "target_first", "delete_target",
                "delete_main", "delete_also"}
ServedAt(step, op) ==
  /\ step = "process_path" => op \in {"mknod", "mkdir", "create", "link", "chmod", "chown", "open"}
  /\ step = "process_to" => op \in {"link", "rename"}
  /\ step \in {"mknod", "mkdir", "symlink", "create", "link", "open", "release", "rename", "chown", "chmod"}
       => op = step
  /\ step = "chown_new_file" => op \in {"mknod", "mkdir", "symlink", "create"}
  /\ step \in DeleteSteps => op \in {"unlink", "rmdir"}
  /\ step = "bindfs_rename" => op = "rename"
  /\ step = "chmod_lstat" => op = "chmod"
  /\ step = "bindfs_chown" => op = "chown"

(* What the handlers rely on in their locals.                              *)
CallOK(step, c) ==
  /\ step \in PC
  /\ c.st \in Nodes
  /\ step # "idle" => c.req \in Requests /\ ServedAt(step, c.req.op)
  /\ step \notin {"idle", "done", "release"} => c.path \in Path
  /\ step = "release" => c.fd \in Ino

TypeInv ==
  /\ settings \in Settings
  /\ SourceOK(entry, inode, fds)
  /\ \A i \in Ino : fds[i] \in 0..MaxFds /\ handles[i] >= 0
  /\ \A w \in Worker : CallOK(pc[w], call[w])

(* Facts about the settings and the request that the handlers rely on.     *)
LEMMA RequestTypes ==
  ASSUME TypeInv, NEW w \in Worker, pc[w] # "idle"
  PROVE  /\ settings.create_permchain[call[w].req.mode] \in SUBSET ModeBit
         /\ settings.chmod_permchain[call[w].req.mode] \in SUBSET ModeBit
         /\ call[w].req.mode \in SUBSET ModeBit
         /\ call[w].req.to \in Names /\ call[w].req.user \in User
         /\ call[w].req.uid \in User \cup {Keep} /\ call[w].req.gid \in User \cup {Keep}
<1>1. call[w].req \in Requests /\ settings \in Options
  BY FileOpsAssumption, Zenon DEF TypeInv, CallOK
<1>2. call[w].req.mode \in SUBSET ModeBit
  BY <1>1 DEF Requests
<1>3. /\ settings.create_permchain \in [SUBSET ModeBit -> SUBSET ModeBit]
      /\ settings.chmod_permchain \in [SUBSET ModeBit -> SUBSET ModeBit]
  BY <1>1 DEF Options
<1>4. /\ call[w].req.to \in Names /\ call[w].req.user \in User
      /\ call[w].req.uid \in User \cup {Keep} /\ call[w].req.gid \in User \cup {Keep}
  BY <1>1 DEF Requests
<1> QED BY <1>2, <1>3, <1>4, Zenon

(* A node that chown or chmod has changed.                                 *)
LEMMA ChownedTypes ==
  ASSUME NEW node \in Nodes, NEW owner \in User \cup {Keep}, NEW group \in User \cup {Keep}
  PROVE  /\ ChownedNode(node, owner, group) \in Nodes
         /\ ChownedNode(node, owner, group).kind = node.kind
         /\ ChownedNode(node, owner, group).mode = node.mode
         /\ ChownedNode(node, owner, group).target = node.target
         /\ ChownedNode(node, owner, group).owner = IF owner = Keep THEN node.owner ELSE owner
         /\ ChownedNode(node, owner, group).group = IF group = Keep THEN node.group ELSE group
<1> DEFINE o == IF owner = Keep THEN node.owner ELSE owner
           g == IF group = Keep THEN node.group ELSE group
<1>1. o \in User /\ g \in User
  BY DEF Nodes
<1>2. ChownedNode(node, owner, group) = [node EXCEPT !.owner = o, !.group = g]
  BY DEF ChownedNode
<1> HIDE DEF o, g
<1>3. /\ [node EXCEPT !.owner = o, !.group = g] \in Nodes
      /\ [node EXCEPT !.owner = o, !.group = g].kind = node.kind
      /\ [node EXCEPT !.owner = o, !.group = g].mode = node.mode
      /\ [node EXCEPT !.owner = o, !.group = g].target = node.target
      /\ [node EXCEPT !.owner = o, !.group = g].owner = o
      /\ [node EXCEPT !.owner = o, !.group = g].group = g
  BY <1>1, Zenon DEF Nodes
<1> QED BY <1>2, <1>3 DEF o, g

(* A chmod sets the mode alone.                                            *)
LEMMA ChmoddedTypes ==
  ASSUME NEW node \in Nodes, NEW mode \in SUBSET ModeBit
  PROVE  /\ [node EXCEPT !.mode = mode] \in Nodes
         /\ [node EXCEPT !.mode = mode].kind = node.kind
         /\ [node EXCEPT !.mode = mode].mode = mode
         /\ [node EXCEPT !.mode = mode].owner = node.owner
BY DEF Nodes

(* chown.                                                                  *)
LEMMA NewIdTypes ==
  ASSUME NEW policy, NEW id \in User \cup {Keep}
  PROVE  NewId(policy, id) \in User \cup {Keep}
BY DEF NewId

(* The source directory at the start.                                      *)
LEMMA TypesInit == Init => TypeInv
<1> SUFFICES ASSUME Init PROVE TypeInv
  OBVIOUS
<1> DEFINE place == CHOOSE f \in Injection(Path, Ino) : TRUE
<1>1. PICK nodes \in Source[settings] :
       /\ entry = [p \in Path |-> IF nodes[p] = NoNode THEN None ELSE place[p]]
       /\ inode = [i \in Ino |-> IF \E p \in Path : entry[p] = i
                                 THEN nodes[CHOOSE p \in Path : entry[p] = i] ELSE NoNode]
  BY Zenon DEF Init
<1>2. settings \in Settings /\ fds = [i \in Ino |-> 0] /\ handles = [i \in Ino |-> 0]
  BY DEF Init
<1>3. pc = [w \in Worker |-> "idle"] /\ call = [w \in Worker |-> NoCall]
  BY DEF Init
<1>4. place \in [Path -> Ino]
  BY FileOpsAssumption DEF Injection, IsInjective
<1> HIDE DEF place
<1>5. nodes \in [Path -> Nodes] /\ \A p \in Path : nodes[p].kind = None => nodes[p] = NoNode
  BY <1>2, FileOpsAssumption, Zenon
<1>6. NoNode \in Nodes /\ NoNode.kind = None
  BY FileOpsAssumption, Zenon DEF Nodes, NoNode, Names
<1>7. entry \in [Path -> Ino \cup {None}]
  BY <1>1, <1>4
<1>8. ASSUME NEW i \in Ino
      PROVE  /\ inode[i] \in Nodes
             /\ IF i \in Range(entry) THEN inode[i].kind # None ELSE inode[i] = NoNode
  <2>1. CASE i \in Range(entry)
    <3> DEFINE p == CHOOSE q \in Path : entry[q] = i
    <3>1. \E q \in Path : entry[q] = i
      BY <1>7, <2>1 DEF Range
    <3>2. p \in Path /\ entry[p] = i
      BY <3>1
    <3>3. inode[i] = nodes[p]
      BY <1>1, <3>1
    <3> HIDE DEF p
    <3>4. nodes[p] # NoNode
      BY <1>1, <3>2, FileOpsAssumption, Zenon
    <3> QED BY <1>5, <2>1, <3>2, <3>3, <3>4
  <2>2. CASE i \notin Range(entry)
    <3>1. ~ \E q \in Path : entry[q] = i
      BY <1>7, <2>2 DEF Range
    <3> QED BY <1>1, <1>6, <2>2, <3>1
  <2> QED BY <2>1, <2>2
<1>9. SourceOK(entry, inode, fds)
  <2>1. inode \in [Ino -> Nodes]
    <3>1. DOMAIN inode = Ino /\ inode = [i \in Ino |-> inode[i]]
      BY <1>1
    <3> QED BY <1>8, <3>1
  <2>2. \A i \in Ino : ~(fds[i] > 0)
    BY <1>2
  <2> QED BY <1>7, <1>8, <2>1, <2>2 DEF SourceOK
<1>10. CallOK("idle", NoCall)
  BY <1>6, Zenon DEF CallOK, NoCall, PC, ServedAt, DeleteSteps
<1> QED BY <1>2, <1>3, <1>9, <1>10, FileOpsAssumption DEF TypeInv

(* Every step of the system.                                               *)
LEMMA TypesStep == FdInv /\ TypeInv /\ [Next]_vars => TypeInv'

(* A step of one thread: what has to be shown.                             *)
(* process_path ends in the source directory, at the name itself or, when  *)
(* it resolves links, at what is not one.                                  *)
<1>ResolvedPath.
  ASSUME SourceOK(entry, inode, fds), NEW p \in Path, process_path(p, TRUE) \notin Error
  PROVE  /\ process_path(p, TRUE) \in Path
         /\ process_path(p, TRUE) = p \/ Kind(process_path(p, TRUE)) \in {"reg", "dir"}
  <2> USE <1>ResolvedPath
  <2>1. realpath(p) \notin Error => realpath(p) = Walk(p) /\ Kind(Walk(p)) \in {"reg", "dir"}
    BY KindFacts DEF realpath, Error
  <2>2. realpath(p) \notin Error /\ realpath(p) # MNT => realpath(p) \in Path
    <3>1. Walk(p) # MNT /\ Kind(Walk(p)) # None => Walk(p) \in Path
      BY KindFacts
    <3>2. {"reg", "dir"} \cap {None} = {}
      BY DEF None
    <3> QED BY <2>1, <3>1, <3>2, Zenon
  <2>3. "ENOENT" \in Error /\ "EPERM" \in Error
    BY DEF Error
  <2> QED BY <2>1, <2>2, <2>3 DEF process_path
<1>TypeFrame.
  ASSUME FdInv, TypeInv, NEW w \in Worker, NEW to, NEW c,
         settings' = settings,
         pc' = [pc EXCEPT ![w] = to], call' = [call EXCEPT ![w] = c], CallOK(to, c),
         SourceOK(entry', inode', fds'),
         \A i \in Ino : fds'[i] \in 0..MaxFds /\ handles'[i] >= 0
  PROVE  TypeInv'
  <2> USE <1>TypeFrame
  <2>1. ASSUME NEW v \in Worker
        PROVE  CallOK(pc'[v], call'[v])
    <3>1. CASE v = w
      <4>1. pc'[v] = to /\ call'[v] = c
        BY <3>1 DEF FdInv
      <4> QED BY <4>1
    <3>2. CASE v # w
      <4>1. pc'[v] = pc[v] /\ call'[v] = call[v]
        BY <3>2, Zenon DEF FdInv
      <4> QED BY <4>1 DEF TypeInv
    <3> QED BY <3>1, <3>2
  <2> QED BY <2>1 DEF TypeInv

(* The source directory after a system call that changes it.               *)
<1>SetSourceKeeps.
  ASSUME NEW e \in [Path -> Ino \cup {None}], NEW n \in [Ino -> Nodes], SetSource(e, n),
         fds' \in [Ino -> Int],
         \A i \in Ino : i \in Range(e) \/ fds'[i] > 0 => n[i].kind # None
  PROVE  SourceOK(entry', inode', fds')
  <2> USE <1>SetSourceKeeps
  <2>1. NoNode \in Nodes
    BY FileOpsAssumption DEF Nodes, NoNode, Names
  <2>2. entry' = e /\ inode' = [i \in Ino |-> IF i \in Range(e) \/ fds'[i] > 0 THEN n[i] ELSE NoNode]
    BY DEF SetSource
  <2> QED BY <2>1, <2>2 DEF SourceOK

(* chmod and chown of a file.                                              *)
<1>SetNodeKeeps.
  ASSUME SourceOK(entry, inode, fds), fds \in [Ino -> Int], fds' = fds,
         NEW p \in Path, entry[p] # None, NEW node \in Nodes, node.kind # None, SetNode(p, node)
  PROVE  SourceOK(entry', inode', fds')
  <2> USE <1>SetNodeKeeps
  <2> DEFINE n == [inode EXCEPT ![entry[p]] = node]
  <2>1. entry \in [Path -> Ino \cup {None}] /\ n \in [Ino -> Nodes]
    BY DEF SourceOK
  <2>2. \A i \in Ino : n[i] = IF i = entry[p] THEN node ELSE inode[i]
    BY DEF SourceOK
  <2>3. SetSource(entry, n)
    BY DEF SetNode
  <2>4. \A i \in Ino : i \in Range(entry) \/ fds'[i] > 0 => n[i].kind # None
    BY <2>2 DEF SourceOK
  <2> HIDE DEF n
  <2> QED BY <2>1, <2>3, <2>4, <1>SetSourceKeeps

(* A name that goes, or that is given to an inode that exists.             *)
<1>RenamedKeeps.
  ASSUME SourceOK(entry, inode, fds), fds \in [Ino -> Int], fds' = fds,
         NEW e \in [Path -> Ino \cup {None}], Range(e) \subseteq Range(entry) \cup {None},
         SetSource(e, inode)
  PROVE  SourceOK(entry', inode', fds')
  <2> USE <1>RenamedKeeps
  <2>1. \A i \in Ino : i \in Range(e) \/ fds'[i] > 0 => inode[i].kind # None
    BY FileOpsAssumption DEF SourceOK
  <2>2. inode \in [Ino -> Nodes]
    BY DEF SourceOK
  <2> QED BY <2>1, <2>2, <1>SetSourceKeeps

(* A new file, open or not.                                                *)
<1>MadeKeeps.
  ASSUME SourceOK(entry, inode, fds), fds \in [Ino -> Int], fds' \in [Ino -> Int], Unused # {},
         NEW p, NEW node \in Nodes, node.kind # None, MakeAt(p, node),
         \A j \in Ino : j # FreeIno => fds'[j] = fds[j]
  PROVE  SourceOK(entry', inode', fds')
  <2> USE <1>MadeKeeps
  <2> DEFINE i == FreeIno
             e == [entry EXCEPT ![p] = i]
             n == [inode EXCEPT ![i] = node]
  <2>1. i \in Ino /\ i \in Unused
    BY DEF Unused, FreeIno
  <2>2. SetSource(e, n)
    BY DEF MakeAt
  <2>3. \A j \in Ino : j # i => fds'[j] = fds[j]
    OBVIOUS
  <2> HIDE DEF i
  <2>4. e \in [Path -> Ino \cup {None}] /\ n \in [Ino -> Nodes]
    BY <2>1, Zenon DEF SourceOK
  <2>5. ASSUME NEW j \in Ino, j \in Range(e) \/ fds'[j] > 0
        PROVE  n[j].kind # None
    <3>1. CASE j = i
      BY <3>1, <2>1 DEF SourceOK
    <3>2. CASE j # i
      <4>1. n[j] = inode[j] /\ fds'[j] = fds[j]
        BY <3>2, <2>1, <2>3 DEF SourceOK
      <4>2. j \in Range(e) => j \in Range(entry)
        BY <3>2 DEF Range, SourceOK
      <4> QED BY <2>5, <4>1, <4>2 DEF SourceOK
    <3> QED BY <3>1, <3>2
  <2> HIDE DEF e, n
  <2> QED BY <2>2, <2>4, <2>5, <1>SetSourceKeeps

(* A step that opens and closes no file.                                   *)
<1>QuietTypes.
  ASSUME FdInv, TypeInv, NEW w \in Worker, NEW to, NEW c,
         settings' = settings, fds' = fds, handles' = handles,
         pc' = [pc EXCEPT ![w] = to], call' = [call EXCEPT ![w] = c], CallOK(to, c),
         SourceOK(entry', inode', fds')
  PROVE  TypeInv'
  <2> USE <1>QuietTypes
  <2>1. \A i \in Ino : fds'[i] \in 0..MaxFds /\ handles'[i] >= 0
    BY DEF TypeInv
  <2> QED BY <2>1, <1>TypeFrame, Zenon

(* The end of a handler.                                                   *)
<1>DoneTypes.
  ASSUME FdInv, TypeInv, NEW w \in Worker, NEW from, NEW ret, Done(w, from, ret), from # "idle",
         settings' = settings, fds' = fds, handles' = handles, SourceOK(entry', inode', fds')
  PROVE  TypeInv'
  <2> USE <1>DoneTypes
  <2> DEFINE c == [call[w] EXCEPT !.ret = ret]
  <2>1. pc[w] = from /\ pc' = [pc EXCEPT ![w] = "done"] /\ call' = [call EXCEPT ![w] = c]
    BY DEF Done, Goto
  <2>2. IsCall(call[w]) /\ CallOK(pc[w], call[w])
    BY DEF FdInv, TypeInv
  <2>3. CallOK("done", c)
    BY <2>1, <2>2 DEF CallOK, IsCall, Fields, PC, ServedAt, DeleteSteps
  <2> HIDE DEF c
  <2> QED BY <2>1, <2>3, <1>QuietTypes, Zenon

(* A step to another with the locals as they are.                          *)
<1>GotoTypes.
  ASSUME FdInv, TypeInv, NEW w \in Worker, NEW from, NEW to, Goto(w, from, to), call' = call,
         from \notin {"idle", "done", "release"}, to \in PC \ {"idle", "release"},
         ServedAt(to, call[w].req.op),
         settings' = settings, fds' = fds, handles' = handles, SourceOK(entry', inode', fds')
  PROVE  TypeInv'
  <2> USE <1>GotoTypes
  <2>1. pc[w] = from /\ pc' = [pc EXCEPT ![w] = to] /\ call' = [call EXCEPT ![w] = call[w]]
    BY DEF Goto, FdInv
  <2>2. CallOK(pc[w], call[w])
    BY DEF TypeInv
  <2>3. CallOK(to, call[w])
    BY <2>1, <2>2 DEF CallOK
  <2> QED BY <2>1, <2>3, <1>QuietTypes, Zenon

(* A step that sets one of the locals that any value suits.                *)
<1>LocalTypes.
  ASSUME FdInv, TypeInv, NEW w \in Worker, NEW from, NEW to, Goto(w, from, to), NEW x,
         \/ call' = [call EXCEPT ![w].to = x]
         \/ call' = [call EXCEPT ![w].func = x]
         \/ call' = [call EXCEPT ![w].also = x],
         from \notin {"idle", "done", "release"}, to \in PC \ {"idle", "release"},
         ServedAt(to, call[w].req.op),
         settings' = settings, fds' = fds, handles' = handles, SourceOK(entry', inode', fds')
  PROVE  TypeInv'
  <2> USE <1>LocalTypes
  <2>1. pc[w] = from /\ pc' = [pc EXCEPT ![w] = to]
    BY DEF Goto
  <2>2. CallOK(pc[w], call[w]) /\ IsCall(call[w])
    BY DEF TypeInv, FdInv
  <2>3. PICK c : /\ call' = [call EXCEPT ![w] = c]
                 /\ c.st = call[w].st /\ c.req = call[w].req /\ c.path = call[w].path
    <3>1. CASE call' = [call EXCEPT ![w].to = x]
      <4> DEFINE c == [call[w] EXCEPT !.to = x]
      <4>1. call' = [call EXCEPT ![w] = c]
        BY <3>1
      <4>2. c.st = call[w].st /\ c.req = call[w].req /\ c.path = call[w].path
        BY <2>2 DEF IsCall, Fields
      <4> HIDE DEF c
      <4> QED BY <4>1, <4>2, Zenon
    <3>2. CASE call' = [call EXCEPT ![w].func = x]
      <4> DEFINE c == [call[w] EXCEPT !.func = x]
      <4>1. call' = [call EXCEPT ![w] = c]
        BY <3>2
      <4>2. c.st = call[w].st /\ c.req = call[w].req /\ c.path = call[w].path
        BY <2>2 DEF IsCall, Fields
      <4> HIDE DEF c
      <4> QED BY <4>1, <4>2, Zenon
    <3>3. CASE call' = [call EXCEPT ![w].also = x]
      <4> DEFINE c == [call[w] EXCEPT !.also = x]
      <4>1. call' = [call EXCEPT ![w] = c]
        BY <3>3
      <4>2. c.st = call[w].st /\ c.req = call[w].req /\ c.path = call[w].path
        BY <2>2 DEF IsCall, Fields
      <4> HIDE DEF c
      <4> QED BY <4>1, <4>2, Zenon
    <3> QED BY <3>1, <3>2, <3>3
  <2>4. CallOK(to, c)
    BY <2>1, <2>2, <2>3 DEF CallOK
  <2> QED BY <2>1, <2>3, <2>4, <1>QuietTypes, Zenon

(* Handlers that leave the source directory alone.                         *)
<1>UnchangedTypes.
  ASSUME TypeInv, UNCHANGED <<source, fds>>
  PROVE  SourceOK(entry', inode', fds')
  BY <1>UnchangedTypes DEF TypeInv, source

(* process_path.                                                           *)
<1>ProcessPathTypes.
  ASSUME FdInv, TypeInv, NEW w \in Worker, ProcessPath(w)
  PROVE  TypeInv'
  <2> USE <1>ProcessPathTypes
  <2> DEFINE q == process_path(call[w].req.path, TRUE)
  <2>1. /\ pc[w] = "process_path" /\ settings' = settings /\ fds' = fds /\ handles' = handles
        /\ UNCHANGED <<source, fds>>
    BY DEF ProcessPath, FilesUnchanged
  <2>2. CallOK(pc[w], call[w]) /\ IsCall(call[w])
    BY DEF TypeInv, FdInv
  <2>3. call[w].req.path \in Path
    BY <2>1, <2>2, Zenon DEF CallOK, Requests
  <2>4. CASE q \in Error /\ Done(w, "process_path", q)
    BY <2>1, <2>4, <1>DoneTypes, <1>UnchangedTypes, Zenon
  <2>5. CASE /\ q \notin Error
             /\ Goto(w, "process_path", AfterPath(call[w].req.op))
             /\ call' = [call EXCEPT ![w].path = q]
    <3> DEFINE c == [call[w] EXCEPT !.path = q]
               to == AfterPath(call[w].req.op)
    <3>1. q \in Path
      BY <2>3, <2>5, <1>ResolvedPath, Zenon DEF TypeInv
    <3>2. pc' = [pc EXCEPT ![w] = to] /\ call' = [call EXCEPT ![w] = c]
      BY <2>5 DEF Goto
    <3>3. to \in PC \ {"idle", "release"} /\ ServedAt(to, call[w].req.op)
      BY <2>1, <2>2, Zenon DEF CallOK, ServedAt, AfterPath, PC, DeleteSteps
    <3> HIDE DEF q, to
    <3>4. CallOK(to, c)
      BY <2>1, <2>2, <3>1, <3>3 DEF CallOK, IsCall, Fields
    <3> HIDE DEF c
    <3> QED BY <2>1, <3>2, <3>4, <1>QuietTypes, <1>UnchangedTypes, Zenon
  <2> QED BY <2>4, <2>5, Zenon DEF ProcessPath

(* The second path of rename and link.                                     *)
<1>ProcessToTypes.
  ASSUME FdInv, TypeInv, NEW w \in Worker, ProcessTo(w)
  PROVE  TypeInv'
  <2> USE <1>ProcessToTypes
  <2>1. /\ pc[w] = "process_to" /\ settings' = settings /\ fds' = fds /\ handles' = handles
        /\ UNCHANGED <<source, fds>>
    BY DEF ProcessTo, FilesUnchanged
  <2>2. call[w].req.op \in {"link", "rename"}
    BY <2>1, Zenon DEF TypeInv, CallOK, ServedAt
  <2>3. SourceOK(entry', inode', fds')
    BY <2>1, <1>UnchangedTypes
  <2>4. CASE \E q : Done(w, "process_to", q)
    BY <2>1, <2>3, <2>4, <1>DoneTypes
  <2>5. CASE \E q : /\ Goto(w, "process_to", call[w].req.op)
                    /\ call' = [call EXCEPT ![w].to = q]
    <3>1. call[w].req.op \in PC \ {"idle", "release"} /\ ServedAt(call[w].req.op, call[w].req.op)
      BY <2>2, Zenon DEF PC, ServedAt, DeleteSteps
    <3>2. PICK q : Goto(w, "process_to", call[w].req.op) /\ call' = [call EXCEPT ![w].to = q]
      BY <2>5, Zenon
    <3>3. "process_to" \notin {"idle", "done", "release"}
      OBVIOUS
    <3> QED BY <2>1, <2>3, <3>1, <3>2, <3>3, <1>LocalTypes, Zenon
  <2> QED BY <2>4, <2>5, Zenon DEF ProcessTo

(* delete_file up to its first system call that changes the directory, and *)
(* bindfs_rename.                                                          *)
<1>PrepareTypes.
  ASSUME FdInv, TypeInv, NEW w \in Worker,
         delete_file(w) \/ delete_lstat(w) \/ symlink_first(w) \/ target_first(w) \/ bindfs_rename(w)
  PROVE  TypeInv'
  <2> USE <1>PrepareTypes
  <2>1. /\ settings' = settings /\ fds' = fds /\ handles' = handles /\ UNCHANGED <<source, fds>>
    BY DEF delete_file, delete_lstat, symlink_first, target_first, bindfs_rename, FilesUnchanged
  <2>2. SourceOK(entry', inode', fds')
    BY <2>1, <1>UnchangedTypes
  <2>3. CallOK(pc[w], call[w])
    BY Zenon DEF TypeInv
  <2>4. CASE \E from, ret : from # "idle" /\ Done(w, from, ret)
    BY <2>1, <2>2, <2>4, <1>DoneTypes
  <2>5. ASSUME pc[w] \in DeleteSteps, NEW to \in DeleteSteps
        PROVE  /\ pc[w] \notin {"idle", "done", "release"} /\ to \in PC \ {"idle", "release"}
               /\ ServedAt(to, call[w].req.op)
    BY <2>3, <2>5, Zenon DEF DeleteSteps, PC, CallOK, ServedAt
  <2>6. ASSUME NEW to \in DeleteSteps, pc[w] \in DeleteSteps, Goto(w, pc[w], to),
               call' = call \/ (\E x : \/ call' = [call EXCEPT ![w].func = x]
                                       \/ call' = [call EXCEPT ![w].also = x]
                                       \/ call' = [call EXCEPT ![w].to = x])
        PROVE  TypeInv'
    BY <2>1, <2>2, <2>5, <2>6, <1>GotoTypes, <1>LocalTypes
  <2>7. CASE delete_file(w)
    BY <2>4, <2>6, <2>7 DEF delete_file, DeleteSteps, Goto
  <2>8. CASE delete_lstat(w)
    <3>1. settings.resolved_symlink_deletion_policy \in {"deny", "symlink-only", "symlink-first", "target-first"}
      BY FileOpsAssumption, Zenon DEF TypeInv, Options
    <3>2. settings.resolved_symlink_deletion_policy # "deny" => SymlinkStep \in DeleteSteps
      BY <3>1 DEF SymlinkStep, DeleteSteps
    <3> QED BY <2>4, <2>6, <2>8, <3>2, Zenon DEF delete_lstat, DeleteSteps, Goto
  <2>9. CASE symlink_first(w)
    BY <2>4, <2>6, <2>9, Zenon DEF symlink_first, DeleteSteps, Goto
  <2>10. CASE target_first(w)
    BY <2>4, <2>6, <2>10, Zenon DEF target_first, DeleteSteps, Goto
  <2>11. CASE bindfs_rename(w)
    <3>1. CASE Goto(w, "bindfs_rename", "process_to") /\ UNCHANGED call
      <4>1. ServedAt("process_to", call[w].req.op)
        BY <2>3, <3>1, Zenon DEF Goto, CallOK, ServedAt, DeleteSteps
      <4> QED BY <2>1, <2>2, <3>1, <4>1, <1>GotoTypes DEF PC
    <3> QED BY <2>4, <2>11, <3>1 DEF bindfs_rename
  <2> QED BY <2>7, <2>8, <2>9, <2>10, <2>11

(* What bindfs creates is a node.                                          *)
<1>NewNodeTypes.
  ASSUME NEW kind \in {"reg", "dir", "lnk"}, NEW mode \in SUBSET ModeBit, NEW target \in Names
  PROVE  NewNode(kind, mode, target) \in Nodes /\ NewNode(kind, mode, target).kind = kind
  <2> USE <1>NewNodeTypes
  <2>1. Mounter \in User /\ DirGroup \in User
    BY FileOpsAssumption DEF DirGroup
  <2> HIDE DEF DirGroup
  <2> QED BY <2>1 DEF NewNode, Nodes

(* mknod, mkdir and symlink.                                               *)
<1>MakeTypes.
  ASSUME FdInv, TypeInv, NEW w \in Worker, NEW step \in {"mknod", "mkdir", "symlink"},
         NEW kind \in {"reg", "dir", "lnk"}, NEW mode \in SUBSET ModeBit, NEW target \in Names,
         Make(w, step, kind, mode, target)
  PROVE  TypeInv'
  <2> USE <1>MakeTypes
  <2>1. /\ pc[w] = step /\ settings' = settings /\ handles' = handles /\ fds' = fds
    BY Zenon DEF Make
  <2>2. SourceOK(entry, inode, fds) /\ fds \in [Ino -> Int] /\ CallOK(pc[w], call[w])
    BY DEF TypeInv, FdInv
  <2>3. CASE /\ Kind(call[w].path) = None /\ Unused # {}
             /\ UNCHANGED <<fds, call>>
             /\ MakeAt(call[w].path, NewNode(kind, mode, target))
             /\ Goto(w, step, "chown_new_file")
    <3> DEFINE node == NewNode(kind, mode, target)
    <3>4. node \in Nodes /\ node.kind # None
      BY <1>NewNodeTypes DEF None
    <3> HIDE DEF node
    <3>5. MakeAt(call[w].path, node)
      BY <2>3 DEF node
    <3>1. SourceOK(entry', inode', fds')
      BY <2>1, <2>2, <2>3, <3>4, <3>5, <1>MadeKeeps, Zenon
    <3>2. ServedAt("chown_new_file", call[w].req.op)
      BY <2>1, <2>2, Zenon DEF CallOK, ServedAt, DeleteSteps
    <3>3. step \notin {"idle", "done", "release"} /\ "chown_new_file" \in PC \ {"idle", "release"}
      BY DEF PC
    <3> QED BY <2>1, <2>3, <3>1, <3>2, <3>3, <1>GotoTypes, Zenon
  <2>4. CASE \E ret : Done(w, step, ret) /\ UNCHANGED <<source, fds>>
    BY <2>1, <2>4, <1>DoneTypes, <1>UnchangedTypes
  <2> QED BY <2>3, <2>4, Zenon DEF Make

(* mknod, mkdir and symlink.                                               *)
<1>CreateNodeTypes.
  ASSUME FdInv, TypeInv, NEW w \in Worker, bindfs_mknod(w) \/ bindfs_mkdir(w) \/ bindfs_symlink(w)
  PROVE  TypeInv'
  <2> USE <1>CreateNodeTypes
  <2>1. pc[w] # "idle"
    BY DEF bindfs_mknod, bindfs_mkdir, bindfs_symlink, Make, Done, Goto
  <2>2. None \in Names /\ {} \in SUBSET ModeBit
    BY DEF Names
  <2>3. CASE bindfs_mknod(w)
    BY <2>1, <2>2, <2>3, <1>MakeTypes, RequestTypes, Zenon DEF bindfs_mknod
  <2>4. CASE bindfs_mkdir(w)
    BY <2>1, <2>2, <2>4, <1>MakeTypes, RequestTypes, Zenon DEF bindfs_mkdir
  <2>5. CASE bindfs_symlink(w)
    <3>1. CASE Make(w, "symlink", "lnk", {}, call[w].req.to)
      BY <2>1, <2>2, <3>1, <1>MakeTypes, RequestTypes, Zenon
    <3>2. CASE Done(w, "symlink", "EPERM") /\ FilesUnchanged
      BY <3>2, <1>DoneTypes, <1>UnchangedTypes DEF FilesUnchanged
    <3> QED BY <2>5, <3>1, <3>2 DEF bindfs_symlink
  <2> QED BY <2>3, <2>4, <2>5

(* create and open: the descriptor.                                        *)
<1>OneMore.
  ASSUME FdInv, TypeInv, NEW i \in Ino, fds[i] < MaxFds, fds' = [fds EXCEPT ![i] = @ + 1]
  PROVE  /\ fds' \in [Ino -> Int] /\ \A j \in Ino : fds'[j] \in 0..MaxFds
         /\ \A j \in Ino : j # i => fds'[j] = fds[j]
         /\ fds'[i] > 0
  <2> USE <1>OneMore
  <2>1. MaxFds \in Nat /\ fds \in [Ino -> Int] /\ \A j \in Ino : fds[j] \in 0..MaxFds
    BY FileOpsAssumption DEF FdInv, TypeInv
  <2> QED BY <2>1

(* Opening a file that has a name.                                         *)
<1>OpenedKeeps.
  ASSUME SourceOK(entry, inode, fds), UNCHANGED source, NEW i \in Ino, i \in Range(entry),
         \A j \in Ino : j # i => fds'[j] = fds[j]
  PROVE  SourceOK(entry', inode', fds')
  BY <1>OpenedKeeps DEF SourceOK, source

(* create, which makes a file or opens one.                                *)
<1>CreateTypes.
  ASSUME FdInv, TypeInv, NEW w \in Worker, bindfs_create(w)
  PROVE  TypeInv'
  <2> USE <1>CreateTypes
  <2> DEFINE p == Walk(call[w].path)
             i == FreeIno
  <2>1. pc[w] = "create" /\ settings' = settings /\ handles' = handles
    BY Zenon DEF bindfs_create
  <2>2. SourceOK(entry, inode, fds) /\ fds \in [Ino -> Int] /\ CallOK(pc[w], call[w]) /\ IsCall(call[w])
    BY DEF TypeInv, FdInv
  <2>3. ASSUME NEW k \in Ino, Opened(w, k), fds[k] < MaxFds, Goto(w, "create", "chown_new_file"),
               SourceOK(entry', inode', fds')
        PROVE  TypeInv'
    <3> DEFINE c == [call[w] EXCEPT !.fd = k]
    <3>1. pc' = [pc EXCEPT ![w] = "chown_new_file"] /\ call' = [call EXCEPT ![w] = c]
      BY <2>3 DEF Opened, Goto
    <3>2. CallOK("chown_new_file", c)
      BY <2>1, <2>2 DEF CallOK, IsCall, Fields, PC, ServedAt, DeleteSteps
    <3>3. \A j \in Ino : fds'[j] \in 0..MaxFds /\ handles'[j] >= 0
      BY <2>1, <2>3, <1>OneMore, Zenon DEF Opened, TypeInv
    <3> HIDE DEF c
    <3> QED BY <2>1, <2>3, <3>1, <3>2, <3>3, <1>TypeFrame, Zenon
  <2>4. CASE /\ Kind(p) = None /\ Unused # {} /\ fds[i] < MaxFds /\ Opened(w, i)
             /\ MakeAt(p, NewNode("reg", settings.create_permchain[call[w].req.mode], None))
             /\ Goto(w, "create", "chown_new_file")
    <3>1. i \in Ino
      BY <2>4, Zenon DEF Unused, FreeIno
    <3>2. fds' \in [Ino -> Int] /\ \A j \in Ino : j # i => fds'[j] = fds[j]
      BY <2>4, <3>1, <1>OneMore, Zenon DEF Opened
    <3>3. settings.create_permchain[call[w].req.mode] \in SUBSET ModeBit /\ None \in Names
      BY <2>1, RequestTypes, Zenon DEF Names
    <3> DEFINE node == NewNode("reg", settings.create_permchain[call[w].req.mode], None)
    <3>5. node \in Nodes /\ node.kind # None
      BY <3>3, <1>NewNodeTypes, Zenon DEF None
    <3>6. MakeAt(p, node)
      BY <2>4, Zenon
    <3> HIDE DEF node, p
    <3>4. SourceOK(entry', inode', fds')
      BY <2>2, <2>4, <3>2, <3>5, <3>6, <1>MadeKeeps, Zenon
    <3> QED BY <2>3, <2>4, <3>1, <3>4, Zenon
  <2>5. CASE /\ Kind(p) = "reg" /\ fds[entry[p]] < MaxFds /\ Opened(w, entry[p])
             /\ Goto(w, "create", "chown_new_file") /\ UNCHANGED source
    <3>1. p # MNT /\ Kind(p) # None
      BY <2>5, Zenon DEF Kind, None
    <3>2. entry[p] \in Ino /\ entry[p] \in Range(entry)
      BY <2>2, <3>1, KindFacts, Zenon
    <3> HIDE DEF p
    <3>3. \A j \in Ino : j # entry[p] => fds'[j] = fds[j]
      BY <2>5, <3>2, <1>OneMore DEF Opened
    <3>4. SourceOK(entry', inode', fds')
      BY <2>2, <2>5, <3>2, <3>3, <1>OpenedKeeps, Zenon
    <3> QED BY <2>3, <2>5, <3>2, <3>4, Zenon
  <2>6. CASE \E ret : Done(w, "create", ret) /\ UNCHANGED <<source, fds>>
    BY <2>1, <2>6, <1>DoneTypes, <1>UnchangedTypes
  <2> QED BY <2>4, <2>5, <2>6, Zenon DEF bindfs_create

(* open.                                                                   *)
<1>OpenTypes.
  ASSUME FdInv, TypeInv, NEW w \in Worker, bindfs_open(w)
  PROVE  TypeInv'
  <2> USE <1>OpenTypes
  <2> DEFINE p == Walk(call[w].path)
  <2>1. pc[w] = "open" /\ settings' = settings /\ UNCHANGED source
    BY Zenon DEF bindfs_open
  <2>2. SourceOK(entry, inode, fds) /\ fds \in [Ino -> Int] /\ CallOK(pc[w], call[w]) /\ IsCall(call[w])
    BY DEF TypeInv, FdInv
  <2>3. CASE /\ Kind(p) = "reg" /\ fds[entry[p]] < MaxFds
             /\ fds' = [fds EXCEPT ![entry[p]] = @ + 1]
             /\ handles' = [handles EXCEPT ![entry[p]] = @ + 1]
             /\ Done(w, "open", OK)
    <3> DEFINE c == [call[w] EXCEPT !.ret = OK]
    <3>1. p # MNT /\ Kind(p) # None
      BY <2>3 DEF Kind, None
    <3>2. entry[p] \in Ino /\ entry[p] \in Range(entry)
      BY <2>2, <3>1, KindFacts, Zenon
    <3> HIDE DEF p
    <3>3. /\ \A j \in Ino : j # entry[p] => fds'[j] = fds[j]
          /\ \A j \in Ino : fds'[j] \in 0..MaxFds
      BY <2>3, <3>2, <1>OneMore, Zenon
    <3>4. SourceOK(entry', inode', fds')
      BY <2>1, <2>2, <3>2, <3>3, <1>OpenedKeeps, Zenon
    <3>5. \A j \in Ino : handles'[j] >= 0
      BY <2>3 DEF TypeInv, FdInv
    <3>6. pc' = [pc EXCEPT ![w] = "done"] /\ call' = [call EXCEPT ![w] = c]
      BY <2>3 DEF Done, Goto
    <3>7. CallOK("done", c)
      BY <2>1, <2>2 DEF CallOK, IsCall, Fields, PC, ServedAt, DeleteSteps
    <3> HIDE DEF c
    <3> QED BY <2>1, <3>3, <3>4, <3>5, <3>6, <3>7, <1>TypeFrame, Zenon
  <2>4. CASE Done(w, "open", "EACCES") /\ UNCHANGED <<fds, handles>>
    BY <2>1, <2>4, <1>DoneTypes, <1>UnchangedTypes
  <2> QED BY <2>3, <2>4, Zenon DEF bindfs_open

(* chown_new_file, and the descriptor that bindfs_create hands out.        *)
<1>ChownNewFileTypes.
  ASSUME FdInv, TypeInv, NEW w \in Worker, chown_new_file(w)
  PROVE  TypeInv'
  <2> USE <1>ChownNewFileTypes
  <2> DEFINE path == IF call[w].req.op = "symlink" THEN call[w].path ELSE Walk(call[w].path)
             owner == IF settings.create_as_user THEN call[w].req.user ELSE Keep
             group == IF settings.create_as_user /\ ~settings.setgid THEN call[w].req.user ELSE Keep
  <2>1. pc[w] = "chown_new_file" /\ settings' = settings /\ fds' = fds
    BY Zenon DEF chown_new_file
  <2>2. SourceOK(entry, inode, fds) /\ fds \in [Ino -> Int] /\ CallOK(pc[w], call[w]) /\ IsCall(call[w])
    BY DEF TypeInv, FdInv
  <2>3. owner \in User \cup {Keep} /\ group \in User \cup {Keep}
    BY <2>1, RequestTypes, Zenon
  <2>4. \/ UNCHANGED source
        \/ /\ path \in Path /\ Kind(path) # None
           /\ SetNode(path, ChownedNode(NodeAt(path), owner, group))
    BY Zenon DEF chown_new_file
  <2>5. PICK ret : HandOut(w, ret)
    BY Zenon DEF chown_new_file
  <2> HIDE DEF path, owner, group
  <2>6. SourceOK(entry', inode', fds')
    <3>1. CASE UNCHANGED source
      BY <2>1, <3>1, <1>UnchangedTypes
    <3>2. CASE /\ path \in Path /\ Kind(path) # None
               /\ SetNode(path, ChownedNode(NodeAt(path), owner, group))
      <4> DEFINE node == ChownedNode(NodeAt(path), owner, group)
      <4>1. NodeAt(path) \in Nodes /\ NodeAt(path).kind # None /\ entry[path] # None
        BY <2>2, <3>2, KindFacts, Zenon
      <4>2. node \in Nodes /\ node.kind # None
        BY <2>3, <4>1, ChownedTypes
      <4> HIDE DEF node
      <4>3. SetNode(path, node)
        BY <3>2 DEF node
      <4> QED BY <2>1, <2>2, <3>2, <4>1, <4>2, <4>3, <1>SetNodeKeeps, Zenon
    <3> QED BY <2>4, <3>1, <3>2
  <2>7. CASE call[w].fd # None
    <3> DEFINE c == [call[w] EXCEPT !.ret = OK, !.fd = None]
    <3>1. /\ pc' = [pc EXCEPT ![w] = "done"] /\ call' = [call EXCEPT ![w] = c]
          /\ handles' = [handles EXCEPT ![call[w].fd] = @ + 1]
      BY <2>5, <2>7, Zenon DEF HandOut, Goto
    <3>2. CallOK("done", c)
      BY <2>1, <2>2 DEF CallOK, IsCall, Fields, PC, ServedAt, DeleteSteps
    <3>3. \A j \in Ino : fds'[j] \in 0..MaxFds /\ handles'[j] >= 0
      BY <2>1, <3>1 DEF TypeInv, FdInv
    <3> HIDE DEF c
    <3> QED BY <2>1, <2>6, <3>1, <3>2, <3>3, <1>TypeFrame, Zenon
  <2>8. CASE handles' = handles /\ Done(w, "chown_new_file", ret)
    BY <2>1, <2>6, <2>8, <1>DoneTypes
  <2> QED BY <2>5, <2>7, <2>8 DEF HandOut

(* bindfs_release closes a descriptor that is open.                        *)
<1>ReleaseTypes.
  ASSUME FdInv, TypeInv, NEW w \in Worker, bindfs_release(w)
  PROVE  TypeInv'
  <2> USE <1>ReleaseTypes
  <2> DEFINE c == [call[w] EXCEPT !.ret = OK, !.fd = None]
             i == call[w].fd
  <2>1. /\ pc[w] = "release" /\ settings' = settings /\ handles' = handles
        /\ pc' = [pc EXCEPT ![w] = "done"] /\ call' = [call EXCEPT ![w] = c]
        /\ fds' = [fds EXCEPT ![i] = @ - 1] /\ SetSource(entry, inode)
    BY Zenon DEF bindfs_release, Close, Goto
  <2>2. SourceOK(entry, inode, fds) /\ fds \in [Ino -> Int] /\ CallOK(pc[w], call[w]) /\ IsCall(call[w])
    BY DEF TypeInv, FdInv
  <2>3. CallOK("done", c)
    BY <2>1, <2>2 DEF CallOK, IsCall, Fields, PC, ServedAt, DeleteSteps
  <2>4. i \in Ino
    BY <2>1, <2>2 DEF CallOK
  <2>5. fds[i] > 0
    <3> DEFINE H == {v \in Worker : call[v].fd = i}
    <3>1. H # {} /\ IsFiniteSet(H)
      BY FS_Subset, FileOpsAssumption
    <3>2. fds[i] = handles[i] + Cardinality(H)
      BY <2>4, Zenon DEF FdInv, NoFdLeak
    <3> HIDE DEF H
    <3>3. Cardinality(H) \in Nat /\ Cardinality(H) # 0
      BY <3>1, FS_EmptySet, FS_CardinalityType
    <3>4. handles[i] >= 0 /\ handles[i] \in Int
      BY <2>4, SMTT(20) DEF TypeInv, FdInv
    <3> QED BY <3>2, <3>3, <3>4
  <2> HIDE DEF c, i
  <2>6. /\ fds' \in [Ino -> Int]
        /\ \A j \in Ino : fds'[j] \in 0..MaxFds /\ fds'[j] <= fds[j]
    BY <2>1, <2>2, <2>4, <2>5, FileOpsAssumption, SMTT(20) DEF TypeInv
  <2>7. \A j \in Ino : j \in Range(entry) \/ fds'[j] > 0 => inode[j].kind # None
    BY <2>2, <2>6 DEF SourceOK
  <2>8. SourceOK(entry', inode', fds')
    <3>1. entry \in [Path -> Ino \cup {None}] /\ inode \in [Ino -> Nodes]
      BY <2>2 DEF SourceOK
    <3> QED BY <2>1, <2>6, <2>7, <3>1, <1>SetSourceKeeps, Zenon
  <2>9. \A j \in Ino : fds'[j] \in 0..MaxFds /\ handles'[j] >= 0
    BY <2>1, <2>6 DEF TypeInv
  <2> QED BY <2>1, <2>3, <2>8, <2>9, <1>TypeFrame, Zenon

(* unlink and rmdir.                                                       *)
<1>DeletedKeeps.
  ASSUME FdInv, TypeInv, fds' = fds, NEW p, Deleted(p)
  PROVE  SourceOK(entry', inode', fds')
  <2> USE <1>DeletedKeeps
  <2> DEFINE e == [entry EXCEPT ![p] = None]
  <2>1. SourceOK(entry, inode, fds) /\ fds \in [Ino -> Int] /\ SetSource(e, inode)
    BY DEF TypeInv, FdInv, Deleted
  <2>2. e \in [Path -> Ino \cup {None}] /\ Range(e) \subseteq Range(entry) \cup {None}
    BY <2>1, Zenon DEF SourceOK, Range
  <2> HIDE DEF e
  <2> QED BY <2>1, <2>2, <1>RenamedKeeps

(* The three deletions of delete_file.                                     *)
<1>DeleteTypes.
  ASSUME FdInv, TypeInv, NEW w \in Worker, delete_target(w) \/ delete_main(w) \/ delete_also(w)
  PROVE  TypeInv'
  <2> USE <1>DeleteTypes
  <2>1. /\ settings' = settings /\ fds' = fds /\ handles' = handles
        /\ pc[w] \in {"delete_target", "delete_main", "delete_also"}
    BY Zenon DEF delete_target, delete_main, delete_also
  <2>2. SourceOK(entry', inode', fds')
    <3>1. CASE UNCHANGED source
      BY <2>1, <3>1, <1>UnchangedTypes
    <3>2. CASE \E p : Deleted(p)
      BY <2>1, <3>2, <1>DeletedKeeps
    <3> QED BY <3>1, <3>2, Zenon DEF delete_target, delete_main, delete_also
  <2>3. CASE \E from, ret : from # "idle" /\ Done(w, from, ret)
    BY <2>1, <2>2, <2>3, <1>DoneTypes
  <2>4. CASE \E from \in {"delete_target", "delete_main"}, to \in {"delete_main", "delete_also"} :
               Goto(w, from, to) /\ UNCHANGED call
    <3>1. PICK from \in {"delete_target", "delete_main"}, to \in {"delete_main", "delete_also"} :
               Goto(w, from, to) /\ call' = call
      BY <2>4
    <3>2. /\ from \notin {"idle", "done", "release"} /\ to \in PC \ {"idle", "release"}
          /\ ServedAt(to, call[w].req.op)
      BY <3>1, Zenon DEF PC, Goto, TypeInv, CallOK, ServedAt, DeleteSteps
    <3> QED BY <2>1, <2>2, <3>1, <3>2, <1>GotoTypes
  <2>5. CASE delete_target(w)
    BY <2>3, <2>4, <2>5, Zenon DEF delete_target
  <2>6. CASE delete_main(w)
    BY <2>3, <2>4, <2>6, Zenon DEF delete_main
  <2>7. CASE delete_also(w)
    BY <2>3, <2>7, Zenon DEF delete_also
  <2> QED BY <2>5, <2>6, <2>7

(* rename and link.                                                        *)
<1>RenameTypes.
  ASSUME FdInv, TypeInv, NEW w \in Worker, rename(w) \/ bindfs_link(w)
  PROVE  TypeInv'
  <2> USE <1>RenameTypes
  <2> DEFINE from == call[w].path
             to == call[w].to
  <2>1. /\ settings' = settings /\ fds' = fds /\ handles' = handles /\ pc[w] \in {"rename", "link"}
    BY Zenon DEF rename, bindfs_link
  <2>2. \/ UNCHANGED source
        \/ SetSource([entry EXCEPT ![to] = entry[from], ![from] = None], inode)
        \/ SetSource([entry EXCEPT ![to] = entry[from]], inode)
    BY Zenon DEF rename, bindfs_link
  <2>3. SourceOK(entry, inode, fds) /\ fds \in [Ino -> Int]
    BY DEF TypeInv, FdInv
  <2>4. from \in Path
    BY <2>1, Zenon DEF TypeInv, CallOK
  <2>5. \E ret, step : step # "idle" /\ Done(w, step, ret)
    BY Zenon DEF rename, bindfs_link
  <2> HIDE DEF from, to
  <2>6. SourceOK(entry', inode', fds')
    <3>1. CASE UNCHANGED source
      BY <2>1, <3>1, <1>UnchangedTypes
    <3>2. ASSUME NEW e, SetSource(e, inode), e \in [Path -> Ino \cup {None}],
                 Range(e) \subseteq Range(entry) \cup {None}
          PROVE  SourceOK(entry', inode', fds')
      BY <2>1, <2>3, <3>2, <1>RenamedKeeps
    <3>3. /\ [entry EXCEPT ![to] = entry[from]] \in [Path -> Ino \cup {None}]
          /\ Range([entry EXCEPT ![to] = entry[from]]) \subseteq Range(entry) \cup {None}
      BY <2>3, <2>4, Zenon DEF SourceOK, Range
    <3>4. /\ [entry EXCEPT ![to] = entry[from], ![from] = None] \in [Path -> Ino \cup {None}]
          /\ Range([entry EXCEPT ![to] = entry[from], ![from] = None]) \subseteq Range(entry) \cup {None}
      BY <2>3, <2>4 DEF SourceOK, Range
    <3> QED BY <2>2, <3>1, <3>2, <3>3, <3>4, Zenon
  <2> QED BY <2>1, <2>5, <2>6, <1>DoneTypes

(* A chmod or a chown of a file that exists.                               *)
<1>ModeSetKeeps.
  ASSUME TypeInv, FdInv, fds' = fds, NEW p \in Path, Kind(p) # None, NEW mode \in SUBSET ModeBit,
         SetNode(p, [NodeAt(p) EXCEPT !.mode = mode])
  PROVE  SourceOK(entry', inode', fds')
  <2> USE <1>ModeSetKeeps
  <2> DEFINE node == [NodeAt(p) EXCEPT !.mode = mode]
  <2>1. SourceOK(entry, inode, fds) /\ fds \in [Ino -> Int]
    BY DEF TypeInv, FdInv
  <2>2. NodeAt(p) \in Nodes /\ NodeAt(p).kind # None /\ entry[p] # None
    BY <2>1, KindFacts
  <2>3. node \in Nodes /\ node.kind # None
    BY <2>2, ChmoddedTypes
  <2> HIDE DEF node
  <2>4. SetNode(p, node)
    BY DEF node
  <2> QED BY <2>1, <2>2, <2>3, <2>4, <1>SetNodeKeeps

(* chmod.                                                                  *)
<1>ChmodTypes.
  ASSUME FdInv, TypeInv, NEW w \in Worker, chmod_lstat(w) \/ bindfs_chmod(w)
  PROVE  TypeInv'
  <2> USE <1>ChmodTypes
  <2>1. settings' = settings /\ fds' = fds /\ handles' = handles /\ pc[w] \in {"chmod_lstat", "chmod"}
    BY DEF chmod_lstat, bindfs_chmod, chmod, FilesUnchanged
  <2>2. SourceOK(entry, inode, fds) /\ fds \in [Ino -> Int] /\ CallOK(pc[w], call[w]) /\ IsCall(call[w])
    BY DEF TypeInv, FdInv
  <2>3. CASE \E from, ret : from # "idle" /\ Done(w, from, ret) /\ UNCHANGED source
    BY <2>1, <2>3, <1>DoneTypes, <1>UnchangedTypes
  <2>4. ASSUME NEW mode \in SUBSET ModeBit, chmod(w, mode)
        PROVE  TypeInv'
    <3> DEFINE p == Walk(call[w].path)
    <3>1. CASE /\ p \in Path /\ Kind(p) \in {"reg", "dir"}
               /\ SetNode(p, [NodeAt(p) EXCEPT !.mode = mode])
               /\ Done(w, "chmod", OK)
      <4>1. Kind(p) # None
        BY <3>1 DEF None
      <4> HIDE DEF p
      <4>2. SourceOK(entry', inode', fds')
        BY <2>1, <3>1, <4>1, <1>ModeSetKeeps
      <4> QED BY <2>1, <3>1, <4>2, <1>DoneTypes
    <3> QED BY <2>3, <2>4, <3>1 DEF chmod
  <2>5. CASE chmod_lstat(w)
    <3>1. CASE Goto(w, "chmod_lstat", "chmod") /\ call' = [call EXCEPT ![w].st = NodeAt(call[w].path)]
      <4> DEFINE st == NodeAt(call[w].path)
                 c == [call[w] EXCEPT !.st = st]
      <4>1. pc[w] = "chmod_lstat" /\ pc' = [pc EXCEPT ![w] = "chmod"] /\ call' = [call EXCEPT ![w] = c]
        BY <3>1 DEF Goto
      <4>2. st \in Nodes
        BY <2>2, KindFacts, Zenon
      <4> HIDE DEF st
      <4>3. CallOK("chmod", c)
        BY <2>2, <4>1, <4>2 DEF CallOK, IsCall, Fields, PC, ServedAt, DeleteSteps
      <4> HIDE DEF c
      <4>4. SourceOK(entry', inode', fds')
        BY <2>5, <1>UnchangedTypes DEF chmod_lstat, FilesUnchanged
      <4> QED BY <2>1, <4>1, <4>3, <4>4, <1>QuietTypes, Zenon
    <3> QED BY <2>3, <2>5, <3>1 DEF chmod_lstat, FilesUnchanged
  <2>6. CASE bindfs_chmod(w)
    <3>1. pc[w] # "idle"
      BY <2>1
    <3>2. /\ settings.chmod_permchain[call[w].req.mode] \in SUBSET ModeBit
          /\ call[w].req.mode \in SUBSET ModeBit
      BY <3>1, RequestTypes, Zenon
    <3>3. IgnoredMode(w) \in SUBSET ModeBit
      <4>1. call[w].st.mode \in SUBSET ModeBit
        BY <2>2, Zenon DEF CallOK, Nodes
      <4> QED BY <3>2, <4>1, Zenon DEF IgnoredMode
    <3>4. \/ \E mode \in SUBSET ModeBit : chmod(w, mode)
          \/ \E ret : Done(w, "chmod", ret) /\ FilesUnchanged
      BY <2>6, <3>2, <3>3, Zenon DEF bindfs_chmod
    <3> QED BY <2>3, <2>4, <3>4 DEF FilesUnchanged
  <2> QED BY <2>5, <2>6

(* The two steps of chown.                                                 *)
<1>ChownTypes.
  ASSUME FdInv, TypeInv, NEW w \in Worker, bindfs_chown(w) \/ lchown(w)
  PROVE  TypeInv'
  <2> USE <1>ChownTypes
  <2>1. settings' = settings /\ fds' = fds /\ handles' = handles /\ pc[w] \in {"bindfs_chown", "chown"}
    BY Zenon DEF bindfs_chown, lchown, FilesUnchanged
  <2>2. SourceOK(entry, inode, fds) /\ fds \in [Ino -> Int] /\ CallOK(pc[w], call[w])
    BY DEF TypeInv, FdInv
  <2>3. CASE bindfs_chown(w)
    <3>1. SourceOK(entry', inode', fds')
      BY <2>3, <1>UnchangedTypes, Zenon DEF bindfs_chown, FilesUnchanged
    <3>2. CASE \E ret : Done(w, "bindfs_chown", ret)
      BY <2>1, <3>1, <3>2, <1>DoneTypes
    <3>3. CASE Goto(w, "bindfs_chown", "process_path") /\ UNCHANGED call
      <4>1. ServedAt("process_path", call[w].req.op)
        BY <2>2, <3>3, Zenon DEF Goto, CallOK, ServedAt, DeleteSteps
      <4> QED BY <2>1, <3>1, <3>3, <4>1, <1>GotoTypes DEF PC
    <3> QED BY <2>3, <3>2, <3>3, Zenon DEF bindfs_chown
  <2>4. CASE lchown(w)
    <3> DEFINE p == call[w].path
               owner == NewId(settings.chown_policy, call[w].req.uid)
               group == NewId(settings.chgrp_policy, call[w].req.gid)
               node == ChownedNode(NodeAt(p), owner, group)
    <3>1. CASE UNCHANGED source /\ \E ret : Done(w, "chown", ret)
      BY <2>1, <3>1, <1>DoneTypes, <1>UnchangedTypes
    <3>2. CASE Kind(p) # None /\ SetNode(p, node) /\ Done(w, "chown", OK)
      <4>1. p \in Path
        BY <2>1, <2>2, Zenon DEF CallOK
      <4>2. owner \in User \cup {Keep} /\ group \in User \cup {Keep}
        BY <2>1, RequestTypes, NewIdTypes, Zenon
      <4> HIDE DEF p, owner, group
      <4>3. NodeAt(p) \in Nodes /\ NodeAt(p).kind # None /\ entry[p] # None
        BY <2>2, <3>2, <4>1, KindFacts, Zenon
      <4>4. node \in Nodes /\ node.kind # None
        BY <4>2, <4>3, ChownedTypes, SMTT(20)
      <4> HIDE DEF node
      <4>5. SourceOK(entry', inode', fds')
        BY <2>1, <2>2, <3>2, <4>1, <4>3, <4>4, <1>SetNodeKeeps, Zenon
      <4> QED BY <2>1, <3>2, <4>5, <1>DoneTypes
    <3> QED BY <2>4, <3>1, <3>2, Zenon DEF lchown
  <2> QED BY <2>3, <2>4

(* A request comes, and its reply goes.                                    *)
<1>RequestKeepsTypes.
  ASSUME FdInv, TypeInv, NEW w \in Worker, Receive(w) \/ ReceiveRelease(w) \/ Reply(w)
  PROVE  TypeInv'
  <2> USE <1>RequestKeepsTypes
  <2>1. settings' = settings /\ fds' = fds /\ UNCHANGED source
    BY Zenon DEF Receive, ReceiveRelease, Reply, FilesUnchanged
  <2>2. SourceOK(entry', inode', fds')
    BY <2>1, <1>UnchangedTypes
  <2>3. NoNode \in Nodes
    BY FileOpsAssumption, Zenon DEF Nodes, NoNode, Names
  <2>4. \A r \in Request[settings] : r \in Requests
    BY FileOpsAssumption, Zenon DEF TypeInv
  <2>5. CASE Receive(w)
    <3>1. PICK r \in Request[settings] :
            /\ Sendable(r) /\ pc' = [pc EXCEPT ![w] = FirstStep(r.op)]
            /\ call' = [call EXCEPT ![w] =
                 [NoCall EXCEPT !.req = r, !.path = r.path, !.target = realpath(r.path),
                                !.before = Snapshot]]
      BY <2>5, Zenon DEF Receive, Goto
    <3> DEFINE c == [NoCall EXCEPT !.req = r, !.path = r.path, !.target = realpath(r.path),
                                   !.before = Snapshot]
    <3>2. c.req = r /\ c.path = r.path /\ c.st = NoNode
      BY DEF NoCall
    <3>3. call' = [call EXCEPT ![w] = c]
      BY <3>1
    <3> HIDE DEF c
    <3>4. r.path \in Path /\ r.op \in Ops
      BY <2>4 DEF Requests
    <3>5. r.op # "release"
      BY <3>1 DEF Sendable
    <3>6. /\ FirstStep(r.op) \in PC \ {"idle", "done", "release"}
          /\ ServedAt(FirstStep(r.op), r.op)
      BY <3>4, <3>5 DEF FirstStep, PC, ServedAt, DeleteSteps, Ops
    <3>7. CallOK(FirstStep(r.op), c)
      BY <2>3, <2>4, <3>2, <3>4, <3>6 DEF CallOK
    <3>8. handles' = handles
      BY <2>5, Zenon DEF Receive, FilesUnchanged
    <3> QED BY <2>1, <2>2, <3>1, <3>3, <3>7, <3>8, <1>QuietTypes, Zenon
  <2>6. CASE ReceiveRelease(w)
    <3>1. PICK r \in Request[settings], i \in Ino :
            /\ r.op = "release" /\ handles[i] > 0
            /\ pc' = [pc EXCEPT ![w] = "release"]
            /\ handles' = [handles EXCEPT ![i] = @ - 1]
            /\ call' = [call EXCEPT ![w] = [NoCall EXCEPT !.req = r, !.fd = i]]
      BY <2>6, Zenon DEF ReceiveRelease, Goto
    <3> DEFINE c == [NoCall EXCEPT !.req = r, !.fd = i]
    <3>2. c.req = r /\ c.fd = i /\ c.st = NoNode
      BY DEF NoCall
    <3>3. call' = [call EXCEPT ![w] = c]
      BY <3>1
    <3> HIDE DEF c
    <3>4. CallOK("release", c)
      BY <2>3, <2>4, <3>1, <3>2 DEF CallOK, PC, ServedAt, DeleteSteps
    <3>5. \A j \in Ino : fds'[j] \in 0..MaxFds /\ handles'[j] >= 0
      BY <2>1, <3>1 DEF TypeInv, FdInv
    <3> QED BY <2>1, <2>2, <3>1, <3>3, <3>4, <3>5, <1>TypeFrame, Zenon
  <2>7. CASE Reply(w)
    <3>1. pc' = [pc EXCEPT ![w] = "idle"] /\ call' = [call EXCEPT ![w] = NoCall] /\ handles' = handles
      BY <2>7 DEF Reply, Goto, FilesUnchanged
    <3>2. CallOK("idle", NoCall)
      BY <2>3, Zenon DEF CallOK, NoCall, PC, ServedAt, DeleteSteps
    <3> QED BY <2>1, <2>2, <3>1, <3>2, <1>QuietTypes, Zenon
  <2> QED BY <2>5, <2>6, <2>7

(* Another process changes the mode of a file.                             *)
<1>SourceChmodTypes.
  ASSUME FdInv, TypeInv, SourceChmod
  PROVE  TypeInv'
  <2> USE <1>SourceChmodTypes
  <2>1. settings' = settings /\ fds' = fds /\ handles' = handles /\ pc' = pc /\ call' = call
    BY DEF SourceChmod
  <2>2. PICK p \in Path, mode \in SourceMode[settings] :
          Kind(p) = "reg" /\ SetNode(p, [NodeAt(p) EXCEPT !.mode = mode])
    BY DEF SourceChmod
  <2>3. mode \in SUBSET ModeBit /\ Kind(p) # None
    BY <2>2, FileOpsAssumption DEF TypeInv, None
  <2>4. SourceOK(entry', inode', fds')
    BY <2>1, <2>2, <2>3, <1>ModeSetKeeps
  <2> QED BY <2>1, <2>4, Zenon DEF TypeInv
<1> SUFFICES ASSUME FdInv, TypeInv, [Next]_vars PROVE TypeInv'
  OBVIOUS
<1>1. ASSUME NEW w \in Worker, Step(w) PROVE TypeInv'
  BY <1>1, <1>ProcessPathTypes, <1>ProcessToTypes, <1>PrepareTypes, <1>CreateNodeTypes,
     <1>CreateTypes, <1>OpenTypes, <1>ChownNewFileTypes, <1>ReleaseTypes, <1>DeleteTypes,
     <1>RenameTypes, <1>ChmodTypes, <1>ChownTypes, <1>RequestKeepsTypes, SMTT(20) DEF Step
<1>2. CASE UNCHANGED vars
  BY <1>2, Zenon DEF TypeInv, vars, source
<1> QED BY <1>1, <1>2, <1>SourceChmodTypes DEF Next

(* The type invariant, for every set of options, threads and requests: a   *)
(* name leads to an inode that exists, an inode exists as long as it has a *)
(* name or an open descriptor, and no handler closes more than was opened. *)
THEOREM FilesTyped == Spec => []TypeOK

(* They give the type invariant.                                           *)
<1>TypesFollow.
  ASSUME FdInv, TypeInv
  PROVE  TypeOK
  <2> USE <1>TypesFollow
  <2>1. settings \in Settings /\ entry \in [Path -> Ino \cup {None}] /\ inode \in [Ino -> Nodes]
    BY DEF TypeInv, SourceOK
  <2>2. \A i \in Ino : (inode[i].kind # None) <=> (i \in Range(entry) \/ fds[i] > 0)
    <3>1. NoNode.kind = None
      BY DEF NoNode
    <3> QED BY <3>1 DEF TypeInv, SourceOK
  <2>3. ASSUME NEW i \in Ino
        PROVE  handles[i] \in 0..MaxFds
    <3>1. Cardinality({w \in Worker : call[w].fd = i}) \in Nat
      <4>1. IsFiniteSet({w \in Worker : call[w].fd = i})
        BY FS_Subset, FileOpsAssumption, Zenon
      <4> QED BY <4>1, FS_CardinalityType
    <3>2. fds[i] = handles[i] + Cardinality({w \in Worker : call[w].fd = i})
      BY Zenon DEF FdInv, NoFdLeak
    <3>3. fds[i] \in 0..MaxFds /\ handles[i] >= 0 /\ handles[i] \in Int /\ MaxFds \in Nat
      BY FileOpsAssumption DEF TypeInv, FdInv
    <3> QED BY <3>1, <3>2, <3>3
  <2>4. fds \in [Ino -> 0..MaxFds] /\ handles \in [Ino -> 0..MaxFds]
    BY <2>3 DEF TypeInv, FdInv
  <2>5. pc \in [Worker -> PC] /\ DOMAIN call = Worker
    BY DEF FdInv, TypeInv, CallOK
  <2> QED BY <2>1, <2>2, <2>4, <2>5 DEF TypeOK
<1>1. FdInv /\ TypeInv => TypeOK
  BY <1>TypesFollow
<1> QED BY <1>1, FdInit, FdStep, TypesInit, TypesStep, PTL DEF Spec
=============================================================================
