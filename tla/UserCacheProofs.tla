-------------------------- MODULE UserCacheProofs --------------------------
(***************************************************************************)
(* Proofs about the user cache for any number of workers and any history   *)
(* of the user database: the lock protects the cache (ReadersUndisturbed,  *)
(* UsableWhenUnlocked) and a SIGUSR1 is never lost (AnswerFresh).          *)
(***************************************************************************)
EXTENDS UserCache, TLAPS

Rebuilding == {"uids", "gids", "sort"}
Writing == {"retest", "clear", "uids", "gids", "sort", "wrunlock"}
Reading == {"lookup_uid", "lookup_gid", "rdunlock"}

(* Who is where with which lock. *)
LockInv ==
  /\ \A w \in Worker : pc[w] \in Writing => writer = {w}
  /\ \A w \in Worker : pc[w] \in Reading => w \in readers
  /\ readers # {} => writer = {}

Usable == uid_order = "id" /\ gid_order = "id"

(* The cache is usable, or being rebuilt, or main has yet to build it.     *)
OrderInv ==
  /\ \/ Usable
     \/ \E w \in Worker : pc[w] \in Rebuilding
     \/ ~mounted /\ cache_rebuild_requested
  /\ \A w \in Worker : pc[w] = "wrunlock" => Usable
  /\ \A w \in Worker : pc[w] \in Reading \cup {"rdlock", "test"} => mounted

PasswdPending == \E w \in Worker : pc[w] = "uids"
GroupPending == \E w \in Worker : pc[w] \in {"uids", "gids"}

(* Where a worker relies on its passwd or its group being recent enough.   *)
UsesPasswd == Reading \cup {"gids", "sort", "wrunlock", "rdlock"}
UsesGroup == Reading \cup {"sort", "wrunlock", "rdlock"}

(* With the flag clear, the cache is as recent as the last signal, unless  *)
(* a rebuild has still to read the file.  A worker past its test of the    *)
(* flag will find contents as recent as the signal before its call.        *)
FreshInv ==
  /\ signalled.passwd \in 1..passwd /\ signalled.group \in 1..group
  /\ \A w \in Worker : /\ floor[w].passwd \in 1..signalled.passwd
                       /\ floor[w].group \in 1..signalled.group
  /\ built.passwd <= passwd /\ built.group <= group
  /\ ~cache_rebuild_requested =>
       /\ PasswdPending \/ built.passwd >= signalled.passwd
       /\ GroupPending \/ built.group >= signalled.group
  /\ \A w \in Worker :
       /\ pc[w] \in UsesPasswd => PasswdPending \/ built.passwd >= floor[w].passwd
       /\ pc[w] \in UsesGroup => GroupPending \/ built.group >= floor[w].group

(* What the cache holds, in terms of the contents it was built from.       *)
ContentInv ==
  /\ built.passwd >= 1 =>
       /\ uid_cache \subseteq Passwd[built.passwd]
       /\ built.whole => uid_cache = Passwd[built.passwd]
  /\ built.group >= 1 /\ ~(\E w \in Worker : pc[w] = "gids") =>
       /\ \A c \in gid_cache : \E g \in Group[built.group] : c = Resolve(g)
       /\ built.whole => \A g \in Group[built.group] : Resolve(g) \in gid_cache

(* What a worker holding the read lock has found out.                      *)
AnswerInv ==
  \A w \in Worker :
    /\ pc[w] = "lookup_gid" => ~InMainGroup(query[w])
    /\ pc[w] = "rdunlock" => (ret[w] <=> InMainGroup(query[w]) \/ IsListed(query[w]))

Inv == TypeOK /\ LockInv /\ OrderInv /\ FreshInv /\ ContentInv /\ AnswerInv

----------------------------------------------------------------------------

(* Every variable keeps its type. *)
LEMMA TypeStep ==
  ASSUME TypeOK, [Next]_vars
  PROVE  TypeOK'
<1>. USE DEF Version, Build, TypeOK, PC, database, lock, cache, locals, history
<1>1. ASSUME NEW w \in Worker, Call(w) PROVE TypeOK'
  BY <1>1 DEF Call, Move
<1>2. ASSUME NEW w \in Worker, Test(w) PROVE TypeOK'
  <2>1. CASE cache_rebuild_requested
    BY <1>2, <2>1 DEF Test, Move
  <2>2. CASE ~cache_rebuild_requested
    BY <1>2, <2>2 DEF Test, Move
  <2>. QED
    BY <2>1, <2>2
<1>3. ASSUME NEW w \in Worker, WrLock(w) PROVE TypeOK'
  BY <1>3 DEF WrLock, Move, CanWrite
<1>4. ASSUME NEW w \in Worker, Retest(w) PROVE TypeOK'
  <2>1. CASE cache_rebuild_requested
    BY <1>4, <2>1 DEF Retest, Move
  <2>2. CASE ~cache_rebuild_requested
    BY <1>4, <2>2 DEF Retest, Move
  <2>. QED
    BY <2>1, <2>2
<1>5. ASSUME NEW w \in Worker, Clear(w) PROVE TypeOK'
  BY <1>5, Zenon DEF Clear, Move
<1>6. ASSUME NEW w \in Worker, rebuild_uid_cache(w) PROVE TypeOK'
  BY <1>6, UserCacheAssumption DEF rebuild_uid_cache, Move
<1>7. ASSUME NEW w \in Worker, rebuild_gid_cache(w) PROVE TypeOK'
  <2>1. \A g \in GroupEntry : Resolve(g) \in CachedGroup
    BY DEF Resolve, GroupEntry, CachedGroup, PasswdEntry
  <2>2. gid_cache' \in SUBSET CachedGroup
    BY <1>7, <2>1, UserCacheAssumption DEF rebuild_gid_cache, Move
  <2>. QED
    BY <1>7, <2>2 DEF rebuild_gid_cache, Move
<1>8. ASSUME NEW w \in Worker, Sort(w) PROVE TypeOK'
  BY <1>8 DEF Sort, Move
<1>9. ASSUME NEW w \in Worker, WrUnlock(w) PROVE TypeOK'
  <2>1. CASE mounted
    BY <1>9, <2>1 DEF WrUnlock, Move
  <2>2. CASE ~mounted
    BY <1>9, <2>2 DEF WrUnlock, Move
  <2>. QED
    BY <2>1, <2>2
<1>10. ASSUME NEW w \in Worker, RdLock(w) PROVE TypeOK'
  BY <1>10 DEF RdLock, Move, CanRead
<1>11. ASSUME NEW w \in Worker, LookupUid(w) PROVE TypeOK'
  BY <1>11, Zenon DEF LookupUid, Move
<1>12. ASSUME NEW w \in Worker, LookupGid(w) PROVE TypeOK'
  BY <1>12, Zenon DEF LookupGid, Move
<1>13. ASSUME NEW w \in Worker, RdUnlock(w) PROVE TypeOK'
  BY <1>13 DEF RdUnlock, Move, FirstVersion
<1>14. CASE invalidate_user_cache
  BY <1>14 DEF invalidate_user_cache
<1>15. CASE EditPasswd
  BY <1>15, UserCacheAssumption DEF EditPasswd
<1>16. CASE EditGroup
  BY <1>16, UserCacheAssumption DEF EditGroup
<1>17. CASE UNCHANGED vars
  BY <1>17 DEF vars
<1>. QED
  BY <1>1, <1>2, <1>3, <1>4, <1>5, <1>6, <1>7, <1>8, <1>9, <1>10, <1>11, <1>12, <1>13, <1>14, <1>15, <1>16, <1>17
  DEF Next, user_belongs_to_group, init_user_cache

(* The read-write lock keeps writers apart from everyone else. *)
LEMMA LockStep ==
  ASSUME TypeOK, LockInv, [Next]_vars
  PROVE  LockInv'
<1>. USE DEF LockInv, Writing, Reading, TypeOK, PC, database, lock, cache, locals, history
<1>1. ASSUME NEW w \in Worker, Call(w) PROVE LockInv'
  BY <1>1 DEF Call, Move
<1>2. ASSUME NEW w \in Worker, Test(w) PROVE LockInv'
  <2>1. CASE cache_rebuild_requested
    BY <1>2, <2>1 DEF Test, Move
  <2>2. CASE ~cache_rebuild_requested
    BY <1>2, <2>2 DEF Test, Move
  <2>. QED
    BY <2>1, <2>2
<1>3. ASSUME NEW w \in Worker, WrLock(w) PROVE LockInv'
  BY <1>3 DEF WrLock, Move, CanWrite
<1>4. ASSUME NEW w \in Worker, Retest(w) PROVE LockInv'
  <2>1. CASE cache_rebuild_requested
    BY <1>4, <2>1 DEF Retest, Move
  <2>2. CASE ~cache_rebuild_requested
    BY <1>4, <2>2 DEF Retest, Move
  <2>. QED
    BY <2>1, <2>2
<1>5. ASSUME NEW w \in Worker, Clear(w) PROVE LockInv'
  BY <1>5 DEF Clear, Move
<1>6. ASSUME NEW w \in Worker, rebuild_uid_cache(w) PROVE LockInv'
  BY <1>6 DEF rebuild_uid_cache, Move
<1>7. ASSUME NEW w \in Worker, rebuild_gid_cache(w) PROVE LockInv'
  BY <1>7 DEF rebuild_gid_cache, Move
<1>8. ASSUME NEW w \in Worker, Sort(w) PROVE LockInv'
  BY <1>8 DEF Sort, Move
<1>9. ASSUME NEW w \in Worker, WrUnlock(w) PROVE LockInv'
  <2>1. pc' = [pc EXCEPT ![w] = "rdlock"] \/ pc' = [pc EXCEPT ![w] = "idle"]
    BY <1>9 DEF WrUnlock, Move
  <2>2. pc[w] = "wrunlock" /\ writer' = {} /\ readers' = readers
    BY <1>9 DEF WrUnlock, Move
  <2>. QED
    BY <2>1, <2>2
<1>10. ASSUME NEW w \in Worker, RdLock(w) PROVE LockInv'
  BY <1>10 DEF RdLock, Move, CanRead
<1>11. ASSUME NEW w \in Worker, LookupUid(w) PROVE LockInv'
  BY <1>11 DEF LookupUid, Move
<1>12. ASSUME NEW w \in Worker, LookupGid(w) PROVE LockInv'
  BY <1>12 DEF LookupGid, Move
<1>13. ASSUME NEW w \in Worker, RdUnlock(w) PROVE LockInv'
  BY <1>13 DEF RdUnlock, Move, FirstVersion
<1>14. CASE invalidate_user_cache
  BY <1>14 DEF invalidate_user_cache
<1>15. CASE EditPasswd
  BY <1>15 DEF EditPasswd
<1>16. CASE EditGroup
  BY <1>16 DEF EditGroup
<1>17. CASE UNCHANGED vars
  BY <1>17 DEF vars
<1>. QED
  BY <1>1, <1>2, <1>3, <1>4, <1>5, <1>6, <1>7, <1>8, <1>9, <1>10, <1>11, <1>12, <1>13, <1>14, <1>15, <1>16, <1>17
  DEF Next, user_belongs_to_group, init_user_cache

(* A rebuild leaves the cache sorted by id before it lets go of the lock. *)
LEMMA OrderStep ==
  ASSUME TypeOK, LockInv, OrderInv, [Next]_vars
  PROVE  OrderInv'
<1>. USE DEF LockInv, OrderInv, Usable, Rebuilding, Writing, Reading, TypeOK, PC, database, lock, cache, locals, history
<1>1. ASSUME NEW w \in Worker, Call(w) PROVE OrderInv'
  BY <1>1 DEF Call, Move
<1>2. ASSUME NEW w \in Worker, Test(w) PROVE OrderInv'
  <2>1. CASE cache_rebuild_requested
    BY <1>2, <2>1 DEF Test, Move
  <2>2. CASE ~cache_rebuild_requested
    BY <1>2, <2>2 DEF Test, Move
  <2>. QED
    BY <2>1, <2>2
<1>3. ASSUME NEW w \in Worker, WrLock(w) PROVE OrderInv'
  BY <1>3 DEF WrLock, Move, CanWrite
<1>4. ASSUME NEW w \in Worker, Retest(w) PROVE OrderInv'
  <2>1. CASE cache_rebuild_requested
    BY <1>4, <2>1 DEF Retest, Move
  <2>2. CASE ~cache_rebuild_requested
    <3>1. pc[w] = "retest" /\ pc' = [pc EXCEPT ![w] = "wrunlock"]
      BY <1>4, <2>2 DEF Retest, Move
    <3>2. \A v \in Worker : pc[v] \notin Rebuilding
      BY <3>1
    <3>. QED
      BY <1>4, <2>2, <3>1, <3>2 DEF Retest
  <2>. QED
    BY <2>1, <2>2
<1>5. ASSUME NEW w \in Worker, Clear(w) PROVE OrderInv'
  <2>1. pc[w] = "clear" /\ pc' = [pc EXCEPT ![w] = "uids"] /\ mounted' = mounted
    BY <1>5 DEF Clear, Move
  <2>. QED
    BY <2>1
<1>6. ASSUME NEW w \in Worker, rebuild_uid_cache(w) PROVE OrderInv'
  BY <1>6 DEF rebuild_uid_cache, Move
<1>7. ASSUME NEW w \in Worker, rebuild_gid_cache(w) PROVE OrderInv'
  <2>1. pc[w] = "gids" /\ pc' = [pc EXCEPT ![w] = "sort"] /\ mounted' = mounted
    BY <1>7 DEF rebuild_gid_cache, Move
  <2>. QED
    BY <2>1
<1>8. ASSUME NEW w \in Worker, Sort(w) PROVE OrderInv'
  BY <1>8 DEF Sort, Move
<1>9. ASSUME NEW w \in Worker, WrUnlock(w) PROVE OrderInv'
  <2>1. CASE mounted
    BY <1>9, <2>1 DEF WrUnlock, Move
  <2>2. CASE ~mounted
    BY <1>9, <2>2 DEF WrUnlock, Move
  <2>. QED
    BY <2>1, <2>2
<1>10. ASSUME NEW w \in Worker, RdLock(w) PROVE OrderInv'
  BY <1>10 DEF RdLock, Move, CanRead
<1>11. ASSUME NEW w \in Worker, LookupUid(w) PROVE OrderInv'
  BY <1>11 DEF LookupUid, Move
<1>12. ASSUME NEW w \in Worker, LookupGid(w) PROVE OrderInv'
  BY <1>12 DEF LookupGid, Move
<1>13. ASSUME NEW w \in Worker, RdUnlock(w) PROVE OrderInv'
  BY <1>13 DEF RdUnlock, Move, FirstVersion
<1>14. CASE invalidate_user_cache
  BY <1>14 DEF invalidate_user_cache
<1>15. CASE EditPasswd
  BY <1>15 DEF EditPasswd
<1>16. CASE EditGroup
  BY <1>16 DEF EditGroup
<1>17. CASE UNCHANGED vars
  BY <1>17 DEF vars
<1>. QED
  BY <1>1, <1>2, <1>3, <1>4, <1>5, <1>6, <1>7, <1>8, <1>9, <1>10, <1>11, <1>12, <1>13, <1>14, <1>15, <1>16, <1>17
  DEF Next, user_belongs_to_group, init_user_cache

(* Resetting the flag before reading the files loses no signal. *)
LEMMA FreshStep ==
  ASSUME TypeOK, LockInv, FreshInv, [Next]_vars
  PROVE  FreshInv'
<1>. USE DEF Version, Build, LockInv, FreshInv, PasswdPending, GroupPending, UsesPasswd, UsesGroup, Writing, Reading, TypeOK, PC, database, lock, cache, locals, history
<1>1. ASSUME NEW w \in Worker, Call(w) PROVE FreshInv'
  BY <1>1 DEF Call, Move
<1>2. ASSUME NEW w \in Worker, Test(w) PROVE FreshInv'
  <2>1. CASE cache_rebuild_requested
    <3>1. pc[w] = "test" /\ pc' = [pc EXCEPT ![w] = "wrlock"]
      BY <1>2, <2>1 DEF Test, Move
    <3>. QED
      BY <1>2, <2>1, <3>1 DEF Test
  <2>2. CASE ~cache_rebuild_requested
    BY <1>2, <2>2 DEF Test, Move
  <2>. QED
    BY <2>1, <2>2
<1>3. ASSUME NEW w \in Worker, WrLock(w) PROVE FreshInv'
  BY <1>3 DEF WrLock, Move, CanWrite
<1>4. ASSUME NEW w \in Worker, Retest(w) PROVE FreshInv'
  <2>1. CASE cache_rebuild_requested
    BY <1>4, <2>1 DEF Retest, Move
  <2>2. CASE ~cache_rebuild_requested
    <3>1. pc[w] = "retest" /\ pc' = [pc EXCEPT ![w] = "wrunlock"]
      BY <1>4, <2>2 DEF Retest, Move
    <3>. QED
      BY <1>4, <2>2, <3>1 DEF Retest
  <2>. QED
    BY <2>1, <2>2
<1>5. ASSUME NEW w \in Worker, Clear(w) PROVE FreshInv'
  BY <1>5 DEF Clear, Move
<1>6. ASSUME NEW w \in Worker, rebuild_uid_cache(w) PROVE FreshInv'
  BY <1>6 DEF rebuild_uid_cache, Move
<1>7. ASSUME NEW w \in Worker, rebuild_gid_cache(w) PROVE FreshInv'
  BY <1>7 DEF rebuild_gid_cache, Move
<1>8. ASSUME NEW w \in Worker, Sort(w) PROVE FreshInv'
  BY <1>8 DEF Sort, Move
<1>9. ASSUME NEW w \in Worker, WrUnlock(w) PROVE FreshInv'
  <2>1. CASE mounted
    BY <1>9, <2>1 DEF WrUnlock, Move
  <2>2. CASE ~mounted
    BY <1>9, <2>2 DEF WrUnlock, Move
  <2>. QED
    BY <2>1, <2>2
<1>10. ASSUME NEW w \in Worker, RdLock(w) PROVE FreshInv'
  BY <1>10 DEF RdLock, Move, CanRead
<1>11. ASSUME NEW w \in Worker, LookupUid(w) PROVE FreshInv'
  BY <1>11 DEF LookupUid, Move
<1>12. ASSUME NEW w \in Worker, LookupGid(w) PROVE FreshInv'
  BY <1>12 DEF LookupGid, Move
<1>13. ASSUME NEW w \in Worker, RdUnlock(w) PROVE FreshInv'
  BY <1>13 DEF RdUnlock, Move, FirstVersion
<1>14. CASE invalidate_user_cache
  BY <1>14 DEF invalidate_user_cache
<1>15. CASE EditPasswd
  BY <1>15 DEF EditPasswd
<1>16. CASE EditGroup
  BY <1>16 DEF EditGroup
<1>17. CASE UNCHANGED vars
  BY <1>17 DEF vars
<1>. QED
  BY <1>1, <1>2, <1>3, <1>4, <1>5, <1>6, <1>7, <1>8, <1>9, <1>10, <1>11, <1>12, <1>13, <1>14, <1>15, <1>16, <1>17, Zenon
  DEF Next, user_belongs_to_group, init_user_cache

(* Nothing changes in the cache. *)
LEMMA ContentFrame ==
  ASSUME ContentInv, UNCHANGED <<uid_cache, gid_cache, built>>,
         \A w \in Worker : pc[w] = "gids" => pc'[w] = "gids"
  PROVE  ContentInv'
BY DEF ContentInv, Resolve

(* The cache holds what one passwd and one group file held. *)
LEMMA ContentStep ==
  ASSUME TypeOK, LockInv, FreshInv, ContentInv, [Next]_vars
  PROVE  ContentInv'
<1>. USE DEF TypeOK, PC, database, lock, cache, locals, history
<1>1. ASSUME NEW w \in Worker, Call(w) PROVE ContentInv'
  BY <1>1, ContentFrame DEF Call, Move
<1>2. ASSUME NEW w \in Worker, Test(w) PROVE ContentInv'
  BY <1>2, ContentFrame DEF Test, Move
<1>3. ASSUME NEW w \in Worker, WrLock(w) PROVE ContentInv'
  BY <1>3, ContentFrame DEF WrLock, Move
<1>4. ASSUME NEW w \in Worker, Retest(w) PROVE ContentInv'
  BY <1>4, ContentFrame DEF Retest, Move
<1>5. ASSUME NEW w \in Worker, Clear(w) PROVE ContentInv'
  BY <1>5, ContentFrame DEF Clear, Move
<1>6. ASSUME NEW w \in Worker, rebuild_uid_cache(w) PROVE ContentInv'
  <2>1. PICK entries \in SUBSET Passwd[passwd], whole \in BOOLEAN :
          /\ whole => entries = Passwd[passwd]
          /\ uid_cache' = entries
          /\ built' = [passwd |-> passwd, group |-> built.group, whole |-> whole]
    BY <1>6 DEF rebuild_uid_cache, Yields
  <2>2. pc'[w] = "gids"
    BY <1>6 DEF rebuild_uid_cache, Move
  <2>. QED
    BY <2>1, <2>2 DEF ContentInv
<1>7. ASSUME NEW w \in Worker, rebuild_gid_cache(w) PROVE ContentInv'
  <2>1. PICK entries \in SUBSET Group[group], whole \in BOOLEAN :
          /\ whole => entries = Group[group]
          /\ gid_cache' = {Resolve(g) : g \in entries}
          /\ built' = [passwd |-> built.passwd, group |-> group,
                       whole |-> built.whole /\ whole]
    BY <1>7 DEF rebuild_gid_cache, Yields
  <2>2. uid_cache' = uid_cache
    BY <1>7 DEF rebuild_gid_cache
  <2>3. built'.passwd = built.passwd /\ built'.group = group
        /\ (built'.whole => built.whole /\ whole)
    BY <2>1, Zenon
  <2>4. \A c \in gid_cache' : \E g \in Group[group] : c = Resolve(g)
    BY <2>1
  <2>5. whole => \A g \in Group[group] : Resolve(g) \in gid_cache'
    BY <2>1
  <2>. QED
    BY <2>2, <2>3, <2>4, <2>5, Zenon DEF ContentInv, Resolve
<1>8. ASSUME NEW w \in Worker, Sort(w) PROVE ContentInv'
  BY <1>8, ContentFrame DEF Sort, Move
<1>9. ASSUME NEW w \in Worker, WrUnlock(w) PROVE ContentInv'
  BY <1>9, ContentFrame DEF WrUnlock, Move
<1>10. ASSUME NEW w \in Worker, RdLock(w) PROVE ContentInv'
  BY <1>10, ContentFrame DEF RdLock, Move
<1>11. ASSUME NEW w \in Worker, LookupUid(w) PROVE ContentInv'
  BY <1>11, ContentFrame DEF LookupUid, Move
<1>12. ASSUME NEW w \in Worker, LookupGid(w) PROVE ContentInv'
  BY <1>12, ContentFrame DEF LookupGid, Move
<1>13. ASSUME NEW w \in Worker, RdUnlock(w) PROVE ContentInv'
  BY <1>13, ContentFrame DEF RdUnlock, Move
<1>14. CASE invalidate_user_cache
  BY <1>14, ContentFrame DEF invalidate_user_cache
<1>15. CASE EditPasswd
  BY <1>15, ContentFrame DEF EditPasswd
<1>16. CASE EditGroup
  BY <1>16, ContentFrame DEF EditGroup
<1>17. CASE UNCHANGED vars
  BY <1>17, ContentFrame DEF vars
<1>. QED
  BY <1>1, <1>2, <1>3, <1>4, <1>5, <1>6, <1>7, <1>8, <1>9, <1>10, <1>11, <1>12, <1>13, <1>14, <1>15, <1>16, <1>17
  DEF Next, user_belongs_to_group, init_user_cache

(* No worker finds anything out, and the cache stays as it is. *)
LEMMA AnswerFrame ==
  ASSUME AnswerInv, UNCHANGED <<uid_cache, gid_cache>>,
         \A w \in Worker : pc'[w] \in {"lookup_gid", "rdunlock"} =>
           pc'[w] = pc[w] /\ query'[w] = query[w] /\ ret'[w] = ret[w]
  PROVE  AnswerInv'
<1>1. \A q : (InMainGroup(q) <=> InMainGroup(q)') /\ (IsListed(q) <=> IsListed(q)')
  BY DEF InMainGroup, IsListed
<1>. QED
  BY <1>1 DEF AnswerInv

(* A worker in a lookup finds the cache usable. *)
LEMMA ReaderFindsUsable ==
  ASSUME LockInv, OrderInv, NEW w \in Worker, pc[w] \in Reading
  PROVE  Usable
<1>1. writer = {}
  BY DEF LockInv
<1>2. \A v \in Worker : pc[v] \notin Rebuilding
  BY <1>1 DEF LockInv, Rebuilding, Writing
<1>3. mounted
  BY DEF OrderInv
<1>. QED
  BY <1>2, <1>3 DEF OrderInv

(* What a reader found stays true while it holds the lock. *)
LEMMA AnswerStep ==
  ASSUME TypeOK, LockInv, OrderInv, AnswerInv, [Next]_vars
  PROVE  AnswerInv'
<1>. USE DEF TypeOK, database, lock, cache, locals, history
<1>1. ASSUME NEW w \in Worker, Call(w) PROVE AnswerInv'
  BY <1>1, AnswerFrame DEF Call, Move
<1>2. ASSUME NEW w \in Worker, Test(w) PROVE AnswerInv'
  BY <1>2, AnswerFrame DEF Test, Move
<1>3. ASSUME NEW w \in Worker, WrLock(w) PROVE AnswerInv'
  BY <1>3, AnswerFrame DEF WrLock, Move
<1>4. ASSUME NEW w \in Worker, Retest(w) PROVE AnswerInv'
  BY <1>4, AnswerFrame DEF Retest, Move
<1>5. ASSUME NEW w \in Worker, Clear(w) PROVE AnswerInv'
  BY <1>5, AnswerFrame DEF Clear, Move
<1>6. ASSUME NEW w \in Worker, rebuild_uid_cache(w) PROVE AnswerInv'
  <2>1. pc[w] \in Writing /\ pc' = [pc EXCEPT ![w] = "gids"]
    BY <1>6 DEF rebuild_uid_cache, Move, Writing
  <2>2. \A v \in Worker : pc[v] \notin Reading
    BY <2>1 DEF LockInv
  <2>3. \A v \in Worker : pc'[v] \notin Reading
    BY <2>1, <2>2 DEF Reading
  <2>. QED
    BY <2>3 DEF AnswerInv, Reading
<1>7. ASSUME NEW w \in Worker, rebuild_gid_cache(w) PROVE AnswerInv'
  <2>1. pc[w] \in Writing /\ pc' = [pc EXCEPT ![w] = "sort"]
    BY <1>7 DEF rebuild_gid_cache, Move, Writing
  <2>2. \A v \in Worker : pc[v] \notin Reading
    BY <2>1 DEF LockInv
  <2>3. \A v \in Worker : pc'[v] \notin Reading
    BY <2>1, <2>2 DEF Reading
  <2>. QED
    BY <2>3 DEF AnswerInv, Reading
<1>8. ASSUME NEW w \in Worker, Sort(w) PROVE AnswerInv'
  BY <1>8, AnswerFrame DEF Sort, Move
<1>9. ASSUME NEW w \in Worker, WrUnlock(w) PROVE AnswerInv'
  BY <1>9, AnswerFrame DEF WrUnlock, Move
<1>10. ASSUME NEW w \in Worker, RdLock(w) PROVE AnswerInv'
  BY <1>10, AnswerFrame DEF RdLock, Move
<1>11. ASSUME NEW w \in Worker, LookupUid(w) PROVE AnswerInv'
  <2>1. pc[w] = "lookup_uid" /\ UNCHANGED <<uid_cache, gid_cache, query>>
    BY <1>11 DEF LookupUid, Move
  <2>2. Usable
    BY <2>1, ReaderFindsUsable DEF Reading
  <2>3. \A q : (InMainGroup(q) <=> InMainGroup(q)') /\ (IsListed(q) <=> IsListed(q)')
    BY <2>1 DEF InMainGroup, IsListed
  <2>4. \A v \in Worker \ {w} : pc'[v] = pc[v] /\ ret'[v] = ret[v]
    BY <1>11 DEF LookupUid, Move
  <2>5. CASE InMainGroup(query[w])
    <3>1. pc'[w] = "rdunlock" /\ ret'[w] = TRUE
      BY <1>11, <2>2, <2>5 DEF LookupUid, Move, Usable
    <3>. QED
      BY <2>1, <2>3, <2>4, <2>5, <3>1 DEF AnswerInv
  <2>6. CASE ~InMainGroup(query[w])
    <3>1. pc'[w] = "lookup_gid"
      BY <1>11, <2>6 DEF LookupUid, Move
    <3>. QED
      BY <2>1, <2>3, <2>4, <2>6, <3>1 DEF AnswerInv
  <2>. QED
    BY <2>5, <2>6
<1>12. ASSUME NEW w \in Worker, LookupGid(w) PROVE AnswerInv'
  <2>1. pc[w] = "lookup_gid" /\ UNCHANGED <<uid_cache, gid_cache, query>>
    BY <1>12 DEF LookupGid, Move
  <2>2. Usable
    BY <2>1, ReaderFindsUsable DEF Reading
  <2>3. \A q : (InMainGroup(q) <=> InMainGroup(q)') /\ (IsListed(q) <=> IsListed(q)')
    BY <2>1 DEF InMainGroup, IsListed
  <2>4. \A v \in Worker \ {w} : pc'[v] = pc[v] /\ ret'[v] = ret[v]
    BY <1>12 DEF LookupGid, Move
  <2>5. CASE IsListed(query[w])
    <3>1. pc'[w] = "rdunlock" /\ ret'[w] = TRUE
      BY <1>12, <2>2, <2>5 DEF LookupGid, Move, Usable
    <3>. QED
      BY <2>1, <2>3, <2>4, <2>5, <3>1 DEF AnswerInv
  <2>6. CASE ~IsListed(query[w])
    <3>1. pc'[w] = "rdunlock" /\ ret'[w] = FALSE
      BY <1>12, <2>2, <2>6 DEF LookupGid, Move, Usable
    <3>2. ~InMainGroup(query[w])
      BY <2>1 DEF AnswerInv
    <3>. QED
      BY <2>1, <2>3, <2>4, <2>6, <3>1, <3>2 DEF AnswerInv
  <2>. QED
    BY <2>5, <2>6
<1>13. ASSUME NEW w \in Worker, RdUnlock(w) PROVE AnswerInv'
  BY <1>13, AnswerFrame, Zenon DEF RdUnlock, Move
<1>14. CASE invalidate_user_cache
  BY <1>14, AnswerFrame DEF invalidate_user_cache
<1>15. CASE EditPasswd
  BY <1>15, AnswerFrame DEF EditPasswd
<1>16. CASE EditGroup
  BY <1>16, AnswerFrame DEF EditGroup
<1>17. CASE UNCHANGED vars
  BY <1>17, AnswerFrame DEF vars
<1>. QED
  BY <1>1, <1>2, <1>3, <1>4, <1>5, <1>6, <1>7, <1>8, <1>9, <1>10, <1>11, <1>12, <1>13, <1>14, <1>15, <1>16, <1>17
  DEF Next, user_belongs_to_group, init_user_cache

(* The inductive invariant holds of every behaviour. *)
LEMMA Invariance == Spec => []Inv
<1>1. Init => Inv
  <2>. SUFFICES ASSUME Init PROVE Inv
    OBVIOUS
  <2>. USE DEF Init
  <2>1. TypeOK
    <3>1. pc \in [Worker -> PC]
      BY DEF PC
    <3>2. built \in Build /\ signalled \in Version /\ floor \in [Worker -> Version]
      BY DEF Build, Version, FirstVersion
    <3>3. passwd \in 1..PasswdVersions /\ group \in 1..GroupVersions
      BY UserCacheAssumption
    <3>. QED
      BY <3>1, <3>2, <3>3, Zenon DEF TypeOK
  <2>2. LockInv /\ OrderInv
    BY DEF LockInv, OrderInv, Writing, Reading
  <2>3. FreshInv
    BY DEF FreshInv, UsesPasswd, UsesGroup, Reading, FirstVersion
  <2>4. ContentInv /\ AnswerInv
    BY DEF ContentInv, AnswerInv
  <2>. QED
    BY <2>1, <2>2, <2>3, <2>4 DEF Inv
<1>2. Inv /\ [Next]_vars => Inv'
  BY TypeStep, LockStep, OrderStep, FreshStep, ContentStep, AnswerStep DEF Inv
<1>. QED
  BY <1>1, <1>2, PTL DEF Spec

(* Every variable keeps its type. *)
THEOREM TypeCorrect == Spec => []TypeOK
BY Invariance, PTL DEF Inv

(***************************************************************************)
(* From the end of main's init_user_cache on, a free lock means a cache    *)
(* that is sorted by id and refers to no freed memory.                     *)
(***************************************************************************)
THEOREM CacheUsable == Spec => []UsableWhenUnlocked
<1>1. Inv => UsableWhenUnlocked
  BY DEF Inv, LockInv, OrderInv, UsableWhenUnlocked, Usable, Rebuilding, Writing, TypeOK
<1>. QED
  BY Invariance, <1>1, PTL

(***************************************************************************)
(* No step of init_user_cache touches the cache while a worker holds the   *)
(* read lock in user_belongs_to_group.                                     *)
(***************************************************************************)
THEOREM ReadersSafe == Spec => ReadersUndisturbed
<1>1. Inv /\ [Next]_vars => [readers # {} => UNCHANGED cache]_vars
  <2>. SUFFICES ASSUME Inv, [Next]_vars, readers # {} PROVE UNCHANGED cache
    OBVIOUS
  <2>1. \A w \in Worker : pc[w] \notin Writing
    BY DEF Inv, LockInv, Writing
  <2>2. ASSUME NEW w \in Worker, user_belongs_to_group(w) PROVE UNCHANGED cache
    BY <2>1, <2>2
    DEF user_belongs_to_group, init_user_cache, Test, WrLock, Retest, Clear,
        rebuild_uid_cache, rebuild_gid_cache, Sort, WrUnlock, RdLock, LookupUid,
        LookupGid, RdUnlock, Writing, cache, Move, history, locals
  <2>3. CASE UNCHANGED vars
    BY <2>3 DEF vars
  <2>. QED
    BY <2>2, <2>3 DEF Next, Call, invalidate_user_cache, EditPasswd, EditGroup
<1>. QED
  BY Invariance, <1>1, PTL DEF Spec, ReadersUndisturbed

(***************************************************************************)
(* A SIGUSR1 is never lost: calls that begin after it are answered from    *)
(* contents of the user database at least as recent, in every interleaving *)
(* of calls, rebuilds, signals and edits.                                  *)
(***************************************************************************)
THEOREM SignalHonoured == Spec => []AnswerFresh
<1>1. ASSUME Inv, NEW w \in Worker, pc[w] = "rdunlock"
      PROVE  \E p \in floor[w].passwd .. passwd, g \in floor[w].group .. group :
               /\ ret[w] => Member(query[w], p, g)
               /\ ~ret[w] /\ built.whole => ~Member(query[w], p, g)
  <2>. DEFINE p == built.passwd
              g == built.group
              q == query[w]
  <2>1. \A v \in Worker : pc[v] \notin Writing
    BY <1>1 DEF Inv, LockInv, Reading, Writing
  <2>2. /\ p \in floor[w].passwd .. passwd /\ p >= 1
        /\ g \in floor[w].group .. group /\ g >= 1
    BY <1>1, <2>1
    DEF Inv, FreshInv, TypeOK, Version, Build, PasswdPending, GroupPending, UsesPasswd,
        UsesGroup, Reading, Writing
  <2>3. /\ uid_cache \subseteq Passwd[p]
        /\ built.whole => uid_cache = Passwd[p]
        /\ \A c \in gid_cache : \E h \in Group[g] : c = Resolve(h)
        /\ built.whole => \A h \in Group[g] : Resolve(h) \in gid_cache
    BY <1>1, <2>1, <2>2 DEF Inv, ContentInv, Writing
  <2>4. ret[w] <=> InMainGroup(q) \/ IsListed(q)
    BY <1>1 DEF Inv, AnswerInv
  <2>5. InMainGroup(q) \/ IsListed(q) => Member(q, p, g)
    BY <2>3 DEF InMainGroup, IsListed, Member, Resolve
  <2>6. built.whole /\ Member(q, p, g) => InMainGroup(q) \/ IsListed(q)
    BY <2>3, Zenon DEF InMainGroup, IsListed, Member, Resolve
  <2>. QED
    BY <2>2, <2>4, <2>5, <2>6, Zenon
<1>2. Inv => AnswerFresh
  BY <1>1 DEF AnswerFresh
<1>. QED
  BY Invariance, <1>2, PTL
=============================================================================
