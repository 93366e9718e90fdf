----------------------------- MODULE UserCache -----------------------------
(***************************************************************************)
(* The user and group cache of userinfo.c: user_belongs_to_group, called   *)
(* by the FUSE workers for --mirror=@group, init_user_cache, and the       *)
(* SIGUSR1 handler that asks for a rebuild.                                *)
(*                                                                         *)
(* The user database is external.  Its passwd and group files go through   *)
(* the contents Passwd[1], Passwd[2], ... and Group[1], Group[2], ...; an  *)
(* administrator replaces them at any time and sends SIGUSR1 at any time.  *)
(***************************************************************************)
EXTENDS Integers

CONSTANTS
  Worker,        \* the threads that run FUSE requests
  Name, Id,      \* user names; uids and gids
  PasswdVersions, GroupVersions,   \* bounds: the number of contents
  Passwd,        \* [1..PasswdVersions -> set of entries [name, uid, gid]]
  Group,         \* [1..GroupVersions -> set of entries [gid, members]]
  Query          \* the <<uid, gid>> pairs that workers ask about

PasswdEntry == [name : Name, uid : Id, gid : Id]
GroupEntry == [gid : Id, members : SUBSET Name]
CachedGroup == [gid : Id, uids : SUBSET Id]

(* Names are unique in passwd; so are uids in passwd and gids in group,    *)
(* without which bsearch returns any one of the equal entries.             *)
ASSUME UserCacheAssumption ==
  /\ PasswdVersions \in Nat \ {0} /\ GroupVersions \in Nat \ {0}
  /\ Passwd \in [1..PasswdVersions -> SUBSET PasswdEntry]
  /\ Group \in [1..GroupVersions -> SUBSET GroupEntry]
  /\ Query \subseteq Id \X Id
  /\ \A v \in 1..PasswdVersions : \A e, f \in Passwd[v] :
       e.uid = f.uid \/ e.name = f.name => e = f
  /\ \A v \in 1..GroupVersions : \A g, h \in Group[v] : g.gid = h.gid => g = h

VARIABLES
  passwd, group,            \* environment: current versions of the database
  cache_rebuild_requested,
  writer, readers,          \* cache_lock
  uid_cache, uid_order,     \* entries, and what they are sorted by
  gid_cache, gid_order,
  mounted,                  \* main has passed its eager init_user_cache
  pc, query, ret,           \* locals of each worker
  signalled,   \* history: database versions when SIGUSR1 last arrived
  floor,       \* history: signalled, when the worker's call began
  built        \* history: versions last read, and whether without errors

database == <<passwd, group>>
lock == <<writer, readers>>
cache == <<uid_cache, uid_order, gid_cache, gid_order>>
locals == <<query, ret>>
history == <<signalled, floor, built>>
vars == <<database, cache_rebuild_requested, lock, cache, mounted, pc, locals, history>>

PC == {"idle", "test", "wrlock", "retest", "clear", "uids", "gids", "sort",
       "wrunlock", "rdlock", "lookup_uid", "lookup_gid", "rdunlock"}

NoQuery == <<>>

Version == [passwd : Nat, group : Nat]
FirstVersion == [passwd |-> 1, group |-> 1]
Build == [passwd : Nat, group : Nat, whole : BOOLEAN]

(***************************************************************************)
(* cache_rebuild_requested starts out set, and main calls init_user_cache  *)
(* before fuse_main starts serving requests.                               *)
(***************************************************************************)
Init ==
  /\ passwd = 1 /\ group = 1
  /\ cache_rebuild_requested = TRUE
  /\ writer = {} /\ readers = {}
  /\ uid_cache = {} /\ uid_order = "none"
  /\ gid_cache = {} /\ gid_order = "none"
  /\ mounted = FALSE
  /\ \E main \in Worker : pc = [w \in Worker |-> IF w = main THEN "wrlock" ELSE "idle"]
  /\ query = [w \in Worker |-> NoQuery]
  /\ ret = [w \in Worker |-> FALSE]
  /\ signalled = FirstVersion
  /\ floor = [w \in Worker |-> FirstVersion]
  /\ built = [passwd |-> 0, group |-> 0, whole |-> FALSE]

Move(w, from, to) == pc[w] = from /\ pc' = [pc EXCEPT ![w] = to]

(***************************************************************************)
(* user_belongs_to_group(uid, gid), up to its test of the flag without the *)
(* lock.                                                                   *)
(***************************************************************************)
Call(w) ==
  /\ mounted
  /\ Move(w, "idle", "test")
  /\ \E q \in Query : query' = [query EXCEPT ![w] = q]
  /\ floor' = [floor EXCEPT ![w] = signalled]
  /\ UNCHANGED <<database, cache_rebuild_requested, lock, cache, mounted, ret, signalled, built>>

Test(w) ==
  /\ \/ cache_rebuild_requested /\ Move(w, "test", "wrlock")
     \/ ~cache_rebuild_requested /\ Move(w, "test", "rdlock")
  /\ UNCHANGED <<database, cache_rebuild_requested, lock, cache, mounted, locals, history>>

(***************************************************************************)
(* init_user_cache.                                                        *)
(***************************************************************************)
CanWrite_DespiteReaders == writer = {}
CanWrite == writer = {} /\ readers = {}
CanRead == writer = {}

WrLock(w) ==
  /\ Move(w, "wrlock", "retest")
  /\ CanWrite
  /\ writer' = {w}
  /\ UNCHANGED <<database, cache_rebuild_requested, readers, cache, mounted, locals, history>>

(* The flag is tested again under the lock: another worker may have        *)
(* rebuilt the cache meanwhile.                                            *)
Retest(w) ==
  /\ \/ cache_rebuild_requested /\ Move(w, "retest", "clear")
     \/ ~cache_rebuild_requested /\ Move(w, "retest", "wrunlock")
  /\ UNCHANGED <<database, cache_rebuild_requested, lock, cache, mounted, locals, history>>

(* The flag is reset before the database is read, and the block that holds *)
(* names and member lists is freed: entries still there refer into it.     *)
Clear_KeepsRequest(w) ==
  /\ Move(w, "clear", "uids")
  /\ uid_order' = "none" /\ gid_order' = "none"
  /\ UNCHANGED <<database, cache_rebuild_requested, lock, uid_cache, gid_cache, mounted,
                 locals, history>>

Clear(w) ==
  /\ Move(w, "clear", "uids")
  /\ cache_rebuild_requested' = FALSE
  /\ uid_order' = "none" /\ gid_order' = "none"
  /\ UNCHANGED <<database, lock, uid_cache, gid_cache, mounted, locals, history>>

(* What one pass over a file of the database leaves in the cache.          *)
Yields(file, entries, whole) ==
  \/ whole /\ entries = file               \* the end was reached
  \/ ~whole /\ entries \in SUBSET file     \* ENOENT: what came before it is kept
  \/ ~whole /\ entries = {}                \* any other error: cleared

rebuild_uid_cache(w) ==
  /\ Move(w, "uids", "gids")
  /\ \E entries \in SUBSET Passwd[passwd], whole \in BOOLEAN :
       /\ Yields(Passwd[passwd], entries, whole)
       /\ uid_cache' = entries
       /\ built' = [passwd |-> passwd, group |-> built.group, whole |-> whole]
  /\ UNCHANGED <<database, cache_rebuild_requested, lock, uid_order, gid_cache, gid_order,
                 mounted, locals, signalled, floor>>

(* The members' names are looked up in uid_cache, sorted by name for that; *)
(* names that are not there are dropped.                                   *)
Resolve_KeepsUnknown(g) ==
  [gid |-> g.gid, uids |-> {IF \E e \in uid_cache : e.name = n
                            THEN (CHOOSE e \in uid_cache : e.name = n).uid
                            ELSE 0 : n \in g.members}]

Resolve(g) ==
  [gid |-> g.gid, uids |-> {e.uid : e \in {f \in uid_cache : f.name \in g.members}}]

rebuild_gid_cache(w) ==
  /\ Move(w, "gids", "sort")
  /\ uid_order' = "name"
  /\ \E entries \in SUBSET Group[group], whole \in BOOLEAN :
       /\ Yields(Group[group], entries, whole)
       /\ gid_cache' = {Resolve(g) : g \in entries}
       /\ built' = [passwd |-> built.passwd, group |-> group, whole |-> built.whole /\ whole]
  /\ UNCHANGED <<database, cache_rebuild_requested, lock, uid_cache, gid_order, mounted,
                 locals, signalled, floor>>

Sort_GroupsOnly(w) ==
  /\ Move(w, "sort", "wrunlock")
  /\ gid_order' = "id"
  /\ UNCHANGED <<database, cache_rebuild_requested, lock, uid_cache, uid_order, gid_cache,
                 mounted, locals, history>>

Sort(w) ==
  /\ Move(w, "sort", "wrunlock")
  /\ uid_order' = "id" /\ gid_order' = "id"
  /\ UNCHANGED <<database, cache_rebuild_requested, lock, uid_cache, gid_cache, mounted,
                 locals, history>>

(* Back to user_belongs_to_group or, in main, on to fuse_main. *)
WrUnlock(w) ==
  /\ \/ mounted /\ Move(w, "wrunlock", "rdlock")
     \/ ~mounted /\ Move(w, "wrunlock", "idle")
  /\ writer' = {}
  /\ mounted' = TRUE
  /\ UNCHANGED <<database, cache_rebuild_requested, readers, cache, locals, history>>

(***************************************************************************)
(* The rest of user_belongs_to_group, under the read lock.                 *)
(***************************************************************************)
RdLock(w) ==
  /\ Move(w, "rdlock", "lookup_uid")
  /\ CanRead
  /\ readers' = readers \cup {w}
  /\ UNCHANGED <<database, cache_rebuild_requested, writer, cache, mounted, locals, history>>

InMainGroup(q) == \E e \in uid_cache : e.uid = q[1] /\ e.gid = q[2]
IsListed(q) == \E g \in gid_cache : g.gid = q[2] /\ q[1] \in g.uids

(* bsearch by id over entries in another order may miss what is there, and *)
(* what is read through entries into freed memory is arbitrary.            *)
LookupUid(w) ==
  /\ \/ /\ Move(w, "lookup_uid", "rdunlock")
        /\ InMainGroup(query[w])
        /\ ret' = [ret EXCEPT ![w] = TRUE]
     \/ /\ Move(w, "lookup_uid", "lookup_gid")
        /\ ~InMainGroup(query[w]) \/ uid_order # "id"
        /\ ret' = [ret EXCEPT ![w] = FALSE]
  /\ UNCHANGED <<database, cache_rebuild_requested, lock, cache, mounted, query, history>>

LookupGid(w) ==
  /\ Move(w, "lookup_gid", "rdunlock")
  /\ \/ /\ IsListed(query[w]) \/ gid_order # "id"
        /\ ret' = [ret EXCEPT ![w] = TRUE]
     \/ /\ ~IsListed(query[w]) \/ gid_order # "id"
        /\ ret' = [ret EXCEPT ![w] = FALSE]
  /\ UNCHANGED <<database, cache_rebuild_requested, lock, cache, mounted, query, history>>

RdUnlock(w) ==
  /\ Move(w, "rdunlock", "idle")
  /\ readers' = readers \ {w}
  /\ query' = [query EXCEPT ![w] = NoQuery]
  /\ ret' = [ret EXCEPT ![w] = FALSE]
  /\ floor' = [floor EXCEPT ![w] = FirstVersion]
  /\ UNCHANGED <<database, cache_rebuild_requested, writer, cache, mounted, signalled, built>>

(***************************************************************************)
(* SIGUSR1, and the administrator who edits the database (external).       *)
(***************************************************************************)
invalidate_user_cache_Ignored ==
  /\ cache_rebuild_requested' = (cache_rebuild_requested \/ writer = {})
  /\ signalled' = [passwd |-> passwd, group |-> group]
  /\ UNCHANGED <<database, lock, cache, mounted, pc, locals, floor, built>>

invalidate_user_cache ==
  /\ cache_rebuild_requested' = TRUE
  /\ signalled' = [passwd |-> passwd, group |-> group]
  /\ UNCHANGED <<database, lock, cache, mounted, pc, locals, floor, built>>

EditPasswd ==
  /\ passwd < PasswdVersions
  /\ passwd' = passwd + 1
  /\ UNCHANGED <<group, cache_rebuild_requested, lock, cache, mounted, pc, locals, history>>

EditGroup ==
  /\ group < GroupVersions
  /\ group' = group + 1
  /\ UNCHANGED <<passwd, cache_rebuild_requested, lock, cache, mounted, pc, locals, history>>

init_user_cache(w) ==
  \/ WrLock(w) \/ Retest(w) \/ Clear(w) \/ rebuild_uid_cache(w)
  \/ rebuild_gid_cache(w) \/ Sort(w) \/ WrUnlock(w)

user_belongs_to_group(w) ==
  \/ Test(w) \/ init_user_cache(w)
  \/ RdLock(w) \/ LookupUid(w) \/ LookupGid(w) \/ RdUnlock(w)

Next ==
  \/ \E w \in Worker : Call(w) \/ user_belongs_to_group(w)
  \/ invalidate_user_cache \/ EditPasswd \/ EditGroup

Spec == Init /\ [][Next]_vars

(* A worker that can run does; a free lock is granted only if it stays     *)
(* free, so readers may overtake a waiting writer for as long as they      *)
(* overlap, as glibc's default rwlock lets them.                           *)
FairSpec == Spec /\ \A w \in Worker : WF_vars(user_belongs_to_group(w))

----------------------------------------------------------------------------
TypeOK ==
  /\ passwd \in 1..PasswdVersions /\ group \in 1..GroupVersions
  /\ cache_rebuild_requested \in BOOLEAN
  /\ writer \in SUBSET Worker /\ readers \in SUBSET Worker
  /\ uid_cache \in SUBSET PasswdEntry /\ gid_cache \in SUBSET CachedGroup
  /\ uid_order \in {"none", "name", "id"} /\ gid_order \in {"none", "id"}
  /\ mounted \in BOOLEAN
  /\ pc \in [Worker -> PC]
  /\ query \in [Worker -> Query \cup {NoQuery}]
  /\ ret \in [Worker -> BOOLEAN]
  /\ signalled \in Version
  /\ floor \in [Worker -> Version]
  /\ built \in Build

(* Whether <<uid, gid>> is a membership in version p of passwd and g of    *)
(* group, read as initgroups does: by main group, or by name.              *)
Member(q, p, g) ==
  \/ \E e \in Passwd[p] : e.uid = q[1] /\ e.gid = q[2]
  \/ \E e \in Passwd[p], h \in Group[g] :
       e.uid = q[1] /\ h.gid = q[2] /\ e.name \in h.members

(***************************************************************************)
(* "Sending bindfs a SIGUSR1 signal will make it reread the user database" *)
(* (man page): a call that begins after the signal is answered from        *)
(* contents of passwd and group no older than at the signal, whatever      *)
(* rebuilds are under way.  A yes is always backed by those contents; a no *)
(* is too, unless reading them failed.                                     *)
(***************************************************************************)
AnswerFresh ==
  \A w \in Worker : pc[w] = "rdunlock" =>
    \E p \in floor[w].passwd .. passwd, g \in floor[w].group .. group :
      /\ ret[w] => Member(query[w], p, g)
      /\ ~ret[w] /\ built.whole => ~Member(query[w], p, g)

(***************************************************************************)
(* Once main has built the cache, whoever can take the lock finds it       *)
(* sorted by id and with no entry into freed memory, although a rebuild    *)
(* sorts it by name on the way and may fail at any point.                  *)
(***************************************************************************)
UsableWhenUnlocked ==
  mounted /\ writer = {} => uid_order = "id" /\ gid_order = "id"

(***************************************************************************)
(* A rebuild never changes the cache under a worker that holds the read    *)
(* lock.                                                                   *)
(***************************************************************************)
ReadersUndisturbed == [][readers # {} => UNCHANGED cache]_vars

(***************************************************************************)
(* A requested rebuild that a worker waits to make is made, even though    *)
(* the lock prefers readers: with the flag set, new calls queue for the    *)
(* write lock and the readers run out.                                     *)
(***************************************************************************)
RebuildNotStarved ==
  cache_rebuild_requested /\ (\E w \in Worker : pc[w] = "wrlock")
    ~> ~cache_rebuild_requested
=============================================================================
