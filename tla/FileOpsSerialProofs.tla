------------------------ MODULE FileOpsSerialProofs -------------------------
(***************************************************************************)
(* One request at a time.  A single-threaded mount whose source directory  *)
(* nobody else changes keeps its promises for any options and requests: a  *)
(* failed request leaves no trace, deletions and chowns follow their       *)
(* policies, a new file is given to its creator, and chmod changes no more *)
(* than the execute bits.                                                  *)
(*                                                                         *)
(* All rest on SerialInv, which says of every step of a handler what the   *)
(* handler has found and changed by then.                                  *)
(***************************************************************************)
EXTENDS FileOpsProofs

(* Without --multithreaded nobody else changes the source directory.       *)
Undisturbed == \A s \in Settings : ~s.multithreaded => SourceMode[s] = {}

(* The lookups of the model in a source directory e, n.                    *)
NodeIn(e, n, p) == IF p \in Path /\ e[p] # None THEN n[e[p]] ELSE NoNode
KindIn(e, n, p) == IF p = MNT THEN "dir" ELSE NodeIn(e, n, p).kind
FollowIn(e, n) == [q \in Names |-> IF KindIn(e, n, q) = "lnk" THEN NodeIn(e, n, q).target ELSE q]
WalkIn(e, n, p) == WalkFrom(FollowIn(e, n), p)
RealpathIn(e, n, p) ==
  CASE KindIn(e, n, WalkIn(e, n, p)) = "lnk" -> "ELOOP"
    [] KindIn(e, n, WalkIn(e, n, p)) = None  -> "ENOENT"
    [] OTHER                                 -> WalkIn(e, n, p)
PathIn(s, e, n, p) ==
  IF ~s.resolve_symlinks \/ RealpathIn(e, n, p) = "ENOENT" THEN p
  ELSE IF RealpathIn(e, n, p) = MNT THEN "EPERM" ELSE RealpathIn(e, n, p)
GetattrIn(s, e, n, p) ==
  IF PathIn(s, e, n, p) \in Error THEN PathIn(s, e, n, p) ELSE KindIn(e, n, PathIn(s, e, n, p))

(* Before its first change, a handler finds the directory as it was when   *)
(* the request came, and what the kernel has seen there.                   *)
Before(step) == step \notin {"idle", "done", "release", "chown_new_file", "delete_main", "delete_also"}
Untouched(e, n, c) == c.before = [entry |-> e, inode |-> n]
Found(s, e, n, r) ==
  /\ r.op \in {"mknod", "mkdir", "symlink", "create"} => GetattrIn(s, e, n, r.path) = None
  /\ r.op = "chmod" => GetattrIn(s, e, n, r.path) \in {"reg", "dir"}
  /\ r.op = "chown" => GetattrIn(s, e, n, r.path) \in {"reg", "dir", "lnk"}
Early(s, e, n, step, c) == Before(step) => Untouched(e, n, c) /\ Found(s, e, n, c.req)

(* A deletion, step by step: of a link under a policy, or of what is none. *)
NodeWas(c, p) == IF c.before.entry[p] = None THEN NoNode ELSE c.before.inode[c.before.entry[p]]
ThroughLink(s, c, policy) ==
  /\ s.resolve_symlinks /\ s.resolved_symlink_deletion_policy = policy
  /\ NodeWas(c, c.req.path).kind = "lnk"

(* The name alone is to go.                                                *)
NameOnly(s, e, n, c) ==
  /\ c.also = None /\ Untouched(e, n, c)
  /\ s.resolve_symlinks /\ NodeWas(c, c.req.path).kind = "lnk" =>
       /\ s.resolved_symlink_deletion_policy # "deny"
       /\ s.resolved_symlink_deletion_policy = "target-first" => c.target = "ENOENT"
(* The link is to go, then its target.                                     *)
LinkFirst(s, e, n, c) ==
  ThroughLink(s, c, "symlink-first") /\ c.also = c.target /\ c.target # c.req.path /\ Untouched(e, n, c)
(* The target is gone, and the link is to follow.                          *)
TargetGone(s, e, c) ==
  /\ ThroughLink(s, c, "target-first") /\ c.also = None
  /\ c.target \in Path \ {c.req.path} /\ c.before.entry[c.target] # None
  /\ e = [c.before.entry EXCEPT ![c.target] = None]
(* The link is gone, and the target is to follow.                          *)
LinkGone(s, e, c) ==
  /\ ThroughLink(s, c, "symlink-first") /\ c.also = c.target /\ c.target # c.req.path
  /\ c.before.entry[c.req.path] # None /\ e = [c.before.entry EXCEPT ![c.req.path] = None]

Deleting(s, e, n, step, c) ==
  /\ step \in DeleteSteps => c.path = c.req.path /\ (step # "delete_file" => ~s.delete_deny)
  /\ step \in DeleteSteps \ {"delete_main", "delete_also"} =>
       c.also = None /\ c.target = RealpathIn(e, n, c.req.path)
  /\ step = "delete_lstat" => s.resolve_symlinks
  /\ step = "symlink_first" => ThroughLink(s, c, "symlink-first")
  /\ step \in {"target_first", "delete_target"} => ThroughLink(s, c, "target-first")
  /\ step = "delete_target" => c.to = c.target /\ c.target # c.req.path
  /\ step = "delete_main" => NameOnly(s, e, n, c) \/ LinkFirst(s, e, n, c) \/ TargetGone(s, e, c)
  /\ step = "delete_also" => LinkGone(s, e, c)

(* A creation, from the free name to the new file.                         *)
Creating(e, n, step, c) ==
  /\ step \in {"mknod", "mkdir", "symlink", "create"} => KindIn(e, n, c.path) = None
  /\ step = "chown_new_file" =>
       /\ e[c.path] \in Ino /\ e[c.path] \notin Range(c.before.entry)
       /\ c.req.op # "symlink" => KindIn(e, n, c.path) # "lnk"
       /\ c.req.op = "create" => c.fd # None

(* chown and chmod, on the file that the request names.                    *)
Allowed(s, r) ==
  (r.uid # Keep => s.chown_policy # "DENY") /\ (r.gid # Keep => s.chgrp_policy # "DENY")
Changing(s, e, n, step, c) ==
  /\ step \in {"process_path", "chown"} /\ c.req.op = "chown" => Allowed(s, c.req)
  /\ step \in {"chown", "chmod_lstat", "chmod"} => c.path = PathIn(s, e, n, c.req.path)
  /\ step = "chmod_lstat" => s.chmod_allow_x
  /\ step = "chmod" => c.st = IF s.chmod_allow_x THEN NodeIn(e, n, c.path) ELSE NoNode
  /\ step \notin {"idle", "done", "chmod"} => c.st = NoNode

Recorded(step, c) ==
  step \notin {"idle", "release"} /\ c.req.op # "release" =>
    c.before.entry \in [Path -> Ino \cup {None}]

Local(s, e, n, step, c) ==
  /\ Early(s, e, n, step, c) /\ Deleting(s, e, n, step, c) /\ Creating(e, n, step, c)
  /\ Changing(s, e, n, step, c) /\ Recorded(step, c)

Alone == \A v, w \in Worker : pc[v] # "idle" /\ pc[w] # "idle" => v = w
SerialInv ==
  ~settings.multithreaded =>
    Alone /\ \A w \in Worker : Local(settings, entry, inode, pc[w], call[w])

(* They are the lookups of the model.                                      *)
LEMMA Lookups ==
  ASSUME NEW p
  PROVE  /\ NodeAt(p) = NodeIn(entry, inode, p) /\ Kind(p) = KindIn(entry, inode, p)
         /\ Walk(p) = WalkIn(entry, inode, p) /\ realpath(p) = RealpathIn(entry, inode, p)
         /\ process_path(p, TRUE) = PathIn(settings, entry, inode, p)
         /\ bindfs_getattr(p) = GetattrIn(settings, entry, inode, p)
<1>1. ASSUME NEW q PROVE NodeAt(q) = NodeIn(entry, inode, q) /\ Kind(q) = KindIn(entry, inode, q)
  BY DEF NodeAt, NodeIn, Kind, KindIn
<1>2. Follow = FollowIn(entry, inode)
  BY <1>1 DEF Follow, FollowIn
<1>3. ASSUME NEW q PROVE Walk(q) = WalkIn(entry, inode, q)
  BY <1>2 DEF Walk, WalkIn
<1>4. ASSUME NEW q PROVE realpath(q) = RealpathIn(entry, inode, q)
  BY <1>1, <1>3 DEF realpath, RealpathIn
<1>5. process_path(p, TRUE) = PathIn(settings, entry, inode, p)
  BY <1>4 DEF process_path, PathIn
<1>6. bindfs_getattr(p) = GetattrIn(settings, entry, inode, p)
  BY <1>1, <1>5, Zenon DEF bindfs_getattr, GetattrIn
<1> QED BY <1>1, <1>3, <1>4, <1>5, <1>6, Zenon

(* What a lookup says of a name.                                           *)
LEMMA KindInFacts ==
  ASSUME NEW e, NEW n, NEW f, SourceOK(e, n, f), NEW p
  PROVE  /\ NodeIn(e, n, p) \in Nodes /\ KindIn(e, n, p) \in {None, "reg", "dir", "lnk"}
         /\ p \in Path => /\ KindIn(e, n, p) = NodeIn(e, n, p).kind
                          /\ KindIn(e, n, p) = None <=> e[p] = None
         /\ p # MNT /\ KindIn(e, n, p) # None =>
              /\ p \in Path /\ e[p] \in Ino /\ e[p] \in Range(e)
              /\ NodeIn(e, n, p) = n[e[p]]
<1>1. NoNode \in Nodes /\ NoNode.kind = None
  BY FileOpsAssumption, Zenon DEF Nodes, NoNode, Names
<1>2. p \in Path /\ e[p] # None =>
        e[p] \in Ino /\ e[p] \in Range(e) /\ n[e[p]].kind # None
  BY DEF SourceOK, Range
<1>3. NodeIn(e, n, p) \in Nodes
  BY <1>1, <1>2 DEF NodeIn, SourceOK
<1>4. \A node \in Nodes : node.kind \in {None, "reg", "dir", "lnk"}
  BY DEF Nodes
<1>5. p \in Path => p # MNT
  BY FileOpsAssumption, Zenon
<1> QED BY <1>1, <1>2, <1>3, <1>4, <1>5, Zenon DEF KindIn, NodeIn

(* realpath does not end at a link.                                        *)
LEMMA ResolvedIn ==
  ASSUME NEW e, NEW n, NEW f, SourceOK(e, n, f), NEW p
  PROVE  RealpathIn(e, n, p) \notin Error =>
           /\ RealpathIn(e, n, p) \in Path \cup {MNT}
           /\ KindIn(e, n, RealpathIn(e, n, p)) \in {"reg", "dir"}
<1> DEFINE q == WalkIn(e, n, p)
<1>1. KindIn(e, n, q) \in {None, "reg", "dir", "lnk"} /\ (q # MNT /\ KindIn(e, n, q) # None => q \in Path)
  BY KindInFacts, Zenon
<1> HIDE DEF q
<1>2. RealpathIn(e, n, p) \notin Error => RealpathIn(e, n, p) = q /\ KindIn(e, n, q) \in {"reg", "dir"}
  BY <1>1 DEF RealpathIn, Error, q
<1>3. KindIn(e, n, q) \in {"reg", "dir"} => KindIn(e, n, q) # None
  BY DEF None
<1> QED BY <1>1, <1>2, <1>3

(* The name of a file that the kernel has found, and one that it has not.  *)
LEMMA PathFound ==
  ASSUME NEW s, NEW e, NEW n, NEW f, SourceOK(e, n, f), NEW p \in Path
  PROVE  /\ GetattrIn(s, e, n, p) = None =>
              PathIn(s, e, n, p) = p /\ KindIn(e, n, p) = None
         /\ GetattrIn(s, e, n, p) \in {"reg", "dir", "lnk"} =>
              /\ PathIn(s, e, n, p) \in Path /\ e[PathIn(s, e, n, p)] \in Ino
              /\ KindIn(e, n, PathIn(s, e, n, p)) = GetattrIn(s, e, n, p)
<1> DEFINE q == PathIn(s, e, n, p)
<1>1. None \notin Error /\ {"reg", "dir", "lnk"} \cap Error = {} /\ None \notin {"reg", "dir", "lnk"}
  BY DEF Error, None
<1>2. q \notin Error => q \in Path /\ (q = p \/ KindIn(e, n, q) \in {"reg", "dir"})
  <2>1. "ENOENT" \in Error /\ "EPERM" \in Error
    BY DEF Error
  <2>2. RealpathIn(e, n, p) \notin Error =>
           /\ RealpathIn(e, n, p) \in Path \cup {MNT}
           /\ KindIn(e, n, RealpathIn(e, n, p)) \in {"reg", "dir"}
    BY ResolvedIn
  <2> QED BY <2>1, <2>2, Zenon DEF PathIn
<1> HIDE DEF q
<1>3. q \in Path /\ KindIn(e, n, q) # None => e[q] \in Ino
  <2>1. q \in Path => q # MNT
    BY FileOpsAssumption, Zenon
  <2> QED BY <2>1, KindInFacts, Zenon
<1>4. GetattrIn(s, e, n, p) = IF q \in Error THEN q ELSE KindIn(e, n, q)
  BY DEF GetattrIn, q
<1>5. GetattrIn(s, e, n, p) = None => q = p /\ KindIn(e, n, p) = None
  BY <1>1, <1>2, <1>4
<1>6. GetattrIn(s, e, n, p) \in {"reg", "dir", "lnk"} =>
        q \in Path /\ e[q] \in Ino /\ KindIn(e, n, q) = GetattrIn(s, e, n, p)
  BY <1>1, <1>2, <1>3, <1>4
<1> QED BY <1>5, <1>6, Zenon DEF q

(* The lookup of a name that is no link ends there.                        *)
LEMMA WalkInStays ==
  ASSUME NEW e, NEW n, NEW p \in Path, KindIn(e, n, p) # "lnk"
  PROVE  WalkIn(e, n, p) = p
<1>1. FollowIn(e, n)[p] = p
  BY DEF FollowIn, Names
<1> QED BY <1>1, WalkStays DEF WalkIn

(* A thread without a request knows nothing.                               *)
LEMMA IdleLocal ==
  ASSUME NEW s, NEW e, NEW n, NEW c
  PROVE  Local(s, e, n, "idle", c)
BY Zenon DEF Local, Early, Before, Deleting, DeleteSteps, Creating, Changing, Recorded

(* The others wait.                                                        *)
LEMMA OthersWait ==
  ASSUME SerialInv, ~settings.multithreaded, NEW w \in Worker, Step(w)
  PROVE  \A v \in Worker \ {w} : pc[v] = "idle"
<1>1. CASE pc[w] # "idle"
  BY <1>1 DEF SerialInv, Alone
<1>2. CASE pc[w] = "idle"
  <2>1. MayServe
    BY <1>2, Zenon DEF Step, Receive, ReceiveRelease, Reply, ProcessPath, ProcessTo, bindfs_mknod,
      bindfs_mkdir, bindfs_symlink, Make, bindfs_create, chown_new_file, bindfs_open, bindfs_release,
      delete_file, delete_lstat, symlink_first, target_first, delete_target, delete_main,
      delete_also, bindfs_rename, rename, bindfs_link, chmod_lstat, bindfs_chmod, bindfs_chown,
      lchown, Done, Goto
  <2> QED BY <2>1 DEF MayServe
<1> QED BY <1>1, <1>2

(* What every step of a handler does to what is known of it.               *)
Serial == FdInv /\ TypeInv /\ SerialInv /\ ~settings.multithreaded
LocalStep(w) ==
  /\ settings' = settings
  /\ \E to, c : /\ pc' = [pc EXCEPT ![w] = to] /\ call' = [call EXCEPT ![w] = c]
                /\ Local(settings, entry', inode', to, c)

(* What is known of a thread with one request at a time.                   *)
LEMMA SerialFacts ==
  ASSUME Serial, NEW w \in Worker
  PROVE  /\ SourceOK(entry, inode, fds) /\ CallOK(pc[w], call[w]) /\ IsCall(call[w])
         /\ Local(settings, entry, inode, pc[w], call[w])
BY DEF Serial, FdInv, TypeInv, SerialInv

(* A step before the first change that deletes, creates and changes        *)
(* nothing yet.                                                            *)
Plain == {"process_path", "process_to", "rename", "link"}

(* bindfs_chown goes on only with ids that the policies allow.             *)
LEMMA AllowedIds ==
  ASSUME NEW r,
         LET user_error == IdError(settings.chown_policy, r.uid)
             err == IF user_error # OK THEN user_error ELSE IdError(settings.chgrp_policy, r.gid)
         IN  err = OK
  PROVE  Allowed(settings, r)
<1>1. IdError(settings.chown_policy, r.uid) = OK /\ IdError(settings.chgrp_policy, r.gid) = OK
  OBVIOUS
<1>2. "EPERM" # OK
  BY DEF OK
<1> QED BY <1>1, <1>2 DEF Allowed, IdError

(* What a name was when the request came.                                  *)
LEMMA WasIn ==
  ASSUME NEW e, NEW n, NEW f, SourceOK(e, n, f), NEW c, Untouched(e, n, c), NEW p \in Path
  PROVE  NodeWas(c, p) = NodeIn(e, n, p) /\ NodeWas(c, p).kind = KindIn(e, n, p)
<1>1. c.before.entry = e /\ c.before.inode = n
  BY DEF Untouched
<1>2. KindIn(e, n, p) = NodeIn(e, n, p).kind
  BY FileOpsAssumption, Zenon DEF KindIn
<1> QED BY <1>1, <1>2, Zenon DEF NodeWas, NodeIn

(* The steps of a deletion up to its first change.                         *)
Preparing == {"delete_file", "delete_lstat", "symlink_first", "target_first", "delete_target"}

(* What is known before a deletion has deleted anything.                   *)
LEMMA PreparingFacts ==
  ASSUME Serial, NEW w \in Worker, pc[w] \in Preparing
  PROVE  /\ SourceOK(entry, inode, fds) /\ IsCall(call[w])
         /\ Untouched(entry, inode, call[w]) /\ call[w].req.path \in Path
         /\ call[w].path = call[w].req.path /\ call[w].also = None /\ call[w].st = NoNode
         /\ call[w].target = RealpathIn(entry, inode, call[w].req.path)
         /\ Deleting(settings, entry, inode, pc[w], call[w])
         /\ Found(settings, entry, inode, call[w].req)
         /\ call[w].req.op \in {"unlink", "rmdir"}
<1>1. /\ SourceOK(entry, inode, fds) /\ CallOK(pc[w], call[w]) /\ IsCall(call[w])
      /\ Local(settings, entry, inode, pc[w], call[w])
  BY SerialFacts, Zenon
<1>2. Before(pc[w]) /\ pc[w] \in DeleteSteps \ {"delete_main", "delete_also"} /\ pc[w] \notin {"idle", "done", "chmod"}
  BY DEF Preparing, Before, DeleteSteps
<1>3. Untouched(entry, inode, call[w]) /\ Found(settings, entry, inode, call[w].req)
  BY <1>1, <1>2, Zenon DEF Local, Early
<1>4. /\ Deleting(settings, entry, inode, pc[w], call[w])
      /\ call[w].path = call[w].req.path /\ call[w].also = None
      /\ call[w].target = RealpathIn(entry, inode, call[w].req.path)
  BY <1>1, <1>2, Zenon DEF Local, Deleting
<1>5. call[w].st = NoNode
  BY <1>1, <1>2, Zenon DEF Local, Changing
<1>6. call[w].req.path \in Path /\ call[w].req.op \in {"unlink", "rmdir"}
  BY <1>1, <1>2, Zenon DEF CallOK, Requests, ServedAt
<1> QED BY <1>1, <1>3, <1>4, <1>5, <1>6, Zenon

(* What unlink and rmdir delete.                                           *)
LEMMA DeleteOK ==
  ASSUME NEW func, NEW p, DeleteResult(func, p) = OK
  PROVE  Kind(p) # None /\ (func = "unlink" => Kind(p) # "dir")
<1>1. OK \notin {"ENOENT", "EISDIR", "ENOTDIR", "EACCES"}
  BY DEF OK
<1> QED BY <1>1 DEF DeleteResult, None

(* Every step of a handler, with one request at a time: what is known of   *)
(* the handler before the step gives what is known of it after the step.   *)
LEMMA SerialLocal == \A w \in Worker : Serial /\ Step(w) => LocalStep(w)

(* A request that is done.                                                 *)
<1>EndLocal.
  ASSUME Serial, NEW w \in Worker, settings' = settings, pc[w] # "idle", NEW c,
         pc' = [pc EXCEPT ![w] = "done"], call' = [call EXCEPT ![w] = c],
         c.req = call[w].req, c.before = call[w].before
  PROVE  LocalStep(w)
  <2> USE <1>EndLocal
  <2>1. CallOK(pc[w], call[w]) /\ Recorded(pc[w], call[w])
    BY SerialFacts DEF Local
  <2>2. pc[w] = "release" => call[w].req.op = "release"
    BY <2>1, Zenon DEF CallOK, ServedAt
  <2>3. Recorded("done", c)
    BY <2>1, <2>2, Zenon DEF Recorded
  <2>4. Local(settings, entry', inode', "done", c)
    BY <2>3, Zenon DEF Local, Early, Before, Deleting, DeleteSteps, Creating, Changing
  <2> QED BY <2>4, Zenon DEF LocalStep

(* The common way to end.                                                  *)
<1>DoneLocal.
  ASSUME Serial, NEW w \in Worker, settings' = settings, NEW from, from # "idle", NEW ret, Done(w, from, ret)
  PROVE  LocalStep(w)
  <2> USE <1>DoneLocal
  <2> DEFINE c == [call[w] EXCEPT !.ret = ret]
  <2>1. pc[w] # "idle" /\ pc' = [pc EXCEPT ![w] = "done"] /\ call' = [call EXCEPT ![w] = c]
    BY DEF Done, Goto
  <2>2. IsCall(call[w])
    BY SerialFacts, Zenon
  <2>3. c.req = call[w].req /\ c.before = call[w].before
    BY <2>2 DEF IsCall, Fields
  <2> HIDE DEF c
  <2> QED BY <2>1, <2>3, <1>EndLocal, Zenon

(* The handlers that only end there.                                       *)
<1>LastLocal.
  ASSUME Serial, NEW w \in Worker,
         \/ chown_new_file(w) \/ bindfs_open(w) \/ bindfs_release(w) \/ delete_also(w) \/ rename(w)
         \/ bindfs_link(w) \/ bindfs_chmod(w) \/ lchown(w)
  PROVE  LocalStep(w)
  <2> USE <1>LastLocal
  <2>1. settings' = settings
    BY Zenon DEF chown_new_file, bindfs_open, bindfs_release, delete_also, rename, bindfs_link, bindfs_chmod,
           chmod, FilesUnchanged, lchown
  <2>2. CASE \E from, ret : from # "idle" /\ Done(w, from, ret)
    BY <2>1, <2>2, <1>DoneLocal
  <2>3. CASE /\ \E from : from # "idle" /\ Goto(w, from, "done")
             /\ call' = [call EXCEPT ![w].ret = OK, ![w].fd = None]
    <3> DEFINE c == [call[w] EXCEPT !.ret = OK, !.fd = None]
    <3>1. pc[w] # "idle" /\ pc' = [pc EXCEPT ![w] = "done"] /\ call' = [call EXCEPT ![w] = c]
      BY <2>3, Zenon DEF Goto
    <3>2. IsCall(call[w])
      BY SerialFacts, Zenon
    <3>3. c.req = call[w].req /\ c.before = call[w].before
      BY <3>2 DEF IsCall, Fields
    <3> HIDE DEF c
    <3> QED BY <2>1, <3>1, <3>3, <1>EndLocal, Zenon
  <2>4. CASE chown_new_file(w)
    <3>1. PICK ret : HandOut(w, ret)
      BY <2>4, Zenon DEF chown_new_file
    <3> QED BY <2>2, <2>3, <3>1 DEF HandOut
  <2>5. CASE bindfs_release(w)
    BY <2>3, <2>5 DEF bindfs_release
  <2>6. CASE bindfs_open(w) \/ delete_also(w)
    BY <2>2, <2>6, Zenon DEF bindfs_open, delete_also
  <2>7. CASE rename(w) \/ bindfs_link(w) \/ lchown(w)
    BY <2>2, <2>7, Zenon DEF rename, bindfs_link, lchown
  <2>8. CASE bindfs_chmod(w)
    BY <2>2, <2>8, Zenon DEF bindfs_chmod, chmod
  <2> QED BY <2>4, <2>5, <2>6, <2>7, <2>8

(* A request comes.                                                        *)
<1>ReceiveLocal.
  ASSUME Serial, NEW w \in Worker, Receive(w)
  PROVE  LocalStep(w)
  <2> USE <1>ReceiveLocal
  <2>1. PICK r \in Request[settings] :
          /\ Sendable(r) /\ pc' = [pc EXCEPT ![w] = FirstStep(r.op)]
          /\ call' = [call EXCEPT ![w] =
               [NoCall EXCEPT !.req = r, !.path = r.path, !.target = realpath(r.path),
                              !.before = Snapshot]]
    BY Zenon DEF Receive, Goto
  <2>2. settings' = settings /\ entry' = entry /\ inode' = inode
    BY DEF Receive, FilesUnchanged, source
  <2> DEFINE c == [NoCall EXCEPT !.req = r, !.path = r.path, !.target = realpath(r.path),
                                 !.before = Snapshot]
             step == FirstStep(r.op)
  <2>3. /\ c.req = r /\ c.path = r.path /\ c.st = NoNode /\ c.also = None
        /\ c.target = realpath(r.path) /\ c.before = Snapshot
    BY DEF NoCall
  <2>4. call' = [call EXCEPT ![w] = c]
    BY <2>1
  <2> HIDE DEF c
  <2>5. c.before = [entry |-> entry, inode |-> inode]
    BY <2>3 DEF Snapshot, Serial
  <2>6. SourceOK(entry, inode, fds) /\ r \in Requests
    BY FileOpsAssumption, Zenon DEF Serial, TypeInv
  <2>7. r.path \in Path /\ r.op \in Ops
    BY <2>6 DEF Requests
  <2>8. bindfs_getattr(r.path) = GetattrIn(settings, entry, inode, r.path)
        /\ realpath(r.path) = RealpathIn(entry, inode, r.path)
    BY Lookups, Zenon
  <2>9. Found(settings, entry, inode, r)
    BY <2>1, <2>8 DEF Sendable, Found
  <2>10. r.op # "release"
    BY <2>1 DEF Sendable
  <2>11. /\ step \in {"delete_file", "bindfs_rename", "bindfs_chown", "symlink", "process_path"}
         /\ step = "process_path" => r.op # "chown"
         /\ step = "symlink" => r.op = "symlink"
    BY <2>7, <2>10 DEF FirstStep, Ops
  <2> HIDE DEF step
  <2>12. Early(settings, entry, inode, step, c)
    BY <2>3, <2>5, <2>9, Zenon DEF Early, Untouched
  <2>13. Deleting(settings, entry, inode, step, c)
    BY <2>3, <2>8, <2>11, Zenon DEF Deleting, DeleteSteps
  <2>14. Creating(entry, inode, step, c)
    <3>1. step = "symlink" => KindIn(entry, inode, r.path) = None
      BY <2>6, <2>7, <2>9, <2>11, PathFound DEF Found
    <3> QED BY <2>3, <2>11, <3>1, Zenon DEF Creating
  <2>15. Changing(settings, entry, inode, step, c)
    BY <2>3, <2>11, Zenon DEF Changing
  <2>16. Recorded(step, c)
    <3>1. c.before.entry = entry
      BY <2>5
    <3> QED BY <2>6, <3>1, Zenon DEF Recorded, SourceOK
  <2>17. Local(settings, entry', inode', step, c)
    BY <2>2, <2>12, <2>13, <2>14, <2>15, <2>16, Zenon DEF Local
  <2> QED BY <2>1, <2>2, <2>4, <2>17, Zenon DEF LocalStep, step

(* Or a release, or a reply goes.                                          *)
<1>EmptyLocal.
  ASSUME Serial, NEW w \in Worker, ReceiveRelease(w) \/ Reply(w)
  PROVE  LocalStep(w)
  <2> USE <1>EmptyLocal
  <2>1. settings' = settings
    BY Zenon DEF ReceiveRelease, Reply, FilesUnchanged
  <2>2. CASE ReceiveRelease(w)
    <3>1. PICK r, i : /\ r.op = "release" /\ pc' = [pc EXCEPT ![w] = "release"]
                      /\ call' = [call EXCEPT ![w] = [NoCall EXCEPT !.req = r, !.fd = i]]
      BY <2>2, Zenon DEF ReceiveRelease, Goto
    <3> DEFINE c == [NoCall EXCEPT !.req = r, !.fd = i]
    <3>2. c.req = r /\ c.st = NoNode
      BY DEF NoCall
    <3>3. call' = [call EXCEPT ![w] = c]
      BY <3>1
    <3> HIDE DEF c
    <3>4. Local(settings, entry', inode', "release", c)
      BY <3>1, <3>2 DEF Local, Early, Before, Deleting, DeleteSteps, Creating, Changing, Recorded
    <3> QED BY <2>1, <3>1, <3>3, <3>4, Zenon DEF LocalStep
  <2>3. CASE Reply(w)
    <3>1. pc' = [pc EXCEPT ![w] = "idle"] /\ call' = [call EXCEPT ![w] = NoCall]
      BY <2>3 DEF Reply, Goto
    <3> QED BY <2>1, <3>1, IdleLocal, Zenon DEF LocalStep
  <2> QED BY <2>2, <2>3

(* process_path.                                                           *)
<1>ProcessPathLocal.
  ASSUME Serial, NEW w \in Worker, ProcessPath(w)
  PROVE  LocalStep(w)
  <2> USE <1>ProcessPathLocal
  <2> DEFINE r == call[w].req
             q == process_path(r.path, TRUE)
  <2>1. pc[w] = "process_path" /\ settings' = settings /\ entry' = entry /\ inode' = inode
    BY DEF ProcessPath, FilesUnchanged, source
  <2>2. /\ SourceOK(entry, inode, fds) /\ CallOK("process_path", call[w]) /\ IsCall(call[w])
        /\ Local(settings, entry, inode, "process_path", call[w])
    BY <2>1, SerialFacts, Zenon
  <2>3. CASE \E ret : Done(w, "process_path", ret)
    BY <2>1, <2>3, <1>DoneLocal
  <2>4. CASE /\ q \notin Error
             /\ Goto(w, "process_path", AfterPath(r.op))
             /\ call' = [call EXCEPT ![w].path = q]
    <3> DEFINE c == [call[w] EXCEPT !.path = q]
               to == AfterPath(r.op)
    <3>1. pc' = [pc EXCEPT ![w] = to] /\ call' = [call EXCEPT ![w] = c]
      BY <2>4 DEF Goto
    <3>2. c.req = r /\ c.before = call[w].before /\ c.st = call[w].st /\ c.path = q
      BY <2>2 DEF IsCall, Fields
    <3>3. q = PathIn(settings, entry, inode, r.path)
      BY Lookups, Zenon
    <3> HIDE DEF c, q
    <3>4. /\ to \in {"mknod", "mkdir", "create", "process_to", "chmod_lstat", "chmod", "chown", "open"}
          /\ to \in {"mknod", "mkdir", "create"} => r.op = to
          /\ to = "chown" => r.op = "chown"
          /\ to = "chmod" => ~settings.chmod_allow_x
          /\ to = "chmod_lstat" => settings.chmod_allow_x
      BY <2>2 DEF CallOK, ServedAt, AfterPath
    <3>5. /\ Untouched(entry, inode, call[w]) /\ Found(settings, entry, inode, r)
          /\ r.op = "chown" => Allowed(settings, r)
          /\ call[w].st = NoNode /\ r.path \in Path
      <4>1. Before("process_path") /\ r.path \in Path
        BY <2>2, Zenon DEF Before, CallOK, Requests
      <4> QED BY <2>2, <4>1, Zenon DEF Local, Early, Changing
    <3> HIDE DEF to, r
    <3>6. Early(settings, entry, inode, to, c)
      BY <3>2, <3>5, Zenon DEF Early, Untouched
    <3>7. Deleting(settings, entry, inode, to, c)
      BY <3>4, Zenon DEF Deleting, DeleteSteps
    <3>8. Creating(entry, inode, to, c)
      <4>1. to \in {"mknod", "mkdir", "create"} => KindIn(entry, inode, q) = None
        BY <2>2, <3>3, <3>4, <3>5, PathFound DEF Found
      <4> QED BY <3>2, <3>4, <4>1, Zenon DEF Creating
    <3>9. Changing(settings, entry, inode, to, c)
      BY <3>2, <3>3, <3>4, <3>5, Zenon DEF Changing
    <3>10. Recorded(to, c)
      <4>1. c.before.entry = entry
        BY <3>2, <3>5 DEF Untouched
      <4> QED BY <2>2, <4>1, Zenon DEF Recorded, SourceOK
    <3>11. Local(settings, entry', inode', to, c)
      BY <2>1, <3>6, <3>7, <3>8, <3>9, <3>10 DEF Local
    <3> QED BY <2>1, <3>1, <3>11, Zenon DEF LocalStep
  <2> QED BY <2>3, <2>4, Zenon DEF ProcessPath

(* Steps that leave the source directory and go on to one of those.        *)
<1>PlainLocal.
  ASSUME Serial, NEW w \in Worker, settings' = settings, entry' = entry, inode' = inode,
         Before(pc[w]), pc[w] # "chmod", NEW to \in Plain, NEW c,
         pc' = [pc EXCEPT ![w] = to], call' = [call EXCEPT ![w] = c],
         c.req = call[w].req, c.before = call[w].before, c.st = call[w].st,
         to = "process_path" => call[w].req.op = "chown" /\ Allowed(settings, call[w].req)
  PROVE  LocalStep(w)
  <2> USE <1>PlainLocal
  <2>1. /\ SourceOK(entry, inode, fds) /\ Local(settings, entry, inode, pc[w], call[w])
    BY SerialFacts, Zenon
  <2>2. /\ Untouched(entry, inode, call[w]) /\ Found(settings, entry, inode, call[w].req)
        /\ call[w].st = NoNode
    BY <2>1, Zenon DEF Local, Early, Changing, Before
  <2>3. Early(settings, entry, inode, to, c)
    BY <2>2, Zenon DEF Early, Untouched
  <2>4. Deleting(settings, entry, inode, to, c) /\ Creating(entry, inode, to, c)
    BY Zenon DEF Deleting, DeleteSteps, Creating, Plain
  <2>5. Changing(settings, entry, inode, to, c)
    BY <2>2, Zenon DEF Changing, Plain
  <2>6. Recorded(to, c)
    <3>1. c.before.entry = entry
      BY <2>2 DEF Untouched
    <3> QED BY <2>1, <3>1, Zenon DEF Recorded, SourceOK
  <2>7. Local(settings, entry', inode', to, c)
    BY <2>3, <2>4, <2>5, <2>6, Zenon DEF Local
  <2> QED BY <2>7, Zenon DEF LocalStep

(* The steps of rename and link before their system call.                  *)
<1>RenameLocal.
  ASSUME Serial, NEW w \in Worker, ProcessTo(w) \/ bindfs_rename(w)
  PROVE  LocalStep(w)
  <2> USE <1>RenameLocal
  <2>1. /\ settings' = settings /\ entry' = entry /\ inode' = inode
        /\ pc[w] \in {"process_to", "bindfs_rename"}
    BY Zenon DEF ProcessTo, bindfs_rename, FilesUnchanged, source
  <2>2. CallOK(pc[w], call[w]) /\ IsCall(call[w]) /\ call = [v \in Worker |-> call[v]]
    BY SerialFacts, Zenon DEF Serial, FdInv
  <2>3. Before(pc[w]) /\ pc[w] # "chmod"
    BY <2>1 DEF Before
  <2>4. CASE \E from, ret : from # "idle" /\ Done(w, from, ret)
    BY <2>1, <2>4, <1>DoneLocal
  <2>5. CASE /\ Goto(w, "process_to", call[w].req.op)
             /\ \E q : call' = [call EXCEPT ![w].to = q]
    <3>1. PICK q : call' = [call EXCEPT ![w] = [call[w] EXCEPT !.to = q]]
      BY <2>5, Zenon
    <3> DEFINE c == [call[w] EXCEPT !.to = q]
    <3>2. c.req = call[w].req /\ c.before = call[w].before /\ c.st = call[w].st
      BY <2>2 DEF IsCall, Fields
    <3>3. call' = [call EXCEPT ![w] = c] /\ pc' = [pc EXCEPT ![w] = call[w].req.op]
      BY <2>5, <3>1, Zenon DEF Goto
    <3> HIDE DEF c
    <3>4. call[w].req.op \in {"rename", "link"}
      BY <2>2, <2>5 DEF Goto, CallOK, ServedAt
    <3>5. call[w].req.op \in Plain /\ call[w].req.op # "process_path"
      BY <3>4 DEF Plain
    <3> QED BY <2>1, <2>3, <3>2, <3>3, <3>5, <1>PlainLocal, Zenon
  <2>6. CASE Goto(w, "bindfs_rename", "process_to") /\ UNCHANGED call
    <3>1. pc' = [pc EXCEPT ![w] = "process_to"] /\ call' = [call EXCEPT ![w] = call[w]]
      BY <2>2, <2>6 DEF Goto
    <3>2. "process_to" \in Plain /\ "process_to" # "process_path"
      BY DEF Plain
    <3> QED BY <2>1, <2>3, <3>1, <3>2, <1>PlainLocal, Zenon
  <2> QED BY <2>4, <2>5, <2>6, Zenon DEF ProcessTo, bindfs_rename

(* bindfs_chown goes on only with ids that its policies allow.             *)
<1>ChownLocal.
  ASSUME Serial, NEW w \in Worker, bindfs_chown(w)
  PROVE  LocalStep(w)
  <2> USE <1>ChownLocal
  <2>1. /\ settings' = settings /\ entry' = entry /\ inode' = inode /\ pc[w] = "bindfs_chown"
    BY Zenon DEF bindfs_chown, FilesUnchanged, source
  <2>2. CallOK(pc[w], call[w]) /\ call = [v \in Worker |-> call[v]]
    BY SerialFacts, Zenon DEF Serial, FdInv
  <2>3. CASE \E ret : Done(w, "bindfs_chown", ret)
    BY <2>1, <2>3, <1>DoneLocal
  <2>4. CASE /\ Goto(w, "bindfs_chown", "process_path") /\ UNCHANGED call
             /\ LET r == call[w].req
                    user_error == IdError(settings.chown_policy, r.uid)
                    err == IF user_error # OK THEN user_error ELSE IdError(settings.chgrp_policy, r.gid)
                IN  err = OK
    <3>1. pc' = [pc EXCEPT ![w] = "process_path"] /\ call' = [call EXCEPT ![w] = call[w]]
      BY <2>2, <2>4 DEF Goto
    <3>2. Allowed(settings, call[w].req)
      BY <2>4, AllowedIds, Zenon
    <3>3. call[w].req.op = "chown"
      BY <2>1, <2>2, Zenon DEF CallOK, ServedAt
    <3>4. Before(pc[w]) /\ pc[w] # "chmod" /\ "process_path" \in Plain
      BY <2>1 DEF Before, Plain
    <3> QED BY <2>1, <3>1, <3>2, <3>3, <3>4, <1>PlainLocal, Zenon
  <2> QED BY <2>3, <2>4, Zenon DEF bindfs_chown

(* chmod looks at the file.                                                *)
<1>ChmodLstatLocal.
  ASSUME Serial, NEW w \in Worker, chmod_lstat(w)
  PROVE  LocalStep(w)
  <2> USE <1>ChmodLstatLocal
  <2>1. /\ settings' = settings /\ entry' = entry /\ inode' = inode /\ pc[w] = "chmod_lstat"
    BY DEF chmod_lstat, FilesUnchanged, source
  <2>2. /\ SourceOK(entry, inode, fds) /\ IsCall(call[w])
        /\ Local(settings, entry, inode, "chmod_lstat", call[w])
    BY <2>1, SerialFacts, Zenon
  <2>3. CASE \E ret : Done(w, "chmod_lstat", ret)
    BY <2>1, <2>3, <1>DoneLocal
  <2>4. CASE /\ Goto(w, "chmod_lstat", "chmod")
             /\ call' = [call EXCEPT ![w].st = NodeAt(call[w].path)]
    <3> DEFINE st == NodeAt(call[w].path)
               c == [call[w] EXCEPT !.st = st]
    <3>1. pc' = [pc EXCEPT ![w] = "chmod"] /\ call' = [call EXCEPT ![w] = c]
      BY <2>4 DEF Goto
    <3>2. c.req = call[w].req /\ c.before = call[w].before /\ c.st = st /\ c.path = call[w].path
      BY <2>2 DEF IsCall, Fields
    <3> HIDE DEF c
    <3>3. st = NodeIn(entry, inode, call[w].path)
      BY Lookups, Zenon
    <3> HIDE DEF st
    <3>4. /\ Untouched(entry, inode, call[w]) /\ Found(settings, entry, inode, call[w].req)
          /\ call[w].path = PathIn(settings, entry, inode, call[w].req.path)
      BY <2>2, Zenon DEF Local, Early, Before, Changing
    <3>5. Early(settings, entry, inode, "chmod", c)
      BY <3>2, <3>4, Zenon DEF Early, Untouched
    <3>6. Deleting(settings, entry, inode, "chmod", c) /\ Creating(entry, inode, "chmod", c)
      BY Zenon DEF Deleting, DeleteSteps, Creating
    <3>7. Changing(settings, entry, inode, "chmod", c)
      <4>1. settings.chmod_allow_x
        BY <2>2, Zenon DEF Local, Changing
      <4> QED BY <3>2, <3>3, <3>4, <4>1, Zenon DEF Changing
    <3>8. Recorded("chmod", c)
      <4>1. c.before.entry = entry
        BY <3>2, <3>4 DEF Untouched
      <4> QED BY <2>2, <4>1, Zenon DEF Recorded, SourceOK
    <3>9. Local(settings, entry', inode', "chmod", c)
      BY <2>1, <3>5, <3>6, <3>7, <3>8 DEF Local
    <3> QED BY <2>1, <3>1, <3>9, Zenon DEF LocalStep
  <2> QED BY <2>3, <2>4 DEF chmod_lstat

(* A step from there to another step of the deletion.                      *)
<1>PreparingLocal.
  ASSUME Serial, NEW w \in Worker, settings' = settings, entry' = entry, inode' = inode,
         pc[w] \in Preparing, NEW to \in DeleteSteps \ {"delete_also"}, NEW c,
         pc' = [pc EXCEPT ![w] = to], call' = [call EXCEPT ![w] = c],
         c.req = call[w].req, c.before = call[w].before, c.st = call[w].st,
         Deleting(settings, entry, inode, to, c)
  PROVE  LocalStep(w)
  <2> USE <1>PreparingLocal
  <2>1. /\ SourceOK(entry, inode, fds) /\ Untouched(entry, inode, call[w]) /\ call[w].st = NoNode
        /\ Found(settings, entry, inode, call[w].req)
    BY PreparingFacts, Zenon
  <2>2. Early(settings, entry, inode, to, c)
    BY <2>1, Zenon DEF Early, Untouched
  <2>3. Creating(entry, inode, to, c) /\ Changing(settings, entry, inode, to, c)
    BY <2>1, Zenon DEF Creating, Changing, DeleteSteps
  <2>4. Recorded(to, c)
    <3>1. c.before.entry = entry
      BY <2>1 DEF Untouched
    <3> QED BY <2>1, <3>1, Zenon DEF Recorded, SourceOK
  <2>5. Local(settings, entry', inode', to, c)
    BY <2>2, <2>3, <2>4 DEF Local
  <2> QED BY <2>5, Zenon DEF LocalStep

(* Deletions that are not denied go on.                                    *)
<1>DeleteFileLocal.
  ASSUME Serial, NEW w \in Worker, delete_file(w)
  PROVE  LocalStep(w)
  <2> USE <1>DeleteFileLocal
  <2>1. settings' = settings /\ entry' = entry /\ inode' = inode /\ pc[w] = "delete_file"
    BY DEF delete_file, FilesUnchanged, source
  <2>2. CASE \E ret : Done(w, "delete_file", ret)
    BY <2>1, <2>2, <1>DoneLocal
  <2>3. CASE /\ ~settings.delete_deny
             /\ Goto(w, "delete_file", IF settings.resolve_symlinks THEN "delete_lstat" ELSE "delete_main")
             /\ call' = [call EXCEPT ![w].func = call[w].req.op]
    <3> DEFINE c == [call[w] EXCEPT !.func = call[w].req.op]
               to == IF settings.resolve_symlinks THEN "delete_lstat" ELSE "delete_main"
    <3>1. pc' = [pc EXCEPT ![w] = to] /\ call' = [call EXCEPT ![w] = c]
      BY <2>3 DEF Goto
    <3>2. pc[w] \in Preparing
      BY <2>1 DEF Preparing
    <3>3. /\ Untouched(entry, inode, call[w]) /\ IsCall(call[w])
          /\ call[w].path = call[w].req.path /\ call[w].also = None
          /\ call[w].target = RealpathIn(entry, inode, call[w].req.path)
      BY <3>2, PreparingFacts, Zenon
    <3>4. /\ c.req = call[w].req /\ c.before = call[w].before /\ c.st = call[w].st
          /\ c.path = call[w].path /\ c.also = call[w].also /\ c.target = call[w].target
      BY <3>3 DEF IsCall, Fields
    <3> HIDE DEF c
    <3>5. Untouched(entry, inode, c)
      BY <3>3, <3>4, Zenon DEF Untouched
    <3>6. Deleting(settings, entry, inode, to, c)
      BY <2>3, <3>3, <3>4, <3>5 DEF Deleting, NameOnly, DeleteSteps
    <3>7. to \in DeleteSteps \ {"delete_also"}
      BY DEF DeleteSteps
    <3> HIDE DEF to
    <3> QED BY <2>1, <3>1, <3>2, <3>4, <3>6, <3>7, <1>PreparingLocal, Zenon
  <2> QED BY <2>2, <2>3 DEF delete_file

(* What is a link goes on by the policy, the rest to its deletion.         *)
<1>DeleteLstatLocal.
  ASSUME Serial, NEW w \in Worker, delete_lstat(w)
  PROVE  LocalStep(w)
  <2> USE <1>DeleteLstatLocal
  <2> DEFINE policy == settings.resolved_symlink_deletion_policy
             p == call[w].req.path
  <2>1. settings' = settings /\ entry' = entry /\ inode' = inode /\ pc[w] = "delete_lstat"
    BY DEF delete_lstat, FilesUnchanged, source
  <2>2. CASE \E ret : Done(w, "delete_lstat", ret)
    BY <2>1, <2>2, <1>DoneLocal
  <2>3. pc[w] \in Preparing
    BY <2>1 DEF Preparing
  <2>4. /\ SourceOK(entry, inode, fds) /\ Untouched(entry, inode, call[w]) /\ IsCall(call[w])
        /\ p \in Path /\ call[w].path = p /\ call[w].also = None
        /\ call[w].target = RealpathIn(entry, inode, p)
        /\ Deleting(settings, entry, inode, pc[w], call[w])
    BY <2>3, PreparingFacts, Zenon
  <2>5. settings.resolve_symlinks /\ ~settings.delete_deny
    BY <2>1, <2>4, Zenon DEF Deleting, DeleteSteps
  <2>6. NodeWas(call[w], p).kind = Kind(p)
    <3>1. NodeWas(call[w], p).kind = KindIn(entry, inode, p)
      BY <2>4, WasIn
    <3>2. Kind(p) = KindIn(entry, inode, p)
      BY Lookups, Zenon
    <3> QED BY <3>1, <3>2
  <2>7. call = [v \in Worker |-> call[v]]
    BY DEF Serial, FdInv
  <2>8. CASE Kind(p) \in {"reg", "dir"} /\ Goto(w, "delete_lstat", "delete_main") /\ UNCHANGED call
    <3>1. pc' = [pc EXCEPT ![w] = "delete_main"] /\ call' = [call EXCEPT ![w] = call[w]]
      BY <2>7, <2>8 DEF Goto
    <3>2. NodeWas(call[w], p).kind # "lnk"
      BY <2>6, <2>8
    <3>3. Deleting(settings, entry, inode, "delete_main", call[w])
      BY <2>4, <2>5, <3>2, Zenon DEF Deleting, NameOnly, DeleteSteps
    <3>4. "delete_main" \in DeleteSteps \ {"delete_also"}
      BY DEF DeleteSteps
    <3> QED BY <2>1, <2>3, <3>1, <3>3, <3>4, <1>PreparingLocal, Zenon
  <2>9. CASE /\ Kind(p) = "lnk" /\ policy # "deny"
             /\ Goto(w, "delete_lstat", SymlinkStep)
             /\ call' = [call EXCEPT ![w].func = IF policy = "target-first" THEN @ ELSE "unlink"]
    <3> DEFINE x == IF policy = "target-first" THEN call[w].func ELSE "unlink"
               c == [call[w] EXCEPT !.func = x]
               to == SymlinkStep
    <3>1. pc' = [pc EXCEPT ![w] = to] /\ call' = [call EXCEPT ![w] = c]
      BY <2>9 DEF Goto
    <3> HIDE DEF x
    <3>2. /\ c.req = call[w].req /\ c.before = call[w].before /\ c.st = call[w].st
          /\ c.path = call[w].path /\ c.also = call[w].also /\ c.target = call[w].target
      BY <2>4 DEF IsCall, Fields
    <3> HIDE DEF c
    <3>3. Untouched(entry, inode, c) /\ NodeWas(c, p).kind = "lnk"
      BY <2>4, <2>6, <2>9, <3>2, Zenon DEF Untouched, NodeWas
    <3>4. policy \in {"deny", "symlink-only", "symlink-first", "target-first"}
      BY FileOpsAssumption, Zenon DEF Serial, TypeInv, Options
    <3>5. \/ policy = "symlink-only" /\ to = "delete_main"
          \/ policy = "symlink-first" /\ to = "symlink_first"
          \/ policy = "target-first" /\ to = "target_first"
      BY <2>9, <3>4 DEF SymlinkStep
    <3> HIDE DEF to
    <3>6. Deleting(settings, entry, inode, to, c)
      BY <2>4, <2>5, <3>2, <3>3, <3>5, Zenon DEF Deleting, NameOnly, ThroughLink, DeleteSteps
    <3>7. to \in DeleteSteps \ {"delete_also"}
      BY <3>5 DEF DeleteSteps
    <3> QED BY <2>1, <2>3, <3>1, <3>2, <3>6, <3>7, <1>PreparingLocal, Zenon
  <2> QED BY <2>2, <2>4, <2>8, <2>9 DEF delete_lstat

(* What a link resolves to is not the link.                                *)
<1>TargetApart.
  ASSUME NEW e, NEW n, NEW f, SourceOK(e, n, f), NEW p, KindIn(e, n, p) = "lnk",
         RealpathIn(e, n, p) \notin Error
  PROVE  RealpathIn(e, n, p) # p
  BY <1>TargetApart, ResolvedIn

(* The target of a link is what it was when the request came.              *)
<1>ResolveLocal.
  ASSUME Serial, NEW w \in Worker, symlink_first(w) \/ target_first(w)
  PROVE  LocalStep(w)
  <2> USE <1>ResolveLocal
  <2> DEFINE p == call[w].req.path
             q == realpath(call[w].path)
  <2>1. /\ settings' = settings /\ entry' = entry /\ inode' = inode
        /\ pc[w] \in {"symlink_first", "target_first"}
    BY DEF symlink_first, target_first, FilesUnchanged, source
  <2>2. CASE \E from, ret : from # "idle" /\ Done(w, from, ret)
    BY <2>1, <2>2, <1>DoneLocal
  <2>3. pc[w] \in Preparing
    BY <2>1 DEF Preparing
  <2>4. /\ SourceOK(entry, inode, fds) /\ Untouched(entry, inode, call[w]) /\ IsCall(call[w])
        /\ p \in Path /\ call[w].path = p /\ call[w].also = None
        /\ call[w].target = RealpathIn(entry, inode, p)
        /\ Deleting(settings, entry, inode, pc[w], call[w])
    BY <2>3, PreparingFacts, Zenon
  <2>5. ~settings.delete_deny
    BY <2>1, <2>4, Zenon DEF Deleting, DeleteSteps
  <2>6. /\ pc[w] = "symlink_first" => ThroughLink(settings, call[w], "symlink-first")
        /\ pc[w] = "target_first" => ThroughLink(settings, call[w], "target-first")
    BY <2>4, Zenon DEF Deleting
  <2>7. NodeWas(call[w], p).kind = KindIn(entry, inode, p)
    BY <2>4, WasIn
  <2>8. q = RealpathIn(entry, inode, p) /\ q = call[w].target
    BY <2>4, Lookups, Zenon
  <2>9. q \notin Error => q # p
    BY <2>1, <2>4, <2>6, <2>7, <2>8, <1>TargetApart, Zenon DEF ThroughLink
  <2>10. call = [v \in Worker |-> call[v]] /\ "ENOENT" \in Error
    BY DEF Serial, FdInv, Error
  <2> HIDE DEF q
  <2>11. CASE /\ q \notin Error \ {"ENOENT"}
              /\ Goto(w, "symlink_first", "delete_main")
              /\ call' = [call EXCEPT ![w].also = IF q = "ENOENT" THEN None ELSE q]
    <3> DEFINE x == IF q = "ENOENT" THEN None ELSE q
               c == [call[w] EXCEPT !.also = x]
    <3>1. pc[w] = "symlink_first" /\ pc' = [pc EXCEPT ![w] = "delete_main"] /\ call' = [call EXCEPT ![w] = c]
      BY <2>11 DEF Goto
    <3>2. /\ c.req = call[w].req /\ c.before = call[w].before /\ c.st = call[w].st
          /\ c.path = call[w].path /\ c.also = x /\ c.target = call[w].target
      BY <2>4 DEF IsCall, Fields
    <3> HIDE DEF c
    <3>3. Untouched(entry, inode, c) /\ ThroughLink(settings, c, "symlink-first")
      BY <2>4, <2>6, <3>1, <3>2, Zenon DEF Untouched, ThroughLink, NodeWas
    <3>4. NameOnly(settings, entry, inode, c) \/ LinkFirst(settings, entry, inode, c)
      <4>1. CASE q = "ENOENT"
        BY <3>2, <3>3, <4>1, Zenon DEF NameOnly, ThroughLink
      <4>2. CASE q # "ENOENT"
        BY <2>8, <2>9, <2>11, <3>2, <3>3, <4>2 DEF LinkFirst
      <4> QED BY <4>1, <4>2
    <3>5. Deleting(settings, entry, inode, "delete_main", c)
      BY <2>4, <2>5, <3>2, <3>4, Zenon DEF Deleting, DeleteSteps
    <3>6. "delete_main" \in DeleteSteps \ {"delete_also"}
      BY DEF DeleteSteps
    <3> QED BY <2>1, <2>3, <3>1, <3>2, <3>5, <3>6, <1>PreparingLocal, Zenon
  <2>12. CASE q = "ENOENT" /\ Goto(w, "target_first", "delete_main") /\ UNCHANGED call
    <3>1. /\ pc[w] = "target_first" /\ pc' = [pc EXCEPT ![w] = "delete_main"]
          /\ call' = [call EXCEPT ![w] = call[w]]
      BY <2>10, <2>12 DEF Goto
    <3>2. NameOnly(settings, entry, inode, call[w])
      BY <2>4, <2>6, <2>8, <2>12, <3>1, Zenon DEF NameOnly, ThroughLink
    <3>3. Deleting(settings, entry, inode, "delete_main", call[w])
      BY <2>4, <2>5, <3>2, Zenon DEF Deleting, DeleteSteps
    <3>4. "delete_main" \in DeleteSteps \ {"delete_also"}
      BY DEF DeleteSteps
    <3> QED BY <2>1, <2>3, <3>1, <3>3, <3>4, <1>PreparingLocal, Zenon
  <2>13. CASE /\ q \notin Error
              /\ Goto(w, "target_first", "delete_target")
              /\ call' = [call EXCEPT ![w].to = q]
    <3> DEFINE c == [call[w] EXCEPT !.to = q]
    <3>1. /\ pc[w] = "target_first" /\ pc' = [pc EXCEPT ![w] = "delete_target"]
          /\ call' = [call EXCEPT ![w] = c]
      BY <2>13 DEF Goto
    <3>2. /\ c.req = call[w].req /\ c.before = call[w].before /\ c.st = call[w].st
          /\ c.path = call[w].path /\ c.also = call[w].also /\ c.target = call[w].target /\ c.to = q
      BY <2>4 DEF IsCall, Fields
    <3> HIDE DEF c
    <3>3. ThroughLink(settings, c, "target-first")
      BY <2>6, <3>1, <3>2, Zenon DEF ThroughLink, NodeWas
    <3>4. Deleting(settings, entry, inode, "delete_target", c)
      BY <2>4, <2>5, <2>8, <2>9, <2>13, <3>2, <3>3, Zenon DEF Deleting, DeleteSteps
    <3>5. "delete_target" \in DeleteSteps \ {"delete_also"}
      BY DEF DeleteSteps
    <3> QED BY <2>1, <2>3, <3>1, <3>2, <3>4, <3>5, <1>PreparingLocal, Zenon
  <2> QED BY <2>2, <2>11, <2>12, <2>13, SMTT(20) DEF symlink_first, target_first, q

(* The target goes first.                                                  *)
<1>DeleteTargetLocal.
  ASSUME Serial, NEW w \in Worker, delete_target(w)
  PROVE  LocalStep(w)
  <2> USE <1>DeleteTargetLocal
  <2> DEFINE p == call[w].req.path
             q == call[w].to
  <2>1. settings' = settings /\ pc[w] = "delete_target"
    BY Zenon DEF delete_target
  <2>2. CASE \E ret : Done(w, "delete_target", ret)
    BY <2>1, <2>2, <1>DoneLocal
  <2>3. CASE /\ DeleteResult("unlink", q) = OK /\ Deleted(q)
             /\ Goto(w, "delete_target", "delete_main") /\ UNCHANGED call
    <3> DEFINE c == call[w]
    <3>1. pc[w] \in Preparing
      BY <2>1 DEF Preparing
    <3>2. /\ SourceOK(entry, inode, fds) /\ Untouched(entry, inode, c) /\ IsCall(c)
          /\ p \in Path /\ c.path = p /\ c.also = None /\ c.st = NoNode
          /\ Deleting(settings, entry, inode, pc[w], c)
      BY <3>1, PreparingFacts, Zenon
    <3>3. /\ ~settings.delete_deny /\ ThroughLink(settings, c, "target-first")
          /\ c.to = c.target /\ c.target # p
      BY <2>1, <3>2, Zenon DEF Deleting, DeleteSteps
    <3>4. Kind(q) # None /\ Kind(q) # "dir"
      BY <2>3, DeleteOK
    <3>5. q # MNT
      BY <3>4 DEF Kind
    <3>6. q \in Path /\ entry[q] # None
      BY <3>2, <3>4, <3>5, KindFacts, Zenon
    <3>7. c.before.entry = entry /\ entry' = [entry EXCEPT ![q] = None]
      BY <2>3, <3>2 DEF Untouched, Deleted, SetSource
    <3>8. TargetGone(settings, entry', c)
      BY <3>2, <3>3, <3>6, <3>7, Zenon DEF TargetGone
    <3>9. Deleting(settings, entry', inode', "delete_main", c)
      BY <3>2, <3>3, <3>8, Zenon DEF Deleting, DeleteSteps
    <3>10. /\ Early(settings, entry', inode', "delete_main", c) /\ Creating(entry', inode', "delete_main", c)
           /\ Changing(settings, entry', inode', "delete_main", c)
      BY <3>2, Zenon DEF Early, Before, Creating, Changing
    <3>11. Recorded("delete_main", c)
      BY <3>2, <3>7, Zenon DEF Recorded, SourceOK
    <3>12. Local(settings, entry', inode', "delete_main", c)
      BY <3>9, <3>10, <3>11, Zenon DEF Local
    <3>13. pc' = [pc EXCEPT ![w] = "delete_main"] /\ call' = [call EXCEPT ![w] = c]
      BY <2>3 DEF Goto, Serial, FdInv
    <3> QED BY <2>1, <3>12, <3>13, Zenon DEF LocalStep
  <2> QED BY <2>2, <2>3, Zenon DEF delete_target

(* The link goes first.                                                    *)
<1>DeleteMainLocal.
  ASSUME Serial, NEW w \in Worker, delete_main(w)
  PROVE  LocalStep(w)
  <2> USE <1>DeleteMainLocal
  <2> DEFINE c == call[w]
             p == c.req.path
  <2>1. settings' = settings /\ pc[w] = "delete_main"
    BY Zenon DEF delete_main
  <2>2. CASE \E ret : Done(w, "delete_main", ret)
    BY <2>1, <2>2, <1>DoneLocal
  <2>3. CASE /\ DeleteResult(c.func, c.path) = OK /\ Deleted(c.path) /\ c.also # None
             /\ Goto(w, "delete_main", "delete_also") /\ UNCHANGED call
    <3>1. /\ SourceOK(entry, inode, fds) /\ CallOK("delete_main", c)
          /\ Local(settings, entry, inode, "delete_main", c)
      BY <2>1, SerialFacts, Zenon
    <3>2. /\ c.path = p /\ ~settings.delete_deny
          /\ NameOnly(settings, entry, inode, c) \/ LinkFirst(settings, entry, inode, c)
               \/ TargetGone(settings, entry, c)
      BY <3>1, Zenon DEF Local, Deleting, DeleteSteps
    <3>3. LinkFirst(settings, entry, inode, c)
      BY <2>3, <3>2, Zenon DEF NameOnly, TargetGone
    <3>4. p \in Path /\ c.st = NoNode
      BY <3>1, Zenon DEF CallOK, Requests, Local, Changing
    <3>5. Kind(p) # None
      BY <2>3, <3>2, DeleteOK, Zenon
    <3>6. entry[p] # None
      BY <3>1, <3>4, <3>5, KindFacts, Zenon
    <3>7. c.before.entry = entry /\ entry' = [entry EXCEPT ![p] = None]
      BY <2>3, <3>2, <3>3 DEF LinkFirst, Untouched, Deleted, SetSource
    <3>8. LinkGone(settings, entry', c)
      BY <3>3, <3>6, <3>7, Zenon DEF LinkFirst, LinkGone
    <3>9. Deleting(settings, entry', inode', "delete_also", c)
      BY <3>2, <3>8, Zenon DEF Deleting, DeleteSteps
    <3>10. /\ Early(settings, entry', inode', "delete_also", c) /\ Creating(entry', inode', "delete_also", c)
           /\ Changing(settings, entry', inode', "delete_also", c)
      BY <3>4, Zenon DEF Early, Before, Creating, Changing
    <3>11. Recorded("delete_also", c)
      BY <3>1, <3>7, Zenon DEF Recorded, SourceOK
    <3>12. Local(settings, entry', inode', "delete_also", c)
      BY <3>9, <3>10, <3>11 DEF Local
    <3>13. pc' = [pc EXCEPT ![w] = "delete_also"] /\ call' = [call EXCEPT ![w] = c]
      BY <2>3 DEF Goto, Serial, FdInv
    <3> QED BY <2>1, <3>12, <3>13, Zenon DEF LocalStep
  <2> QED BY <2>2, <2>3, Zenon DEF delete_main

(* A new file: its inode had no name when the request came.                *)
<1>MadeLocal.
  ASSUME Serial, NEW w \in Worker, settings' = settings,
         pc[w] \in {"mknod", "mkdir", "symlink", "create"},
         NEW c, c.req = call[w].req, c.before = call[w].before, c.st = call[w].st,
         c.path = call[w].path, call[w].req.op = "create" => c.fd # None,
         pc' = [pc EXCEPT ![w] = "chown_new_file"], call' = [call EXCEPT ![w] = c],
         Unused # {}, NEW node, call[w].req.op # "symlink" => node.kind # "lnk",
         MakeAt(call[w].path, node)
  PROVE  LocalStep(w)
  <2> USE <1>MadeLocal
  <2> DEFINE p == call[w].path
             i == FreeIno
             e == [entry EXCEPT ![p] = i]
  <2>1. /\ SourceOK(entry, inode, fds) /\ CallOK(pc[w], call[w])
        /\ Local(settings, entry, inode, pc[w], call[w])
    BY SerialFacts, Zenon
  <2>2. p \in Path /\ Before(pc[w]) /\ pc[w] \notin {"idle", "done", "chmod"}
    BY <2>1, Zenon DEF CallOK, Before
  <2>3. c.before.entry = entry /\ c.st = NoNode
    BY <2>1, <2>2 DEF Local, Early, Untouched, Changing
  <2>4. i \in Ino /\ i \notin Range(entry)
    BY Zenon DEF FreeIno, Unused
  <2>5. /\ entry' = e
        /\ inode' = [j \in Ino |-> IF j \in Range(e) \/ fds'[j] > 0
                                   THEN [inode EXCEPT ![i] = node][j] ELSE NoNode]
    BY Zenon DEF MakeAt, SetSource
  <2> HIDE DEF i
  <2>6. entry'[p] = i /\ i \in Range(e) /\ e \in [Path -> Ino \cup {None}]
    BY <2>1, <2>2, <2>4, <2>5, Zenon DEF SourceOK, Range
  <2>7. inode'[i] = node
    <3>1. inode'[i] = [inode EXCEPT ![i] = node][i]
      BY <2>4, <2>5, <2>6, Zenon
    <3> QED BY <2>1, <2>4, <3>1, Zenon DEF SourceOK
  <2>8. KindIn(entry', inode', p) = node.kind
    BY <2>2, <2>4, <2>6, <2>7, FileOpsAssumption, Zenon DEF KindIn, NodeIn
  <2>9. Creating(entry', inode', "chown_new_file", c)
    BY <2>3, <2>4, <2>6, <2>8, Zenon DEF Creating
  <2>10. /\ Early(settings, entry', inode', "chown_new_file", c)
         /\ Deleting(settings, entry', inode', "chown_new_file", c)
         /\ Changing(settings, entry', inode', "chown_new_file", c)
    BY <2>3, Zenon DEF Early, Before, Deleting, DeleteSteps, Changing
  <2>11. Recorded("chown_new_file", c)
    BY <2>1, <2>3, Zenon DEF Recorded, SourceOK
  <2>12. Local(settings, entry', inode', "chown_new_file", c)
    BY <2>9, <2>10, <2>11, Zenon DEF Local
  <2> QED BY <2>12, Zenon DEF LocalStep

(* mknod, mkdir and symlink.                                               *)
<1>MakeLocal.
  ASSUME Serial, NEW w \in Worker, NEW step \in {"mknod", "mkdir", "symlink"}, NEW kind, NEW mode, NEW target,
         kind = "lnk" => step = "symlink", Make(w, step, kind, mode, target)
  PROVE  LocalStep(w)
  <2> USE <1>MakeLocal
  <2>1. pc[w] = step /\ settings' = settings
    BY Zenon DEF Make
  <2>2. CallOK(pc[w], call[w]) /\ call = [v \in Worker |-> call[v]]
    BY SerialFacts, Zenon DEF Serial, FdInv
  <2>3. call[w].req.op = step
    BY <2>1, <2>2, Zenon DEF CallOK, ServedAt
  <2>4. CASE \E ret : Done(w, step, ret)
    BY <2>1, <2>4, <1>DoneLocal
  <2>5. CASE /\ Unused # {} /\ UNCHANGED <<fds, call>>
             /\ MakeAt(call[w].path, NewNode(kind, mode, target))
             /\ Goto(w, step, "chown_new_file")
    <3> DEFINE node == NewNode(kind, mode, target)
    <3>1. node.kind = kind
      BY Zenon DEF NewNode
    <3>2. pc' = [pc EXCEPT ![w] = "chown_new_file"] /\ call' = [call EXCEPT ![w] = call[w]]
      BY <2>2, <2>5 DEF Goto
    <3>3. MakeAt(call[w].path, node)
      BY <2>5
    <3> HIDE DEF node
    <3>4. call[w].req.op # "symlink" => node.kind # "lnk"
      BY <2>3, <3>1, Zenon
    <3>5. call[w].req.op # "create" /\ pc[w] \in {"mknod", "mkdir", "symlink", "create"}
      BY <2>1, <2>3, Zenon
    <3> QED BY <2>1, <2>5, <3>2, <3>3, <3>4, <3>5, <1>MadeLocal, Zenon
  <2> QED BY <2>4, <2>5, Zenon DEF Make

(* mknod, mkdir and symlink make their file where there was none.          *)
<1>CreateNodeLocal.
  ASSUME Serial, NEW w \in Worker, bindfs_mknod(w) \/ bindfs_mkdir(w) \/ bindfs_symlink(w)
  PROVE  LocalStep(w)
  <2> USE <1>CreateNodeLocal
  <2>1. CASE bindfs_mknod(w)
    BY <2>1, <1>MakeLocal, Zenon DEF bindfs_mknod
  <2>2. CASE bindfs_mkdir(w)
    BY <2>2, <1>MakeLocal, Zenon DEF bindfs_mkdir
  <2>3. CASE Make(w, "symlink", "lnk", {}, call[w].req.to)
    BY <2>3, <1>MakeLocal
  <2>4. CASE Done(w, "symlink", "EPERM") /\ FilesUnchanged
    BY <2>4, <1>DoneLocal DEF FilesUnchanged
  <2> QED BY <2>1, <2>2, <2>3, <2>4 DEF bindfs_symlink

(* create: no file of that name can have come up since the kernel looked.  *)
<1>CreateLocal.
  ASSUME Serial, NEW w \in Worker, bindfs_create(w)
  PROVE  LocalStep(w)
  <2> USE <1>CreateLocal
  <2>1. pc[w] = "create" /\ settings' = settings
    BY Zenon DEF bindfs_create
  <2>2. /\ SourceOK(entry, inode, fds) /\ CallOK("create", call[w]) /\ IsCall(call[w])
        /\ Local(settings, entry, inode, "create", call[w])
    BY <2>1, SerialFacts, Zenon
  <2>3. call[w].path \in Path /\ KindIn(entry, inode, call[w].path) = None
    BY <2>2, Zenon DEF CallOK, Local, Creating
  <2>4. WalkIn(entry, inode, call[w].path) = call[w].path
    BY <2>3, WalkInStays DEF None
  <2>5. Walk(call[w].path) = call[w].path /\ Kind(call[w].path) = None
    BY <2>3, <2>4, Lookups, Zenon
  <2>6. CASE \E ret : Done(w, "create", ret)
    BY <2>1, <2>6, <1>DoneLocal
  <2>7. CASE /\ Unused # {} /\ Opened(w, FreeIno)
             /\ MakeAt(call[w].path, NewNode("reg", settings.create_permchain[call[w].req.mode], None))
             /\ Goto(w, "create", "chown_new_file")
    <3> DEFINE node == NewNode("reg", settings.create_permchain[call[w].req.mode], None)
               c == [call[w] EXCEPT !.fd = FreeIno]
    <3>1. pc' = [pc EXCEPT ![w] = "chown_new_file"] /\ call' = [call EXCEPT ![w] = c]
      BY <2>7 DEF Goto, Opened
    <3>2. /\ c.req = call[w].req /\ c.before = call[w].before /\ c.st = call[w].st
          /\ c.path = call[w].path /\ c.fd = FreeIno
      BY <2>2 DEF IsCall, Fields
    <3>3. FreeIno \in Ino /\ None \notin Ino
      BY <2>7, FileOpsAssumption, Zenon DEF FreeIno, Unused
    <3>4. node.kind # "lnk" /\ MakeAt(call[w].path, node)
      BY <2>7, Zenon DEF NewNode
    <3> HIDE DEF node, c
    <3> QED BY <2>1, <2>7, <3>1, <3>2, <3>3, <3>4, <1>MadeLocal, Zenon
  <2>8. Kind(call[w].path) # "reg"
    BY <2>5 DEF None
  <2> QED BY <2>5, <2>6, <2>7, <2>8, Zenon DEF bindfs_create
<1> SUFFICES ASSUME NEW w \in Worker, Serial, Step(w) PROVE LocalStep(w)
  OBVIOUS
<1> QED
  BY <1>LastLocal, <1>ReceiveLocal, <1>EmptyLocal, <1>ProcessPathLocal, <1>RenameLocal, <1>ChownLocal,
     <1>ChmodLstatLocal, <1>DeleteFileLocal, <1>DeleteLstatLocal, <1>ResolveLocal, <1>DeleteTargetLocal,
     <1>DeleteMainLocal, <1>CreateNodeLocal, <1>CreateLocal, SMTT(20) DEF Step

(* No step changes the options.                                            *)
LEMMA SettingsKept ==
  ASSUME [Next]_vars
  PROVE  settings' = settings
<1>1. ASSUME NEW w \in Worker, Step(w) PROVE settings' = settings
  <2>1. CASE Receive(w) \/ ReceiveRelease(w) \/ Reply(w) \/ ProcessPath(w) \/ ProcessTo(w)
    BY <2>1, Zenon DEF Receive, ReceiveRelease, Reply, ProcessPath, ProcessTo, FilesUnchanged
  <2>2. CASE bindfs_mknod(w) \/ bindfs_mkdir(w) \/ bindfs_symlink(w) \/ bindfs_create(w)
    BY <2>2, Zenon DEF bindfs_mknod, bindfs_mkdir, bindfs_symlink, Make, bindfs_create, FilesUnchanged
  <2>3. CASE chown_new_file(w) \/ bindfs_open(w) \/ bindfs_release(w)
    BY <2>3, Zenon DEF chown_new_file, bindfs_open, bindfs_release
  <2>4. CASE delete_file(w) \/ delete_lstat(w) \/ symlink_first(w) \/ target_first(w)
    BY <2>4 DEF delete_file, delete_lstat, symlink_first, target_first, FilesUnchanged
  <2>5. CASE delete_target(w) \/ delete_main(w) \/ delete_also(w)
    BY <2>5, Zenon DEF delete_target, delete_main, delete_also
  <2>6. CASE bindfs_rename(w) \/ rename(w) \/ bindfs_link(w)
    BY <2>6, Zenon DEF bindfs_rename, rename, bindfs_link, FilesUnchanged
  <2>7. CASE chmod_lstat(w) \/ bindfs_chmod(w) \/ bindfs_chown(w) \/ lchown(w)
    BY <2>7, Zenon DEF chmod_lstat, bindfs_chmod, chmod, bindfs_chown, lchown, FilesUnchanged
  <2> QED BY <1>1, <2>1, <2>2, <2>3, <2>4, <2>5, <2>6, <2>7, Zenon DEF Step
<1>2. SourceChmod => settings' = settings
  BY DEF SourceChmod
<1> QED BY <1>1, <1>2 DEF Next, vars

(* Every step with one request at a time.                                  *)
LEMMA SerialStep == Undisturbed /\ FdInv /\ TypeInv /\ SerialInv /\ [Next]_vars => SerialInv'

(* A step of the only thread that is at work.                              *)
<1>SerialFrame.
  ASSUME FdInv, SerialInv, ~settings.multithreaded, settings' = settings, NEW w \in Worker, NEW to, NEW c,
         \A v \in Worker \ {w} : pc[v] = "idle",
         pc' = [pc EXCEPT ![w] = to], call' = [call EXCEPT ![w] = c],
         Local(settings, entry', inode', to, c)
  PROVE  SerialInv'
  <2> USE <1>SerialFrame
  <2>1. ASSUME NEW v \in Worker
        PROVE  /\ Local(settings', entry', inode', pc'[v], call'[v])
               /\ v # w => pc'[v] = "idle"
    <3>1. CASE v = w
      <4>1. pc'[v] = to /\ call'[v] = c
        BY <3>1 DEF FdInv
      <4> QED BY <3>1, <4>1, Zenon
    <3>2. CASE v # w
      <4>1. pc'[v] = "idle"
        BY <3>2, Zenon DEF FdInv
      <4> QED BY <3>2, <4>1, IdleLocal, Zenon
    <3> QED BY <3>1, <3>2, Zenon
  <2>2. Alone'
    BY <2>1, Zenon DEF Alone
  <2> QED BY <2>1, <2>2, Zenon DEF SerialInv
<1> SUFFICES ASSUME Undisturbed, FdInv, TypeInv, SerialInv, [Next]_vars PROVE SerialInv'
  OBVIOUS
<1>5. settings' = settings
  BY SettingsKept
<1> SUFFICES ASSUME ~settings.multithreaded PROVE SerialInv'
  BY <1>5, Zenon DEF SerialInv
<1>1. Serial
  BY DEF Serial
<1>2. ASSUME NEW w \in Worker, Step(w) PROVE SerialInv'
  <2>1. LocalStep(w)
    BY <1>1, <1>2, SerialLocal
  <2>2. \A v \in Worker \ {w} : pc[v] = "idle"
    BY <1>2, OthersWait
  <2>3. PICK to, c : /\ pc' = [pc EXCEPT ![w] = to] /\ call' = [call EXCEPT ![w] = c]
                     /\ Local(settings, entry', inode', to, c)
    BY <2>1, Zenon DEF LocalStep
  <2>4. settings' = settings
    BY <2>1 DEF LocalStep
  <2> QED BY <2>2, <2>3, <2>4, <1>SerialFrame, Zenon
<1>3. ~SourceChmod
  BY Zenon DEF SourceChmod, Undisturbed, TypeInv
<1>4. CASE UNCHANGED vars
  BY <1>4, Zenon DEF SerialInv, Alone, vars, source
<1> QED BY <1>2, <1>3, <1>4 DEF Next

(* It holds at the start, when no thread has a request.                    *)
LEMMA SerialInit == Init => SerialInv
<1> SUFFICES ASSUME Init PROVE SerialInv
  OBVIOUS
<1>1. pc = [w \in Worker |-> "idle"]
  BY DEF Init
<1>2. Alone
  BY <1>1 DEF Alone
<1>3. \A w \in Worker : Local(settings, entry, inode, pc[w], call[w])
  BY <1>1, IdleLocal
<1> QED BY <1>2, <1>3 DEF SerialInv

(***************************************************************************)
(* What a request has done when it is finished.                            *)
(***************************************************************************)
SameRequest(w) ==
  call'[w].req = call[w].req /\ call'[w].before = call[w].before /\ call'[w].target = call[w].target

(* The last step of a handler returns what it says.                        *)
LEMMA DoneCall ==
  ASSUME Serial, NEW w \in Worker, NEW from, NEW ret, Done(w, from, ret)
  PROVE  pc[w] = from /\ call'[w].ret = ret /\ SameRequest(w)
<1>1. IsCall(call[w]) /\ DOMAIN call = Worker
  BY SerialFacts, Zenon DEF Serial, FdInv
<1>2. call'[w] = [call[w] EXCEPT !.ret = ret] /\ pc[w] = from
  BY <1>1 DEF Done, Goto
<1> QED BY <1>1, <1>2 DEF IsCall, Fields, SameRequest

(* So does the one that gives up its descriptor.                           *)
LEMMA GivenCall ==
  ASSUME Serial, NEW w \in Worker, call' = [call EXCEPT ![w].ret = OK, ![w].fd = None]
  PROVE  call'[w].ret = OK /\ SameRequest(w)
<1>1. IsCall(call[w]) /\ DOMAIN call = Worker
  BY SerialFacts DEF Serial, FdInv
<1>2. call'[w] = [call[w] EXCEPT !.ret = OK, !.fd = None]
  BY <1>1
<1> QED BY <1>1, <1>2 DEF IsCall, Fields, SameRequest

(* A handler that fails has changed nothing in its last step, but for      *)
(* chown_new_file, which comes after the file is made.                     *)
Ends(w) ==
  /\ SameRequest(w) /\ pc[w] # "idle"
  /\ \/ call'[w].ret = OK
     \/ entry' = entry /\ inode' = inode /\ pc[w] \notin {"chown_new_file", "release", "delete_also"}
     \/ pc[w] = "chown_new_file" /\ call'[w].ret = "EIO" /\ call[w].fd = None

(* A step that goes on does not end the request.                           *)
LEMMA NotDone ==
  ASSUME Serial, NEW w \in Worker, NEW from, NEW to, Goto(w, from, to), to # "done"
  PROVE  pc'[w] # "done"
BY DEF Serial, FdInv, Goto

(* So ends every request.                                                  *)
LEMMA StepEnds ==
  ASSUME Serial, NEW w \in Worker, Step(w), pc'[w] = "done"
  PROVE  Ends(w)
<1> DEFINE Mid == \E from, to : to # "done" /\ Goto(w, from, to)
           Good == \E from : from # "idle" /\ Done(w, from, OK)
           Bad == /\ entry' = entry /\ inode' = inode
                  /\ \E from, ret : /\ from \notin {"idle", "chown_new_file", "release", "delete_also"}
                                    /\ Done(w, from, ret)
<1>1. ~Mid
  BY NotDone
<1>2. Good \/ Bad => Ends(w)
  BY DoneCall, Zenon DEF Ends
<1>3. CallOK(pc[w], call[w])
  BY SerialFacts, Zenon
<1>4. ASSUME NEW step \in {"mknod", "mkdir", "symlink"}, NEW kind, NEW mode, NEW target,
             Make(w, step, kind, mode, target)
      PROVE  Mid \/ Bad
  BY <1>4, Zenon DEF Make, source
<1>5. CASE bindfs_mknod(w) \/ bindfs_mkdir(w) \/ bindfs_symlink(w)
  <2>1. Mid \/ Bad
    BY <1>4, <1>5, Zenon DEF bindfs_mknod, bindfs_mkdir, bindfs_symlink, FilesUnchanged, source
  <2> QED BY <1>1, <1>2, <2>1
<1>6. CASE bindfs_create(w)
  <2>1. Mid \/ Bad
    BY <1>6, Zenon DEF bindfs_create, source
  <2> QED BY <1>1, <1>2, <2>1
<1>7. CASE Receive(w)
  <2>1. PICK r \in Request[settings] : Goto(w, "idle", FirstStep(r.op))
    BY <1>7 DEF Receive
  <2>2. r \in Requests
    BY FileOpsAssumption, Zenon DEF Serial, TypeInv
  <2>3. FirstStep(r.op) # "done"
    BY <2>2 DEF FirstStep, Requests, Ops
  <2> QED BY <1>1, <2>1, <2>3, Zenon
<1>8. CASE ReceiveRelease(w) \/ Reply(w)
  <2>1. Mid
    BY <1>8, Zenon DEF ReceiveRelease, Reply
  <2> QED BY <1>1, <2>1
<1>9. CASE ProcessPath(w)
  <2>1. pc[w] = "process_path" => AfterPath(call[w].req.op) # "done"
    BY <1>3 DEF CallOK, ServedAt, AfterPath
  <2>2. Mid \/ Bad
    BY <1>9, <2>1, Zenon DEF ProcessPath, FilesUnchanged, source
  <2> QED BY <1>1, <1>2, <2>2
<1>10. CASE ProcessTo(w)
  <2>1. pc[w] = "process_to" => call[w].req.op # "done"
    BY <1>3, Zenon DEF CallOK, ServedAt
  <2>2. Mid \/ Bad
    BY <1>10, <2>1, Zenon DEF ProcessTo, FilesUnchanged, source
  <2> QED BY <1>1, <1>2, <2>2
<1>11. CASE chown_new_file(w)
  <2>1. pc[w] = "chown_new_file" /\ (HandOut(w, "EIO") \/ HandOut(w, OK))
    BY <1>11, Zenon DEF chown_new_file
  <2>2. CASE call[w].fd # None
    BY <2>1, <2>2, GivenCall DEF HandOut, Ends
  <2>3. CASE call[w].fd = None
    BY <2>1, <2>3, DoneCall DEF HandOut, Ends
  <2> QED BY <2>2, <2>3
<1>12. CASE bindfs_release(w)
  BY <1>12, GivenCall, Zenon DEF bindfs_release, Ends
<1>13. CASE bindfs_open(w) \/ delete_also(w)
  <2>1. Good \/ Bad
    BY <1>13, Zenon DEF bindfs_open, delete_also, source
  <2> QED BY <1>2, <2>1
<1>14. CASE delete_file(w) \/ symlink_first(w) \/ target_first(w)
  <2>1. Mid \/ Bad
    BY <1>14 DEF delete_file, symlink_first, target_first, FilesUnchanged, source
  <2> QED BY <1>1, <1>2, <2>1, Zenon
<1>15. CASE delete_lstat(w)
  <2>1. settings.resolved_symlink_deletion_policy \in {"deny", "symlink-only", "symlink-first", "target-first"}
    BY FileOpsAssumption, Zenon DEF Serial, TypeInv, Options
  <2>2. settings.resolved_symlink_deletion_policy # "deny" => SymlinkStep # "done"
    BY <2>1 DEF SymlinkStep
  <2>3. Mid \/ Bad
    BY <1>15, <2>2 DEF delete_lstat, FilesUnchanged, source
  <2> QED BY <1>1, <1>2, <2>3
<1>16. CASE delete_target(w) \/ delete_main(w)
  <2>1. Mid \/ Good \/ Bad
    BY <1>16, Zenon DEF delete_target, delete_main, source
  <2> QED BY <1>1, <1>2, <2>1, Zenon
<1>17. CASE bindfs_rename(w) \/ rename(w) \/ bindfs_link(w)
  <2>1. Mid \/ Good \/ Bad
    BY <1>17, Zenon DEF bindfs_rename, rename, bindfs_link, FilesUnchanged, source
  <2> QED BY <1>1, <1>2, <2>1
<1>18. CASE chmod_lstat(w) \/ bindfs_chmod(w)
  <2>1. Mid \/ Good \/ Bad
    BY <1>18, Zenon DEF chmod_lstat, bindfs_chmod, chmod, FilesUnchanged, source
  <2> QED BY <1>1, <1>2, <2>1, Zenon
<1>19. CASE bindfs_chown(w) \/ lchown(w)
  <2>1. Mid \/ Good \/ Bad
    BY <1>19, Zenon DEF bindfs_chown, lchown, FilesUnchanged, source
  <2> QED BY <1>1, <1>2, <2>1, Zenon
<1> QED BY <1>5, <1>6, <1>7, <1>8, <1>9, <1>10, <1>11, <1>12, <1>13, <1>14, <1>15, <1>16, <1>17,
           <1>18, <1>19, SMTT(20) DEF Step

(* A property of finished requests is shown on the last step of each.      *)
LEMMA OnlyOneEnds ==
  ASSUME Serial, NEW w \in Worker, Step(w), NEW v \in Worker, pc'[v] = "done"
  PROVE  v = w
<1>1. \A u \in Worker \ {w} : pc[u] = "idle"
  BY OthersWait DEF Serial
<1>2. LocalStep(w)
  BY SerialLocal
<1>3. v # w => pc'[v] = pc[v]
  BY <1>2, Zenon DEF LocalStep, Serial, FdInv
<1> QED BY <1>1, <1>3

(* A request ends once.                                                    *)
LEMMA WasAtWork ==
  ASSUME Serial, NEW w \in Worker, Step(w), pc'[w] = "done"
  PROVE  pc[w] # "done"
<1>1. pc[w] = "done" => Reply(w)
  BY Zenon DEF Step, Receive, ReceiveRelease, ProcessPath, ProcessTo, bindfs_mknod,
    bindfs_mkdir, bindfs_symlink, Make, bindfs_create, chown_new_file, bindfs_open, bindfs_release,
    delete_file, delete_lstat, symlink_first, target_first, delete_target, delete_main,
    delete_also, bindfs_rename, rename, bindfs_link, chmod_lstat, bindfs_chmod, bindfs_chown,
    lchown, Done, Goto
<1>2. ~Reply(w)
  BY NotDone DEF Reply
<1> QED BY <1>1, <1>2, Zenon

(* Every step keeps FailureLeavesNoTrace.                                  *)
LEMMA TraceStep ==
  Undisturbed /\ FdInv /\ TypeInv /\ SerialInv /\ FailureLeavesNoTrace /\ [Next]_vars
    => FailureLeavesNoTrace'

(* The directory that a failed request leaves.                             *)
<1>NoTraceStep.
  ASSUME Serial, NEW w \in Worker, Step(w), pc'[w] = "done", call'[w].ret # OK,
         ~(call[w].req.op \in {"unlink", "rmdir"} /\ settings.resolve_symlinks
             /\ settings.resolved_symlink_deletion_policy = "target-first"),
         ~(call[w].req.op \in {"mknod", "mkdir", "symlink"} /\ call'[w].ret = "EIO")
  PROVE  call'[w].before = [entry |-> entry', inode |-> inode']
  <2> USE <1>NoTraceStep
  <2>1. CallOK(pc[w], call[w]) /\ Local(settings, entry, inode, pc[w], call[w])
    BY SerialFacts, Zenon
  <2>2. Ends(w)
    BY StepEnds, Zenon
  <2>3. pc[w] # "chown_new_file"
    <3> SUFFICES ASSUME pc[w] = "chown_new_file" PROVE FALSE
      BY Zenon
    <3>1. call[w].req.op \in {"mknod", "mkdir", "symlink", "create"}
      BY <2>1, Zenon DEF CallOK, ServedAt
    <3>2. call[w].req.op = "create" => call[w].fd # None
      BY <2>1, Zenon DEF Local, Creating
    <3> QED BY <2>2, <3>1, <3>2, Zenon DEF Ends
  <2>4. /\ entry' = entry /\ inode' = inode /\ call'[w].before = call[w].before
        /\ pc[w] \notin {"idle", "chown_new_file", "release", "delete_also"}
    BY <2>2, <2>3, Zenon DEF Ends, SameRequest
  <2>5. pc[w] # "done"
    BY WasAtWork, Zenon
  <2>6. pc[w] # "delete_main" => Untouched(entry, inode, call[w])
    BY <2>1, <2>4, <2>5, Zenon DEF Local, Early, Before
  <2>7. pc[w] = "delete_main" => Untouched(entry, inode, call[w])
    <3>1. pc[w] = "delete_main" => call[w].req.op \in {"unlink", "rmdir"}
      BY <2>1, Zenon DEF CallOK, ServedAt, DeleteSteps
    <3>2. pc[w] = "delete_main" => /\ \/ NameOnly(settings, entry, inode, call[w])
                                      \/ LinkFirst(settings, entry, inode, call[w])
                                      \/ TargetGone(settings, entry, call[w])
      BY <2>1, Zenon DEF Local, Deleting
    <3>3. pc[w] = "delete_main" => ~TargetGone(settings, entry, call[w])
      BY <3>1, Zenon DEF TargetGone, ThroughLink
    <3> QED BY <3>2, <3>3, Zenon DEF NameOnly, LinkFirst
  <2> QED BY <2>4, <2>6, <2>7, Zenon DEF Untouched
<1> SUFFICES ASSUME Undisturbed, FdInv, TypeInv, SerialInv, FailureLeavesNoTrace, [Next]_vars
             PROVE  FailureLeavesNoTrace'
  OBVIOUS
<1>1. settings' = settings
  BY SettingsKept
<1>2. ASSUME NEW w \in Worker, Step(w) PROVE FailureLeavesNoTrace'
  <2> SUFFICES ASSUME ~settings.multithreaded PROVE FailureLeavesNoTrace'
    BY <1>1, Zenon DEF FailureLeavesNoTrace, Finished
  <2>1. Serial
    BY DEF Serial
  <2> SUFFICES ASSUME NEW v \in Worker, pc'[v] = "done", call'[v].ret # OK,
                      ~(call'[v].req.op \in {"unlink", "rmdir"} /\ settings'.resolve_symlinks
                          /\ settings'.resolved_symlink_deletion_policy = "target-first"),
                      ~(call'[v].req.op \in {"mknod", "mkdir", "symlink"} /\ call'[v].ret = "EIO")
               PROVE  call'[v].before = [entry |-> entry', inode |-> inode']
    BY <1>1, Zenon DEF FailureLeavesNoTrace, Finished, Snapshot
  <2>2. v = w
    BY <1>2, <2>1, OnlyOneEnds, Zenon
  <2>3. call'[w].req = call[w].req
    BY <1>2, <2>1, <2>2, StepEnds, Zenon DEF Ends, SameRequest
  <2> QED BY <1>1, <1>2, <2>1, <2>2, <2>3, <1>NoTraceStep, Zenon
<1>3. ~SourceChmod \/ settings.multithreaded
  BY Zenon DEF SourceChmod, Undisturbed, TypeInv
<1>4. CASE settings.multithreaded
  BY <1>1, <1>4, Zenon DEF FailureLeavesNoTrace, Finished
<1>5. CASE UNCHANGED vars
  BY <1>5, Zenon DEF FailureLeavesNoTrace, Finished, Snapshot, vars, source
<1> QED BY <1>2, <1>3, <1>4, <1>5 DEF Next

(* FailureLeavesNoTrace for every set of options, threads and requests.    *)
(* The invariant that it needs says of every step of a handler what the    *)
(* handler has changed by then (SerialInv).                                *)
THEOREM FailuresLeaveNoTrace == Undisturbed /\ Spec => []FailureLeavesNoTrace
<1> SUFFICES ASSUME Undisturbed PROVE Spec => []FailureLeavesNoTrace
  OBVIOUS
<1>1. Init => FailureLeavesNoTrace
  BY Zenon DEF Init, FailureLeavesNoTrace, Finished
<1>2. FdInv /\ TypeInv /\ SerialInv /\ [Next]_vars => SerialInv'
  BY SerialStep
<1>3. FdInv /\ TypeInv /\ SerialInv /\ FailureLeavesNoTrace /\ [Next]_vars => FailureLeavesNoTrace'
  BY TraceStep
<1> QED BY <1>1, <1>2, <1>3, FdInit, FdStep, TypesInit, TypesStep, SerialInit, PTL DEF Spec

(***************************************************************************)
(* Deletions.                                                              *)
(***************************************************************************)
(* DeletionPolicy of one request c.                                        *)
GoneIn(e, c) == {p \in Path : c.before.entry[p] # None /\ e[p] = None}
DeletedAs(s, e, c) ==
  LET p == c.req.path
      ok == c.ret = OK
      policy == s.resolved_symlink_deletion_policy
      target == c.target
      gone == GoneIn(e, c)
  IN  /\ \A q \in Path \ gone : e[q] = c.before.entry[q]
      /\ ok <=> p \in gone
      /\ s.delete_deny => gone = {}
      /\ IF ~s.resolve_symlinks \/ NodeWas(c, p).kind # "lnk"
         THEN gone \subseteq {p}
         ELSE /\ policy = "deny" => gone = {}
              /\ policy = "symlink-only" => gone \subseteq {p}
              /\ policy = "symlink-first" => gone \subseteq {p, target} /\ (gone # {} => ok)
              /\ policy = "target-first" =>
                   gone \subseteq {p, target} /\ (ok => target \in gone \cup {"ENOENT"})

(* The cases of the policy, when c has deleted the names of S.             *)
Agreed(s, S, c) ==
  LET p == c.req.path
      policy == s.resolved_symlink_deletion_policy
      link == s.resolve_symlinks /\ NodeWas(c, p).kind = "lnk"
  IN  /\ (c.ret = OK) <=> p \in S
      /\ s.delete_deny => S = {}
      /\ ~link => S \subseteq {p}
      /\ link /\ policy = "deny" => S = {}
      /\ link /\ policy = "symlink-only" => S \subseteq {p}
      /\ link /\ policy = "symlink-first" => S \subseteq {p, c.target} /\ (S # {} => c.ret = OK)
      /\ link /\ policy = "target-first" =>
           S \subseteq {p, c.target} /\ (c.ret = OK => c.target \in S \cup {"ENOENT"})

(* Every step keeps it.                                                    *)
LEMMA DeletionPolicyStep ==
  Undisturbed /\ FdInv /\ TypeInv /\ SerialInv /\ DeletionPolicy /\ [Next]_vars => DeletionPolicy'

(* The names that are gone, if those of S have been deleted.               *)
<1>GoneAre.
  ASSUME NEW e, NEW c, NEW S \in SUBSET Path, \A x \in S : c.before.entry[x] # None,
         \A q \in Path : e[q] = IF q \in S THEN None ELSE c.before.entry[q]
  PROVE  GoneIn(e, c) = S /\ \A q \in Path \ S : e[q] = c.before.entry[q]
  BY <1>GoneAre DEF GoneIn

(* They are the policy.                                                    *)
<1>DeletedIf.
  ASSUME NEW s, NEW e, NEW c, NEW S \in SUBSET Path, \A x \in S : c.before.entry[x] # None,
         \A q \in Path : e[q] = IF q \in S THEN None ELSE c.before.entry[q], Agreed(s, S, c)
  PROVE  DeletedAs(s, e, c)
  <2> USE <1>DeletedIf
  <2> DEFINE gone == GoneIn(e, c)
  <2>1. gone = S /\ \A q \in Path \ S : e[q] = c.before.entry[q]
    BY <1>GoneAre
  <2> HIDE DEF gone
  <2> DEFINE kind == NodeWas(c, c.req.path).kind
  <2> HIDE DEF kind
  <2> QED BY <2>1, Zenon DEF DeletedAs, Agreed, gone, kind

(* The step at which a deletion ends.                                      *)
<1>DeletionEnds.
  ASSUME Serial, NEW w \in Worker, Step(w), pc'[w] = "done", call[w].req.op \in {"unlink", "rmdir"}
  PROVE  \/ pc[w] \in Preparing
         \/ pc[w] = "delete_main" /\ delete_main(w)
         \/ pc[w] = "delete_also" /\ delete_also(w)
  <2> USE <1>DeletionEnds
  <2>1. CallOK(pc[w], call[w]) /\ pc[w] # "idle" /\ pc[w] # "done"
    BY SerialFacts, StepEnds, WasAtWork, Zenon DEF Ends
  <2>2. pc[w] \in DeleteSteps
    BY <2>1, Zenon DEF CallOK, ServedAt, PC, DeleteSteps
  <2>3. pc[w] = "delete_main" => delete_main(w)
    BY Zenon DEF Step, Receive, ReceiveRelease, Reply, ProcessPath, ProcessTo, bindfs_mknod,
      bindfs_mkdir, bindfs_symlink, Make, bindfs_create, chown_new_file, bindfs_open, bindfs_release,
      delete_file, delete_lstat, symlink_first, target_first, delete_target,
      delete_also, bindfs_rename, rename, bindfs_link, chmod_lstat, bindfs_chmod, bindfs_chown,
      lchown, Done, Goto
  <2>4. pc[w] = "delete_also" => delete_also(w)
    BY Zenon DEF Step, Receive, ReceiveRelease, Reply, ProcessPath, ProcessTo, bindfs_mknod,
      bindfs_mkdir, bindfs_symlink, Make, bindfs_create, chown_new_file, bindfs_open, bindfs_release,
      delete_file, delete_lstat, symlink_first, target_first, delete_target, delete_main,
      bindfs_rename, rename, bindfs_link, chmod_lstat, bindfs_chmod, bindfs_chown,
      lchown, Done, Goto
  <2> QED BY <2>2, <2>3, <2>4, Zenon DEF DeleteSteps, Preparing

(* One that ends before its main deletion has failed.                      *)
<1>PreparingFails.
  ASSUME Serial, NEW w \in Worker, Step(w), pc'[w] = "done", pc[w] \in Preparing
  PROVE  call'[w].ret # OK /\ entry' = entry
  <2> USE <1>PreparingFails
  <2>1. \/ delete_file(w) \/ delete_lstat(w) \/ symlink_first(w) \/ target_first(w) \/ delete_target(w)
    BY Zenon DEF Preparing, DeleteSteps, Step, Receive, ReceiveRelease, Reply, ProcessPath, ProcessTo, bindfs_mknod,
      bindfs_mkdir, bindfs_symlink, Make, bindfs_create, chown_new_file, bindfs_open, bindfs_release,
      delete_main, delete_also, bindfs_rename, rename, bindfs_link, chmod_lstat, bindfs_chmod, bindfs_chown,
      lchown, Done, Goto
  <2> DEFINE Mid == \E from, to : to # "done" /\ Goto(w, from, to)
             Bad == entry' = entry /\ \E from, ret : ret # OK /\ Done(w, from, ret)
  <2>2. ~Mid
    BY NotDone, Zenon
  <2>3. Bad => call'[w].ret # OK /\ entry' = entry
    BY DoneCall, Zenon
  <2>4. OK \notin Error
    BY Zenon DEF OK, Error
  <2>5. OK \notin {"EPERM", "ENOENT", "EACCES"}
    BY DEF OK
  <2>6. CASE delete_file(w) \/ symlink_first(w) \/ target_first(w)
    <3>1. Mid \/ Bad
      BY <2>4, <2>5, <2>6 DEF delete_file, symlink_first, target_first, FilesUnchanged, source
    <3> QED BY <2>2, <2>3, <3>1, Zenon
  <2>7. CASE delete_lstat(w)
    <3>1. settings.resolved_symlink_deletion_policy \in {"deny", "symlink-only", "symlink-first", "target-first"}
      BY FileOpsAssumption, Zenon DEF Serial, TypeInv, Options
    <3>2. settings.resolved_symlink_deletion_policy # "deny" => SymlinkStep # "done"
      BY <3>1 DEF SymlinkStep
    <3>3. Mid \/ Bad
      BY <2>5, <2>7, <3>2 DEF delete_lstat, FilesUnchanged, source
    <3> QED BY <2>2, <2>3, <3>3, Zenon
  <2>8. CASE delete_target(w)
    <3>1. Mid \/ Bad
      BY <2>5, <2>8, Zenon DEF delete_target, source
    <3> QED BY <2>2, <2>3, <3>1, Zenon
  <2> QED BY <2>1, <2>6, <2>7, <2>8, Zenon

(* What the last step of a deletion leaves.                                *)
<1>DeletionStep.
  ASSUME Serial, NEW w \in Worker, Step(w), pc'[w] = "done", call[w].req.op \in {"unlink", "rmdir"}
  PROVE  DeletedAs(settings, entry', call'[w])
  <2> USE <1>DeletionStep
  <2> DEFINE c == call[w]
             d == call'[w]
             p == c.req.path
             b == c.before.entry
  <2>1. /\ CallOK(pc[w], c) /\ Local(settings, entry, inode, pc[w], c)
        /\ SourceOK(entry, inode, fds) /\ pc[w] # "idle"
    BY SerialFacts, StepEnds, Zenon DEF Ends
  <2>2. d.req = c.req /\ d.before = c.before /\ d.target = c.target
    BY StepEnds, Zenon DEF Ends, SameRequest
  <2>3. p \in Path /\ Deleting(settings, entry, inode, pc[w], c)
    BY <2>1, Zenon DEF CallOK, Requests, Local
  <2>4. b \in [Path -> Ino \cup {None}]
    <3>1. pc[w] # "release" /\ c.req.op # "release"
      BY <2>1, Zenon DEF CallOK, ServedAt
    <3> QED BY <2>1, <3>1, Zenon DEF Local, Recorded
  <2>5. NodeWas(d, p) = NodeWas(c, p)
    BY <2>2, Zenon DEF NodeWas
  <2> DEFINE link == settings.resolve_symlinks /\ NodeWas(c, p).kind = "lnk"
             policy == settings.resolved_symlink_deletion_policy
  <2>6. ASSUME NEW S \in SUBSET Path, \A x \in S : b[x] # None,
               \A q \in Path : entry'[q] = IF q \in S THEN None ELSE b[q],
               Agreed(settings, S, d)
        PROVE  DeletedAs(settings, entry', d)
    <3>1. d.before.entry = b
      BY <2>2
    <3> HIDE DEF b, d
    <3> QED BY <2>6, <3>1, <1>DeletedIf, Zenon
  <2>12. ASSUME NEW S
         PROVE  Agreed(settings, S, d) <=>
                  /\ (d.ret = OK) <=> p \in S
                  /\ settings.delete_deny => S = {}
                  /\ ~link => S \subseteq {p}
                  /\ link /\ policy = "deny" => S = {}
                  /\ link /\ policy = "symlink-only" => S \subseteq {p}
                  /\ link /\ policy = "symlink-first" => S \subseteq {p, c.target} /\ (S # {} => d.ret = OK)
                  /\ link /\ policy = "target-first" =>
                       S \subseteq {p, c.target} /\ (d.ret = OK => c.target \in S \cup {"ENOENT"})
    BY <2>2, <2>5, Zenon DEF Agreed
  <2> SUFFICES DeletedAs(settings, entry', d)
    BY Zenon
  <2> HIDE DEF b, d, link
  <2>7. CASE d.ret # OK /\ \A q \in Path : entry'[q] = b[q]
    <3>1. Agreed(settings, {}, d)
      BY <2>7, <2>12
    <3> QED BY <2>6, <2>7, <3>1
  <2>8. Untouched(entry, inode, c) => b = entry
    BY DEF Untouched, b
  <2>9. CASE pc[w] \in Preparing
    <3>1. Untouched(entry, inode, c)
      BY <2>9, PreparingFacts, Zenon
    <3>2. d.ret # OK /\ entry' = entry
      BY <2>9, <1>PreparingFails DEF d
    <3> QED BY <2>7, <2>8, <3>1, <3>2, Zenon
  <2>10. CASE pc[w] = "delete_main" /\ delete_main(w)
    <3>1. /\ c.path = p /\ ~settings.delete_deny
          /\ \/ NameOnly(settings, entry, inode, c) \/ LinkFirst(settings, entry, inode, c)
             \/ TargetGone(settings, entry, c)
      BY <2>3, <2>10, Zenon DEF Deleting, DeleteSteps
    <3>2. OK # "EACCES"
      BY Zenon DEF OK
    <3> DEFINE Fails == d.ret # OK /\ entry' = entry
               Succeeds == d.ret = OK /\ entry' = [entry EXCEPT ![p] = None] /\ entry[p] # None
    <3>3. Fails \/ Succeeds
      <4> DEFINE res == DeleteResult(c.func, c.path)
      <4>1. \/ res = OK /\ Deleted(c.path) /\ Done(w, "delete_main", OK)
            \/ res # OK /\ Done(w, "delete_main", res) /\ UNCHANGED source
            \/ Done(w, "delete_main", "EACCES") /\ UNCHANGED source
        <5>1. ~Goto(w, "delete_main", "delete_also")
          BY NotDone
        <5> QED BY <2>10, <5>1, Zenon DEF delete_main
      <4>2. res = OK => entry[p] # None
        <5>1. res = OK => Kind(p) # None
          BY <3>1, DeleteOK, Zenon
        <5>3. Kind(p) = KindIn(entry, inode, p)
          BY Lookups, Zenon
        <5>4. KindIn(entry, inode, p) = None <=> entry[p] = None
          BY <2>1, <2>3, KindInFacts
        <5> QED BY <5>1, <5>3, <5>4, Zenon
      <4> HIDE DEF res
      <4> QED BY <3>1, <3>2, <4>1, <4>2, DoneCall DEF d, Deleted, SetSource, source
    <3>4. CASE Fails /\ ~TargetGone(settings, entry, c)
      <4>1. b = entry
        BY <2>8, <3>1, <3>4, Zenon DEF NameOnly, LinkFirst
      <4> QED BY <2>7, <3>4, <4>1, Zenon
    <3>5. CASE Succeeds /\ NameOnly(settings, entry, inode, c)
      <4>1. b = entry
        BY <2>8, <3>5, Zenon DEF NameOnly
      <4>2. \A q \in Path : entry'[q] = IF q \in {p} THEN None ELSE b[q]
        BY <2>4, <3>5, <4>1, Zenon
      <4>3. link => policy # "deny" /\ (policy = "target-first" => c.target = "ENOENT")
        BY <3>5, Zenon DEF NameOnly, link
      <4>4. Agreed(settings, {p}, d)
        BY <2>12, <3>1, <3>5, <4>3, Zenon
      <4>5. {p} \in SUBSET Path /\ \A x \in {p} : b[x] # None
        BY <2>3, <3>5, <4>1
      <4> QED BY <2>6, <4>2, <4>4, <4>5, Zenon
    <3>6. CASE Succeeds /\ LinkFirst(settings, entry, inode, c)
      <4>1. b = entry /\ link /\ policy = "symlink-first"
        BY <2>8, <3>6 DEF LinkFirst, ThroughLink, link
      <4>2. \A q \in Path : entry'[q] = IF q \in {p} THEN None ELSE b[q]
        BY <2>4, <3>6, <4>1, Zenon
      <4>3. Agreed(settings, {p}, d)
        BY <2>12, <3>1, <3>6, <4>1, Zenon
      <4>4. {p} \in SUBSET Path /\ \A x \in {p} : b[x] # None
        BY <2>3, <3>6, <4>1, Zenon
      <4> QED BY <2>6, <4>2, <4>3, <4>4, Zenon
    <3>7. CASE TargetGone(settings, entry, c)
      <4>1. /\ link /\ policy = "target-first" /\ c.target \in Path \ {p} /\ b[c.target] # None
            /\ entry = [b EXCEPT ![c.target] = None]
        BY <3>7, Zenon DEF TargetGone, ThroughLink, b, link
      <4>2. CASE Fails
        <5>1. \A q \in Path : entry'[q] = IF q \in {c.target} THEN None ELSE b[q]
          BY <2>4, <4>1, <4>2, Zenon
        <5>2. Agreed(settings, {c.target}, d)
          BY <2>12, <3>1, <4>1, <4>2, Zenon
        <5> QED BY <2>6, <4>1, <5>1, <5>2, Zenon
      <4>3. CASE Succeeds
        <5>1. \A q \in Path : entry'[q] = IF q \in {p, c.target} THEN None ELSE b[q]
          BY <2>4, <4>1, <4>3, Zenon
        <5>2. b[p] # None
          BY <2>3, <2>4, <4>1, <4>3, Zenon
        <5>3. Agreed(settings, {p, c.target}, d)
          BY <2>12, <3>1, <4>1, <4>3, SMTT(20)
        <5> QED BY <2>3, <2>6, <4>1, <5>1, <5>2, <5>3, Zenon
      <4> QED BY <3>3, <4>2, <4>3, Zenon
    <3> QED BY <3>1, <3>3, <3>4, <3>5, <3>6, <3>7, Zenon
  <2>11. CASE pc[w] = "delete_also" /\ delete_also(w)
    <3>1. ~settings.delete_deny /\ LinkGone(settings, entry, c)
      BY <2>3, <2>11, Zenon DEF Deleting, DeleteSteps
    <3>2. /\ link /\ policy = "symlink-first" /\ c.also = c.target
          /\ b[p] # None /\ entry = [b EXCEPT ![p] = None]
      BY <3>1 DEF LinkGone, ThroughLink, b, link
    <3>3. d.ret = OK
      BY <2>11, DoneCall, SMTT(20) DEF delete_also, d
    <3>4. entry' = [entry EXCEPT ![c.target] = None] \/ entry' = entry
      BY <2>11, <3>2 DEF delete_also, Deleted, SetSource, source
    <3> DEFINE S == {p} \cup {x \in Path : x = c.target /\ b[x] # None /\ entry'[x] = None}
    <3>5. S \in SUBSET Path /\ p \in S /\ S \subseteq {p, c.target} /\ \A x \in S : b[x] # None
      BY <2>3, <3>2, SMTT(20)
    <3>6. \A q \in Path : entry'[q] = IF q \in S THEN None ELSE b[q]
      BY <2>3, <2>4, <3>2, <3>4, SMTT(20)
    <3> HIDE DEF S
    <3>7. Agreed(settings, S, d)
      BY <2>12, <3>1, <3>2, <3>3, <3>5
    <3> QED BY <2>6, <3>5, <3>6, <3>7
  <2> QED BY <2>9, <2>10, <2>11, <1>DeletionEnds, Zenon
<1> SUFFICES ASSUME Undisturbed, FdInv, TypeInv, SerialInv, DeletionPolicy, [Next]_vars
             PROVE  DeletionPolicy'
  OBVIOUS
<1>1. settings' = settings
  BY SettingsKept
<1>2. ASSUME NEW w \in Worker, Step(w) PROVE DeletionPolicy'
  <2> SUFFICES ASSUME ~settings.multithreaded PROVE DeletionPolicy'
    BY <1>1, Zenon DEF DeletionPolicy, Finished
  <2>1. Serial
    BY DEF Serial
  <2> SUFFICES ASSUME NEW v \in Worker, pc'[v] = "done", call'[v].req.op \in {"unlink", "rmdir"}
               PROVE  DeletedAs(settings', entry', call'[v])
    BY Zenon DEF DeletionPolicy, Finished, NodeBefore, Gone, DeletedAs, GoneIn, NodeWas
  <2>2. v = w
    BY <1>2, <2>1, OnlyOneEnds
  <2>3. call'[w].req = call[w].req
    BY <1>2, <2>1, <2>2, StepEnds DEF Ends, SameRequest
  <2> QED BY <1>1, <1>2, <2>1, <2>2, <2>3, <1>DeletionStep
<1>3. ~SourceChmod \/ settings.multithreaded
  BY Zenon DEF SourceChmod, Undisturbed, TypeInv
<1>4. CASE settings.multithreaded
  BY <1>1, <1>4, Zenon DEF DeletionPolicy, Finished
<1>5. CASE UNCHANGED vars
  <2>1. /\ settings' = settings /\ entry' = entry /\ pc' = pc /\ call' = call
    BY <1>5 DEF vars, source
  <2> SUFFICES ASSUME NEW v \in Worker, Finished(v, {"unlink", "rmdir"})'
               PROVE  DeletedAs(settings', entry', call'[v])
    BY Zenon DEF DeletionPolicy, NodeBefore, Gone, DeletedAs, GoneIn, NodeWas
  <2>2. Finished(v, {"unlink", "rmdir"})
    BY <2>1 DEF Finished
  <2>3. DeletedAs(settings, entry, call[v])
    BY <2>2, Zenon DEF DeletionPolicy, NodeBefore, Gone, DeletedAs, GoneIn, NodeWas
  <2> QED BY <2>1, <2>3
<1> QED BY <1>2, <1>3, <1>4, <1>5 DEF Next

(* DeletionPolicy for every set of options, threads and requests.          *)
THEOREM DeletionsFollowPolicy == Undisturbed /\ Spec => []DeletionPolicy
<1> SUFFICES ASSUME Undisturbed PROVE Spec => []DeletionPolicy
  OBVIOUS
<1>1. Init => DeletionPolicy
  BY Zenon DEF Init, DeletionPolicy, Finished
<1>2. FdInv /\ TypeInv /\ SerialInv /\ [Next]_vars => SerialInv'
  BY SerialStep
<1>3. FdInv /\ TypeInv /\ SerialInv /\ DeletionPolicy /\ [Next]_vars => DeletionPolicy'
  BY DeletionPolicyStep
<1> QED BY <1>1, <1>2, <1>3, FdInit, FdStep, TypesInit, TypesStep, SerialInit, PTL DEF Spec

(***************************************************************************)
(* chown.                                                                  *)
(***************************************************************************)
(* ChownPolicy of one request c.                                           *)
ChownedAs(s, e, n, c) ==
  LET r == c.req
      p == PathIn(s, e, n, r.path)
      was == NodeWas(c, p)
  IN  /\ NodeIn(e, n, p).owner = IF r.uid # Keep /\ s.chown_policy = "NORMAL" THEN r.uid ELSE was.owner
      /\ NodeIn(e, n, p).group = IF r.gid # Keep /\ s.chgrp_policy = "NORMAL" THEN r.gid ELSE was.group
      /\ Allowed(s, r)

(* Every step keeps the policy.                                            *)
LEMMA ChownPolicyStep ==
  Undisturbed /\ FdInv /\ TypeInv /\ SerialInv /\ ChownPolicy /\ [Next]_vars => ChownPolicy'

(* Names lead where they led as long as the links do.                      *)
<1>SameLinks.
  ASSUME NEW s, NEW e, NEW n, NEW n2, NEW p,
         \A q : KindIn(e, n2, q) = KindIn(e, n, q) /\ NodeIn(e, n2, q).target = NodeIn(e, n, q).target
  PROVE  PathIn(s, e, n2, p) = PathIn(s, e, n, p)
  <2> USE <1>SameLinks
  <2>1. FollowIn(e, n2) = FollowIn(e, n)
    BY DEF FollowIn
  <2>2. WalkIn(e, n2, p) = WalkIn(e, n, p)
    BY <2>1 DEF WalkIn
  <2>3. RealpathIn(e, n2, p) = RealpathIn(e, n, p)
    BY <2>2 DEF RealpathIn
  <2> QED BY <2>3 DEF PathIn

(* A new node in the place of one of the same kind.                        *)
<1>ReplacedNode.
  ASSUME NEW p \in Path, NEW node, SourceOK(entry, inode, fds), fds' = fds, SetNode(p, node), entry[p] # None,
         node.kind = inode[entry[p]].kind, node.target = inode[entry[p]].target
  PROVE  /\ entry' = entry /\ NodeIn(entry', inode', p) = node
         /\ \A s, q : PathIn(s, entry', inode', q) = PathIn(s, entry, inode, q)
  <2> USE <1>ReplacedNode
  <2> DEFINE n == [inode EXCEPT ![entry[p]] = node]
  <2>1. entry \in [Path -> Ino \cup {None}] /\ inode \in [Ino -> Nodes]
    BY DEF SourceOK
  <2>2. \A i \in Ino : n[i] = IF i = entry[p] THEN node ELSE inode[i]
    BY <2>1
  <2> HIDE DEF n
  <2>3. entry' = entry /\ inode' = [i \in Ino |-> IF i \in Range(entry) \/ fds'[i] > 0 THEN n[i] ELSE NoNode]
    BY DEF SetNode, SetSource, n
  <2>4. ASSUME NEW q \in Path, entry[q] # None
        PROVE  inode'[entry[q]] = IF entry[q] = entry[p] THEN node ELSE inode[entry[q]]
    <3>1. entry[q] \in Range(entry) /\ entry[q] \in Ino
      BY <2>1, <2>4 DEF Range
    <3> QED BY <2>2, <2>3, <3>1
  <2>5. NodeIn(entry', inode', p) = node
    BY <2>3, <2>4, SMTT(20) DEF NodeIn
  <2>6. ASSUME NEW q
        PROVE  /\ KindIn(entry, inode', q) = KindIn(entry, inode, q)
               /\ NodeIn(entry, inode', q).target = NodeIn(entry, inode, q).target
    <3>1. CASE q \in Path /\ entry[q] # None
      <4>1. inode'[entry[q]].kind = inode[entry[q]].kind /\ inode'[entry[q]].target = inode[entry[q]].target
        BY <2>4, <3>1
      <4> QED BY <3>1, <4>1 DEF KindIn, NodeIn
    <3>2. CASE ~(q \in Path /\ entry[q] # None)
      BY <3>2, SMTT(20) DEF KindIn, NodeIn
    <3> QED BY <3>1, <3>2, SMTT(20)
  <2>7. \A s, q : PathIn(s, entry, inode', q) = PathIn(s, entry, inode, q)
    BY <2>6, <1>SameLinks, SMTT(20)
  <2> QED BY <2>3, <2>5, <2>7

(* What the last step of a chown leaves.                                   *)
<1>ChownStep.
  ASSUME Serial, NEW w \in Worker, Step(w), pc'[w] = "done", call[w].req.op = "chown", call'[w].ret = OK
  PROVE  ChownedAs(settings, entry', inode', call'[w])
  <2> USE <1>ChownStep
  <2> DEFINE c == call[w]
             r == c.req
             p == PathIn(settings, entry, inode, r.path)
             node == NodeIn(entry, inode, p)
  <2>1. /\ CallOK(pc[w], c) /\ Local(settings, entry, inode, pc[w], c)
        /\ SourceOK(entry, inode, fds) /\ pc[w] \notin {"idle", "done"}
    BY SerialFacts, StepEnds, WasAtWork, SMTT(20) DEF Ends
  <2>2. call'[w].req = c.req /\ call'[w].before = c.before
    BY StepEnds, SMTT(20) DEF Ends, SameRequest
  <2>3. pc[w] \in {"process_path", "bindfs_chown", "chown"}
    BY <2>1, SMTT(20) DEF CallOK, ServedAt, PC, DeleteSteps
  <2>4. ProcessPath(w) \/ bindfs_chown(w) \/ lchown(w)
    BY <2>3, Zenon DEF Step, Receive, ReceiveRelease, Reply, ProcessTo, bindfs_mknod,
      bindfs_mkdir, bindfs_symlink, Make, bindfs_create, chown_new_file, bindfs_open, bindfs_release,
      delete_file, delete_lstat, symlink_first, target_first, delete_target, delete_main,
      delete_also, bindfs_rename, rename, bindfs_link, chmod_lstat, bindfs_chmod, Done, Goto
  <2>5. Untouched(entry, inode, c) /\ Found(settings, entry, inode, r)
    BY <2>1, <2>3, Zenon DEF Local, Early, Before
  <2>6. r.path \in Path /\ settings.chown_policy \in {"NORMAL", "IGNORE", "DENY"}
        /\ settings.chgrp_policy \in {"NORMAL", "IGNORE", "DENY"}
    BY <2>1, FileOpsAssumption, Zenon DEF CallOK, Requests, Serial, TypeInv, Options
  <2>7. p \in Path /\ entry[p] \in Ino
    BY <2>1, <2>5, <2>6, PathFound, Zenon DEF Found
  <2>8. NodeWas(call'[w], p) = node
    <3>1. NodeWas(c, p) = node
      BY <2>1, <2>5, <2>7, WasIn, SMTT(20)
    <3> QED BY <2>2, <3>1, Zenon DEF NodeWas
  <2>9. OK \notin Error
    BY DEF OK, Error
  <2>10. ~ProcessPath(w)
    <3> SUFFICES ASSUME ProcessPath(w) PROVE FALSE
      OBVIOUS
    <3>1. pc[w] = "process_path" => AfterPath(r.op) # "done"
      BY DEF AfterPath
    <3>2. \E q : q \in Error /\ Done(w, "process_path", q)
      BY <3>1, NotDone, Zenon DEF ProcessPath
    <3> QED BY <2>9, <3>2, DoneCall
  <2>11. CASE bindfs_chown(w)
    <3> DEFINE user_error == IdError(settings.chown_policy, r.uid)
               err == IF user_error # OK THEN user_error ELSE IdError(settings.chgrp_policy, r.gid)
    <3>1. /\ Done(w, "bindfs_chown", err)
          /\ err # OK \/ (NewId(settings.chown_policy, r.uid) = Keep /\ NewId(settings.chgrp_policy, r.gid) = Keep)
          /\ entry' = entry /\ inode' = inode
      BY <2>11, NotDone, Zenon DEF bindfs_chown, FilesUnchanged, source
    <3>2. err = OK
      BY <3>1, DoneCall, SMTT(20)
    <3>3. Allowed(settings, r)
      BY <3>2, AllowedIds, SMTT(20)
    <3>4. NewId(settings.chown_policy, r.uid) = Keep /\ NewId(settings.chgrp_policy, r.gid) = Keep
      BY <3>1, <3>2
    <3>5. /\ ~(r.uid # Keep /\ settings.chown_policy = "NORMAL")
          /\ ~(r.gid # Keep /\ settings.chgrp_policy = "NORMAL")
      BY <3>4 DEF NewId
    <3> HIDE DEF p
    <3> QED BY <2>2, <2>8, <3>1, <3>3, <3>5, Zenon DEF ChownedAs, p
  <2>12. CASE lchown(w)
    <3> DEFINE owner == NewId(settings.chown_policy, r.uid)
               group == NewId(settings.chgrp_policy, r.gid)
               new == ChownedNode(node, owner, group)
    <3>1. pc[w] = "chown" /\ fds' = fds
      BY <2>12, Zenon DEF lchown
    <3>2. c.path = p /\ Allowed(settings, r)
      BY <2>1, <3>1, Zenon DEF Local, Changing
    <3>3. SetNode(p, new)
      <4>1. OK \notin {"ENOENT", "EACCES"}
        BY DEF OK
      <4>2. ~Done(w, "chown", "ENOENT") /\ ~Done(w, "chown", "EACCES")
        BY <4>1, DoneCall
      <4>3. NodeAt(p) = node
        BY Lookups, Zenon
      <4> QED BY <2>12, <3>2, <4>2, <4>3, Zenon DEF lchown
    <3>4. node \in Nodes /\ node = inode[entry[p]] /\ entry[p] # None
      <4>1. entry[p] # None
        BY <2>7, FileOpsAssumption, Zenon
      <4>2. node \in Nodes
        BY <2>1, KindInFacts, SMTT(20)
      <4> QED BY <2>7, <4>1, <4>2, Zenon DEF NodeIn
    <3>5. owner \in User \cup {Keep} /\ group \in User \cup {Keep}
      BY <3>1, RequestTypes, NewIdTypes DEF Serial
    <3>6. /\ new.kind = node.kind /\ new.target = node.target
          /\ new.owner = IF owner = Keep THEN node.owner ELSE owner
          /\ new.group = IF group = Keep THEN node.group ELSE group
      BY <3>4, Zenon DEF ChownedNode, Nodes
    <3> HIDE DEF p, new, node
    <3>7. /\ NodeIn(entry', inode', p) = new
          /\ \A s, q : PathIn(s, entry', inode', q) = PathIn(s, entry, inode, q)
      BY <2>1, <2>7, <3>1, <3>3, <3>4, <3>6, <1>ReplacedNode, Zenon
    <3>8. PathIn(settings, entry', inode', r.path) = p
      BY <3>7, Zenon DEF p
    <3>9. new.owner = IF r.uid # Keep /\ settings.chown_policy = "NORMAL" THEN r.uid ELSE node.owner
      BY <2>6, <3>2, <3>6, SMTT(20) DEF NewId, Allowed
    <3>10. new.group = IF r.gid # Keep /\ settings.chgrp_policy = "NORMAL" THEN r.gid ELSE node.group
      BY <2>6, <3>2, <3>6 DEF NewId, Allowed
    <3> QED BY <2>2, <2>8, <3>2, <3>7, <3>8, <3>9, <3>10, Zenon DEF ChownedAs
  <2> QED BY <2>4, <2>10, <2>11, <2>12, SMTT(20)

(* The lookups after a step.                                               *)
<1>LookupsAfter.
  ASSUME NEW v \in Worker
  PROVE  /\ NodeAt(process_path(call[v].req.path, TRUE))' =
              NodeIn(entry', inode', PathIn(settings', entry', inode', call'[v].req.path))
         /\ NodeBefore(v, process_path(call[v].req.path, TRUE))' =
              NodeWas(call'[v], PathIn(settings', entry', inode', call'[v].req.path))
  <2> USE <1>LookupsAfter
  <2>1. Follow' = FollowIn(entry', inode')
    BY DEF Follow, FollowIn, Kind, KindIn, NodeAt, NodeIn
  <2>2. Walk(call[v].req.path)' = WalkIn(entry', inode', call'[v].req.path)
    BY <2>1 DEF Walk, WalkIn
  <2>3. realpath(call[v].req.path)' = RealpathIn(entry', inode', call'[v].req.path)
    BY <2>2 DEF realpath, RealpathIn, Kind, KindIn, NodeAt, NodeIn
  <2>4. process_path(call[v].req.path, TRUE)' = PathIn(settings', entry', inode', call'[v].req.path)
    BY <2>3 DEF process_path, PathIn
  <2> QED BY <2>4, Zenon DEF NodeAt, NodeIn, NodeBefore, NodeWas
<1> SUFFICES ASSUME Undisturbed, FdInv, TypeInv, SerialInv, ChownPolicy, [Next]_vars
             PROVE  ChownPolicy'
  OBVIOUS
<1>1. settings' = settings
  BY SettingsKept
<1>2. CASE settings.multithreaded
  BY <1>1, <1>2, Zenon DEF ChownPolicy, Finished
<1>3. CASE ~settings.multithreaded
  <2>1. Serial
    BY <1>3 DEF Serial
  <2> SUFFICES ASSUME NEW v \in Worker, pc'[v] = "done", call'[v].req.op = "chown", call'[v].ret = OK
               PROVE  ChownedAs(settings', entry', inode', call'[v])
    BY <1>LookupsAfter, Zenon DEF ChownPolicy, Finished, ChownedAs, Allowed
  <2>2. ASSUME NEW w \in Worker, Step(w) PROVE ChownedAs(settings', entry', inode', call'[v])
    <3>1. v = w
      BY <2>1, <2>2, OnlyOneEnds, SMTT(20)
    <3>2. call'[w].req = call[w].req
      BY <2>1, <2>2, <3>1, StepEnds DEF Ends, SameRequest
    <3> QED BY <1>1, <2>1, <2>2, <3>1, <3>2, <1>ChownStep, SMTT(20)
  <2>3. ~SourceChmod
    BY <1>3, Zenon DEF SourceChmod, Undisturbed, TypeInv
  <2>4. CASE UNCHANGED vars
    <3>1. settings' = settings /\ entry' = entry /\ inode' = inode /\ pc' = pc /\ call' = call
      BY <2>4 DEF vars, source
    <3>2. Finished(v, {"chown"}) /\ call[v].ret = OK
      BY <1>3, <3>1 DEF Finished
    <3>3. ChownedAs(settings, entry, inode, call[v])
      BY <3>2, Lookups, Zenon DEF ChownPolicy, NodeBefore, NodeWas, ChownedAs, Allowed
    <3> QED BY <3>1, <3>3
  <2> QED BY <2>2, <2>3, <2>4, Zenon DEF Next
<1> QED BY <1>2, <1>3

(* ChownPolicy for every set of options, threads and requests.             *)
THEOREM ChownsFollowPolicy == Undisturbed /\ Spec => []ChownPolicy
<1> SUFFICES ASSUME Undisturbed PROVE Spec => []ChownPolicy
  OBVIOUS
<1>1. Init => ChownPolicy
  BY Zenon DEF Init, ChownPolicy, Finished
<1>2. FdInv /\ TypeInv /\ SerialInv /\ [Next]_vars => SerialInv'
  BY SerialStep
<1>3. FdInv /\ TypeInv /\ SerialInv /\ ChownPolicy /\ [Next]_vars => ChownPolicy'
  BY ChownPolicyStep
<1> QED BY <1>1, <1>2, <1>3, FdInit, FdStep, TypesInit, TypesStep, SerialInit, PTL DEF Spec

(***************************************************************************)
(* Owners and modes.                                                       *)
(***************************************************************************)
(* What a step leaves to the files that exist before and after it.         *)
KeepsOwners == \A i \in Ino : inode[i].kind = inode'[i].kind => inode[i].owner = inode'[i].owner
KeepsModes == \A i \in Ino : inode[i].kind = inode'[i].kind => inode[i].mode = inode'[i].mode

(* An inode changes as the system call says, or goes.                      *)
LEMMA SetSourceFiles ==
  ASSUME SourceOK(entry, inode, fds), NEW e, NEW n, SetSource(e, n), NEW i \in Ino,
         inode[i].kind = inode'[i].kind
  PROVE  inode'[i] = n[i] \/ inode'[i] = inode[i]
<1>1. inode'[i] = n[i] \/ inode'[i] = NoNode
  BY DEF SetSource
<1>2. NoNode.kind = None
  BY DEF NoNode
<1>3. inode[i].kind = None => inode[i] = NoNode
  BY DEF SourceOK
<1> QED BY <1>1, <1>2, <1>3

(* Calls that only add or remove names.                                    *)
LEMMA NamesOnly ==
  ASSUME SourceOK(entry, inode, fds), NEW e, SetSource(e, inode)
  PROVE  KeepsOwners /\ KeepsModes
BY SetSourceFiles, Zenon DEF KeepsOwners, KeepsModes

(* Calls that make a file.                                                 *)
LEMMA MadeFiles ==
  ASSUME SourceOK(entry, inode, fds), fds \in [Ino -> Int], Unused # {}, NEW p, NEW node,
         node.kind # None, MakeAt(p, node)
  PROVE  KeepsOwners /\ KeepsModes
<1> DEFINE n == [inode EXCEPT ![FreeIno] = node]
<1>1. FreeIno \in Unused
  BY DEF FreeIno
<1>2. FreeIno \in Ino /\ inode[FreeIno] = NoNode
  BY <1>1 DEF Unused, SourceOK
<1>3. NoNode.kind = None
  BY DEF NoNode
<1>4. \A i \in Ino : n[i] = IF i = FreeIno THEN node ELSE inode[i]
  BY DEF SourceOK
<1>5. SetSource([entry EXCEPT ![p] = FreeIno], n)
  BY DEF MakeAt
<1> HIDE DEF n
<1>6. ASSUME NEW i \in Ino, inode[i].kind = inode'[i].kind
      PROVE  inode'[i] = inode[i]
  <2>1. inode'[i] = n[i] \/ inode'[i] = inode[i]
    BY <1>5, <1>6, SetSourceFiles, Zenon
  <2> QED BY <1>2, <1>3, <1>4, <1>6, <2>1
<1> QED BY <1>6 DEF KeepsOwners, KeepsModes

(* Calls that change one file.                                             *)
LEMMA SetNodeFiles ==
  ASSUME SourceOK(entry, inode, fds), NEW p \in Path, NEW node, SetNode(p, node), NEW i \in Ino,
         inode[i].kind = inode'[i].kind
  PROVE  inode'[i] = inode[i] \/ (i = entry[p] /\ inode'[i] = node)
<1> DEFINE n == [inode EXCEPT ![entry[p]] = node]
<1>1. SetSource(entry, n)
  BY DEF SetNode
<1>2. n[i] = IF i = entry[p] THEN node ELSE inode[i]
  BY Zenon DEF SourceOK
<1> HIDE DEF n
<1>3. inode'[i] = n[i] \/ inode'[i] = inode[i]
  BY <1>1, SetSourceFiles, Zenon
<1> QED BY <1>2, <1>3

(* The handlers but chmod and chown.                                       *)
LEMMA OtherFiles ==
  ASSUME FdInv, TypeInv, NEW w \in Worker, Step(w),
         ~bindfs_chmod(w), ~lchown(w), ~chown_new_file(w)
  PROVE  KeepsOwners /\ KeepsModes
<1>1. SourceOK(entry, inode, fds) /\ fds \in [Ino -> Int]
  BY DEF TypeInv, FdInv
<1>2. CASE UNCHANGED source
  BY <1>2 DEF KeepsOwners, KeepsModes, source
<1>3. CASE \E e : SetSource(e, inode)
  BY <1>1, <1>3, NamesOnly
<1>4. ASSUME NEW step, NEW kind \in {"reg", "dir", "lnk"}, NEW mode, NEW target,
             Make(w, step, kind, mode, target)
      PROVE  KeepsOwners /\ KeepsModes
  <2>1. CASE Unused # {} /\ MakeAt(call[w].path, NewNode(kind, mode, target))
    <3> DEFINE node == NewNode(kind, mode, target)
    <3>1. node.kind # None
      BY DEF NewNode, None
    <3> HIDE DEF node
    <3> QED BY <1>1, <2>1, <3>1, MadeFiles, SMTT(20) DEF node
  <2> QED BY <1>2, <1>4, <2>1, Zenon DEF Make
<1>5. CASE bindfs_mknod(w) \/ bindfs_mkdir(w)
  BY <1>4, <1>5, Zenon DEF bindfs_mknod, bindfs_mkdir
<1>6. CASE bindfs_symlink(w)
  BY <1>2, <1>4, <1>6 DEF bindfs_symlink, FilesUnchanged
<1>7. CASE bindfs_create(w)
  <2>1. CASE /\ Unused # {}
             /\ \E p : MakeAt(p, NewNode("reg", settings.create_permchain[call[w].req.mode], None))
    <3> DEFINE node == NewNode("reg", settings.create_permchain[call[w].req.mode], None)
    <3>1. node.kind # None
      BY Zenon DEF NewNode, None
    <3>2. PICK p : MakeAt(p, node)
      BY <2>1, Zenon
    <3> HIDE DEF node
    <3> QED BY <1>1, <2>1, <3>1, <3>2, MadeFiles, Zenon
  <2> QED BY <1>2, <1>7, <2>1, Zenon DEF bindfs_create
<1>8. CASE Receive(w) \/ ReceiveRelease(w) \/ Reply(w) \/ ProcessPath(w) \/ ProcessTo(w)
  BY <1>2, <1>8, Zenon DEF Receive, ReceiveRelease, Reply, ProcessPath, ProcessTo, FilesUnchanged
<1>9. CASE bindfs_open(w) \/ bindfs_release(w)
  BY <1>2, <1>3, <1>9 DEF bindfs_open, bindfs_release
<1>10. CASE delete_file(w) \/ delete_lstat(w) \/ symlink_first(w) \/ target_first(w)
  BY <1>2, <1>10 DEF delete_file, delete_lstat, symlink_first, target_first, FilesUnchanged
<1>11. CASE delete_target(w) \/ delete_main(w) \/ delete_also(w)
  BY <1>2, <1>3, <1>11, Zenon DEF delete_target, delete_main, delete_also, Deleted
<1>12. CASE bindfs_rename(w) \/ rename(w) \/ bindfs_link(w)
  BY <1>2, <1>3, <1>12, Zenon DEF bindfs_rename, rename, bindfs_link, FilesUnchanged
<1>13. CASE chmod_lstat(w) \/ bindfs_chown(w)
  BY <1>2, <1>13, SMTT(20) DEF chmod_lstat, bindfs_chown, FilesUnchanged
<1> QED BY <1>5, <1>6, <1>7, <1>8, <1>9, <1>10, <1>11, <1>12, <1>13, Zenon DEF Step

(***************************************************************************)
(* The two action properties.                                              *)
(***************************************************************************)
OwnChown ==
  ~settings.multithreaded =>
    \A i \in Ino :
      inode[i].kind = inode'[i].kind /\ inode[i].owner # inode'[i].owner =>
        \E w \in Worker : pc[w] # pc'[w] /\
          \/ call[w].req.op = "chown"
          \/ /\ i \notin Range(call[w].before.entry)
             /\ inode'[i].owner = call[w].req.user

(* Every other step that changes an owner is one of a chown request.       *)
LEMMA OwnChownStep == Undisturbed /\ FdInv /\ TypeInv /\ SerialInv /\ [Next]_vars => OwnChown

(* chown_new_file changes the file that its request has made.              *)
<1>NewFileChowned.
  ASSUME Serial, NEW w \in Worker, chown_new_file(w), NEW i \in Ino,
         inode[i].kind = inode'[i].kind, inode[i].owner # inode'[i].owner
  PROVE  /\ pc[w] # pc'[w] /\ i \notin Range(call[w].before.entry)
         /\ inode'[i].owner = call[w].req.user
  <2> USE <1>NewFileChowned
  <2> DEFINE c == call[w]
             path == IF c.req.op = "symlink" THEN c.path ELSE Walk(c.path)
             owner == IF settings.create_as_user THEN c.req.user ELSE Keep
             group == IF settings.create_as_user /\ ~settings.setgid THEN c.req.user ELSE Keep
             node == ChownedNode(NodeAt(path), owner, group)
  <2>1. pc[w] = "chown_new_file"
    BY Zenon DEF chown_new_file
  <2>2. /\ SourceOK(entry, inode, fds) /\ CallOK("chown_new_file", c)
        /\ Creating(entry, inode, "chown_new_file", c)
    BY <2>1, SerialFacts, Zenon DEF Local
  <2>3. c.path \in Path /\ entry[c.path] \in Ino /\ entry[c.path] \notin Range(c.before.entry)
    BY <2>2, Zenon DEF CallOK, Creating
  <2>4. path = c.path
    <3>1. c.req.op # "symlink" => Walk(c.path) = c.path
      BY <2>2, <2>3, Lookups, WalkInStays, Zenon DEF Creating
    <3> QED BY <3>1
  <2>5. path \in Path /\ Kind(path) # None /\ SetNode(path, node)
    <3>1. UNCHANGED source => inode[i].owner = inode'[i].owner
      BY DEF source
    <3> QED BY <3>1, Zenon DEF chown_new_file
  <2>6. owner \in User \cup {Keep} /\ group \in User \cup {Keep} /\ c.req.user \in User
    BY <2>1, RequestTypes, Zenon DEF Serial
  <2>7. NodeAt(path) \in Nodes /\ NodeAt(path) = inode[entry[path]]
    <3>1. path # MNT
      BY <2>5, FileOpsAssumption, Zenon
    <3> QED BY <2>2, <2>5, <3>1, KindFacts, Zenon
  <2>8. node.owner = IF owner = Keep THEN inode[entry[path]].owner ELSE owner
    <3> DEFINE was == NodeAt(path)
    <3> HIDE DEF owner, group, was
    <3>1. was \in Nodes
      BY <2>7, Zenon DEF was
    <3>2. ChownedNode(was, owner, group).owner = IF owner = Keep THEN was.owner ELSE owner
      BY <3>1 DEF ChownedNode, Nodes
    <3> QED BY <2>7, <3>2, Zenon DEF was
  <2>9. pc'[w] = "done"
    BY <2>1, Zenon DEF chown_new_file, HandOut, Done, Goto, Serial, FdInv
  <2> HIDE DEF node, path
  <2>10. inode'[i] = inode[i] \/ (i = entry[path] /\ inode'[i] = node)
    BY <2>2, <2>5, SetNodeFiles, Zenon
  <2> QED BY <2>1, <2>3, <2>4, <2>8, <2>9, <2>10, SMTT(20)

(* A chmod leaves the owner.                                               *)
<1>ChmodFiles.
  ASSUME FdInv, TypeInv, NEW w \in Worker, bindfs_chmod(w)
  PROVE  KeepsOwners
  <2> USE <1>ChmodFiles
  <2>1. SourceOK(entry, inode, fds) /\ CallOK(pc[w], call[w]) /\ pc[w] = "chmod"
    BY Zenon DEF TypeInv, bindfs_chmod
  <2>2. CASE UNCHANGED source
    BY <2>2 DEF KeepsOwners, source
  <2>3. ASSUME NEW p \in Path, Kind(p) # None, NEW mode \in SUBSET ModeBit,
               SetNode(p, [NodeAt(p) EXCEPT !.mode = mode])
        PROVE  KeepsOwners
    <3> DEFINE node == [NodeAt(p) EXCEPT !.mode = mode]
    <3>1. NodeAt(p) \in Nodes
      BY <2>1, KindFacts, Zenon
    <3>2. p # MNT
      BY FileOpsAssumption, Zenon
    <3>3. NodeAt(p) = inode[entry[p]]
      BY <2>1, <2>3, <3>2, KindFacts
    <3>4. node.owner = inode[entry[p]].owner
      BY <3>1, <3>3, ChmoddedTypes
    <3> HIDE DEF node
    <3>5. SetNode(p, node)
      BY <2>3 DEF node
    <3> QED BY <2>1, <3>4, <3>5, SetNodeFiles, Zenon DEF KeepsOwners
  <2>4. /\ settings.chmod_permchain[call[w].req.mode] \in SUBSET ModeBit
        /\ call[w].req.mode \in SUBSET ModeBit
    BY <2>1, RequestTypes, Zenon
  <2>5. IgnoredMode(w) \in SUBSET ModeBit
    <3>1. call[w].st.mode \in SUBSET ModeBit
      BY <2>1, Zenon DEF CallOK, Nodes
    <3> QED BY <2>4, <3>1 DEF IgnoredMode
  <2>6. UNCHANGED source \/ \E mode \in SUBSET ModeBit : chmod(w, mode)
    BY <2>4, <2>5, Zenon DEF bindfs_chmod, FilesUnchanged
  <2>7. ASSUME NEW mode \in SUBSET ModeBit, chmod(w, mode)
        PROVE  KeepsOwners
    <3> DEFINE p == Walk(call[w].path)
    <3>1. \/ UNCHANGED source
          \/ p \in Path /\ Kind(p) \in {"reg", "dir"} /\ SetNode(p, [NodeAt(p) EXCEPT !.mode = mode])
      BY <2>7 DEF chmod
    <3>2. Kind(p) \in {"reg", "dir"} => Kind(p) # None
      BY DEF None
    <3> HIDE DEF p
    <3> QED BY <2>2, <2>3, <3>1, <3>2
  <2> QED BY <2>2, <2>6, <2>7
<1> SUFFICES ASSUME Undisturbed, FdInv, TypeInv, SerialInv, [Next]_vars, ~settings.multithreaded,
                    NEW i \in Ino, inode[i].kind = inode'[i].kind, inode[i].owner # inode'[i].owner
             PROVE  \E w \in Worker : pc[w] # pc'[w] /\
                      \/ call[w].req.op = "chown"
                      \/ /\ i \notin Range(call[w].before.entry)
                         /\ inode'[i].owner = call[w].req.user
  BY DEF OwnChown
<1>1. Serial
  BY DEF Serial
<1>2. ~UNCHANGED vars
  BY DEF vars, source
<1>3. ~SourceChmod
  BY Zenon DEF SourceChmod, Undisturbed, TypeInv
<1>4. PICK w \in Worker : Step(w)
  BY <1>2, <1>3 DEF Next
<1>5. ~KeepsOwners
  BY DEF KeepsOwners
<1>6. lchown(w) \/ chown_new_file(w)
  BY <1>4, <1>5, OtherFiles, <1>ChmodFiles, SMTT(20)
<1>7. CASE chown_new_file(w)
  BY <1>1, <1>7, <1>NewFileChowned, SMTT(20)
<1>8. CASE lchown(w)
  <2>1. pc[w] = "chown" /\ pc'[w] = "done"
    BY <1>8 DEF lchown, Done, Goto, FdInv
  <2>2. call[w].req.op = "chown"
    BY <2>1, Zenon DEF TypeInv, CallOK, ServedAt
  <2> QED BY <2>1, <2>2
<1> QED BY <1>6, <1>7, <1>8, SMTT(20)

(* OwnFileChowned for every set of options, threads and requests.          *)
THEOREM OwnFilesChowned == Undisturbed /\ Spec => OwnFileChowned
<1> SUFFICES ASSUME Undisturbed PROVE Spec => [][OwnChown]_vars
  BY DEF OwnFileChowned, OwnChown
<1>1. FdInv /\ TypeInv /\ SerialInv /\ [Next]_vars => SerialInv'
  BY SerialStep
<1>2. FdInv /\ TypeInv /\ SerialInv /\ [Next]_vars => [OwnChown]_vars
  BY OwnChownStep
<1> QED BY <1>1, <1>2, FdInit, FdStep, TypesInit, TypesStep, SerialInit, PTL DEF Spec

(* Only the execute bits of i change.                                      *)
ExecuteOnly(i) ==
  /\ settings.chmod_allow_x /\ inode[i].kind = "reg"
  /\ inode[i].mode \ {"x"} = inode'[i].mode \ {"x"}
ExecuteBits ==
  settings.chmod_policy # "CHMOD_NORMAL" /\ pc' # pc =>
    \A i \in Ino : inode[i].kind = inode'[i].kind /\ inode[i].mode # inode'[i].mode => ExecuteOnly(i)

(* It is the only step that changes a mode.                                *)
LEMMA ExecuteBitsStep ==
  Undisturbed /\ FdInv /\ TypeInv /\ SerialInv /\ ~settings.multithreaded /\ [Next]_vars => ExecuteBits

(* A chown leaves the mode.                                                *)
<1>ChownFiles.
  ASSUME FdInv, TypeInv, NEW w \in Worker, lchown(w) \/ chown_new_file(w)
  PROVE  KeepsModes
  <2> USE <1>ChownFiles
  <2>1. SourceOK(entry, inode, fds) /\ CallOK(pc[w], call[w])
    BY Zenon DEF TypeInv
  <2>2. CASE UNCHANGED source
    BY <2>2 DEF KeepsModes, source
  <2>3. ASSUME NEW p \in Path, Kind(p) # None, NEW owner \in User \cup {Keep}, NEW group \in User \cup {Keep},
               SetNode(p, ChownedNode(NodeAt(p), owner, group))
        PROVE  KeepsModes
    <3> DEFINE node == ChownedNode(NodeAt(p), owner, group)
    <3>1. NodeAt(p) \in Nodes
      BY <2>1, KindFacts, Zenon
    <3>2. p # MNT
      BY FileOpsAssumption, Zenon
    <3>3. NodeAt(p) = inode[entry[p]]
      BY <2>1, <2>3, <3>2, KindFacts, Zenon
    <3>4. node.mode = inode[entry[p]].mode
      <4>1. node.mode = NodeAt(p).mode
        BY <3>1, ChownedTypes
      <4> QED BY <3>3, <4>1
    <3> HIDE DEF node
    <3>5. SetNode(p, node)
      BY <2>3 DEF node
    <3> QED BY <2>1, <3>4, <3>5, SetNodeFiles, Zenon DEF KeepsModes
  <2>4. CASE lchown(w)
    <3> DEFINE owner == NewId(settings.chown_policy, call[w].req.uid)
               group == NewId(settings.chgrp_policy, call[w].req.gid)
    <3>1. pc[w] = "chown"
      BY <2>4, Zenon DEF lchown
    <3>2. call[w].path \in Path /\ owner \in User \cup {Keep} /\ group \in User \cup {Keep}
      BY <2>1, <3>1, RequestTypes, NewIdTypes, Zenon DEF CallOK
    <3>3. \/ UNCHANGED source
          \/ Kind(call[w].path) # None /\ SetNode(call[w].path, ChownedNode(NodeAt(call[w].path), owner, group))
      BY <2>4, Zenon DEF lchown
    <3> HIDE DEF owner, group
    <3> QED BY <2>2, <2>3, <3>2, <3>3, Zenon
  <2>5. CASE chown_new_file(w)
    <3> DEFINE path == IF call[w].req.op = "symlink" THEN call[w].path ELSE Walk(call[w].path)
               owner == IF settings.create_as_user THEN call[w].req.user ELSE Keep
               group == IF settings.create_as_user /\ ~settings.setgid THEN call[w].req.user ELSE Keep
    <3>1. pc[w] = "chown_new_file"
      BY <2>5, Zenon DEF chown_new_file
    <3>2. owner \in User \cup {Keep} /\ group \in User \cup {Keep}
      BY <3>1, RequestTypes, Zenon
    <3>3. \/ UNCHANGED source
          \/ path \in Path /\ Kind(path) # None /\ SetNode(path, ChownedNode(NodeAt(path), owner, group))
      BY <2>5, Zenon DEF chown_new_file
    <3> HIDE DEF path, owner, group
    <3> QED BY <2>2, <2>3, <3>2, <3>3
  <2> QED BY <2>4, <2>5

(* A chmod under the other two policies.                                   *)
<1>ExecuteOnlyChmod.
  ASSUME Serial, NEW w \in Worker, bindfs_chmod(w), settings.chmod_policy # "CHMOD_NORMAL", NEW i \in Ino,
         inode[i].kind = inode'[i].kind, inode[i].mode # inode'[i].mode
  PROVE  ExecuteOnly(i)
  <2> USE <1>ExecuteOnlyChmod
  <2> DEFINE c == call[w]
  <2>1. pc[w] = "chmod"
    BY DEF bindfs_chmod
  <2>2. /\ SourceOK(entry, inode, fds) /\ CallOK("chmod", c) /\ Changing(settings, entry, inode, "chmod", c)
    BY <2>1, SerialFacts, Zenon DEF Local
  <2>3. /\ c.path \in Path /\ c.st \in Nodes
        /\ c.st = IF settings.chmod_allow_x THEN NodeIn(entry, inode, c.path) ELSE NoNode
    BY <2>2, Zenon DEF CallOK, Changing
  <2>4. c.req.mode \in SUBSET ModeBit
    BY <2>1, RequestTypes, Zenon DEF Serial
  <2>5. PICK mode \in SUBSET ModeBit : FileExecuteOnly(w) /\ chmod(w, mode) /\ mode \ {"x"} = c.st.mode \ {"x"}
    <3>1. ~FilesUnchanged
      BY DEF FilesUnchanged, source
    <3>2. c.st.mode \in SUBSET ModeBit
      BY <2>3 DEF Nodes
    <3>3. CASE FileExecuteOnly(w) /\ chmod(w, IgnoredMode(w))
      <4>1. IgnoredMode(w) \in SUBSET ModeBit /\ IgnoredMode(w) \ {"x"} = c.st.mode \ {"x"}
        BY <2>4, <3>2 DEF IgnoredMode
      <4> QED BY <3>3, <4>1
    <3>4. CASE DenyAllows(w) /\ chmod(w, c.req.mode)
      <4>1. FileExecuteOnly(w) /\ c.req.mode \ {"x"} = c.st.mode \ {"x"}
        BY <2>4, <3>2, <3>4, SMTT(20) DEF DenyAllows, Diff
      <4> QED BY <2>4, <3>4, <4>1, SMTT(20)
    <3> QED BY <3>1, <3>3, <3>4, Zenon DEF bindfs_chmod
  <2>6. settings.chmod_allow_x /\ c.st = NodeIn(entry, inode, c.path) /\ c.st.kind = "reg"
    <3>1. c.st.kind = "reg"
      BY <2>5 DEF FileExecuteOnly
    <3>2. NoNode.kind # "reg"
      BY DEF NoNode, None
    <3> QED BY <2>3, <3>1, <3>2
  <2>7. KindIn(entry, inode, c.path) = "reg" /\ c.st = inode[entry[c.path]]
    <3>1. KindIn(entry, inode, c.path) = "reg"
      <4>1. c.path # MNT
        BY <2>3, FileOpsAssumption, Zenon
      <4> QED BY <2>6, <4>1, Zenon DEF KindIn
    <3>2. c.path # MNT /\ KindIn(entry, inode, c.path) # None
      BY <2>3, <3>1, FileOpsAssumption, Zenon DEF None
    <3> QED BY <2>2, <2>6, <3>1, <3>2, KindInFacts, Zenon
  <2>8. Walk(c.path) = c.path
    BY <2>3, <2>7, Lookups, WalkInStays, Zenon
  <2> DEFINE node == [c.st EXCEPT !.mode = mode]
  <2>9. SetNode(c.path, node)
    <3>1. ~UNCHANGED source
      BY DEF source
    <3>2. NodeAt(c.path) = c.st
      BY <2>6, Lookups, Zenon
    <3> QED BY <2>5, <2>8, <3>1, <3>2 DEF chmod
  <2>10. node.mode = mode
    BY <2>3 DEF Nodes
  <2> HIDE DEF node
  <2>11. i = entry[c.path] /\ inode'[i] = node
    BY <2>2, <2>3, <2>9, SetNodeFiles, Zenon
  <2> QED BY <2>5, <2>6, <2>7, <2>10, <2>11, Zenon DEF ExecuteOnly
<1> SUFFICES ASSUME Undisturbed, FdInv, TypeInv, SerialInv, ~settings.multithreaded, [Next]_vars,
                    settings.chmod_policy # "CHMOD_NORMAL", NEW i \in Ino,
                    inode[i].kind = inode'[i].kind, inode[i].mode # inode'[i].mode
             PROVE  ExecuteOnly(i)
  BY DEF ExecuteBits
<1>1. Serial
  BY DEF Serial
<1>2. ~UNCHANGED vars
  BY DEF vars, source
<1>3. ~SourceChmod
  BY Zenon DEF SourceChmod, Undisturbed, TypeInv
<1>4. PICK w \in Worker : Step(w)
  BY <1>2, <1>3 DEF Next
<1>5. ~KeepsModes
  BY DEF KeepsModes
<1>6. bindfs_chmod(w)
  BY <1>4, <1>5, OtherFiles, <1>ChownFiles
<1> QED BY <1>1, <1>6, <1>ExecuteOnlyChmod

(* OnlyExecuteBits where requests are served one at a time and nobody else *)
(* changes the source directory, for every set of options and requests.    *)
THEOREM OnlyExecuteBitsChange ==
  (\A s \in Settings : ~s.multithreaded /\ SourceMode[s] = {}) /\ Spec => OnlyExecuteBits
<1> SUFFICES ASSUME \A s \in Settings : ~s.multithreaded /\ SourceMode[s] = {}
             PROVE  Spec => [][ExecuteBits]_vars
  BY DEF OnlyExecuteBits, ExecuteBits, ExecuteOnly
<1>1. Undisturbed
  BY DEF Undisturbed
<1>2. FdInv /\ TypeInv /\ SerialInv /\ [Next]_vars => SerialInv'
  BY <1>1, SerialStep
<1>3. FdInv /\ TypeInv /\ SerialInv /\ [Next]_vars => [ExecuteBits]_vars
  BY <1>1, ExecuteBitsStep, Zenon DEF TypeInv
<1> QED BY <1>2, <1>3, FdInit, FdStep, TypesInit, TypesStep, SerialInit, PTL DEF Spec
=============================================================================
