------------------------------ MODULE FileOps ------------------------------
(***************************************************************************)
(* The FUSE handlers of bindfs.c that create, delete, rename, chmod and    *)
(* chown files, as the sequences of system calls that they make on the     *)
(* source directory, run by the worker threads of the FUSE loop (one at a  *)
(* time unless --multithreaded).                                           *)
(*                                                                         *)
(* The source directory is flat: Path are its names, MNT stands for the    *)
(* mountpoint, which symlinks may point to.  Owners are as in the source   *)
(* (IdMap models their translation), the mode of a file is a set of        *)
(* execute bits "x" and other bits, and the permission rules are functions *)
(* on such sets (PermChain models them).                                   *)
(***************************************************************************)
EXTENDS Integers, FiniteSets, Functions

CONSTANTS
  Worker,       \* threads of the FUSE loop
  Path,         \* names in the source directory
  MNT,          \* the mountpoint
  Ino,          \* inodes of the source file system
  User,         \* users and groups
  Mounter,      \* the one bindfs runs as
  Settings,     \* the option combinations under which bindfs is started
  Request,      \* for each of them, the requests that clients make
  Source,       \* and the contents [Path -> node or NoNode] of the source directory at the start
  SourceMode,   \* for each of them, modes that another process gives to files in the source directory
  MaxFds        \* bound: open files

ModeBit == {"x", "w"}
None == "none"
Keep == "keep"   \* (uid_t)-1
OK == "ok"
Error == {"ENOENT", "EPERM", "ELOOP", "EEXIST", "EISDIR", "ENOTDIR", "EACCES", "EIO"}
Names == Path \cup {MNT, None}   \* what a symlink may hold

NoNode == [kind |-> None, owner |-> Mounter, group |-> Mounter, mode |-> {}, target |-> None]
Nodes == [ kind : {None, "reg", "dir", "lnk"}, owner : User, group : User,
           mode : SUBSET ModeBit, target : Names ]
Ops == {"mknod", "mkdir", "symlink", "unlink", "rmdir", "rename", "link",
        "chmod", "chown", "create", "open", "release"}
Requests == [ op : Ops, path : Path, to : Names, mode : SUBSET ModeBit,
              user : User, uid : User \cup {Keep}, gid : User \cup {Keep} ]
Options == [ multithreaded : BOOLEAN, resolve_symlinks : BOOLEAN, delete_deny : BOOLEAN, rename_deny : BOOLEAN,
             resolved_symlink_deletion_policy : {"deny", "symlink-only", "symlink-first", "target-first"},
             chmod_policy : {"CHMOD_NORMAL", "CHMOD_IGNORE", "CHMOD_DENY"},
             chmod_allow_x : BOOLEAN,
             chown_policy : {"NORMAL", "IGNORE", "DENY"}, chgrp_policy : {"NORMAL", "IGNORE", "DENY"},
             create_as_user : BOOLEAN, setgid : BOOLEAN, unmappable : SUBSET User,
             create_permchain : [SUBSET ModeBit -> SUBSET ModeBit],
             chmod_permchain : [SUBSET ModeBit -> SUBSET ModeBit] ]

ASSUME FileOpsAssumption ==
  /\ Mounter \in User /\ Keep \notin User
  /\ MNT \notin Path /\ None \notin Path \cup Ino \cup {MNT} /\ Names \cap Error = {}
  /\ Settings \subseteq Options
  /\ Request \in [Settings -> SUBSET Requests]
  /\ \A s \in Settings : \A nodes \in Source[s] :
       nodes \in [Path -> Nodes] /\ \A p \in Path : nodes[p].kind = None => nodes[p] = NoNode
  /\ Injection(Path, Ino) # {}
  /\ SourceMode \in [Settings -> SUBSET SUBSET ModeBit]
  /\ MaxFds \in Nat
  /\ IsFiniteSet(Path) /\ IsFiniteSet(Worker)

VARIABLES
  settings,
  entry, inode,   \* the source directory
  fds,            \* open file descriptors of bindfs on each inode
  handles,        \* open files that the kernel will release
  pc,
  call            \* the request of each worker, and the locals of its handler

source == <<entry, inode>>
vars == <<settings, source, fds, handles, pc, call>>

PC == {"idle", "done", "process_path", "process_to", "mknod", "mkdir", "symlink",
       "create", "chown_new_file", "delete_file", "delete_lstat", "symlink_first",
       "target_first", "delete_target", "delete_main", "delete_also", "bindfs_rename",
       "rename", "link", "chmod_lstat", "chmod", "bindfs_chown", "chown", "open", "release"}

(* req: the request; path, to: real_path, real_to; func: main_delete_func; *)
(* st: what lstat returned; also: also_try_delete; fd: the file opened;    *)
(* ret: the result; before, target: history, the source directory and what *)
(* the path resolved to when the request arrived.                          *)
NoCall == [ req |-> None, path |-> None, to |-> None, func |-> None, st |-> NoNode,
            also |-> None, fd |-> None, ret |-> None, before |-> None, target |-> None ]

(***************************************************************************)
(* The source file system (external).  An inode goes with its last name    *)
(* and file descriptor.  realpath follows links to a name that is not one. *)
(***************************************************************************)
NodeAt(p) == IF p \in Path /\ entry[p] # None THEN inode[entry[p]] ELSE NoNode
Kind(p) == IF p = MNT THEN "dir" ELSE NodeAt(p).kind

Follow == [q \in Names |-> IF Kind(q) = "lnk" THEN NodeAt(q).target ELSE q]
WalkFrom(next, p) ==
  LET step[n \in 0..Cardinality(Path)] == IF n = 0 THEN p ELSE next[step[n - 1]]
  IN  step[Cardinality(Path)]
Walk(p) == WalkFrom(Follow, p)

realpath(p) ==
  CASE Kind(Walk(p)) = "lnk" -> "ELOOP"
    [] Kind(Walk(p)) = None  -> "ENOENT"
    [] OTHER                 -> Walk(p)

Unused == {i \in Ino : i \notin Range(entry) /\ fds[i] = 0}
FreeIno == CHOOSE i \in Unused : TRUE

SetSource(e, n) ==
  /\ entry' = e
  /\ inode' = [i \in Ino |-> IF i \in Range(e) \/ fds'[i] > 0 THEN n[i] ELSE NoNode]

SetNode(p, node) == SetSource(entry, [inode EXCEPT ![entry[p]] = node])

(* A file that bindfs creates belongs to the mounter, and in a setgid      *)
(* directory to the group of the directory (here the last of two groups).  *)
DirGroup == CHOOSE g \in User : User # {Mounter} => g # Mounter
NewNode(kind, mode, target) ==
  [ kind |-> kind, owner |-> Mounter, mode |-> mode, target |-> target,
    group |-> IF settings.setgid THEN DirGroup ELSE Mounter ]

MakeAt(p, node) == SetSource([entry EXCEPT ![p] = FreeIno], [inode EXCEPT ![FreeIno] = node])

(* What unlink(p) and rmdir(p) return when nothing else stands in the way. *)
DeleteResult(func, p) ==
  CASE Kind(p) = None                              -> "ENOENT"
    [] func = "unlink" /\ Kind(p) = "dir"          -> "EISDIR"
    [] func = "rmdir" /\ Kind(p) \in {"reg", "lnk"} -> "ENOTDIR"
    [] func = "rmdir" /\ p = MNT                   -> "EACCES"
    [] OTHER                                       -> OK

Deleted(p) == SetSource([entry EXCEPT ![p] = None], inode)

RenameResult(from, to) ==
  CASE Kind(from) = None                           -> "ENOENT"
    [] Kind(from) = "dir" /\ Kind(to) \notin {"dir", None} -> "ENOTDIR"
    [] Kind(from) \in {"reg", "lnk"} /\ Kind(to) = "dir" -> "EISDIR"
    [] OTHER                                       -> OK

(***************************************************************************)
(* Requests.  The kernel looks a name up (bindfs_getattr) before it sends  *)
(* a request about it.                                                     *)
(***************************************************************************)
process_path(p, resolve_symlinks) ==
  IF ~(resolve_symlinks /\ settings.resolve_symlinks) \/ realpath(p) = "ENOENT" THEN p
  ELSE IF realpath(p) = MNT THEN "EPERM" ELSE realpath(p)

bindfs_getattr(p) ==
  LET q == process_path(p, TRUE) IN IF q \in Error THEN q ELSE Kind(q)

Sendable(r) ==
  CASE r.op \in {"mknod", "mkdir", "symlink", "create"} -> bindfs_getattr(r.path) = None
    [] r.op = "unlink" -> bindfs_getattr(r.path) \in {"reg", "lnk"}
    [] r.op = "rmdir"  -> bindfs_getattr(r.path) = "dir"
    [] r.op = "rename" -> /\ bindfs_getattr(r.path) \in {"reg", "dir", "lnk"}
                          /\ bindfs_getattr(r.to) \in {"reg", "dir", "lnk", None}
    [] r.op = "link"   -> bindfs_getattr(r.path) = "reg" /\ bindfs_getattr(r.to) = None
    [] r.op = "chmod"  -> bindfs_getattr(r.path) \in {"reg", "dir"}
    [] r.op = "chown"  -> bindfs_getattr(r.path) \in {"reg", "dir", "lnk"}
    [] r.op = "open"   -> bindfs_getattr(r.path) = "reg"
    [] OTHER           -> FALSE

FirstStep(op) ==
  CASE op \in {"unlink", "rmdir"}   -> "delete_file"
    [] op = "rename"                -> "bindfs_rename"
    [] op = "chown"                 -> "bindfs_chown"
    [] op = "symlink"               -> op
    [] OTHER                        -> "process_path"

Init ==
  /\ settings \in Settings
  /\ \E nodes \in Source[settings] : LET place == CHOOSE f \in Injection(Path, Ino) : TRUE IN
       /\ entry = [p \in Path |-> IF nodes[p] = NoNode THEN None ELSE place[p]]
       /\ inode = [i \in Ino |-> IF \E p \in Path : entry[p] = i
                                 THEN nodes[CHOOSE p \in Path : entry[p] = i] ELSE NoNode]
  /\ fds = [i \in Ino |-> 0] /\ handles = [i \in Ino |-> 0]
  /\ pc = [w \in Worker |-> "idle"]
  /\ call = [w \in Worker |-> NoCall]

Goto(w, from, to) == pc[w] = from /\ pc' = [pc EXCEPT ![w] = to]

Done(w, from, ret) ==
  /\ Goto(w, from, "done")
  /\ call' = [call EXCEPT ![w].ret = ret]

(* Kept only where it means something, with one request at a time.         *)
Snapshot == IF ~settings.multithreaded THEN [entry |-> entry, inode |-> inode] ELSE None

FilesUnchanged == UNCHANGED <<settings, source, fds, handles>>

(* main runs the FUSE loop with -s unless --multithreaded.                 *)
MayServe_Always == TRUE
MayServe == settings.multithreaded \/ \A w \in Worker : pc[w] = "idle"

Receive(w) ==
  /\ pc[w] = "idle" /\ MayServe
  /\ \E r \in Request[settings] :
       /\ Sendable(r)
       /\ Goto(w, "idle", FirstStep(r.op))
       /\ call' = [call EXCEPT ![w] =
            [NoCall EXCEPT !.req = r, !.path = r.path, !.target = realpath(r.path),
                           !.before = Snapshot]]
  /\ FilesUnchanged

(* The kernel releases each open file once.                                *)
ReceiveRelease(w) ==
  \E r \in Request[settings], i \in Ino :
    /\ r.op = "release" /\ handles[i] > 0 /\ MayServe
    /\ Goto(w, "idle", "release")
    /\ handles' = [handles EXCEPT ![i] = @ - 1]
    /\ call' = [call EXCEPT ![w] = [NoCall EXCEPT !.req = r, !.fd = i]]
    /\ UNCHANGED <<settings, source, fds>>

Reply(w) ==
  /\ Goto(w, "done", "idle")
  /\ call' = [call EXCEPT ![w] = NoCall]
  /\ FilesUnchanged

(***************************************************************************)
(* process_path for the handlers that resolve their path first.            *)
(***************************************************************************)
AfterPath(op) ==
  CASE op = "chmod" /\ settings.chmod_allow_x -> "chmod_lstat"
    [] op = "link" -> "process_to"
    [] OTHER       -> op

ProcessPath(w) ==
  LET q == process_path(call[w].req.path, TRUE)
  IN  /\ pc[w] = "process_path"
      /\ \/ q \in Error /\ Done(w, "process_path", q)
         \/ /\ q \notin Error
            /\ Goto(w, "process_path", AfterPath(call[w].req.op))
            /\ call' = [call EXCEPT ![w].path = q]
      /\ FilesUnchanged

ProcessTo(w) ==
  LET q == process_path(call[w].req.to, TRUE)
  IN  /\ pc[w] = "process_to"
      /\ \/ q \in Error /\ Done(w, "process_to", q)
         \/ /\ q \notin Error
            /\ Goto(w, "process_to", call[w].req.op)
            /\ call' = [call EXCEPT ![w].to = q]
      /\ FilesUnchanged

(***************************************************************************)
(* Creation.  mknod, mkdir and symlink fail on a name that exists; create  *)
(* opens with the client's flags, which may or may not contain O_EXCL.     *)
(* Any system call may be refused.                                         *)
(***************************************************************************)
Make(w, step, kind, mode, target) ==
  /\ pc[w] = step
  /\ \/ /\ Kind(call[w].path) = None /\ Unused # {}
        /\ UNCHANGED <<fds, call>>
        /\ MakeAt(call[w].path, NewNode(kind, mode, target))
        /\ Goto(w, step, "chown_new_file")
     \/ /\ Kind(call[w].path) # None /\ Done(w, step, "EEXIST")
        /\ UNCHANGED <<source, fds>>
     \/ Done(w, step, "EACCES") /\ UNCHANGED <<source, fds>>
  /\ UNCHANGED <<settings, handles>>

bindfs_mknod(w) == Make(w, "mknod", "reg", settings.create_permchain[call[w].req.mode], None)
bindfs_mkdir(w) == Make(w, "mkdir", "dir", settings.create_permchain[call[w].req.mode], None)

bindfs_symlink(w) ==
  \/ ~settings.resolve_symlinks /\ Make(w, "symlink", "lnk", {}, call[w].req.to)
  \/ settings.resolve_symlinks /\ Done(w, "symlink", "EPERM") /\ FilesUnchanged

Opened(w, i) == fds' = [fds EXCEPT ![i] = @ + 1] /\ call' = [call EXCEPT ![w].fd = i]

bindfs_create(w) ==
  LET p == Walk(call[w].path)
  IN  /\ pc[w] = "create"
      /\ \/ /\ Kind(p) = None /\ Unused # {}
            /\ fds[FreeIno] < MaxFds /\ Opened(w, FreeIno)
            /\ MakeAt(p, NewNode("reg", settings.create_permchain[call[w].req.mode], None))
            /\ Goto(w, "create", "chown_new_file")
         \/ /\ Kind(p) = "reg" /\ fds[entry[p]] < MaxFds
            /\ Opened(w, entry[p])
            /\ Goto(w, "create", "chown_new_file")
            /\ UNCHANGED source
         \/ /\ \/ Kind(p) = "reg" /\ Done(w, "create", "EEXIST")
               \/ Kind(p) = "dir" /\ Done(w, "create", "EISDIR")
               \/ Kind(p) = "lnk" /\ Done(w, "create", "ELOOP")
               \/ Done(w, "create", "EACCES")
            /\ UNCHANGED <<source, fds>>
      /\ UNCHANGED <<settings, handles>>

(***************************************************************************)
(* chown_new_file, and what its caller does with the result: bindfs_create *)
(* ignores it and hands out the descriptor.                                *)
(***************************************************************************)
ChownedNode(node, owner, group) ==
  [ node EXCEPT !.owner = IF owner = Keep THEN @ ELSE owner,
                !.group = IF group = Keep THEN @ ELSE group ]

HandOut_OnSuccess(w, ret) ==
  IF call[w].fd # None /\ ret = OK
  THEN /\ handles' = [handles EXCEPT ![call[w].fd] = @ + 1]
       /\ Goto(w, "chown_new_file", "done")
       /\ call' = [call EXCEPT ![w].ret = OK, ![w].fd = None]
  ELSE UNCHANGED handles /\ Done(w, "chown_new_file", ret)
HandOut(w, ret) ==
  IF call[w].fd # None
  THEN /\ handles' = [handles EXCEPT ![call[w].fd] = @ + 1]
       /\ Goto(w, "chown_new_file", "done")
       /\ call' = [call EXCEPT ![w].ret = OK, ![w].fd = None]
  ELSE UNCHANGED handles /\ Done(w, "chown_new_file", ret)

chown_new_file(w) ==
  LET path == IF call[w].req.op = "symlink" THEN call[w].path ELSE Walk(call[w].path)
      user == call[w].req.user
      file_owner == IF settings.create_as_user THEN user ELSE Keep
      file_group == IF settings.create_as_user /\ ~settings.setgid THEN user ELSE Keep
      overflow == {file_owner, file_group} \cap settings.unmappable # {}
  IN  /\ pc[w] = "chown_new_file"
      /\ UNCHANGED <<settings, fds>>
      /\ \/ overflow /\ UNCHANGED source /\ HandOut(w, "EIO")
         \/ /\ ~overflow /\ path \in Path /\ Kind(path) # None
            /\ SetNode(path, ChownedNode(NodeAt(path), file_owner, file_group))
            /\ HandOut(w, OK)
         \/ ~overflow /\ UNCHANGED source /\ HandOut(w, OK)

bindfs_open(w) ==
  LET p == Walk(call[w].path)
  IN  /\ pc[w] = "open"
      /\ \/ /\ Kind(p) = "reg" /\ fds[entry[p]] < MaxFds
            /\ fds' = [fds EXCEPT ![entry[p]] = @ + 1]
            /\ handles' = [handles EXCEPT ![entry[p]] = @ + 1]
            /\ Done(w, "open", OK)
         \/ Done(w, "open", "EACCES") /\ UNCHANGED <<fds, handles>>
      /\ UNCHANGED <<settings, source>>

Close_Twice(i) == fds' = [fds EXCEPT ![i] = @ - 2]
Close(i) == fds' = [fds EXCEPT ![i] = @ - 1]

bindfs_release(w) ==
  /\ pc[w] = "release"
  /\ Close(call[w].fd)
  /\ SetSource(entry, inode)
  /\ Goto(w, "release", "done")
  /\ call' = [call EXCEPT ![w].ret = OK, ![w].fd = None]
  /\ UNCHANGED <<settings, handles>>

(***************************************************************************)
(* delete_file, for bindfs_unlink and bindfs_rmdir.                        *)
(***************************************************************************)
delete_file(w) ==
  /\ pc[w] = "delete_file"
  /\ \/ settings.delete_deny /\ Done(w, "delete_file", "EPERM")
     \/ /\ ~settings.delete_deny
        /\ Goto(w, "delete_file", IF settings.resolve_symlinks THEN "delete_lstat" ELSE "delete_main")
        /\ call' = [call EXCEPT ![w].func = call[w].req.op]
  /\ FilesUnchanged

SymlinkStep_TargetFirst ==
  IF settings.resolved_symlink_deletion_policy = "symlink-only" THEN "delete_main" ELSE "target_first"
SymlinkStep ==
  CASE settings.resolved_symlink_deletion_policy = "symlink-only" -> "delete_main"
    [] settings.resolved_symlink_deletion_policy = "symlink-first" -> "symlink_first"
    [] settings.resolved_symlink_deletion_policy = "target-first" -> "target_first"

delete_lstat(w) ==
  LET policy == settings.resolved_symlink_deletion_policy
      kind == Kind(call[w].path)
  IN  /\ pc[w] = "delete_lstat"
      /\ \/ kind = None /\ Done(w, "delete_lstat", "ENOENT")
         \/ kind \in {"reg", "dir"} /\ Goto(w, "delete_lstat", "delete_main") /\ UNCHANGED call
         \/ kind = "lnk" /\ policy = "deny" /\ Done(w, "delete_lstat", "EPERM")
         \/ /\ kind = "lnk" /\ policy # "deny"
            /\ Goto(w, "delete_lstat", SymlinkStep)
            /\ call' = [call EXCEPT ![w].func = IF policy = "target-first" THEN @ ELSE "unlink"]
      /\ FilesUnchanged

(* realpath, for symlink-first and target-first.                           *)
symlink_first(w) ==
  LET q == realpath(call[w].path)
  IN  /\ pc[w] = "symlink_first"
      /\ \/ q \in Error \ {"ENOENT"} /\ Done(w, "symlink_first", q)
         \/ /\ q \notin Error \ {"ENOENT"}
            /\ Goto(w, "symlink_first", "delete_main")
            /\ call' = [call EXCEPT ![w].also = IF q = "ENOENT" THEN None ELSE q]
      /\ FilesUnchanged

target_first(w) ==
  LET q == realpath(call[w].path)
  IN  /\ pc[w] = "target_first"
      /\ \/ q \in Error \ {"ENOENT"} /\ Done(w, "target_first", q)
         \/ q = "ENOENT" /\ Goto(w, "target_first", "delete_main") /\ UNCHANGED call
         \/ /\ q \notin Error
            /\ Goto(w, "target_first", "delete_target")
            /\ call' = [call EXCEPT ![w].to = q]
      /\ FilesUnchanged

delete_target_Ignored(w) ==
  LET res == DeleteResult("unlink", call[w].to)
  IN  /\ pc[w] = "delete_target"
      /\ UNCHANGED <<settings, fds, handles, call>>
      /\ Goto(w, "delete_target", "delete_main")
      /\ \/ res = OK /\ Deleted(call[w].to)
         \/ UNCHANGED source
delete_target(w) ==
  LET res == DeleteResult("unlink", call[w].to)
  IN  /\ pc[w] = "delete_target"
      /\ UNCHANGED <<settings, fds, handles>>
      /\ \/ /\ res = OK /\ Deleted(call[w].to)
            /\ Goto(w, "delete_target", "delete_main") /\ UNCHANGED call
         \/ res # OK /\ Done(w, "delete_target", res) /\ UNCHANGED source
         \/ Done(w, "delete_target", "EACCES") /\ UNCHANGED source

delete_main(w) ==
  LET res == DeleteResult(call[w].func, call[w].path)
  IN  /\ pc[w] = "delete_main"
      /\ UNCHANGED <<settings, fds, handles>>
      /\ \/ /\ res = OK /\ Deleted(call[w].path)
            /\ \/ call[w].also = None /\ Done(w, "delete_main", OK)
               \/ /\ call[w].also # None
                  /\ Goto(w, "delete_main", "delete_also") /\ UNCHANGED call
         \/ res # OK /\ Done(w, "delete_main", res) /\ UNCHANGED source
         \/ Done(w, "delete_main", "EACCES") /\ UNCHANGED source

delete_also(w) ==
  /\ pc[w] = "delete_also"
  /\ UNCHANGED <<settings, fds, handles>>
  /\ \/ DeleteResult(call[w].req.op, call[w].also) = OK /\ Deleted(call[w].also)
     \/ UNCHANGED source
  /\ Done(w, "delete_also", OK)

(***************************************************************************)
(* bindfs_rename resolves the new name only; two names of one inode are    *)
(* left alone by rename.  bindfs_link resolves both.                       *)
(***************************************************************************)
bindfs_rename(w) ==
  /\ pc[w] = "bindfs_rename"
  /\ \/ settings.rename_deny /\ Done(w, "bindfs_rename", "EPERM")
     \/ ~settings.rename_deny /\ Goto(w, "bindfs_rename", "process_to") /\ UNCHANGED call
  /\ FilesUnchanged

rename(w) ==
  LET from == call[w].path
      to == call[w].to
      res == RenameResult(from, to)
  IN  /\ pc[w] = "rename"
      /\ UNCHANGED <<settings, fds, handles>>
      /\ \/ /\ res = OK /\ Done(w, "rename", OK)
            /\ \/ entry[from] = entry[to] /\ UNCHANGED source
               \/ /\ entry[from] # entry[to]
                  /\ SetSource([entry EXCEPT ![to] = entry[from], ![from] = None], inode)
         \/ res # OK /\ Done(w, "rename", res) /\ UNCHANGED source
         \/ Done(w, "rename", "EACCES") /\ UNCHANGED source

bindfs_link(w) ==
  LET from == call[w].path
      to == call[w].to
  IN  /\ pc[w] = "link"
      /\ UNCHANGED <<settings, fds, handles>>
      /\ \/ /\ Kind(from) \in {"reg", "lnk"} /\ Kind(to) = None
            /\ SetSource([entry EXCEPT ![to] = entry[from]], inode)
            /\ Done(w, "link", OK)
         \/ /\ \/ Kind(from) = None /\ Done(w, "link", "ENOENT")
               \/ Kind(from) = "dir" /\ Done(w, "link", "EPERM")
               \/ Kind(to) # None /\ Done(w, "link", "EEXIST")
               \/ Done(w, "link", "EACCES")
            /\ UNCHANGED source

(***************************************************************************)
(* bindfs_chmod.  With --chmod-allow-x it first looks at the file.         *)
(***************************************************************************)
chmod_lstat(w) ==
  LET node == NodeAt(call[w].path)
  IN  /\ pc[w] = "chmod_lstat"
      /\ \/ node.kind = None /\ Done(w, "chmod_lstat", "ENOENT")
         \/ /\ node.kind # None
            /\ Goto(w, "chmod_lstat", "chmod")
            /\ call' = [call EXCEPT ![w].st = node]
      /\ FilesUnchanged

chmod(w, mode) ==
  LET p == Walk(call[w].path)
  IN  /\ UNCHANGED <<settings, fds, handles>>
      /\ \/ /\ p \in Path /\ Kind(p) \in {"reg", "dir"}
            /\ SetNode(p, [NodeAt(p) EXCEPT !.mode = mode])
            /\ Done(w, "chmod", OK)
         \/ Kind(p) = None /\ Done(w, "chmod", "ENOENT") /\ UNCHANGED source
         \/ Done(w, "chmod", "EACCES") /\ UNCHANGED source

FileExecuteOnly(w) == call[w].st.kind = "reg"
Diff(w) == {b \in ModeBit : (b \in call[w].st.mode) # (b \in call[w].req.mode)}

DenyAllows_Any(w) == FileExecuteOnly(w)
DenyAllows(w) == FileExecuteOnly(w) /\ Diff(w) \subseteq {"x"}

IgnoredMode(w) == (call[w].st.mode \ {"x"}) \cup (call[w].req.mode \cap {"x"})

bindfs_chmod(w) ==
  /\ pc[w] = "chmod"
  /\ \/ /\ settings.chmod_policy = "CHMOD_NORMAL"
        /\ chmod(w, settings.chmod_permchain[call[w].req.mode])
     \/ /\ settings.chmod_policy = "CHMOD_IGNORE"
        /\ \/ FileExecuteOnly(w) /\ chmod(w, IgnoredMode(w))
           \/ ~FileExecuteOnly(w) /\ Done(w, "chmod", OK) /\ FilesUnchanged
     \/ /\ settings.chmod_policy = "CHMOD_DENY"
        /\ \/ DenyAllows(w) /\ chmod(w, call[w].req.mode)
           \/ ~DenyAllows(w) /\ Done(w, "chmod", "EPERM") /\ FilesUnchanged

(***************************************************************************)
(* bindfs_chown: both policies, then one lchown.                           *)
(***************************************************************************)
NewId_Always(policy, id) == id
NewId(policy, id) == IF policy = "IGNORE" THEN Keep ELSE id

IdError(policy, id) ==
  CASE id # Keep /\ policy = "DENY" -> "EPERM"
    [] id \in settings.unmappable /\ policy = "NORMAL" -> "EIO"
    [] OTHER -> OK

bindfs_chown(w) ==
  LET r == call[w].req
      user_error == IdError(settings.chown_policy, r.uid)
      err == IF user_error # OK THEN user_error ELSE IdError(settings.chgrp_policy, r.gid)
      nothing == /\ NewId(settings.chown_policy, r.uid) = Keep
                 /\ NewId(settings.chgrp_policy, r.gid) = Keep
  IN  /\ pc[w] = "bindfs_chown"
      /\ \/ (err # OK \/ nothing) /\ Done(w, "bindfs_chown", err)
         \/ /\ err = OK /\ ~nothing
            /\ Goto(w, "bindfs_chown", "process_path") /\ UNCHANGED call
      /\ FilesUnchanged

lchown(w) ==
  LET p == call[w].path
      r == call[w].req
  IN  /\ pc[w] = "chown"
      /\ UNCHANGED <<settings, fds, handles>>
      /\ \/ /\ Kind(p) # None
            /\ SetNode(p, ChownedNode(NodeAt(p), NewId(settings.chown_policy, r.uid),
                                                 NewId(settings.chgrp_policy, r.gid)))
            /\ Done(w, "chown", OK)
         \/ Kind(p) = None /\ Done(w, "chown", "ENOENT") /\ UNCHANGED source
         \/ Done(w, "chown", "EACCES") /\ UNCHANGED source

(* Environment: a chmod in the source directory itself.                    *)
SourceChmod ==
  /\ UNCHANGED <<settings, fds, handles, pc, call>>
  /\ \E p \in Path, mode \in SourceMode[settings] :
       /\ Kind(p) = "reg"
       /\ SetNode(p, [NodeAt(p) EXCEPT !.mode = mode])

Step(w) ==
  \/ Receive(w) \/ ReceiveRelease(w) \/ Reply(w) \/ ProcessPath(w) \/ ProcessTo(w)
  \/ bindfs_mknod(w) \/ bindfs_mkdir(w) \/ bindfs_symlink(w) \/ bindfs_create(w)
  \/ chown_new_file(w) \/ bindfs_open(w) \/ bindfs_release(w)
  \/ delete_file(w) \/ delete_lstat(w) \/ symlink_first(w) \/ target_first(w)
  \/ delete_target(w) \/ delete_main(w) \/ delete_also(w)
  \/ bindfs_rename(w) \/ rename(w) \/ bindfs_link(w)
  \/ chmod_lstat(w) \/ bindfs_chmod(w) \/ bindfs_chown(w) \/ lchown(w)

Next == (\E w \in Worker : Step(w)) \/ SourceChmod

Spec == Init /\ [][Next]_vars
-----------------------------------------------------------------------------
(* Types: names lead to inodes that exist, and only open or named inodes   *)
(* exist.                                                                  *)
TypeOK ==
  /\ settings \in Settings
  /\ entry \in [Path -> Ino \cup {None}] /\ inode \in [Ino -> Nodes]
  /\ \A i \in Ino : (inode[i].kind # None) <=> (i \in Range(entry) \/ fds[i] > 0)
  /\ fds \in [Ino -> 0..MaxFds] /\ handles \in [Ino -> 0..MaxFds]
  /\ pc \in [Worker -> PC]
  /\ DOMAIN call = Worker

(* No file descriptor is lost: each one that bindfs has open is either     *)
(* held by a handler that is still running or known to the kernel, which   *)
(* will release it.  It is why bindfs_create may not pass on an error of   *)
(* chown_new_file.                                                         *)
NoFdLeak ==
  \A i \in Ino : fds[i] = handles[i] + Cardinality({w \in Worker : call[w].fd = i})

(* The manual of --chmod-ignore and --chmod-deny with --chmod-allow-x: no  *)
(* step of a handler changes a bit of an existing file other than the      *)
(* execute bits of a regular file, and those only with --chmod-allow-x.    *)
(* It takes more than the test in the handler: between its lstat and its   *)
(* chmod another worker may have changed the file under another name.      *)
OnlyExecuteBits ==
  [][ settings.chmod_policy # "CHMOD_NORMAL" /\ pc' # pc =>
        \A i \in Ino :
          inode[i].kind = inode'[i].kind /\ inode[i].mode # inode'[i].mode =>
            /\ settings.chmod_allow_x /\ inode[i].kind = "reg"
            /\ inode[i].mode \ {"x"} = inode'[i].mode \ {"x"} ]_vars

(* Single-threaded mode is the default because between creating a file and *)
(* chowning it others could see it or put another in its place (BUGS in    *)
(* the manual): with it, a handler gives the caller as owner only to the   *)
(* file that it has itself created, and nothing but a chown request        *)
(* changes the owner of any other file.                                    *)
OwnFileChowned ==
  [][ ~settings.multithreaded =>
        \A i \in Ino :
          inode[i].kind = inode'[i].kind /\ inode[i].owner # inode'[i].owner =>
            \E w \in Worker : pc[w] # pc'[w] /\
              \/ call[w].req.op = "chown"
              \/ /\ i \notin Range(call[w].before.entry)
                 /\ inode'[i].owner = call[w].req.user ]_vars
-----------------------------------------------------------------------------
(* What a finished request has done, in single-threaded mode.              *)
Finished(w, ops) == ~settings.multithreaded /\ pc[w] = "done" /\ call[w].req.op \in ops
NodeBefore(w, p) ==
  LET b == call[w].before IN IF b.entry[p] = None THEN NoNode ELSE b.inode[b.entry[p]]
Gone(w) == {p \in Path : call[w].before.entry[p] # None /\ entry[p] = None}

(* The manual of --resolved-symlink-deletion: which names are gone after a *)
(* deletion through the mount, depending on what it returned.  With        *)
(* symlink-first the target goes only if the link went, and may stay; with *)
(* target-first the link goes only if the target went or there was none.   *)
DeletionPolicy ==
  \A w \in Worker : Finished(w, {"unlink", "rmdir"}) =>
    LET p == call[w].req.path
        ok == call[w].ret = OK
        policy == settings.resolved_symlink_deletion_policy
        target == call[w].target
    IN  /\ \A q \in Path \ Gone(w) : entry[q] = call[w].before.entry[q]
        /\ ok <=> p \in Gone(w)
        /\ settings.delete_deny => Gone(w) = {}
        /\ IF ~settings.resolve_symlinks \/ NodeBefore(w, p).kind # "lnk"
           THEN Gone(w) \subseteq {p}
           ELSE /\ policy = "deny" => Gone(w) = {}
                /\ policy = "symlink-only" => Gone(w) \subseteq {p}
                /\ policy = "symlink-first" => Gone(w) \subseteq {p, target} /\ (Gone(w) # {} => ok)
                /\ policy = "target-first" =>
                     Gone(w) \subseteq {p, target} /\ (ok => target \in Gone(w) \cup {"ENOENT"})

(* A request that fails leaves the source directory as it was.  Two cases  *)
(* do not, and the manual admits only the first: target-first may have     *)
(* deleted the target, and mknod, mkdir and symlink report EIO for a       *)
(* caller whose id has no image under --uid-offset though the file exists. *)
FailureLeavesNoTrace ==
  \A w \in Worker :
    /\ Finished(w, Ops) /\ call[w].ret # OK
    /\ ~(call[w].req.op \in {"unlink", "rmdir"} /\ settings.resolve_symlinks
           /\ settings.resolved_symlink_deletion_policy = "target-first")
    /\ ~(call[w].req.op \in {"mknod", "mkdir", "symlink"} /\ call[w].ret = "EIO")
    => call[w].before = Snapshot

(* The manual of the chown and chgrp policies for a chown that succeeds:   *)
(* each id is set if it was given and its policy is normal, and is kept    *)
(* otherwise; a denied id fails the whole call.                            *)
ChownPolicy ==
  \A w \in Worker : Finished(w, {"chown"}) /\ call[w].ret = OK =>
    LET r == call[w].req
        p == process_path(r.path, TRUE)
        was == NodeBefore(w, p)
    IN  /\ NodeAt(p).owner =
             IF r.uid # Keep /\ settings.chown_policy = "NORMAL" THEN r.uid ELSE was.owner
        /\ NodeAt(p).group =
             IF r.gid # Keep /\ settings.chgrp_policy = "NORMAL" THEN r.gid ELSE was.group
        /\ r.uid # Keep => settings.chown_policy # "DENY"
        /\ r.gid # Keep => settings.chgrp_policy # "DENY"
=============================================================================
