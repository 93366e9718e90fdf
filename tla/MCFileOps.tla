----------------------------- MODULE MCFileOps -----------------------------
(* A file or directory f, a symlink l, and a name n that is free at first. *)
EXTENDS FileOps, TLC

CONSTANTS f, l, n, u, v

Same == [m \in SUBSET ModeBit |-> m]
NoExecute == [m \in SUBSET ModeBit |-> m \ {"x"}]

Default ==
  [ multithreaded |-> FALSE, resolve_symlinks |-> FALSE, delete_deny |-> FALSE, rename_deny |-> FALSE,
    resolved_symlink_deletion_policy |-> "symlink-only",
    chmod_policy |-> "CHMOD_NORMAL", chmod_allow_x |-> FALSE,
    chown_policy |-> "NORMAL", chgrp_policy |-> "NORMAL",
    create_as_user |-> TRUE, setgid |-> FALSE, unmappable |-> {},
    create_permchain |-> Same, chmod_permchain |-> Same ]

Resolving == [Default EXCEPT !.resolve_symlinks = TRUE]
R(op, path, to) ==
  [ op |-> op, path |-> path, to |-> to, mode |-> {"w"}, user |-> u, uid |-> Keep, gid |-> Keep ]
Node(kind, mode, target) == [NoNode EXCEPT !.kind = kind, !.mode = mode, !.target = target]

(* Deleting, renaming and linking around a symlink, under every policy.    *)
LinkSettings ==
  { Default, [Default EXCEPT !.delete_deny = TRUE], [Resolving EXCEPT !.rename_deny = TRUE] } \cup
  { [Resolving EXCEPT !.resolved_symlink_deletion_policy = policy] :
      policy \in {"deny", "symlink-only", "symlink-first", "target-first"} }
LinkRequest ==
  {R(op, p, None) : op \in {"unlink", "rmdir"}, p \in Path} \cup
  {R("mkdir", n, None), R("mknod", n, None), R("mknod", f, None)} \cup
  {R("rename", p, q) : p \in {f, l}, q \in {f, l, n}} \cup {R("rename", n, f)} \cup
  {R("link", p, n) : p \in {f, l}} \cup {R("symlink", n, f)}
LinkSource ==
  { (f :> node) @@ (l :> Node("lnk", {}, target)) @@ (n :> NoNode) :
      node \in {Node("reg", {"w"}, None), Node("dir", {"w"}, None)}, target \in {f, n, l, MNT} }

(* Modes, owners and open files, on a file with two names.                 *)
AttrSettings ==
  { [Default EXCEPT !.chmod_policy = chmod_policy, !.chmod_allow_x = allow,
                    !.create_permchain = NoExecute] :
      chmod_policy \in {"CHMOD_NORMAL", "CHMOD_IGNORE", "CHMOD_DENY"}, allow \in BOOLEAN } \cup
  { [Default EXCEPT !.chown_policy = own, !.chgrp_policy = grp, !.unmappable = {v},
                    !.setgid = (own = grp), !.chmod_permchain = NoExecute,
                    !.create_as_user = (grp # "DENY")] :
      own \in {"NORMAL", "IGNORE", "DENY"}, grp \in {"NORMAL", "IGNORE", "DENY"} }
ChmodRequest(p) == {[R("chmod", p, None) EXCEPT !.mode = m] : m \in {{"x"}, {"w"}, {"w", "x"}}}
AttrRequest ==
  ChmodRequest(f) \cup
  {[R("chown", f, None) EXCEPT !.uid = a, !.gid = b] : a \in {Keep, u, v}, b \in {Keep, u, v}} \cup
  {[R(op, n, f) EXCEPT !.user = user] :
      op \in {"mknod", "mkdir", "symlink"}, user \in {u, v}} \cup
  {R(op, n, None) : op \in {"unlink", "rmdir"}}
ChmodRequests ==
  ChmodRequest(f) \cup ChmodRequest(n) \cup
  {R("link", f, n), R("create", n, None), R("release", f, None)}
FdRequest(s) ==
  {R("unlink", p, None) : p \in {f, n}} \cup
  {R("create", n, None), R("open", f, None), R("release", f, None)} \cup
  {R(op, n, None) : op \in IF s.unmappable = {} THEN {"mkdir", "rmdir"} ELSE {}}
AttrSource == { (f :> Node("reg", {"w"}, None)) @@ (n :> NoNode) @@ (l :> NoNode) }

(* One request at a time: what each request does.                          *)
SerialSettings == LinkSettings \cup AttrSettings

(* Two workers: chmods under --chmod-allow-x, and descriptors.             *)
Threads == [Default EXCEPT !.multithreaded = TRUE]
ChmodSettings ==
  { [Threads EXCEPT !.chmod_policy = "CHMOD_IGNORE", !.chmod_allow_x = TRUE],
    [Threads EXCEPT !.chmod_policy = "CHMOD_DENY", !.chmod_allow_x = TRUE, !.unmappable = {u}] }
FdSettings == {[Threads EXCEPT !.unmappable = bad] : bad \in {{}, {u}}}

AllSettings == SerialSettings \cup ChmodSettings \cup FdSettings
AllRequests ==
  [s \in AllSettings |->
     CASE s \in LinkSettings  -> LinkRequest
       [] s \in AttrSettings  -> AttrRequest
       [] s \in ChmodSettings -> ChmodRequests
       [] s \in FdSettings    -> FdRequest(s)]
AllSources == [s \in AllSettings |-> IF s \in LinkSettings THEN LinkSource ELSE AttrSource]
Executable == [s \in AllSettings |-> IF s \in ChmodSettings THEN {{"w", "x"}} ELSE {}]

WorkerSymmetry == Permutations(Worker)
=============================================================================
