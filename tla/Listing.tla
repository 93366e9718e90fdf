------------------------------- MODULE Listing ------------------------------
(***************************************************************************)
(* bindfs_readdir and bindfs_getattr as sequences of system calls, while   *)
(* another process changes the source directory, and the requests that     *)
(* bindfs sends to itself when one of these calls follows a symlink to the *)
(* mountpoint.                                                             *)
(*                                                                         *)
(* The source directory is flat and has the entries Name.  An entry is     *)
(* known by what it is and where it leads, attributes are those that tell  *)
(* the entries apart: a file, a symlink or a directory.  Caching of names  *)
(* and attributes is off (bindfs_init), so that each look into the mount   *)
(* is a request to the FUSE loop.                                          *)
(***************************************************************************)
EXTENDS Integers, Sequences, FiniteSets

CONSTANTS
  Client, Worker,
  Name,         \* names in the source directory
  Beneath,      \* the one that links to below the mountpoint lead to
  ROOT,         \* the root of the mount
  Kinds,        \* what entries are at first
  ChangedKinds, \* and what another process makes of them
  Settings,     \* option combinations
  MaxChanges    \* bound: changes of the source directory

None == "none"
OK == "ok"
Link == {"broken", "loop", "toFile", "toMount", "below"}
Kind == Link \cup {"absent", "file", "unmappable"}
Options == [resolve_symlinks : BOOLEAN, multithreaded : BOOLEAN]

Error == {"ENOENT", "EPERM", "EIO", "ELOOP", "EACCES"}
Attributes == {"reg", "lnk", "dir"}
MOUNT == "mount"      \* locations that realpath returns besides names
BELOW == "mount/..."
FILE == "elsewhere"
Location == Name \cup {FILE, MOUNT, BELOW}

ASSUME ListingAssumption ==
  /\ Beneath \in Name /\ ROOT \notin Name
  /\ (Name \cup {ROOT}) \cap (Error \cup {None, FILE, MOUNT, BELOW}) = {}
  /\ Client \cap Worker = {} /\ None \notin Client \cup Worker
  /\ Kinds \cup ChangedKinds \subseteq Kind /\ Settings \subseteq Options
  /\ MaxChanges \in Nat

VARIABLES
  settings,
  entry,      \* the source directory
  changes,
  want,       \* the request that a client, or a worker in a system call, waits for
  reply,      \* the answer to a worker's own request
  pc,
  job         \* the request of each worker, and the locals of its handler

vars == <<settings, entry, changes, want, reply, pc, job>>

Issuer == Client \cup Worker
Requests ==
  [op : {"getattr"}, name : Name \cup {ROOT}] \cup [op : {"readdir", "readdirplus"}, name : {ROOT}]
NoRequest == [op |-> None, name |-> None]
Lists(r) == r.op \in {"readdir", "readdirplus"}

(* from: who is answered; req: the request; stream: what readdir has yet   *)
(* to return, with d_type; name: de->d_name; path: the names in path_buf   *)
(* after the directory; loc: what lstat is about to look at; listed: what  *)
(* filler was given; res: the result; seen: history, what each entry has   *)
(* been since the request arrived.                                         *)
NoJob == [ from |-> None, req |-> NoRequest, stream |-> {}, name |-> None, path |-> <<>>,
           loc |-> None, errno |-> OK, listed |-> {}, res |-> None, seen |-> None ]

(***************************************************************************)
(* The source file system (external).  realpath gives a location or an     *)
(* error; to follow a link to below the mountpoint it looks the name up in *)
(* the mount.  lstat gives the attributes found at a location.             *)
(***************************************************************************)
RealpathOf(kind, n) ==
  CASE kind \in {"absent", "broken"} -> "ENOENT"
    [] kind = "loop"                 -> "ELOOP"
    [] kind = "toFile"               -> FILE
    [] kind = "toMount"              -> MOUNT
    [] OTHER                         -> n

KindAt(n) == IF n \in Name THEN entry[n] ELSE IF n = FILE THEN "file" ELSE "absent"
LstatOf(loc) ==
  IF loc = ROOT THEN "dir"
  ELSE CASE KindAt(loc) = "absent" -> "ENOENT"
         [] KindAt(loc) \in Link -> "lnk"
         [] OTHER -> "reg"

Init ==
  /\ settings \in Settings
  /\ entry \in [Name -> Kinds]
  /\ changes = 0
  /\ want = [i \in Issuer |-> NoRequest]
  /\ reply = [w \in Worker |-> None]
  /\ pc = [w \in Worker |-> "idle"]
  /\ job = [w \in Worker |-> NoJob]

Ask(c, r) ==
  /\ want[c] = NoRequest
  /\ want' = [want EXCEPT ![c] = r]
  /\ UNCHANGED <<settings, entry, changes, reply, pc, job>>

(* A name is removed, created or replaced in the source directory.         *)
Change(n, kind) ==
  /\ changes < MaxChanges /\ entry[n] # kind
  /\ entry' = [entry EXCEPT ![n] = kind]
  /\ changes' = changes + 1
  /\ job' = [w \in Worker |-> IF pc[w] = "idle" THEN job[w]
                              ELSE [job[w] EXCEPT !.seen[n] = @ \cup {kind}]]
  /\ UNCHANGED <<settings, want, reply, pc>>

(***************************************************************************)
(* The FUSE loop.  In single-threaded mode a request is read only when the *)
(* one before has been answered.                                           *)
(***************************************************************************)
FirstStep(r) ==
  CASE Lists(r) -> "opendir"
    [] settings.resolve_symlinks /\ r.name # ROOT -> "process_path"
    [] OTHER -> "lstat"

Receive(w, i) ==
  /\ pc[w] = "idle"
  /\ ~settings.multithreaded => \A v \in Worker : pc[v] = "idle"
  /\ want[i] # NoRequest /\ \A v \in Worker : job[v].from # i
  /\ pc' = [pc EXCEPT ![w] = FirstStep(want[i])]
  /\ job' = [job EXCEPT ![w] = [NoJob EXCEPT !.from = i, !.req = want[i], !.loc = want[i].name,
                                             !.seen = [n \in Name |-> {entry[n]}]]]
  /\ UNCHANGED <<settings, entry, changes, want, reply>>

Goto(w, from, to) == pc[w] = from /\ pc' = [pc EXCEPT ![w] = to]
Return(w, from, res) == Goto(w, from, "done") /\ job' = [job EXCEPT ![w].res = res]

Reply(w) ==
  LET i == job[w].from
  IN  /\ Goto(w, "done", "idle")
      /\ job' = [job EXCEPT ![w] = NoJob]
      /\ want' = [want EXCEPT ![i] = NoRequest]
      /\ reply' = IF i \in Worker THEN [reply EXCEPT ![i] = job[w].res] ELSE reply
      /\ UNCHANGED <<settings, entry, changes>>

(***************************************************************************)
(* A system call of worker w that has to look into the mount asks the FUSE *)
(* loop for the attributes of n and waits.                                 *)
(***************************************************************************)
LookInto(w, n) ==
  /\ reply[w] = None /\ want[w] = NoRequest
  /\ want' = [want EXCEPT ![w] = [op |-> "getattr", name |-> n]]
  /\ UNCHANGED <<settings, entry, changes, reply, pc, job>>

(* realpath(n) has returned v.                                             *)
Realpath(w, n, v) ==
  /\ \/ /\ reply[w] = None /\ want[w] = NoRequest
        /\ KindAt(n) # "below" /\ v = RealpathOf(KindAt(n), n)
     \/ /\ reply[w] # None
        /\ v = IF reply[w] \in Attributes THEN BELOW ELSE reply[w]
  /\ reply' = [reply EXCEPT ![w] = None]
  /\ UNCHANGED <<settings, entry, changes, want>>

(* lstat(loc) has returned v.                                              *)
Lstat(w, loc, v) ==
  /\ \/ loc \notin {MOUNT, BELOW} /\ v = LstatOf(loc)
     \/ loc \in {MOUNT, BELOW} /\ reply[w] # None /\ v = reply[w]
  /\ reply' = [reply EXCEPT ![w] = None]
  /\ UNCHANGED <<settings, entry, changes, want>>

(* The looks into the mount themselves, of both handlers.                  *)
Nest(w) ==
  \/ pc[w] \in {"process_path", "realpath"} /\ KindAt(job[w].loc) = "below" /\ LookInto(w, Beneath)
  \/ pc[w] \in {"lstat", "stat"} /\ job[w].loc = MOUNT /\ LookInto(w, ROOT)
  \/ pc[w] \in {"lstat", "stat"} /\ job[w].loc = BELOW /\ LookInto(w, Beneath)

(***************************************************************************)
(* bindfs_getattr.                                                         *)
(***************************************************************************)
Denied_Never(v) == FALSE
Denied(v) == v \in {MOUNT, BELOW}    \* path_starts_with(result, settings.mntdest)

process_path(w) ==
  /\ pc[w] = "process_path"
  /\ \E v \in Location \cup Error :
       /\ Realpath(w, job[w].loc, v)
       /\ \/ v = "ENOENT" /\ Goto(w, "process_path", "lstat") /\ UNCHANGED job
          \/ v \in Error \ {"ENOENT"} /\ Return(w, "process_path", v)
          \/ Denied(v) /\ Return(w, "process_path", "EPERM")
          \/ /\ v \in Location /\ ~Denied(v)
             /\ Goto(w, "process_path", "lstat")
             /\ job' = [job EXCEPT ![w].loc = v]

(* getattr_common fails for an owner without an image under the offsets.   *)
getattr_common(loc, st) == IF KindAt(loc) = "unmappable" THEN "EIO" ELSE st

bindfs_getattr(w) ==
  /\ pc[w] = "lstat"
  /\ \E v \in Attributes \cup Error :
       /\ Lstat(w, job[w].loc, v)
       /\ Return(w, "lstat", IF v \in Attributes THEN getattr_common(job[w].loc, v) ELSE v)

(***************************************************************************)
(* bindfs_readdir.                                                         *)
(***************************************************************************)
opendir(w) ==
  /\ pc[w] = "opendir"
  /\ \/ /\ Goto(w, "opendir", "readdir")
        /\ job' = [job EXCEPT ![w].stream =
             {[name |-> n, link |-> entry[n] \in Link] : n \in {m \in Name : entry[m] # "absent"}}]
     \/ Return(w, "opendir", "EACCES")
  /\ UNCHANGED <<settings, entry, changes, want, reply>>

plus(w) == job[w].req.op = "readdirplus"

(* What goes to filler; path_buf is cut back to the directory.             *)
Filled_NotCut(j, attr) ==
  [j EXCEPT !.listed = @ \cup {[name |-> j.name, attr |-> attr]}]
Filled(j, attr) ==
  [j EXCEPT !.listed = @ \cup {[name |-> j.name, attr |-> attr]}, !.path = <<>>]

ResetErrno_Not(j) == j
ResetErrno(j) == [j EXCEPT !.errno = OK]

(* path_buf holds the path of an entry if there is one name in it.         *)
Appended(j) ==
  LET path == Append(j.path, j.name)
  IN  [j EXCEPT !.path = path, !.loc = IF Len(path) = 1 THEN j.name ELSE "no such path"]

Resolves_Never(e) == FALSE
Resolves(e) == settings.resolve_symlinks /\ e.link

(* The call of readdir at the top of the loop, which may fail (EIO).       *)
readdir(w) ==
  LET j == ResetErrno(job[w])
  IN  /\ pc[w] = "readdir"
      /\ \/ /\ j.stream = {}
            /\ Return(w, "readdir", j.errno)
         \/ Return(w, "readdir", "EIO")
         \/ \E e \in j.stream :
              LET k == [j EXCEPT !.stream = @ \ {e}, !.name = e.name]
              IN  \/ /\ ~Resolves(e) /\ ~plus(w)
                     /\ Goto(w, "readdir", "readdir")
                     /\ job' = [job EXCEPT ![w] = Filled(k, None)]
                  \/ /\ Resolves(e) \/ plus(w)
                     /\ Goto(w, "readdir", IF Resolves(e) THEN "realpath" ELSE "stat")
                     /\ job' = [job EXCEPT ![w] = Appended(k)]
      /\ UNCHANGED <<settings, entry, changes, want, reply>>

readdir_realpath(w) ==
  /\ pc[w] = "realpath"
  /\ \E v \in Location \cup Error :
       /\ Realpath(w, job[w].loc, v)
       /\ Goto(w, "realpath", "stat")
       /\ job' = [job EXCEPT ![w] = IF v \in Error THEN [@ EXCEPT !.errno = v]
                                    ELSE [@ EXCEPT !.loc = v]]

readdir_stat(w) ==
  /\ pc[w] = "stat"
  /\ \E v \in Attributes \cup Error :
       LET res == IF v \in Attributes /\ plus(w) THEN getattr_common(job[w].loc, v) ELSE v
       IN  /\ Lstat(w, job[w].loc, v)
           /\ \/ res \notin Attributes /\ Return(w, "stat", res)
              \/ /\ res \in Attributes
                 /\ Goto(w, "stat", "readdir")
                 /\ job' = [job EXCEPT ![w] = Filled(@, IF plus(w) THEN res ELSE None)]

Step(w) ==
  \/ Reply(w) \/ Nest(w) \/ process_path(w) \/ bindfs_getattr(w)
  \/ opendir(w) \/ readdir(w) \/ readdir_realpath(w) \/ readdir_stat(w)

Next ==
  \/ \E c \in Client, r \in Requests : Ask(c, r)
  \/ \E n \in Name, kind \in ChangedKinds : Change(n, kind)
  \/ \E w \in Worker : Step(w) \/ \E i \in Issuer : Receive(w, i)

Spec == Init /\ [][Next]_vars

(* As for locks: requests are handed out in order, and a thread that does  *)
(* not wait for an answer goes on.                                         *)
FairSpec ==
  /\ Spec
  /\ \A i \in Issuer : SF_vars(\E w \in Worker : Receive(w, i))
  /\ \A w \in Worker : WF_vars(Step(w))
-----------------------------------------------------------------------------
(* Types; path_buf never holds more than the name in hand.                 *)
TypeOK ==
  /\ settings \in Settings
  /\ entry \in [Name -> Kind] /\ changes \in 0..MaxChanges
  /\ want \in [Issuer -> Requests \cup {NoRequest}]
  /\ reply \in [Worker -> Attributes \cup Error \cup {None}]
  /\ \A w \in Worker :
       /\ pc[w] \in {"idle", "process_path", "lstat", "opendir", "readdir", "realpath", "stat", "done"}
       /\ (pc[w] = "idle") = (job[w] = NoJob)
       /\ job[w].path \in {<<>>, <<job[w].name>>}
       /\ job[w].loc \in Location \cup {ROOT, None}

(* A listing that succeeds has every entry that was there all the time and *)
(* none that never was.  It fails with ENOENT only if an entry vanished    *)
(* under its hands: broken symlinks, whose realpath fails, do no harm.     *)
ListingExact ==
  \A w \in Worker : pc[w] = "done" /\ Lists(job[w].req) =>
    LET j == job[w]
        names == {e.name : e \in j.listed}
    IN  /\ j.res = OK =>
             /\ \A n \in Name : "absent" \notin j.seen[n] => n \in names
             /\ \A n \in names : j.seen[n] # {"absent"}
        /\ j.res = "ENOENT" => \E n \in Name : "absent" \in j.seen[n] /\ j.seen[n] # {"absent"}
        /\ j.res \in {"EPERM", "ELOOP"} => \E n \in Name : "below" \in j.seen[n]

(* What bindfs_getattr answers for an entry, if it does.                   *)
StatOf(kind) ==
  IF kind = "broken" \/ (kind \in Link /\ ~settings.resolve_symlinks) THEN "lnk" ELSE "reg"
Refuses(kind) ==
  kind \in {"absent", "unmappable"} \/ (settings.resolve_symlinks /\ kind \in {"loop", "toMount", "below"})

(* readdirplus saves the caller a stat of each entry: it lists an entry    *)
(* that does not change meanwhile with the attributes that bindfs_getattr  *)
(* would report, although it resolves links by code of its own.            *)
PlusAgreesWithStat ==
  \A w \in Worker : \A e \in job[w].listed : \A kind \in Kind :
    plus(w) /\ job[w].seen[e.name] = {kind} /\ ~Refuses(kind) => e.attr = StatOf(kind)

(* Every request is answered as long as bindfs does not call itself: no    *)
(* link leads to below the mountpoint, where realpath looks into it, and   *)
(* nobody lists the directory while it has a link to the mountpoint, which *)
(* bindfs_readdir follows.  bindfs_getattr denies the latter.              *)
CallsItself ==
  /\ settings.resolve_symlinks
  /\ \E n \in Name : \/ entry[n] = "below"
                     \/ entry[n] = "toMount" /\ \E c \in Client : Lists(want[c])
                     \/ \E w \in Worker : job[w].loc \in {MOUNT, BELOW} /\ Lists(job[w].req)
RequestsAnswered ==
  []~CallsItself => \A c \in Client : want[c] # NoRequest ~> want[c] = NoRequest

(* The manual of --resolve-symlinks: "accessing the mountpoint recursively *)
(* through a resolved symlink is not supported and will return an error".  *)
RecursionAnswered ==
  \A c \in Client : want[c] # NoRequest ~> want[c] = NoRequest
=============================================================================
