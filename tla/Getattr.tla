------------------------------- MODULE Getattr ------------------------------
(***************************************************************************)
(* getattr_common: what bindfs shows of a file, from an lstat to the       *)
(* answer, composed with the permission chain that it applies (PermChain). *)
(* The file may be replaced in the source directory between the system     *)
(* calls of a request.  What becomes of the owner is IdMap's subject:      *)
(* here an owner has an image or none.                                     *)
(*                                                                         *)
(* The type of a file is the set of its S_IFMT bits, since the code works  *)
(* on the bits.                                                            *)
(***************************************************************************)
EXTENDS PermChain

CONSTANTS
  File,        \* files of the source directory
  Settings,    \* option combinations
  MaxChanges   \* bound: how often the file is replaced

S_IFDIR == {14}
S_IFBLK == {13, 14}
S_IFREG == {15}
S_IFLNK == {13, 15}
S_IFSOCK == {14, 15}
Type == {{12}, {13}, S_IFDIR, S_IFBLK, S_IFREG, S_IFLNK, S_IFSOCK}

(* access: what access(2) grants the user that bindfs runs as.             *)
FileType == [ type : Type, bits : SUBSET (Bit \cup Special), nlink : 1..2,
              mappable : BOOLEAN, access : SUBSET Permission ]
Options == [ mirror : {"no", "yes", "only"}, hide_hard_links : BOOLEAN,
             block_devices_as_files : BOOLEAN, realistic_permissions : BOOLEAN ]
Caller == {"root", "mirrored", "other"}

ASSUME GetattrAssumption ==
  File \subseteq FileType /\ Settings \subseteq Options /\ MaxChanges \in Nat

VARIABLES
  settings, file, changes,
  pc, caller, st,   \* the request under way: its caller and stbuf
  checks,           \* calls of access that are still to be made
  ret,
  seen              \* history: what the file has been during the request

request == <<pc, caller, st, checks, ret>>
chain == <<phase, newpc, permchain, applying, spec>>
allvars == <<settings, file, changes, request, seen, chain>>

None == "none"
OK == "ok"
NoStat == [type |-> {}, bits |-> {}, nlink |-> 0, mappable |-> FALSE, owner |-> None]

AttrInit ==
  /\ Init
  /\ settings \in Settings /\ file \in File /\ changes = 0
  /\ pc = "idle" /\ caller = None /\ st = NoStat /\ checks = <<>> /\ ret = None
  /\ seen = {}

(* main reads the specification of --perms before it mounts.               *)
Parse ==
  /\ add_rule \/ permchain_cat \/ syntax_error
  /\ UNCHANGED <<settings, file, changes, request, seen>>

Replace(f) ==
  /\ phase \notin {"parsing", "invalid"} /\ changes < MaxChanges /\ f # file
  /\ file' = f /\ changes' = changes + 1
  /\ seen' = IF pc = "idle" THEN seen ELSE seen \cup {f}
  /\ UNCHANGED <<settings, request, chain>>

Goto(from, to) == pc = from /\ pc' = to
Return(from, r) == Goto(from, "done") /\ ret' = r
FileKept == UNCHANGED <<settings, file, changes, seen>>

lstat(c) ==
  /\ phase = "parsed"
  /\ Goto("idle", "getattr_common")
  /\ caller' = c /\ seen' = {file}
  /\ st' = [type |-> file.type, bits |-> file.bits, nlink |-> file.nlink,
            mappable |-> file.mappable, owner |-> "mapped"]
  /\ UNCHANGED <<settings, file, changes, checks, ret, chain>>

Mirrored == settings.mirror # "no" /\ caller = "mirrored"
ShutOut == ~Mirrored /\ settings.mirror = "only" /\ caller # "root"

SymmetricDifference(S, T) == (S \ T) \cup (T \ S)

(* Up to the first system call.                                            *)
getattr_common ==
  LET block == settings.block_devices_as_files /\ st.type = S_IFBLK
      owned == IF Mirrored THEN [st EXCEPT !.owner = "caller"] ELSE st
  IN  /\ pc = "getattr_common"
      /\ \/ ~st.mappable /\ Return("getattr_common", "EIO") /\ UNCHANGED st
         \/ /\ st.mappable /\ ShutOut
            /\ st' = [owned EXCEPT !.bits = @ \ Bit]
            /\ Return("getattr_common", OK)
         \/ /\ st.mappable /\ ~ShutOut
            /\ st' = [ owned EXCEPT
                         !.nlink = IF settings.hide_hard_links THEN 1 ELSE @,
                         !.type = IF block THEN SymmetricDifference(@, S_IFBLK \cup S_IFREG) ELSE @ ]
            /\ Goto("getattr_common", IF block THEN "open" ELSE "permissions")
            /\ UNCHANGED ret
      /\ FileKept /\ UNCHANGED <<caller, checks, chain>>

(* open, ioctl and close: the size of a block device.                      *)
BlockSize ==
  /\ pc = "open"
  /\ \/ \E error \in {"EACCES", "ENOENT", "EOVERFLOW"} : Return("open", error)
     \/ Goto("open", "permissions") /\ UNCHANGED ret
  /\ FileKept /\ UNCHANGED <<caller, st, checks, chain>>

HasPermissions_AnyBit(type) == type \cap S_IFLNK = {}
HasPermissions(type) == type \cap S_IFLNK # S_IFLNK

StartChain ==
  /\ pc = "permissions"
  /\ \/ /\ HasPermissions(st.type)
        /\ permchain_apply
        /\ original_mode' = [dir |-> st.type = S_IFDIR, bits |-> st.bits]
        /\ Goto("permissions", "permchain_apply") /\ UNCHANGED ret
     \/ /\ ~HasPermissions(st.type)
        /\ Return("permissions", OK) /\ UNCHANGED chain
  /\ FileKept /\ UNCHANGED <<caller, st, checks>>

ChainLink == ApplyLink /\ UNCHANGED <<settings, file, changes, request, seen>>

EndChain ==
  /\ ReturnMode
  /\ st' = [st EXCEPT !.bits = tgtmode.bits]
  /\ \/ /\ settings.realistic_permissions /\ Goto("permchain_apply", "access")
        /\ checks' = <<"r", "w", "x">> /\ UNCHANGED ret
     \/ /\ ~settings.realistic_permissions /\ Return("permchain_apply", OK)
        /\ UNCHANGED checks
  /\ FileKept /\ UNCHANGED caller

Hidden_Owner(p) == {<<"u", p>>}
Hidden(p) == All({p})

(* One call of access.                                                     *)
access ==
  /\ pc = "access"
  /\ \/ /\ checks # <<>>
        /\ checks' = Tail(checks)
        /\ st' = IF Head(checks) \in file.access THEN st
                 ELSE [st EXCEPT !.bits = @ \ Hidden(Head(checks))]
        /\ UNCHANGED <<pc, ret>>
     \/ /\ checks = <<>> /\ Return("access", OK)
        /\ UNCHANGED <<st, checks>>
  /\ FileKept /\ UNCHANGED <<caller, chain>>

Reply ==
  /\ Goto("done", "idle")
  /\ caller' = None /\ st' = NoStat /\ ret' = None /\ seen' = {}
  /\ UNCHANGED <<settings, file, changes, checks, chain>>

AttrNext ==
  \/ Parse \/ (\E c \in Caller : lstat(c)) \/ getattr_common \/ BlockSize
  \/ StartChain \/ ChainLink \/ EndChain \/ access \/ Reply
  \/ \E f \in File : Replace(f)

AttrSpec == AttrInit /\ [][AttrNext]_allvars
-----------------------------------------------------------------------------
(* Types: those of the chain, and what is shown has the type and the bits  *)
(* of a file.                                                              *)
AttrTypeOK ==
  /\ TypeOK
  /\ settings \in Settings /\ file \in File /\ changes \in 0..MaxChanges
  /\ pc # "idle" => st.type \in Type /\ st.bits \subseteq Bit \cup Special /\ caller \in Caller
  /\ pc = "permchain_apply" <=> phase = "applying"
  /\ checks # <<>> => pc = "access"

(* What bindfs shows of a file that stays as it is for the time of the     *)
(* request: the bits that the specification of --perms says, less those    *)
(* that --realistic-permissions hides; for a caller whom --mirror-only     *)
(* shuts out none of them; symlinks keep theirs.  A block device is shown  *)
(* as a file and judged by the rules for files.                            *)
ShownExactly ==
  pc = "done" /\ ret = OK /\ seen = {file} =>
    LET mode == [dir |-> file.type = S_IFDIR, bits |-> file.bits]
        promised(bit) == settings.realistic_permissions /\ bit \in Bit => bit[2] \in file.access
    IN  /\ st.bits = IF ShutOut THEN file.bits \cap Special
                     ELSE IF file.type = S_IFLNK THEN file.bits
                     ELSE {bit \in Bit \cup Special : Expected(bit, Len(spec), mode) /\ promised(bit)}
        /\ st.type = IF settings.block_devices_as_files /\ file.type = S_IFBLK /\ ~ShutOut
                     THEN S_IFREG ELSE file.type
        /\ st.owner = IF Mirrored THEN "caller" ELSE "mapped"

(* The manual of --realistic-permissions: "Hides read/write/execute        *)
(* permissions for a mirrored file when the mounter doesn't have           *)
(* read/write/execute access to the underlying file."  Whatever takes the  *)
(* place of the file during a request, no permission is shown that bindfs  *)
(* did not have at any moment of it, and none at all to a caller whom      *)
(* --mirror-only shuts out.                                                *)
NothingOverpromised ==
  pc = "done" /\ ret = OK =>
    \A bit \in st.bits \cap Bit :
      /\ ~ShutOut
      /\ settings.realistic_permissions /\ st.type # S_IFLNK => \E f \in seen : bit[2] \in f.access
=============================================================================
