------------------------------- MODULE IdMap -------------------------------
(***************************************************************************)
(* How bindfs translates owners: the user map of usermap.c, filled by main *)
(* from --map-passwd, --map-passwd-rev and --map, the --uid-offset added   *)
(* to it, and the three handlers that use them on a file of the source     *)
(* directory (getattr_common, bindfs_chown, chown_new_file).               *)
(*                                                                         *)
(* The code for groups is that for users with the names changed, so one    *)
(* instance of this module stands for either.  bindfs is started by root,  *)
(* which every option here requires; one file stands for all files.        *)
(***************************************************************************)
EXTENDS Integers, Sequences

CONSTANTS
  UID_T_MAX,    \* as bindfs.c computes it: 2^(w-1) - 1 for a uid_t of w bits
  MapId,        \* the ids that the mapping options name
  MaxEntries,   \* bound: the number of entries of all mapping options
  Offset,       \* the values given to --uid-offset
  Settings      \* the combinations of the remaining options

NoId == 2 * UID_T_MAX + 1   \* (uid_t)-1, that is 2^w - 1: chown takes it as "keep"
Uid == 0..NoId
EIO == -1                   \* in place of a uid: UID_GID_OVERFLOW_ERRNO
Mounter == 0                \* root

Options ==
  [ new_uid : Uid, create_for_uid : Uid, mirrored : SUBSET Uid,
    create_policy : {"CREATE_AS_USER", "CREATE_AS_MOUNTER"},
    chown_policy : {"CHOWN_NORMAL", "CHOWN_IGNORE", "CHOWN_DENY"} ]

ASSUME IdMapAssumption ==
  /\ UID_T_MAX \in Nat /\ MaxEntries \in Nat
  /\ MapId \subseteq Uid /\ Offset \subseteq Int
  /\ Settings \subseteq Options

VARIABLES
  stage,       \* how far main is through the options, "mounted" or "exited"
  usermap, usermap_reverse,   \* sequences of entries [from, to]
  od_map,      \* whether --map was given
  uid_offset,
  settings,
  owner,       \* the owner of the file, in the source directory
  given,       \* history: the entries of the mapping options, in order
  asked        \* history: the owner last asked for through the mount, if it was set

maps == <<usermap, usermap_reverse>>
vars == <<stage, maps, od_map, uid_offset, settings, owner, given, asked>>

Entry == [from : Uid, to : Uid]
GivenEntry == [opt : {"passwd", "passwd_rev", "map"}, from : Uid, to : Uid]
Stage == {"passwd", "passwd_rev", "map", "offset", "mounted", "exited"}
Nobody == EIO   \* no owner asked for

(***************************************************************************)
(* usermap.c.  The lookup takes the first entry.  An entry that maps an id *)
(* to itself is dropped, before it is looked at for a duplicate; and an id *)
(* mapped to (uid_t)-1 does not count as mapped.                           *)
(***************************************************************************)
Keys(map) == {map[i].from : i \in DOMAIN map}

First(map, u) ==
  CHOOSE i \in DOMAIN map :
    map[i].from = u /\ \A j \in 1..(i - 1) : map[j].from # u

usermap_get_or_default(map, u, deflt) ==
  IF u \in Keys(map) THEN map[First(map, u)].to ELSE deflt

IsDuplicate_Never(map, from) == FALSE
IsDuplicate(map, from) == usermap_get_or_default(map, from, NoId) # NoId

Accepts(map, from, to) == from = to \/ ~IsDuplicate(map, from)

usermap_add(map, from, to) ==
  IF from = to THEN map ELSE Append(map, [from |-> from, to |-> to])

Init ==
  /\ stage = "passwd"
  /\ usermap = <<>> /\ usermap_reverse = <<>>
  /\ od_map = FALSE
  /\ uid_offset = 0
  /\ settings \in Settings
  /\ owner = Mounter
  /\ given = <<>>
  /\ asked = Nobody

(***************************************************************************)
(* One entry of a mapping option.  It goes into one map and, swapped, into *)
(* the other; when either refuses it, main exits.                          *)
(***************************************************************************)
AddBoth(first, second, from, to) ==
  \/ /\ Accepts(first, from, to) /\ Accepts(second, to, from)
     /\ first' = usermap_add(first, from, to)
     /\ second' = usermap_add(second, to, from)
     /\ UNCHANGED stage
  \/ /\ Accepts(first, from, to) /\ ~Accepts(second, to, from)
     /\ first' = usermap_add(first, from, to)
     /\ stage' = "exited"
     /\ UNCHANGED second
  \/ /\ ~Accepts(first, from, to)
     /\ stage' = "exited"
     /\ UNCHANGED <<first, second>>

Given(opt, from, to) ==
  /\ stage = opt
  /\ Len(given) < MaxEntries
  /\ given' = Append(given, [opt |-> opt, from |-> from, to |-> to])
  /\ UNCHANGED <<od_map, uid_offset, settings, owner, asked>>

(* The id column of the file is mapped to the id that its name has here.   *)
parse_map_file ==
  \E from, to \in MapId :
    \/ Given("passwd", from, to) /\ AddBoth(usermap, usermap_reverse, from, to)
    \/ Given("passwd_rev", to, from) /\ AddBoth(usermap_reverse, usermap, from, to)

parse_user_map ==
  \E from, to \in MapId :
    od_map /\ Given("map", from, to) /\ AddBoth(usermap, usermap_reverse, from, to)

(* A file that cannot be read or a line that ends early, an unknown user   *)
(* or a missing slash in --map, an offset that is not a number.            *)
Malformed ==
  /\ stage \in {"passwd", "passwd_rev", "map", "offset"}
  /\ stage = "map" => od_map
  /\ stage' = "exited"
  /\ UNCHANGED <<maps, od_map, uid_offset, settings, owner, given, asked>>

(* main goes on to its next option, which is given or not.                 *)
NextOption ==
  /\ \/ stage = "passwd" /\ stage' = "passwd_rev" /\ UNCHANGED od_map
     \/ stage = "passwd_rev" /\ stage' = "map" /\ od_map' \in BOOLEAN
     \/ stage = "map" /\ stage' = "offset" /\ UNCHANGED od_map
  /\ UNCHANGED <<maps, uid_offset, settings, owner, given, asked>>

ParseOffset ==
  /\ stage = "offset"
  /\ \/ stage' = "mounted" /\ UNCHANGED uid_offset
     \/ ~od_map /\ stage' = "mounted" /\ uid_offset' \in Offset
     \/ od_map /\ stage' = "exited" /\ UNCHANGED uid_offset
  /\ UNCHANGED <<maps, od_map, settings, owner, given, asked>>

(***************************************************************************)
(* The offset.  It is applied whether or not --uid-offset was given.       *)
(***************************************************************************)
bounded_add_Unchecked(a, b, max) == a + b
bounded_add(a, b, max) == IF a + b \in 0..max THEN a + b ELSE EIO

apply_uid_offset(u) == bounded_add(u, uid_offset, UID_T_MAX)

unapply_uid_offset_Again(u) == bounded_add(u, uid_offset, UID_T_MAX)
unapply_uid_offset(u) == bounded_add(u, -uid_offset, UID_T_MAX)

(* The owner that a user sees, or EIO.                                     *)
getattr_common(user) ==
  LET uid == apply_uid_offset(usermap_get_or_default(usermap, owner, owner))
  IN  IF uid = EIO THEN EIO
      ELSE IF user \in settings.mirrored THEN user
      ELSE IF settings.new_uid # NoId THEN settings.new_uid
      ELSE uid

(***************************************************************************)
(* bindfs_chown.  The source file system may refuse the lchown.            *)
(***************************************************************************)
Chowned(uid) ==
  LET source == unapply_uid_offset(usermap_get_or_default(usermap_reverse, uid, uid))
  IN  \/ source # EIO /\ owner' = source /\ asked' = uid
      \/ UNCHANGED <<owner, asked>>

bindfs_chown ==
  /\ stage = "mounted"
  /\ \E uid \in Uid \ {NoId} :
       \/ settings.chown_policy = "CHOWN_NORMAL" /\ Chowned(uid)
       \/ settings.chown_policy \in {"CHOWN_IGNORE", "CHOWN_DENY"}
          /\ UNCHANGED <<owner, asked>>
  /\ UNCHANGED <<stage, maps, od_map, uid_offset, settings, given>>

(***************************************************************************)
(* chown_new_file, on a file that the mounter has just created for a user. *)
(* A chown that the source refuses is ignored.                             *)
(***************************************************************************)
FileOwner(user) ==
  usermap_get_or_default(usermap_reverse, user,
    IF settings.create_policy = "CREATE_AS_USER" THEN user ELSE NoId)

chown_new_file ==
  /\ stage = "mounted"
  /\ \E user \in Uid \ {NoId} :
       LET file_owner == FileOwner(user)
           source == IF file_owner = NoId THEN NoId ELSE unapply_uid_offset(file_owner)
           forced == settings.create_for_uid
       IN  \/ source # EIO /\ forced # NoId /\ owner' = forced /\ asked' = Nobody
           \/ source \notin {EIO, NoId} /\ forced = NoId /\ owner' = source /\ asked' = user
           \/ owner' = Mounter /\ asked' = Nobody
  /\ UNCHANGED <<stage, maps, od_map, uid_offset, settings, given>>

(* Environment: the file is chowned in the source directory.               *)
SourceChown ==
  /\ stage = "mounted"
  /\ owner' \in Uid \ {NoId}
  /\ asked' = Nobody
  /\ UNCHANGED <<stage, maps, od_map, uid_offset, settings, given>>

Next ==
  \/ parse_map_file \/ parse_user_map \/ Malformed \/ NextOption \/ ParseOffset
  \/ bindfs_chown \/ chown_new_file \/ SourceChown

Spec == Init /\ [][Next]_vars
-----------------------------------------------------------------------------
(* Types.  In particular no translation ever makes an owner of (uid_t)-1,  *)
(* which chown would take as "leave it" while bindfs reports success.      *)
TypeOK ==
  /\ stage \in Stage
  /\ usermap \in Seq(Entry) /\ usermap_reverse \in Seq(Entry)
  /\ od_map \in BOOLEAN
  /\ uid_offset \in Int
  /\ settings \in Settings
  /\ owner \in Uid \ {NoId}
  /\ given \in Seq(GivenEntry)
  /\ asked \in {Nobody} \cup (Uid \ {NoId})

IsInverse(f, g) ==
  \A i \in DOMAIN f : \E j \in DOMAIN g : g[j] = [from |-> f[i].to, to |-> f[i].from]

HasUniqueKeys(f) == \A i, j \in DOMAIN f : f[i].from = f[j].from => i = j

(* Once bindfs is mounted, usermap and usermap_reverse are inverse partial *)
(* functions, however the entries were spread over --map-passwd,           *)
(* --map-passwd-rev and --map: an option that fails half way through its   *)
(* two usermap_add calls never gets as far as fuse_main.                   *)
MapsInverse ==
  stage = "mounted" =>
    /\ HasUniqueKeys(usermap) /\ HasUniqueKeys(usermap_reverse)
    /\ IsInverse(usermap, usermap_reverse) /\ IsInverse(usermap_reverse, usermap)

(* What a chown or a creation through the mount asked for is what getattr  *)
(* then shows.  It must be left out for an id on the left of a slash and   *)
(* on the right of none (its files are shown as someone else's), for a map *)
(* combined with an offset, which chown undoes in the wrong order, and for *)
(* ids above UID_T_MAX, which getattr refuses.                             *)
ChownRoundTrip ==
  \A user \in Uid \ settings.mirrored :
    /\ stage = "mounted"
    /\ asked # Nobody /\ asked <= UID_T_MAX
    /\ asked \in Keys(usermap) => asked \in Keys(usermap_reverse)
    /\ usermap = <<>> \/ uid_offset = 0
    /\ settings.new_uid = NoId
    => getattr_common(user) = asked

(* The manual of --map, to which --map-passwd is said to be alike: "When   *)
(* files are chowned to user2, they are chowned to user1 in the underlying *)
(* directory".                                                             *)
ChownReachesMappedUser ==
  stage = "mounted" /\ asked \in Keys(usermap_reverse) =>
    owner = usermap_get_or_default(usermap_reverse, asked, asked)
=============================================================================
