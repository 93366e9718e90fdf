------------------------------- MODULE Startup ------------------------------
(***************************************************************************)
(* Parts of main between the options and fuse_main: the list of mirrored   *)
(* users (parse_mirrored_users); the removal of options that are meant for *)
(* mount(8) from the arguments of fuse_main (filter_special_opts), with    *)
(* its arena of memory; the first build of the user cache.  Then one       *)
(* request: the test for recursive access to the mountpoint that           *)
(* process_path makes, or a lookup in the cache.                           *)
(*                                                                         *)
(* Names in the list of mirrored users are made of "u"; whether there is   *)
(* such a user is open.  An argument is a word like -s, or has options: a  *)
(* list, a list after -o, or a lone -o that applies to the next argument.  *)
(***************************************************************************)
EXTENDS StringHelpers, CacheArrays, Arena

CONSTANTS
  Option, Ignored,   \* -o options, and those that keep_option drops
  OptLen,            \* their lengths
  Inputs             \* records of the options (mirror, argv, mntdest), the user
                     \* database (users), and later requests (paths, keys)

ASSUME StartupAssumption ==
  /\ Ignored \subseteq Option
  /\ OptLen \in [Option -> Nat \ {0}]

VARIABLES
  input,
  stage,
  mirror,    \* locals and results of parse_mirrored_users
  argv, idx, \* the arguments, and how far merge_o_args or filter_o_opts has come
  cache,     \* uid_cache with its capacity, and cache_memory_block
  request    \* a path that a request resolved to, and what became of it

vars == <<input, stage, mirror, argv, idx, arena, cache, request>>

None == <<"none">>     \* no list of mirrored users
NoMirror == [p |-> 0, i |-> 0, j |-> 0, num_users |-> 0, num_members |-> 0]
NoRequest == [path |-> <<>>, denied |-> FALSE, dir |-> <<>>, key |-> -1, found |-> FALSE]

Init ==
  /\ input \in Inputs
  /\ stage = "mirror"
  /\ mirror = NoMirror
  /\ argv = input.argv /\ idx = 0
  /\ arena_init
  /\ cache = [ents |-> <<>>, capacity |-> 0, block |-> init_memory_block]
  /\ request = NoRequest

(***************************************************************************)
(* parse_mirrored_users.                                                   *)
(***************************************************************************)
Separators == {",", ":"}

num_members_NoColon(s) ==
  (IF s # <<>> /\ s[1] = "@" THEN 1 ELSE 0) + count_substrs(s, <<",", "@">>)
num_members(s) ==
  (IF s # <<>> /\ s[1] = "@" THEN 1 ELSE 0)
    + count_substrs(s, <<",", "@">>) + count_substrs(s, <<":", "@">>)

num_mirrored_Commas(s) == count_chars(s, ",") + 1
num_mirrored(s) == count_chars(s, ",") + count_chars(s, ":") + 1

CountMirrored ==
  /\ stage = "mirror"
  /\ \/ input.mirror = None /\ stage' = "dup_argv" /\ UNCHANGED mirror
     \/ /\ input.mirror # None /\ stage' = "mirror_loop"
        /\ mirror' = [ p |-> 1, i |-> 0, j |-> 0, num_members |-> num_members(input.mirror),
                       num_users |-> num_mirrored(input.mirror) - num_members(input.mirror) ]
  /\ UNCHANGED <<input, argv, idx, arena, cache, request>>

(* One turn of the loop.  user_uid and group_gid take an empty name for 0. *)
ParseMirrored ==
  LET rest == SubSeq(input.mirror, mirror.p, Len(input.mirror))
      tmpstr == strdup_until(rest, Separators)
      group == tmpstr # <<>> /\ tmpstr[1] = "@"
      name == IF group THEN Tail(tmpstr) ELSE tmpstr
      last == Len(tmpstr) = Len(rest)
      next == [ mirror EXCEPT !.p = @ + Len(tmpstr) + (IF last THEN 0 ELSE 1),
                              !.i = IF group THEN @ ELSE @ + 1, !.j = IF group THEN @ + 1 ELSE @ ]
      counters == next.i = next.num_users /\ next.j = next.num_members
  IN  /\ stage = "mirror_loop"
      /\ mirror.i < mirror.num_users \/ mirror.j < mirror.num_members
      /\ mirror' = next
      /\ \/ name # <<>> /\ stage' = "exit"             \* no such user
         \/ ~last /\ stage' = "mirror_loop"
         \/ last /\ stage' = IF counters THEN "mirror_loop" ELSE "abort"    \* the assertions
      /\ UNCHANGED <<input, argv, idx, arena, cache, request>>

MirrorParsed ==
  /\ stage = "mirror_loop"
  /\ ~(mirror.i < mirror.num_users \/ mirror.j < mirror.num_members)
  /\ stage' = "dup_argv"
  /\ UNCHANGED <<input, mirror, argv, idx, arena, cache, request>>

(***************************************************************************)
(* filter_special_opts.  Arguments are [kind, opts, commas] with commas    *)
(* counting those that separate nothing.                                   *)
(***************************************************************************)
SumOf(s) == FoldLeft(LAMBDA n, opt : n + OptLen[opt], 0, s)
strlen(arg) ==
  (CASE arg.kind = "-o" -> 2 [] arg.kind = "lone -o" -> 2 [] arg.kind = "list" -> 0 [] OTHER -> 3)
    + SumOf(arg.opts) + (IF arg.opts = <<>> THEN 0 ELSE Len(arg.opts) - 1) + arg.commas

PointerSize == 8

(* Index 0 is the list of pointers.                                        *)
dup_argv ==
  /\ stage = "dup_argv"
  /\ \/ /\ idx <= Len(argv) /\ idx' = idx + 1 /\ UNCHANGED stage
        /\ arena_malloc(IF idx = 0 THEN (Len(argv) + 1) * PointerSize ELSE strlen(argv[idx]) + 1)
     \/ /\ idx > Len(argv) /\ idx' = 1 /\ stage' = "merge_o_args"
        /\ UNCHANGED arena
  /\ UNCHANGED <<input, mirror, argv, cache, request>>

(* A lone -o is never the last argument: main has appended others.         *)
merge_o_args ==
  /\ stage = "merge_o_args"
  /\ \/ /\ idx > Len(argv)
        /\ stage' = "filter_o_opts" /\ idx' = 1
        /\ UNCHANGED <<argv, arena>>
     \/ /\ idx <= Len(argv) /\ argv[idx].kind # "lone -o"
        /\ idx' = idx + 1 /\ UNCHANGED <<stage, argv, arena>>
     \/ /\ idx < Len(argv) /\ argv[idx].kind = "lone -o"
        /\ LET merged == [argv[idx + 1] EXCEPT !.kind = "-o"]
           IN  /\ argv' = RemoveAt([argv EXCEPT ![idx] = merged], idx + 1)
               /\ arena_malloc(strlen(merged) + 1)
        /\ idx' = idx + 1 /\ UNCHANGED stage
  /\ UNCHANGED <<input, mirror, cache, request>>

keep_option_All(opt) == TRUE
keep_option(opt) == opt \notin Ignored

(* An argument without options left is removed; the loop goes on to the    *)
(* next index all the same, past the argument that took its place.         *)
filter_o_opts ==
  LET arg == argv[idx]
      filtered == [arg EXCEPT !.opts = SelectSeq(@, keep_option), !.commas = 0]
  IN  /\ stage = "filter_o_opts"
      /\ \/ /\ idx > Len(argv)
            /\ stage' = "init_user_cache" /\ arena_free
            /\ UNCHANGED <<argv, idx>>
         \/ /\ idx <= Len(argv) /\ arg.kind # "-o"
            /\ idx' = idx + 1 /\ UNCHANGED <<stage, argv, arena>>
         \/ /\ idx <= Len(argv) /\ arg.kind = "-o"
            /\ argv' = IF filtered.opts # <<>> THEN [argv EXCEPT ![idx] = filtered] ELSE RemoveAt(argv, idx)
            /\ arena_malloc(strlen(arg) + 1)
            /\ idx' = idx + 1 /\ UNCHANGED stage
      /\ UNCHANGED <<input, mirror, cache, request>>

(***************************************************************************)
(* init_user_cache, if users are mirrored: rebuild_uid_cache copies the    *)
(* entries of the database, and the ids are sorted for lookups.            *)
(***************************************************************************)
rebuild_uid_cache ==
  LET n == Len(cache.ents)
      user == input.users[n + 1]
  IN  /\ stage = "init_user_cache" /\ input.mirror # None /\ n < Len(input.users)
      /\ cache' =
           [ ents |-> Append(cache.ents, [uid |-> user.uid, offset |-> cache.block.size, len |-> user.len + 1]),
             capacity |-> IF n = cache.capacity THEN grow_array(cache.capacity) ELSE cache.capacity,
             block |-> grow_memory_block(cache.block, user.len + 1) ]
      /\ UNCHANGED <<input, stage, mirror, argv, idx, arena, request>>

SortUids ==
  /\ stage = "init_user_cache" /\ stage' = "fuse_main"
  /\ \/ input.mirror = None /\ UNCHANGED cache
     \/ /\ input.mirror # None /\ Len(cache.ents) = Len(input.users)
        /\ \E ents \in qsort(cache.ents) : cache' = [cache EXCEPT !.ents = ents]
  /\ UNCHANGED <<input, mirror, argv, idx, arena, request>>

uid_cache_lookup(key) ==
  /\ stage = "fuse_main" /\ request = NoRequest /\ input.mirror # None
  /\ request' = [NoRequest EXCEPT !.path = <<".">>, !.key = key, !.found = bsearch(key, cache.ents)]
  /\ UNCHANGED <<input, stage, mirror, argv, idx, arena, cache>>

(***************************************************************************)
(* A request: process_path denies access to the mountpoint if it has       *)
(* resolved the path, which makes it absolute; a path that it has not      *)
(* resolved is relative to the source.  chown_new_file looks at the        *)
(* directory of a new file.                                                *)
(***************************************************************************)
Request(path) ==
  /\ stage = "fuse_main" /\ request = NoRequest
  /\ request' =
       [ NoRequest EXCEPT !.path = path, !.dir = my_dirname(path),
                          !.denied = path[1] = "/" /\ path_starts_with(path, input.mntdest) ]
  /\ UNCHANGED <<input, stage, mirror, argv, idx, arena, cache>>

Next ==
  \/ CountMirrored \/ ParseMirrored \/ MirrorParsed
  \/ dup_argv \/ merge_o_args \/ filter_o_opts
  \/ rebuild_uid_cache \/ SortUids
  \/ \E path \in input.paths : Request(path)
  \/ \E key \in input.keys : uid_cache_lookup(key)

Spec == Init /\ [][Next]_vars
-----------------------------------------------------------------------------
(* Types of main's locals at each stage; the counters of users and groups  *)
(* are never negative, as they are sizes of arrays.                        *)
TypeOK ==
  /\ stage \in {"mirror", "mirror_loop", "exit", "abort", "dup_argv", "merge_o_args",
                "filter_o_opts", "init_user_cache", "fuse_main"}
  /\ idx \in Nat /\ \A n \in DOMAIN mirror : mirror[n] \in Nat
  /\ \A k \in DOMAIN argv : argv[k].kind \in {"word", "list", "-o", "lone -o"}

(* The parts of a list of mirrored users.                                  *)
Starts(s) == {1} \cup {m + 1 : m \in {n \in 1..Len(s) : s[n] \in Separators}}
EndsInBareGroup(s) == Len(s) > 1 /\ s[Len(s)] = "@" /\ s[Len(s) - 1] \in Separators
GroupStarts(s) == {m \in Starts(s) : m <= Len(s) /\ s[m] = "@"}

(* parse_mirrored_users counts the users and groups in its list before it  *)
(* allocates arrays for them: it stores no more than it counted, and one   *)
(* for each part of the list unless it gives up.  A list that ends in a    *)
(* separator and "@" is the exception: count_substrs does not look at the  *)
(* last place, so that this group is counted as a user, and the assertion  *)
(* after the comment "The counters should match" fails.                    *)
MirrorExact ==
  /\ stage = "abort" => EndsInBareGroup(input.mirror)
  /\ stage \notin {"mirror", "abort"} /\ input.mirror # None /\ ~EndsInBareGroup(input.mirror) =>
       /\ mirror.i <= mirror.num_users /\ mirror.j <= mirror.num_members
       /\ stage \notin {"mirror_loop", "exit"} =>
            /\ mirror.j = Cardinality(GroupStarts(input.mirror))
            /\ mirror.i = Cardinality(Starts(input.mirror)) - mirror.j

Options(args) == FlattenSeq([k \in DOMAIN args |-> args[k].opts])
Words(args) == SelectSeq(args, LAMBDA arg : arg.kind = "word")

(* fuse_main gets the options that are not ignored, all of them and in     *)
(* their order, and the other arguments as they were, although the loop    *)
(* skips an argument after each one that it removes.                       *)
OptionsFiltered ==
  stage = "fuse_main" =>
    /\ Options(argv) = SelectSeq(Options(input.argv), LAMBDA opt : opt \notin Ignored)
    /\ Words(argv) = Words(input.argv)
    /\ \A k \in DOMAIN argv : argv[k].kind = "word" \/ argv[k].opts # <<>>

(* The uid array and the memory block with the names are large enough for  *)
(* what is stored, and no name overlaps another's, after any growth.       *)
CacheInBounds ==
  /\ Len(cache.ents) <= cache.capacity /\ cache.block.size <= cache.block.capacity
  /\ \A i \in DOMAIN cache.ents :
       /\ cache.ents[i].offset + cache.ents[i].len <= cache.block.size
       /\ \A j \in DOMAIN cache.ents \ {i} :
            \/ cache.ents[i].offset + cache.ents[i].len <= cache.ents[j].offset
            \/ cache.ents[j].offset + cache.ents[j].len <= cache.ents[i].offset

(* bsearch finds a uid exactly if it is in the cache, as long as the uids  *)
(* and the key are less than 2^31 apart (here 2^(Width - 1)): the          *)
(* comparison cuts their difference to an int.                             *)
LookupExact ==
  LET uids == {input.users[i].uid : i \in DOMAIN input.users}
  IN  /\ request.key \in input.keys
      /\ \A a, b \in uids \cup {request.key} : a - b < Half
      => request.found = (request.key \in uids)

(* A resolved path is denied if it is the mountpoint or below it, and not  *)
(* if it merely begins with the same characters; and the directory of a    *)
(* new file is its path without the last component.                        *)
Inside(path, dir) ==
  \/ path = dir \/ dir = <<"/">>
  \/ Len(path) > Len(dir) /\ SubSeq(path, 1, Len(dir) + 1) = Append(dir, "/")
Entry(path, dir) ==
  LET before == CASE dir = <<".">> -> <<>> [] dir = <<"/">> -> dir [] OTHER -> Append(dir, "/")
  IN  /\ SubSeq(path, 1, Len(before)) = before
      /\ \A m \in (Len(before) + 1)..Len(path) : path[m] # "/"
RecursionDenied ==
  request # NoRequest =>
    /\ request.denied = (request.path[1] = "/" /\ Inside(request.path, input.mntdest))
    /\ request.path \notin {<<"/">>, <<".">>} => Entry(request.path, request.dir)
=============================================================================
