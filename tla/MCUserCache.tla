---------------------------- MODULE MCUserCache ----------------------------
(* A user database in which uid 1 changes hands: the second passwd gives   *)
(* it to bob, the second group file replaces bob by alice in group 1.      *)
EXTENDS UserCache

MCPasswd ==
  << {[name |-> "alice", uid |-> 1, gid |-> 1], [name |-> "bob", uid |-> 2, gid |-> 2]},
     {[name |-> "bob", uid |-> 1, gid |-> 2], [name |-> "alice", uid |-> 2, gid |-> 1]} >>

MCGroup ==
  << {[gid |-> 1, members |-> {"bob"}], [gid |-> 2, members |-> {}]},
     {[gid |-> 1, members |-> {"alice", "carol"}], [gid |-> 2, members |-> {}]} >>

MCQuery == {<<1, 1>>}
=============================================================================
