------------------------------ MODULE MCIdMap ------------------------------
(* Three-bit uids: (uid_t)-1 is 7 and UID_T_MAX is 3.                      *)
EXTENDS IdMap

Plain ==
  [ new_uid |-> NoId, create_for_uid |-> NoId, mirrored |-> {},
    create_policy |-> "CREATE_AS_USER", chown_policy |-> "CHOWN_NORMAL" ]

MCOffset == {-1, 2}
MCSettings ==
  { Plain,
    [Plain EXCEPT !.create_policy = "CREATE_AS_MOUNTER", !.chown_policy = "CHOWN_DENY"],
    [Plain EXCEPT !.create_for_uid = 2, !.mirrored = {1}],
    [Plain EXCEPT !.new_uid = 1, !.chown_policy = "CHOWN_IGNORE"] }
=============================================================================
