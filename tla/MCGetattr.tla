----------------------------- MODULE MCGetattr -----------------------------
(* The rules of MCPermChain; files of each kind that the code treats       *)
(* differently, and a device, a socket and a symlink whose type bits       *)
(* overlap with theirs.                                                    *)
EXTENDS Getattr, MCPermChain

F(type, bits, allowed) ==
  [type |-> type, bits |-> bits, nlink |-> 2, mappable |-> TRUE, access |-> allowed]
Some == {<<"u", "r">>, <<"u", "w">>, <<"u", "x">>, <<"g", "r">>, <<"special", "sticky">>}

MCFile ==
  { F(S_IFREG, {<<"u", "r">>, <<"u", "w">>, <<"g", "r">>, <<"special", "setgid">>}, {"r"}),
    F(S_IFDIR, {<<"u", "w">>, <<"u", "x">>, <<"g", "w">>, <<"o", "x">>}, {"r", "x"}),
    F(S_IFLNK, Bit, {"r", "w", "x"}), F(S_IFBLK, Bit, {"w"}), F(S_IFSOCK, Some, {}),
    [F(S_IFREG, Some, {"r", "w", "x"}) EXCEPT !.mappable = FALSE] }

FileMode == {[dir |-> f.type = S_IFDIR, bits |-> f.bits] : f \in MCFile}

(* Every pair of options that meet in getattr_common.                      *)
S4(mirror, hide, block, realistic) ==
  [ mirror |-> mirror, hide_hard_links |-> hide, block_devices_as_files |-> block,
    realistic_permissions |-> realistic ]
MCSettings ==
  { S4("no", FALSE, FALSE, FALSE), S4("no", TRUE, TRUE, TRUE), S4("yes", FALSE, TRUE, FALSE),
    S4("yes", TRUE, FALSE, TRUE), S4("only", TRUE, TRUE, FALSE), S4("only", FALSE, FALSE, TRUE) }
=============================================================================
