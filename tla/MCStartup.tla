------------------------------ MODULE MCStartup -----------------------------
EXTENDS Startup

(* Absolute paths as realpath returns them.                                *)
Absolute(n) ==
  {<<"/">>} \cup
  {s \in CHARS({"/", "a", "b"}, n) : Len(s) > 1 /\ s[1] = "/" /\ s[Len(s)] # "/" /\
     \A m \in 1..(Len(s) - 1) : ~(s[m] = "/" /\ s[m + 1] = "/")}
Relative(n) == {<<".">>} \cup {Tail(path) : path \in Absolute(n) \ {<<"/">>}}

Word == [kind |-> "word", opts |-> <<>>, commas |-> 0]
Arg(kind, opts, commas) == [kind |-> kind, opts |-> opts, commas |-> commas]

(* What fuse_opt_parse leaves: the options of the user in one list after   *)
(* -o, then words such as the mountpoint, then what main appends itself.   *)
UserArgs ==
  {<<>>} \cup {<<Arg("lone -o", <<>>, 0), Arg("list", opts, commas)>> :
                 opts \in CHARS(Option, 3), commas \in 0..2}
MainArgs == <<Word, Word, Arg("-o", <<"allow_other">>, 0), Arg("-o", <<"fsname">>, 0)>>
Argvs == {<<Word>> \o user \o MainArgs : user \in UserArgs}

Mirrors == CHARS({"u", "@", ",", ":"}, 4)
Default == [mirror |-> None, argv |-> <<Word>> \o MainArgs, mntdest |-> <<"/", "a">>, users |-> <<>>,
            keys |-> {}, paths |-> {<<"/">>}]
(* Databases of up to three users with any uids, and one that makes the    *)
(* array and the block grow more than once.                                *)
Databases ==
  {[i \in DOMAIN uids |-> [uid |-> uids[i], len |-> i * i]] : uids \in CHARS(Uids, 3)} \cup
  {[i \in 1..9 |-> [uid |-> i % 4, len |-> l]] : l \in {1, 6, 7, 8, 40}}
AllInputs ==
  {[Default EXCEPT !.mirror = <<"u">>, !.users = users, !.keys = Uids] : users \in Databases} \cup
  {[Default EXCEPT !.mirror = s] : s \in Mirrors} \cup
  {[Default EXCEPT !.argv = args] : args \in Argvs} \cup
  {[Default EXCEPT !.mntdest = dir, !.paths = Absolute(5) \cup Relative(5)] : dir \in Absolute(5)}
Lengths == [opt \in Option |-> IF opt = "fsname" THEN 4 ELSE 1]
=============================================================================
