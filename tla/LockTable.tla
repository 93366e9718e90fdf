------------------------------ MODULE LockTable -----------------------------
(***************************************************************************)
(* What a lock on a file promises its users: a table of holders, each with *)
(* a shared or an exclusive lock or none, in which an exclusive holder is  *)
(* alone.  LockForwarding implements it.                                   *)
(***************************************************************************)
CONSTANT Holder
VARIABLE mode

None == "none"
Mode == {"SH", "EX"}

Compatible(m, n) == None \in {m, n} \/ (m = "SH" /\ n = "SH")

Init == mode = [h \in Holder |-> None]

Grant(h, m) ==
  /\ \A g \in Holder \ {h} : Compatible(m, mode[g])
  /\ mode' = [mode EXCEPT ![h] = m]

Drop(h) == mode' = [mode EXCEPT ![h] = None]

Next == \E h \in Holder : Drop(h) \/ \E m \in Mode : Grant(h, m)

Spec == Init /\ [][Next]_mode
=============================================================================
