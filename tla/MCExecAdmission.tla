--------------------------- MODULE MCExecAdmission ---------------------------
(* Runs of two accounts that compete for three units of memory: r1 and r2  *)
(* belong to alice, whose limit is one run; r1 and r3 do not fit together, *)
(* r2 and r3 do; big fits nowhere.                                         *)
EXTENDS ExecAdmission

CONSTANTS r1, r2, r3, big, alice, bob

MCThree == {r1, r2, r3}
MCFour  == {r1, r2, r3, big}
MCUsers == {alice, bob}
MCDeletable == {alice}
MCOwner == [r \in Requests |-> IF r \in {r1, r2} THEN alice ELSE bob]
MCMemory == [r \in Requests |-> CASE r = big -> 4 [] r = r2 -> 1 [] OTHER -> 2]
=============================================================================
