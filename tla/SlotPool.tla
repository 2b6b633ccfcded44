------------------------------- MODULE SlotPool -------------------------------
(***************************************************************************)
(* What admission control promises when checks and inserts cannot          *)
(* interleave: a pool that a run enters only if both limits still hold     *)
(* with it inside, and that runs leave, several at once when time has      *)
(* passed over their expiry.                                               *)
(***************************************************************************)
EXTENDS SlotLimits

VARIABLE held     (* the runs that hold a slot                              *)

Init == held = {}

Enter(r) ==
  /\ r \notin held
  /\ Fits(r, held \cup {r})
  /\ held' = held \cup {r}

Leave(S) ==
  /\ S # {}
  /\ held' = held \ S

Next == \/ \E r \in Requests : Enter(r)
        \/ \E S \in SUBSET held : Leave(S)

Spec == Init /\ [][Next]_held
=============================================================================
