---------------------------- MODULE MCRegistration ----------------------------
(* Three registrations with two codes: r1 and r2 send the same code, r2    *)
(* and r3 want the same name, r1 and r3 the same address.                  *)
EXTENDS Registration

CONSTANTS r1, r2, r3, c1, c2

MCRequests == {r1, r2, r3}
MCCodes == {c1, c2}
MCCode == [r \in MCRequests |-> IF r = r3 THEN c2 ELSE c1]
MCUsername == [r \in MCRequests |-> IF r = r1 THEN "ann" ELSE "bob"]
MCEmail == [r \in MCRequests |-> IF r = r2 THEN "b@x" ELSE "a@x"]
===============================================================================
