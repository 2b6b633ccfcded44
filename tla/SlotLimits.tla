------------------------------ MODULE SlotLimits ------------------------------
(***************************************************************************)
(* The two limits on sandbox runs that are under way, checked together by  *)
(* app/scheduler.py: the memory budget of the machine and the number of    *)
(* runs an account may have.                                               *)
(***************************************************************************)
EXTENDS Integers, FiniteSets

CONSTANTS
  Requests,      (* the run_code calls of a behaviour                       *)
  Users,         (* the accounts                                            *)
  Owner,         (* Owner[r]: the account that sent r                       *)
  Memory,        (* Memory[r]: plan.memory_mb of the account of r           *)
  Budget,        (* settings.exec_memory_budget_mb                          *)
  MaxPerUser     (* settings.max_concurrent_execs_per_user                  *)

ASSUME LimitsAssumption ==
  /\ IsFiniteSet(Requests)
  /\ Owner \in [Requests -> Users]
  /\ Memory \in [Requests -> Nat \ {0}]
  /\ Budget \in Nat /\ MaxPerUser \in Nat \ {0}

Units(S) == UNION {{s} \X (1..Memory[s]) : s \in S}

(* Sum of memory_mb over the slots S: the number of their memory units.    *)
MemoryOf(S) == Cardinality(Units(S))

(* `user_id == user.id`, for the account of r.                             *)
OfSameUser(r, S) == {s \in S : Owner[s] = Owner[r]}

(* The slots S respect both limits, the second for the account of r.       *)
Fits(r, S) == /\ MemoryOf(S) <= Budget
              /\ Cardinality(OfSameUser(r, S)) <= MaxPerUser
=============================================================================
