---------------------------- MODULE MCAgentCalls ----------------------------
(* Two calls of the account at once, in one of two scenes: "quotas", three *)
(* keys, two plans and no task, and "tasks", two keys and one task under   *)
(* one plan.  Calls are alike, and so are keys that nobody has used yet,   *)
(* among which New takes any.                                              *)
EXTENDS AgentCalls, TLC

CONSTANTS c1, c2, k1, k2, k3

VARIABLE scene

MCCalls == {c1, c2}
MCKeys == {k1, k2, k3}
Alike == Permutations(MCCalls) \cup Permutations({k2, k3})

MCPlans == {"free", "maker"}
MCMaxKeys == [p \in Plans |-> IF p = "free" THEN 1 ELSE 2]
MCLimit == [p \in Plans |-> IF p = "free" THEN 1 ELSE 2]

(* Bounds of the scenes: what the calls do, and how far the rows go.       *)
QuotasOnly == \A c \in Calls : call[c].job \in {"run", "mint", "revoke"}
TasksOnly ==
  /\ plan = "free" /\ owned = {} /\ longest <= 1
  /\ Unused(Keys, keys) # {}
Bounds == IF scene = "quotas" THEN QuotasOnly ELSE TasksOnly

MCInit == Init /\ scene \in {"quotas", "tasks"} /\ Bounds
MCNext == Next /\ UNCHANGED scene /\ Bounds'
MCSpec == MCInit /\ [][MCNext]_<<vars, scene>>
=============================================================================
