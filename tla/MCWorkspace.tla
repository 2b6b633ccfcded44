----------------------------- MODULE MCWorkspace -----------------------------
(* Two workers at the files of one account.                                *)
EXTENDS Workspace, TLC

CONSTANTS w1, w2, d1, d2, d3, p1, p2, p3

MCWorkers == {w1, w2}
MCDrafts == {d1, d2, d3}
MCPages == {p1, p2, p3}
Alike == Permutations(MCWorkers) \cup Permutations(MCDrafts) \cup Permutations(MCPages)
=============================================================================
