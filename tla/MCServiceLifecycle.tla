-------------------------- MODULE MCServiceLifecycle --------------------------
(* One name, up to two owners' calls, two visitors and two workers.        *)
EXTENDS ServiceLifecycle

MCIds == 1..12
===============================================================================
