-------------------------------- MODULE Server --------------------------------
(***************************************************************************)
(* The process around the operations: how it is started and stopped        *)
(* (Startup, Launcher), whom it turns away (RateLimit) and what it serves  *)
(* at an address (Addresses).                                              *)
(*                                                                         *)
(* The three have no state in common, so that a run of the whole is a run  *)
(* of each.  To keep TLC from multiplying them, one of them moves in a     *)
(* behaviour: the bound `moves`.                                           *)
(***************************************************************************)
EXTENDS Launcher, RateLimit, Addresses

VARIABLE moves

serverVars == <<moves, startupVars, launchVars, limitVars, addressVars>>

(* Workers that something else than start.py runs, uvicorn or the          *)
(* container's entrypoint.                                                 *)
OtherWorkers ==
  \E w \in Workers \ {Main} : Boot(w) \/ Lifespan(w) \/ StopWorker(w)

Machine ==
  /\ \/ LaunchStep
     \/ OtherWorkers /\ UNCHANGED launchVars
     \/ Operate /\ UNCHANGED launchVars
  /\ UNCHANGED <<limitVars, addressVars>>

Attempts ==
  /\ \/ \E h \in Hosts : register(h) \/ \E a \in Accounts : login(h, a)
     \/ Tick \/ Restarted
  /\ UNCHANGED <<startupVars, launchVars, addressVars>>

(* A host is asked for a plain path, or the apex for a space.              *)
Requests == (HostNames \X {p \in Paths : p.space = NoSpace})
              \cup ({Base} \X {p \in Paths : p.space # NoSpace})

(* The client has nothing, something else or everything that there is.     *)
Visits ==
  /\ \E r \in Requests, tags \in {{}, {Public \o Index}, Files} : Visit(r[1], r[2], tags)
  /\ UNCHANGED <<startupVars, launchVars, limitVars>>

Init ==
  /\ moves \in {"machine", "limits", "addresses"}
  /\ StartupInit /\ LaunchInit /\ LimitInit /\ AddressInit
  /\ moves # "machine" => schema = "old" /\ auto
  /\ moves # "addresses" => active /\ tree = {} /\ sites = {}

Next ==
  /\ \/ moves = "machine" /\ Machine
     \/ moves = "limits" /\ Attempts
     \/ moves = "addresses" /\ Visits
  /\ UNCHANGED moves

Spec == Init /\ [][Next]_serverVars
===============================================================================
