------------------------------- MODULE Launcher -------------------------------
(***************************************************************************)
(* scripts/start.py: the processes that it starts, watches and stops, and  *)
(* the address in .env.  Its control plane is the worker Main of Startup.  *)
(***************************************************************************)
EXTENDS Startup

CONSTANTS
  Main,        (* the worker that start.py runs                             *)
  MaxRuns      (* bound: how often start.py is run                          *)

ASSUME LauncherAssumption == Main \in Workers /\ MaxRuns \in Nat

VARIABLES
  at,          (* where main() is                                           *)
  run,         (* how often it has been run                                 *)
  tunnel,      (* --tunnel                                                  *)
  children,    (* the list of children                                      *)
  started,     (* the processes that this run has started                   *)
  others,      (* the brokers and tunnels that run, each with its run       *)
  again,       (* the control plane is the one started after the tunnel     *)
  died,        (* a child has ended that nobody had told to                 *)
  asked,       (* somebody pressed Ctrl-C                                   *)
  env,         (* PUBLIC_URL in .env                                        *)
  advertised,  (* PUBLIC_URL of the control plane's settings                *)
  shown        (* the address that was printed                              *)

launchVars == <<at, run, tunnel, children, started, others, again, died, asked,
                env, advertised, shown>>

Procs == {"broker", "tunnel", "first", "second"}
Launching == {"off", "check", "config", "docker", "broker", "control",
              "ready", "tunnel", "url", "replace", "restart", "readyAgain",
              "report", "watch", "stop", "ended", "raised"}
NoUrl == <<>>
LocalUrl == <<"localhost">>
TunnelUrl(r) == <<"tunnel", r>>      (* cloudflared makes up a new one each time *)
Urls == {NoUrl, LocalUrl} \cup {TunnelUrl(r) : r \in 1..MaxRuns}

Control == IF again THEN "second" ELSE "first"
Running(p) == \/ <<p, run>> \in others
              \/ p = Control /\ place[Main] # "down"
ControlRuns == place[Main] # "down"

(* (A control plane that has let go of its port and hangs counts as down.) *)
port_is_free == ~ControlRuns
broker_port_is_free == \A r \in 1..MaxRuns : <<"broker", r>> \notin others
(* "Never overwrites an existing one."                                     *)
write_env == env' = IF env = NoUrl THEN LocalUrl ELSE env
set_env_values == env' = TunnelUrl(run)

Go(p) == at' = p
spawn(p) == children' = children \cup {p} /\ started' = started \cup {p}

----------------------------------------------------------------------------
(* main()                                                                  *)

(* Somebody runs start.py.  What a run that raised has left may be there.  *)
Launch ==
  /\ at \in {"off", "ended", "raised"} /\ run < MaxRuns
  /\ Go("check") /\ run' = run + 1 /\ tunnel' \in BOOLEAN
  /\ children' = {} /\ started' = {} /\ again' = FALSE
  /\ died' = FALSE /\ asked' = FALSE /\ shown' = NoUrl
  /\ UNCHANGED <<others, env, advertised, startupVars>>

(* The checks: a port is taken, Python or the image is missing, or all is  *)
(* well, with Docker or without.  die() stops what has been started, which *)
(* is nothing yet.                                                         *)
CheckMachine ==
  /\ at = "check"
  /\ \/ port_is_free /\ Go("config")
     \/ port_is_free /\ broker_port_is_free /\ Go("docker")
     \/ Go("stop")
  /\ UNCHANGED <<run, tunnel, children, started, others, again, died, asked, env,
                 advertised, shown, startupVars>>

(* A config if there is none.                                              *)
Configure ==
  /\ at \in {"config", "docker"}
  /\ write_env
  /\ Go(IF at = "config" THEN "control" ELSE "broker")
  /\ UNCHANGED <<run, tunnel, children, started, others, again, died, asked,
                 advertised, shown, startupVars>>

StartBroker ==
  /\ at = "broker" /\ "broker" \notin started
  /\ spawn("broker") /\ others' = others \cup {<<"broker", run>>}
  /\ UNCHANGED <<at, run, tunnel, again, died, asked, env, advertised, shown,
                 startupVars>>

(* wait_for_http, or die().                                                *)
AwaitBroker ==
  /\ at = "broker" /\ "broker" \in started
  /\ \/ Running("broker") /\ Go("control")
     \/ Go("stop")
  /\ UNCHANGED <<run, tunnel, children, started, others, again, died, asked, env,
                 advertised, shown, startupVars>>

(* start_control_plane: the worker reads .env when it starts.              *)
StartControl ==
  /\ at \in {"control", "restart"}
  /\ spawn(IF at = "control" THEN "first" ELSE "second")
  /\ again' = (at = "restart")
  /\ advertised' = env
  /\ Go(IF at = "control" THEN "ready" ELSE "readyAgain")
  /\ Boot(Main)
  /\ UNCHANGED <<run, tunnel, others, died, asked, env, shown>>

AwaitControl ==
  /\ at = "ready"
  /\ \/ place[Main] = "up" /\ Go(IF tunnel THEN "tunnel" ELSE "report")
     \/ Go("stop")
  /\ UNCHANGED <<run, tunnel, children, started, others, again, died, asked, env,
                 advertised, shown, startupVars>>

(* start_tunnel: no binary, or the tunnel is started.                      *)
StartTunnel ==
  /\ at = "tunnel"
  /\ \/ Go("report") /\ UNCHANGED <<children, started, others>>
     \/ /\ Go("url") /\ spawn("tunnel")
        /\ others' = others \cup {<<"tunnel", run>>}
  /\ UNCHANGED <<run, tunnel, again, died, asked, env, advertised, shown, startupVars>>

(* Mutant of TunnelUp: the control plane stays on the list.                *)
TunnelUp_StillWatched ==
  /\ at = "url"
  /\ \/ Go("report") /\ UNCHANGED <<env, shown>>
     \/ Go("replace") /\ set_env_values /\ shown' = env'
  /\ UNCHANGED <<run, tunnel, children, started, others, again, died, asked,
                 advertised, startupVars>>

(* It reports a URL, or not in time.  set_env_values; then the control     *)
(* plane is dropped "from the watch list first" and told to end.           *)
TunnelUp ==
  /\ at = "url"
  /\ \/ Go("report") /\ UNCHANGED <<env, shown, children>>
     \/ /\ Go("replace") /\ set_env_values /\ shown' = env'
        /\ children' = children \ {"first"}
  /\ UNCHANGED <<run, tunnel, started, others, again, died, asked, advertised,
                 startupVars>>

(* control.wait(timeout=10): it has ended, or TimeoutExpired leaves main() *)
(* with everything running.                                                *)
Replace ==
  /\ at = "replace"
  /\ \/ ~ControlRuns /\ Go("restart")
     \/ ControlRuns /\ Go("raised")
  /\ UNCHANGED <<run, tunnel, children, started, others, again, died, asked, env,
                 advertised, shown, startupVars>>

(* Whatever else is raised before the try, Ctrl-C too, leaves main() in    *)
(* the same way.                                                           *)
Raise ==
  /\ at \notin {"off", "watch", "stop", "ended", "raised"}
  /\ Go("raised")
  /\ UNCHANGED <<run, tunnel, children, started, others, again, died, asked, env,
                 advertised, shown, startupVars>>

(* The second wait_for_http is not looked at.                              *)
AwaitAgain ==
  /\ at = "readyAgain" /\ Go("report")
  /\ UNCHANGED <<run, tunnel, children, started, others, again, died, asked, env,
                 advertised, shown, startupVars>>

Report ==
  /\ at = "report" /\ Go("watch")
  /\ shown' = IF shown = NoUrl THEN LocalUrl ELSE shown
  /\ UNCHANGED <<run, tunnel, children, started, others, again, died, asked, env,
                 advertised, startupVars>>

(* "a process exited; shutting the rest down"                              *)
Watch ==
  /\ at = "watch" /\ \E p \in children : ~Running(p)
  /\ Go("stop")
  /\ UNCHANGED <<run, tunnel, children, started, others, again, died, asked, env,
                 advertised, shown, startupVars>>

(* SIGINT runs shutdown, and so the loop ends.                             *)
Interrupt ==
  /\ at = "watch" /\ ~asked
  /\ asked' = TRUE /\ Go("stop")
  /\ UNCHANGED <<run, tunnel, children, started, others, again, died, env,
                 advertised, shown, startupVars>>

(* shutdown: every child on the list ends, or is killed after 8 seconds.   *)
Shutdown ==
  /\ at = "stop" /\ Go("ended")
  /\ others' = others \ (children \X {run})
  /\ IF Control \in children /\ ControlRuns THEN StopWorker(Main)
                                            ELSE UNCHANGED startupVars
  /\ UNCHANGED <<run, tunnel, children, started, again, died, asked, env,
                 advertised, shown>>

(* One of this run's processes has ended that had not been told to.        *)
OneDied ==
  \E p \in started \ (IF at = "replace" THEN {"first"} ELSE {}) :
    Running(p) /\ ~Running(p)'

(* A child ends: of this run or left by another one, told to or not.       *)
ChildEnds ==
  /\ \/ (\E p \in others : others' = others \ {p}) /\ UNCHANGED startupVars
     \/ ControlRuns /\ StopWorker(Main) /\ UNCHANGED others
  /\ UNCHANGED <<at, run, tunnel, children, started, again, asked, env, advertised,
                 shown>>
  /\ died' = (died \/ OneDied)

(* So does a control plane that fails on its way up.                       *)
ControlStep ==
  /\ Lifespan(Main)
  /\ UNCHANGED <<at, run, tunnel, children, started, others, again, asked, env,
                 advertised, shown>>
  /\ died' = (died \/ OneDied)

----------------------------------------------------------------------------
LaunchInit ==
  /\ at = "off" /\ run = 0 /\ tunnel = FALSE
  /\ children = {} /\ started = {} /\ others = {} /\ again = FALSE
  /\ died = FALSE /\ asked = FALSE
  /\ env = NoUrl /\ advertised = NoUrl /\ shown = NoUrl

LaunchStep ==
  \/ Launch \/ CheckMachine \/ Configure \/ StartBroker \/ AwaitBroker
  \/ StartControl \/ AwaitControl \/ StartTunnel \/ TunnelUp \/ Replace
  \/ Raise \/ AwaitAgain \/ Report \/ Watch \/ Interrupt \/ Shutdown
  \/ ChildEnds \/ ControlStep

----------------------------------------------------------------------------
LaunchTypeOK ==
  /\ at \in Launching /\ run \in 0..MaxRuns
  /\ {tunnel, again, died, asked} \subseteq BOOLEAN
  /\ children \subseteq Procs /\ started \subseteq Procs
  /\ others \subseteq {"broker", "tunnel"} \X (1..MaxRuns)
  /\ {env, advertised, shown} \subseteq Urls

(* "Ctrl-C stops everything it started", and so do a check that fails and  *)
(* a child that ends (nothing is said of a run that raised before it was   *)
(* watching: what it started stays); a control plane "we replaced on       *)
(* purpose" is not taken for a crash; and a public address that is printed *)
(* is the one that the app hands out.                                      *)
LauncherKeepsItsWord ==
  /\ at = "ended" => \A p \in started : ~Running(p)
  /\ at = "stop" /\ shown # NoUrl => asked \/ died
  /\ at = "watch" /\ shown = TunnelUrl(run) /\ ControlRuns => advertised = shown
===============================================================================
