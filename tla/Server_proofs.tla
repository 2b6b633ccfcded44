----------------------------- MODULE Server_proofs -----------------------------
(***************************************************************************)
(* The owner's credentials and the promises of start.py, for any number of *)
(* workers, keys and runs; the limits of hits, for any number of hosts and *)
(* accounts; and what is served, for any files, deployments and requests.  *)
(***************************************************************************)
EXTENDS Server, TLAPS, FiniteSetTheorems, SequenceTheorems

(* How a step of the machine looks to the workers.                         *)
StartupStep ==
  \/ \E w \in Workers : Boot(w) \/ Lifespan(w) \/ StopWorker(w)
  \/ Operate
  \/ UNCHANGED startupVars

(* Between the flush and the commit there is one worker at most, and no    *)
(* owner; a file that has been written has that worker's key.              *)
OwnerInv ==
  /\ StartupTypeOK
  /\ \A v, w \in Workers : place[v] \in Inside /\ place[w] \in Inside => v = w
  /\ \A w \in Workers : place[w] \in Inside => ~owner
  /\ \A w \in Workers : place[w] = "written" => file = mine[w] /\ file \in OwnerKeys
  /\ \A w \in Workers : place[w] \in {"writing", "inserted"} => mine[w] \in OwnerKeys
  /\ OwnerKeyKept

LEMMA OwnerInit == StartupInit => OwnerInv
BY DEF StartupInit, OwnerInv, StartupTypeOK, StartupPlaces, Revisions, Inside,
       OwnerKeyKept

LEMMA OwnerExit == ASSUME OwnerInv, NEW w \in Workers, Exit(w) PROVE OwnerInv'
BY DEF Exit, OwnerInv, StartupTypeOK, StartupPlaces, Inside, OwnerKeyKept

(* A step that only moves a worker, and not across the flush.              *)
LEMMA OwnerProceed ==
  ASSUME OwnerInv, NEW w \in Workers, NEW p \in StartupPlaces \ Inside,
         Proceed(w, p), UNCHANGED <<schema, auto, owner, keys, file, mine>>
  PROVE  OwnerInv'
BY DEF Proceed, OwnerInv, StartupTypeOK, StartupPlaces, Inside, OwnerKeyKept

LEMMA OwnerMigrate == ASSUME OwnerInv, NEW w \in Workers, Migrate(w) PROVE OwnerInv'
<1>1. CASE Exit(w)
  BY <1>1, OwnerExit
<1>2. CASE ~Exit(w)
  BY <1>2 DEF Migrate, Proceed, OwnerInv, StartupTypeOK, StartupPlaces, Revisions,
              Inside, OwnerKeyKept
<1> QED
  BY <1>1, <1>2

(* The insert is the way in: nobody else is inside, and there is no owner. *)
LEMMA OwnerInsert == ASSUME OwnerInv, NEW w \in Workers, InsertOwner(w) PROVE OwnerInv'
<1>1. CASE Exit(w)
  BY <1>1, OwnerExit
<1>2. CASE ~Exit(w)
  <2>1. PICK k \in OwnerKeys : mine' = [mine EXCEPT ![w] = k]
    BY <1>2 DEF InsertOwner
  <2>2. /\ place[w] = "insert" /\ ~Held(w) /\ ~owner
        /\ place' = [place EXCEPT ![w] = "inserted"]
        /\ UNCHANGED <<schema, auto, owner, keys, file>>
    BY <1>2 DEF InsertOwner, Proceed
  <2>3. \A v \in Workers : v # w => place'[v] = place[v] /\ place[v] \notin Inside
    BY <2>2 DEF Held, OwnerInv, StartupTypeOK
  <2>4. place'[w] = "inserted" /\ mine'[w] = k
    BY <2>1, <2>2 DEF OwnerInv, StartupTypeOK
  <2>5. StartupTypeOK'
    BY <2>1, <2>2 DEF OwnerInv, StartupTypeOK, StartupPlaces
  <2> QED
    BY <2>2, <2>3, <2>4, <2>5 DEF OwnerInv, Inside, OwnerKeyKept
<1> QED
  BY <1>1, <1>2

LEMMA OwnerFile ==
  ASSUME OwnerInv, NEW w \in Workers, OpenFile(w) \/ WriteFile(w)
  PROVE  OwnerInv'
<1>1. /\ place[w] \in {"inserted", "writing"} /\ ~owner /\ mine[w] \in OwnerKeys
      /\ \A v \in Workers : v # w => place[v] \notin Inside
  BY DEF OpenFile, WriteFile, OwnerInv, Inside
<1>2. \A v \in Workers : v # w => place'[v] = place[v]
  BY DEF OpenFile, WriteFile, Proceed, OwnerInv, StartupTypeOK
<1>3. /\ place'[w] = "writing" \/ (place'[w] = "written" /\ file' = mine'[w])
      /\ UNCHANGED <<schema, auto, owner, keys, mine>>
      /\ file' \in {NoKey, mine[w]}
  BY DEF OpenFile, WriteFile, Proceed, OwnerInv, StartupTypeOK
<1>4. place' \in [Workers -> StartupPlaces]
  BY DEF OpenFile, WriteFile, Proceed, OwnerInv, StartupTypeOK, StartupPlaces
<1> QED
  BY <1>1, <1>2, <1>3, <1>4 DEF OwnerInv, StartupTypeOK, Inside, OwnerKeyKept

LEMMA OwnerCommit == ASSUME OwnerInv, NEW w \in Workers, CommitOwner(w) PROVE OwnerInv'
<1>1. /\ place[w] = "written" /\ file = mine[w] /\ file \in OwnerKeys
      /\ \A v \in Workers : v # w => place[v] \notin Inside
  BY DEF CommitOwner, OwnerInv, Inside
<1>2. \A v \in Workers : v # w => place'[v] = place[v]
  BY DEF CommitOwner, Proceed, OwnerInv, StartupTypeOK
<1>3. place'[w] = "up"
  BY DEF CommitOwner, Proceed, OwnerInv, StartupTypeOK
<1>4. StartupTypeOK'
  BY <1>1 DEF CommitOwner, Proceed, OwnerInv, StartupTypeOK, StartupPlaces
<1>5. OwnerKeyKept'
  BY <1>1 DEF CommitOwner, OwnerKeyKept
<1> QED
  BY <1>1, <1>2, <1>3, <1>4, <1>5 DEF OwnerInv, Inside

LEMMA OwnerOperate == ASSUME OwnerInv, Operate PROVE OwnerInv'
<1>1. CASE mint_owner_key
  BY <1>1 DEF mint_owner_key, OwnerInv, StartupTypeOK, OwnerKeyKept
<1>2. CASE DeleteOwner
  BY <1>2 DEF DeleteOwner, OwnerInv, StartupTypeOK, OwnerKeyKept
<1> QED
  BY <1>1, <1>2 DEF Operate

LEMMA OwnerStep == OwnerInv /\ StartupStep => OwnerInv'
<1> SUFFICES ASSUME OwnerInv, StartupStep PROVE OwnerInv'
  OBVIOUS
<1>1. ASSUME NEW w \in Workers, Boot(w) \/ ReadRevision(w) PROVE OwnerInv'
  <2>1. \E p \in StartupPlaces \ Inside : Proceed(w, p)
    BY <1>1 DEF Boot, ReadRevision, StartupPlaces, Inside
  <2> QED
    BY <1>1, <2>1, OwnerProceed DEF Boot, ReadRevision
<1>2. ASSUME NEW w \in Workers, VerifyRuntime(w) \/ Look(w) PROVE OwnerInv'
  <2>1. CASE Exit(w)
    BY <2>1, OwnerExit
  <2>2. CASE ~Exit(w)
    <3>1. \E p \in StartupPlaces \ Inside : Proceed(w, p)
      BY <1>2, <2>2 DEF VerifyRuntime, Look, StartupPlaces, Inside
    <3> QED
      BY <1>2, <2>2, <3>1, OwnerProceed DEF VerifyRuntime, Look
  <2> QED
    BY <2>1, <2>2
<1>3. ASSUME NEW w \in Workers, InsertTimeout(w) \/ StopWorker(w) PROVE OwnerInv'
  BY <1>3, OwnerExit DEF InsertTimeout, StopWorker
<1>4. CASE UNCHANGED startupVars
  BY <1>4 DEF startupVars, OwnerInv, StartupTypeOK, Inside, OwnerKeyKept
<1> QED
  BY <1>1, <1>2, <1>3, <1>4, OwnerMigrate, OwnerInsert, OwnerFile, OwnerCommit,
     OwnerOperate
  DEF StartupStep, Lifespan

----------------------------------------------------------------------------
(* What start.py does to the workers it does to Main.                      *)
LEMMA LaunchIsStartup == LaunchStep => StartupStep
BY LauncherAssumption
DEF LaunchStep, StartupStep, Launch, CheckMachine, Configure, StartBroker, AwaitBroker,
    StartControl, AwaitControl, StartTunnel, TunnelUp, Replace, Raise, AwaitAgain, Report,
    Watch, Interrupt, Shutdown, ChildEnds, ControlStep

LEMMA NextIsStartup == [Next]_serverVars => StartupStep
<1>1. CASE Machine
  BY <1>1, LaunchIsStartup DEF Machine, OtherWorkers, StartupStep
<1>2. CASE Attempts \/ Visits \/ UNCHANGED serverVars
  BY <1>2 DEF Attempts, Visits, serverVars, StartupStep
<1> QED
  BY <1>1, <1>2 DEF Next

(* An instance that has an owner has a credentials file whose key works,   *)
(* for any number of workers that boot and are killed at any point.        *)
THEOREM TheKeyIsKept == Spec => []OwnerKeyKept
<1>1. Init => OwnerInv
  BY OwnerInit DEF Init
<1>2. OwnerInv /\ [Next]_serverVars => OwnerInv'
  BY OwnerStep, NextIsStartup
<1>3. OwnerInv => OwnerKeyKept
  BY DEF OwnerInv
<1> QED
  BY <1>1, <1>2, <1>3, PTL DEF Spec

----------------------------------------------------------------------------
(* What main() knows of its processes, at each place.                      *)
ProcsInv ==
  /\ \A r : <<"first", r>> \notin others /\ <<"second", r>> \notin others
  /\ again \in BOOLEAN
  /\ children \subseteq started /\ started \subseteq children \cup {"first"}
  /\ "first" \in started \ children => again \/ at \in {"replace", "restart", "raised"}
  /\ ~again => "second" \notin started
  /\ at \in {"check", "config", "docker", "broker", "control"} =>
       "first" \notin started
  /\ at \in {"check", "config", "docker"} => "broker" \notin started
  /\ at \in {"replace", "restart"} => "first" \notin children

Before == {"check", "config", "docker", "broker", "control", "ready", "tunnel",
           "url"}
UrlInv ==
  /\ at \in Before => shown = NoUrl
  /\ at \in Before \cup {"replace", "restart"} => ~again
  /\ at \in {"replace", "restart"} => env = TunnelUrl(run)
  /\ at \in {"readyAgain", "report", "watch"} /\ shown = TunnelUrl(run) =>
       advertised = shown

(* What is on the list runs, unless something died.                        *)
WatchInv ==
  at \notin {"off", "ended", "raised"} => died \/ \A p \in children : Running(p)

LaunchInv == ProcsInv /\ UrlInv /\ WatchInv /\ LauncherKeepsItsWord

LEMMA UrlsDiffer == \A r : NoUrl # TunnelUrl(r) /\ LocalUrl # TunnelUrl(r)
BY DEF NoUrl, LocalUrl, TunnelUrl

LEMMA LaunchInitial == StartupInit /\ LaunchInit => LaunchInv
BY LauncherAssumption
DEF LaunchInit, LaunchInv, ProcsInv, Before, UrlInv, WatchInv, LauncherKeepsItsWord

(* The worker Main, seen from main().                                      *)
LEMMA MainStops ==
  ASSUME OwnerInv, StopWorker(Main)
  PROVE  place'[Main] = "down"
BY LauncherAssumption DEF StopWorker, Exit, OwnerInv, StartupTypeOK

LEMMA MainBoots ==
  ASSUME OwnerInv, Boot(Main)
  PROVE  place[Main] = "down" /\ place'[Main] # "down"
BY LauncherAssumption DEF Boot, Proceed, OwnerInv, StartupTypeOK

LEMMA MainRuns == ASSUME Lifespan(Main) PROVE place[Main] # "down"
BY DEF Lifespan, ReadRevision, Migrate, VerifyRuntime, Look, InsertOwner, InsertTimeout,
       OpenFile, WriteFile, CommitOwner

(* Steps of main() that leave the workers alone.                           *)
LEMMA QuietSteps ==
  ASSUME LaunchInv,
         \/ Launch \/ CheckMachine \/ Configure \/ StartBroker \/ AwaitBroker
         \/ AwaitControl \/ StartTunnel \/ TunnelUp \/ Replace \/ Raise \/ AwaitAgain
         \/ Report \/ Watch \/ Interrupt
  PROVE  LaunchInv'
<1> USE UrlsDiffer DEF Go, spawn, port_is_free, write_env, set_env_values, Running, Control,
             ControlRuns, startupVars, Before, broker_port_is_free
<1>1. CASE Launch
  BY <1>1 DEF Launch, LaunchInv, ProcsInv, UrlInv, WatchInv, LauncherKeepsItsWord
<1>2. CASE CheckMachine
  BY <1>2 DEF CheckMachine, LaunchInv, ProcsInv, UrlInv, WatchInv, LauncherKeepsItsWord
<1>3. CASE Configure
  BY <1>3 DEF Configure, LaunchInv, ProcsInv, UrlInv, WatchInv, LauncherKeepsItsWord
<1>4. CASE StartBroker
  BY <1>4 DEF StartBroker, LaunchInv, ProcsInv, UrlInv, WatchInv, LauncherKeepsItsWord
<1>5. CASE AwaitBroker
  BY <1>5 DEF AwaitBroker, LaunchInv, ProcsInv, UrlInv, WatchInv, LauncherKeepsItsWord
<1>6. CASE AwaitControl
  BY <1>6 DEF AwaitControl, LaunchInv, ProcsInv, UrlInv, WatchInv, LauncherKeepsItsWord
<1>7. CASE StartTunnel
  BY <1>7 DEF StartTunnel, LaunchInv, ProcsInv, UrlInv, WatchInv, LauncherKeepsItsWord
<1>8. CASE TunnelUp
  BY <1>8 DEF TunnelUp, LaunchInv, ProcsInv, UrlInv, WatchInv, LauncherKeepsItsWord
<1>9. CASE Replace
  BY <1>9 DEF Replace, LaunchInv, ProcsInv, UrlInv, WatchInv, LauncherKeepsItsWord
<1>10. CASE AwaitAgain
  BY <1>10 DEF AwaitAgain, LaunchInv, ProcsInv, UrlInv, WatchInv, LauncherKeepsItsWord
<1>11. CASE Report
  BY <1>11 DEF Report, LaunchInv, ProcsInv, UrlInv, WatchInv, LauncherKeepsItsWord
<1>12. CASE Watch
  BY <1>12 DEF Watch, LaunchInv, ProcsInv, UrlInv, WatchInv, LauncherKeepsItsWord
<1>13. CASE Interrupt
  BY <1>13 DEF Interrupt, LaunchInv, ProcsInv, UrlInv, WatchInv, LauncherKeepsItsWord
<1>14. CASE Raise
  BY <1>14 DEF Raise, LaunchInv, ProcsInv, UrlInv, WatchInv, LauncherKeepsItsWord
<1> QED
  BY <1>1, <1>2, <1>3, <1>4, <1>5, <1>6, <1>7, <1>8, <1>9, <1>10, <1>11, <1>12, <1>13,
     <1>14

LEMMA StartControlStep == ASSUME LaunchInv, OwnerInv, StartControl PROVE LaunchInv'
<1>1. place[Main] = "down" /\ place'[Main] # "down"
  BY MainBoots DEF StartControl
<1> QED
  BY <1>1, UrlsDiffer
  DEF StartControl, Go, spawn, Running, Control, ControlRuns, Before,
      LaunchInv, ProcsInv, UrlInv, WatchInv, LauncherKeepsItsWord

(* shutdown(): what is on the list is all that it has started and that     *)
(* has not been replaced.                                                  *)
LEMMA ShutdownStep == ASSUME LaunchInv, OwnerInv, Shutdown PROVE LaunchInv'
<1>1. Control \in children => place'[Main] = "down"
  BY MainStops DEF Shutdown, ControlRuns, startupVars
<1>2. Control \in started => Control \in children
  BY DEF Shutdown, LaunchInv, ProcsInv, Control
<1>3. \A p \in started : p # Control => <<p, run>> \notin others'
  BY DEF Shutdown, LaunchInv, ProcsInv, Control
<1>4. \A p \in started' : ~Running(p)'
  BY <1>1, <1>2, <1>3 DEF Shutdown, Running, Control, LaunchInv, ProcsInv
<1> QED
  BY <1>4 DEF Shutdown, Go, Before, LaunchInv, ProcsInv, UrlInv, WatchInv, LauncherKeepsItsWord

LEMMA ChildEndsStep == ASSUME LaunchInv, OwnerInv, ChildEnds PROVE LaunchInv'
<1>1. \/ place'[Main] = place[Main] /\ \E p \in others : others' = others \ {p}
      \/ ControlRuns /\ place'[Main] = "down" /\ others' = others
  BY MainStops DEF ChildEnds, startupVars
<1> QED
  BY <1>1
  DEF ChildEnds, OneDied, Running, Control, ControlRuns, Before, LaunchInv, ProcsInv, UrlInv,
      WatchInv, LauncherKeepsItsWord

LEMMA ControlSteps == ASSUME LaunchInv, ControlStep PROVE LaunchInv'
BY MainRuns
DEF ControlStep, OneDied, Running, Control, ControlRuns, Before, LaunchInv, ProcsInv, UrlInv,
    WatchInv, LauncherKeepsItsWord

(* A step of somebody else leaves Main where it is.                        *)
LEMMA OtherSteps ==
  ASSUME LaunchInv, UNCHANGED launchVars, place'[Main] = place[Main]
  PROVE  LaunchInv'
BY DEF launchVars, Running, Control, ControlRuns, Before, LaunchInv, ProcsInv, UrlInv,
       WatchInv, LauncherKeepsItsWord

LEMMA OthersLeaveMain ==
  ASSUME OwnerInv, OtherWorkers \/ Operate
  PROVE  place'[Main] = place[Main]
<1>1. CASE Operate
  BY <1>1 DEF Operate, mint_owner_key, DeleteOwner
<1>2. ASSUME NEW w \in Workers \ {Main}, Boot(w) \/ Lifespan(w) \/ StopWorker(w)
      PROVE  place'[Main] = place[Main]
  BY <1>2, LauncherAssumption
  DEF Boot, Lifespan, ReadRevision, Migrate, VerifyRuntime, Look, InsertOwner,
      InsertTimeout, OpenFile, WriteFile, CommitOwner, StopWorker, Proceed, Exit,
      OwnerInv, StartupTypeOK
<1> QED
  BY <1>1, <1>2 DEF OtherWorkers

LEMMA LaunchNext == LaunchInv /\ OwnerInv /\ [Next]_serverVars => LaunchInv'
<1> SUFFICES ASSUME LaunchInv, OwnerInv, [Next]_serverVars PROVE LaunchInv'
  OBVIOUS
<1>1. CASE LaunchStep
  BY <1>1, QuietSteps, StartControlStep, ShutdownStep, ChildEndsStep, ControlSteps
  DEF LaunchStep
<1>2. CASE (OtherWorkers \/ Operate) /\ UNCHANGED launchVars
  BY <1>2, OthersLeaveMain, OtherSteps
<1>3. CASE UNCHANGED launchVars /\ UNCHANGED startupVars
  BY <1>3, OtherSteps DEF startupVars
<1> QED
  BY <1>1, <1>2, <1>3 DEF Next, Machine, Attempts, Visits, serverVars

(* Ctrl-C, a failure or a child that ends leaves nothing running that this *)
(* run has started; only those stop it; and the public address that was    *)
(* printed is the one that the app hands out.                              *)
THEOREM TheLauncherKeepsItsWord == Spec => []LauncherKeepsItsWord
<1>1. Init => OwnerInv /\ LaunchInv
  BY OwnerInit, LaunchInitial DEF Init
<1>2. OwnerInv /\ [Next]_serverVars => OwnerInv'
  BY OwnerStep, NextIsStartup
<1>3. LaunchInv => LauncherKeepsItsWord
  BY DEF LaunchInv
<1> QED
  BY <1>1, <1>2, <1>3, LaunchNext, PTL DEF Spec

----------------------------------------------------------------------------
(* The limiter.  What it has been asked is a sequence A of attempts, whose *)
(* times do not decrease.                                                  *)
Window(k) == Rule(k).window
Bucket(table, k) == IF k \in DOMAIN table THEN table[k] ELSE <<>>
Attempted == [key : Keys, at : Nat, wait : Nat]
InOrder(A, t) ==
  /\ A \in Seq(Attempted)
  /\ \A m \in DOMAIN A : A[m].at <= t
  /\ \A m, n \in DOMAIN A : m <= n => A[m].at <= A[n].at

(* A bucket lists, in their order, attempts for its key that were let      *)
(* through; those it does not list have left the window.                   *)
Lists(A, bucket, k, t, f) ==
  /\ f \in [1..Len(bucket) -> DOMAIN A]
  /\ \A i, j \in 1..Len(bucket) : i < j => f[i] < f[j]
  /\ \A i \in 1..Len(bucket) :
       A[f[i]].key = k /\ A[f[i]].wait = 0 /\ A[f[i]].at = bucket[i]
  /\ \A m \in DOMAIN A : A[m].key = k /\ A[m].wait = 0 =>
       A[m].at + Window(k) <= t \/ \E i \in 1..Len(bucket) : f[i] = m
Remembers(A, bucket, k, t) ==
  /\ bucket \in Seq(Nat) /\ Len(bucket) <= Rule(k).limit
  /\ \E f : Lists(A, bucket, k, t, f)

(* The attempts of A for a key in the window that ends at t.               *)
InWindow(A, k, t) ==
  {m \in DOMAIN A : /\ A[m].key = k /\ A[m].wait = 0
                    /\ A[m].at <= t /\ t < A[m].at + Window(k)}

(* Limited, said of the first attempts.                                    *)
ThroughOf(A, n, t) ==
  {m \in 1..(n - 1) :
     /\ A[m].key = A[n].key /\ A[m].wait = 0
     /\ A[m].at <= t /\ t < A[m].at + Rule(A[n].key).window}
FullOf(A, n, t) == Cardinality(ThroughOf(A, n, t)) >= Rule(A[n].key).limit
LimitedOf(A) ==
  \A n \in DOMAIN A :
    /\ A[n].wait = 0 <=> ~FullOf(A, n, A[n].at)
    /\ A[n].wait > 0 =>
         /\ ~FullOf(A, n, A[n].at + 2 * A[n].wait)
         /\ \A t \in A[n].at..(A[n].at + 2 * (A[n].wait - 1) - 1) : FullOf(A, n, t)

LEMMA RuleTyped ==
  ASSUME NEW k \in Keys
  PROVE  /\ Rule(k).limit \in Nat \ {0} /\ Window(k) \in Nat \ {0}
         /\ Window(k) <= AtLeast(Login_Per_Ip.window, Register_Per_Ip.window)
         /\ AtLeast(Login_Per_Ip.window, Register_Per_Ip.window) \in Nat
<1>1. k[1] \in {"login_ip", "login_account", "register"}
  BY DEF Keys
<1>2. \A b \in {"login_ip", "login_account", "register"} :
        Rules[b].limit \in Nat \ {0} /\ Rules[b].window \in Nat \ {0}
  BY RateLimitAssumption DEF Rules
<1>3. /\ Rules["login_ip"] = Login_Per_Ip /\ Rules["register"] = Register_Per_Ip
      /\ Rules["login_account"] = Login_Per_Account
  BY DEF Rules
<1> QED
  BY <1>1, <1>2, <1>3, RateLimitAssumption DEF Rule, Window, AtLeast

(* A set of numbers that is not empty has a least one.                     *)
LEMMA LeastNumber ==
  ASSUME NEW S, S \subseteq Nat, S # {}
  PROVE  \E x \in S : \A y \in S : x <= y
<1>1. PICK x \in S : \A y \in S : ~(<<y, x>> \in OpToRel(<, Nat))
  BY WFMin, NatLessThanWellFounded
<1>2. \A y \in S : ~(y < x)
  BY <1>1 DEF OpToRel
<1> QED
  BY <1>2

(* _prune drops what has left the window, and nothing else.                *)
LEMMA PruneDrops ==
  ASSUME now \in Nat, NEW b \in Seq(Nat), NEW w \in Nat,
         \A i, j \in 1..Len(b) : i < j => b[i] <= b[j]
  PROVE  \E p \in 1..(Len(b) + 1) :
           /\ _prune(b, w) = SubSeq(b, p, Len(b))
           /\ \A i \in 1..Len(b) : i >= p <=> b[i] + w > now
<1> DEFINE kept == {i \in DOMAIN b : b[i] + w > now}
           p == CHOOSE i \in kept : \A j \in kept : i <= j
<1>1. DOMAIN b = 1..Len(b) /\ Len(b) \in Nat /\ \A i \in 1..Len(b) : b[i] \in Nat
  OBVIOUS
<1>2. CASE kept = {}
  <2>1. _prune(b, w) = <<>>
    BY <1>2 DEF _prune
  <2>2. SubSeq(b, Len(b) + 1, Len(b)) = <<>>
    BY <1>1, SubSeqEmpty
  <2>3. \A i \in 1..Len(b) : ~(i >= Len(b) + 1) /\ ~(b[i] + w > now)
    BY <1>1, <1>2
  <2>4. Len(b) + 1 \in 1..(Len(b) + 1)
    BY <1>1
  <2> WITNESS Len(b) + 1 \in 1..(Len(b) + 1)
  <2> QED
    BY <2>1, <2>2, <2>3
<1>3. CASE kept # {}
  <2>0. kept \subseteq Nat
    BY <1>1
  <2>1. \E i \in kept : \A j \in kept : i <= j
    <3> HIDE DEF kept
    <3> QED
      BY <1>3, <2>0, LeastNumber
  <2>2. p \in kept /\ \A j \in kept : p <= j
    BY <2>1
  <2>3. _prune(b, w) = SubSeq(b, p, Len(b))
    BY <1>3 DEF _prune
  <2> HIDE DEF p
  <2>4. ASSUME NEW i \in 1..Len(b), i >= p PROVE b[i] + w > now
    <3>1. p \in 1..Len(b) /\ b[p] + w > now
      BY <1>1, <2>2
    <3>2. b[p] <= b[i]
      BY <2>4, <3>1
    <3> QED
      BY <1>1, <3>1, <3>2
  <2>5. \A i \in 1..Len(b) : b[i] + w > now => p <= i
    BY <1>1, <2>2
  <2>6. p \in 1..(Len(b) + 1)
    BY <1>1, <2>2
  <2>7. \A i \in 1..Len(b) : i >= p <=> b[i] + w > now
    BY <1>1, <2>4, <2>5, <2>6
  <2> QED
    BY <2>3, <2>6, <2>7
<1> QED
  BY <1>2, <1>3

(* What is listed is in the order of the attempts.                         *)
LEMMA ListedInOrder ==
  ASSUME NEW A, NEW t, InOrder(A, t), NEW k, NEW b \in Seq(Nat), NEW u,
         NEW f, Lists(A, b, k, u, f)
  PROVE  \A i, j \in 1..Len(b) : i < j => b[i] <= b[j]
<1> SUFFICES ASSUME NEW i \in 1..Len(b), NEW j \in 1..Len(b), i < j
             PROVE  b[i] <= b[j]
  OBVIOUS
<1>1. f[i] < f[j] /\ f[i] \in DOMAIN A /\ f[j] \in DOMAIN A
  BY DEF Lists
<1>2. A[f[i]].at = b[i] /\ A[f[j]].at = b[j]
  BY DEF Lists
<1>3. DOMAIN A \subseteq Nat
  BY DEF InOrder
<1>4. f[i] <= f[j]
  BY <1>1, <1>3
<1> QED
  BY <1>1, <1>2, <1>4 DEF InOrder

(* Pruned at the present time, a bucket remembers all the same.            *)
LEMMA PrunedRemembers ==
  ASSUME now \in Nat, NEW k \in Keys, NEW A, InOrder(A, now),
         NEW b, Remembers(A, b, k, now),
         NEW e, e = _prune(b, Window(k))
  PROVE  /\ Remembers(A, e, k, now)
         /\ \A i \in 1..Len(e) : e[i] + Window(k) > now
         /\ \A i, j \in 1..Len(e) : i < j => e[i] <= e[j]
<1>1. b \in Seq(Nat) /\ Len(b) <= Rule(k).limit /\ Len(b) \in Nat
  BY DEF Remembers
<1>2. Rule(k).limit \in Nat /\ Window(k) \in Nat
  BY RuleTyped
<1>3. PICK f : Lists(A, b, k, now, f)
  BY DEF Remembers
<1>4. \A i, j \in 1..Len(b) : i < j => b[i] <= b[j]
  BY <1>1, <1>3, ListedInOrder
<1>5. PICK p \in 1..(Len(b) + 1) :
        /\ e = SubSeq(b, p, Len(b))
        /\ \A i \in 1..Len(b) : i >= p <=> b[i] + Window(k) > now
  BY <1>1, <1>2, <1>4, PruneDrops
<1>6. /\ e \in Seq(Nat) /\ Len(e) = Len(b) - p + 1
      /\ \A i \in 1..Len(e) : i + p - 1 \in 1..Len(b) /\ e[i] = b[i + p - 1]
  <2>1. \A i \in p..Len(b) : b[i] \in Nat
    BY <1>1, <1>5
  <2>2. /\ e \in Seq(Nat) /\ Len(e) = IF p <= Len(b) THEN Len(b) - p + 1 ELSE 0
        /\ \A i \in 1..(Len(b) - p + 1) : e[i] = b[p + i - 1]
    BY <1>1, <1>5, <2>1, SubSeqProperties
  <2>3. Len(e) = Len(b) - p + 1
    BY <1>1, <1>5, <2>2
  <2> QED
    BY <1>1, <1>5, <2>2, <2>3
<1>7. \A i \in 1..Len(e) : e[i] + Window(k) > now
  BY <1>1, <1>5, <1>6
<1>8. \A i, j \in 1..Len(e) : i < j => e[i] <= e[j]
  BY <1>1, <1>4, <1>5, <1>6
<1> DEFINE g == [i \in 1..Len(e) |-> f[i + p - 1]]
<1>9. Lists(A, e, k, now, g)
  <2>1. \A i \in 1..Len(e) : g[i] = f[i + p - 1] /\ f[i + p - 1] \in DOMAIN A
    BY <1>3, <1>6 DEF Lists
  <2>2. g \in [1..Len(e) -> DOMAIN A]
    BY <2>1
  <2>3. \A i, j \in 1..Len(e) : i < j => g[i] < g[j]
    <3> SUFFICES ASSUME NEW i \in 1..Len(e), NEW j \in 1..Len(e), i < j
                 PROVE  g[i] < g[j]
      OBVIOUS
    <3>1. /\ i + p - 1 \in 1..Len(b) /\ j + p - 1 \in 1..Len(b)
          /\ i + p - 1 < j + p - 1
      BY <1>1, <1>5, <1>6
    <3>2. f[i + p - 1] < f[j + p - 1]
      BY <1>3, <3>1 DEF Lists
    <3> QED
      BY <2>1, <3>2
  <2>4. \A i \in 1..Len(e) :
          A[g[i]].key = k /\ A[g[i]].wait = 0 /\ A[g[i]].at = e[i]
    BY <1>3, <1>6, <2>1 DEF Lists
  <2>5. ASSUME NEW m \in DOMAIN A, A[m].key = k, A[m].wait = 0,
               ~(A[m].at + Window(k) <= now)
        PROVE  \E i \in 1..Len(e) : g[i] = m
    <3>1. PICK j \in 1..Len(b) : f[j] = m
      BY <1>3, <2>5 DEF Lists
    <3>2. b[j] = A[m].at
      BY <1>3, <3>1 DEF Lists
    <3>3. b[j] \in Nat
      BY <1>1
    <3>4. j >= p
      BY <1>2, <1>5, <2>5, <3>2, <3>3
    <3>5. j - p + 1 \in 1..Len(e) /\ (j - p + 1) + p - 1 = j
      BY <1>1, <1>5, <1>6, <3>4
    <3>6. g[j - p + 1] = m
      BY <2>1, <3>1, <3>5
    <3> QED
      BY <3>5, <3>6
  <2> HIDE DEF g
  <2> QED
    BY <2>2, <2>3, <2>4, <2>5 DEF Lists
<1> HIDE DEF g
<1>10. \E h : Lists(A, e, k, now, h)
  BY <1>9
<1>11. Len(e) <= Rule(k).limit
  BY <1>1, <1>2, <1>5, <1>6
<1> QED
  BY <1>6, <1>7, <1>8, <1>10, <1>11 DEF Remembers

LEMMA AttemptTyped ==
  ASSUME NEW A, NEW t, InOrder(A, t)
  PROVE  /\ DOMAIN A \subseteq Nat
         /\ \A m \in DOMAIN A : A[m].at \in Nat /\ A[m].at <= t
<1>1. A \in Seq(Attempted) /\ DOMAIN A = 1..Len(A) /\ Len(A) \in Nat
  BY DEF InOrder
<1>2. \A m \in DOMAIN A : A[m] \in Attempted
  BY <1>1
<1>3. \A x \in Attempted : x.at \in Nat
  BY DEF Attempted
<1> QED
  BY <1>1, <1>2, <1>3 DEF InOrder

(* A pruned bucket counts the attempts in the window ...                   *)
LEMMA ListedAreCounted ==
  ASSUME now \in Nat, NEW k \in Keys, NEW A, InOrder(A, now), NEW e \in Seq(Nat),
         \A i \in 1..Len(e) : e[i] + Window(k) > now,
         NEW f, Lists(A, e, k, now, f)
  PROVE  /\ \A i \in 1..Len(e) : f[i] \in InWindow(A, k, now)
         /\ \A m \in InWindow(A, k, now) : \E i \in 1..Len(e) : f[i] = m
         /\ IsFiniteSet(InWindow(A, k, now))
         /\ Cardinality(InWindow(A, k, now)) = Len(e)
<1>1. Len(e) \in Nat /\ DOMAIN A \subseteq Nat /\ Window(k) \in Nat
      /\ \A m \in DOMAIN A : A[m].at \in Nat /\ A[m].at <= now
  BY RuleTyped, AttemptTyped
<1>2. \A i \in 1..Len(e) : f[i] \in InWindow(A, k, now)
  BY <1>1 DEF Lists, InWindow
<1>3. ASSUME NEW m \in InWindow(A, k, now) PROVE \E i \in 1..Len(e) : f[i] = m
  <2>1. /\ m \in DOMAIN A /\ A[m].key = k /\ A[m].wait = 0
        /\ ~(A[m].at + Window(k) <= now)
    BY <1>1, <1>3 DEF InWindow
  <2> QED
    BY <2>1 DEF Lists
<1>4. \A i, j \in 1..Len(e) : f[i] = f[j] => i = j
  <2> SUFFICES ASSUME NEW i \in 1..Len(e), NEW j \in 1..Len(e), f[i] = f[j]
               PROVE  i = j
    OBVIOUS
  <2>1. f[i] \in Nat /\ f[j] \in Nat
    BY <1>1 DEF Lists
  <2>2. ~(i < j) /\ ~(j < i)
    BY <2>1 DEF Lists
  <2> QED
    BY <1>1, <2>2
<1>5. f \in [1..Len(e) -> InWindow(A, k, now)]
  BY <1>2 DEF Lists
<1>6. f \in Bijection(1..Len(e), InWindow(A, k, now))
  BY <1>3, <1>4, <1>5 DEF Bijection, Injection, IsInjective, Surjection
<1>7. ExistsBijection(1..Len(e), InWindow(A, k, now))
  BY <1>6 DEF ExistsBijection
<1>8. IsFiniteSet(InWindow(A, k, now))
  BY <1>1, <1>7, FS_NatBijection
<1> QED
  BY <1>1, <1>2, <1>3, <1>7, <1>8, FS_CountingElements

(* ... of which none leaves it before the first, and the first does then.  *)
LEMMA FirstLeavesFirst ==
  ASSUME now \in Nat, NEW k \in Keys, NEW A, InOrder(A, now),
         NEW e \in Seq(Nat), e # <<>>,
         \A i \in 1..Len(e) : e[i] + Window(k) > now,
         \A i, j \in 1..Len(e) : i < j => e[i] <= e[j],
         NEW f, Lists(A, e, k, now, f), NEW t \in Nat, now <= t
  PROVE  /\ t < e[1] + Window(k) => Cardinality(InWindow(A, k, t)) = Len(e)
         /\ e[1] + Window(k) <= t => Cardinality(InWindow(A, k, t)) < Len(e)
<1>1. Len(e) \in Nat \ {0} /\ 1 \in 1..Len(e) /\ Window(k) \in Nat
      /\ (\A i \in 1..Len(e) : e[i] \in Nat)
      /\ \A m \in DOMAIN A : A[m].at \in Nat /\ A[m].at <= now
  BY RuleTyped, AttemptTyped
<1>2. /\ \A i \in 1..Len(e) : f[i] \in InWindow(A, k, now)
      /\ \A m \in InWindow(A, k, now) : \E i \in 1..Len(e) : f[i] = m
      /\ IsFiniteSet(InWindow(A, k, now))
      /\ Cardinality(InWindow(A, k, now)) = Len(e)
  BY ListedAreCounted
<1>3. \A m \in InWindow(A, k, now) :
        m \in InWindow(A, k, t) <=> t < A[m].at + Window(k)
  BY <1>1 DEF InWindow
<1>4. InWindow(A, k, t) \subseteq InWindow(A, k, now)
  BY <1>1 DEF InWindow
<1>5. \A i \in 1..Len(e) : A[f[i]].at = e[i] /\ e[1] <= e[i]
  BY <1>1 DEF Lists
<1>6. ASSUME t < e[1] + Window(k)
      PROVE  Cardinality(InWindow(A, k, t)) = Len(e)
  <2>1. \A m \in InWindow(A, k, now) : t < A[m].at + Window(k)
    BY <1>1, <1>2, <1>5, <1>6
  <2>2. InWindow(A, k, t) = InWindow(A, k, now)
    BY <1>3, <1>4, <2>1
  <2> QED
    BY <1>2, <2>2
<1>7. ASSUME e[1] + Window(k) <= t
      PROVE  Cardinality(InWindow(A, k, t)) < Len(e)
  <2>1. f[1] \in InWindow(A, k, now) /\ f[1] \notin InWindow(A, k, t)
    <3>1. f[1] \in InWindow(A, k, now) /\ A[f[1]].at = e[1]
      BY <1>1, <1>2, <1>5
    <3>2. ~(t < A[f[1]].at + Window(k))
      BY <1>1, <1>7, <3>1
    <3> QED
      BY <1>3, <3>1, <3>2
  <2>2. /\ IsFiniteSet(InWindow(A, k, t))
        /\ Cardinality(InWindow(A, k, t)) <= Len(e)
        /\ Cardinality(InWindow(A, k, t)) # Len(e)
    BY <1>2, <1>4, <2>1, FS_Subset
  <2>3. Cardinality(InWindow(A, k, t)) \in Nat
    BY <2>2, FS_CardinalityType
  <2> QED
    BY <1>1, <2>2, <2>3
<1> QED
  BY <1>6, <1>7

(* One more attempt does not change what is said of the earlier ones.      *)
LEMMA OneMoreAttempt ==
  ASSUME NEW A, InOrder(A, now), LimitedOf(A), NEW e \in Attempted, e.at = now,
         now \in Nat,
         LET Count(t) == Cardinality(InWindow(A, e.key, t))
         IN /\ e.wait = 0 <=> ~(Count(now) >= Rule(e.key).limit)
            /\ e.wait > 0 =>
                 /\ ~(Count(now + 2 * e.wait) >= Rule(e.key).limit)
                 /\ \A t \in now..(now + 2 * (e.wait - 1) - 1) :
                      Count(t) >= Rule(e.key).limit
  PROVE  InOrder(Append(A, e), now) /\ LimitedOf(Append(A, e))
<1> DEFINE B == Append(A, e)
<1>1. /\ B \in Seq(Attempted) /\ Len(B) = Len(A) + 1 /\ Len(A) \in Nat
      /\ DOMAIN A = 1..Len(A) /\ DOMAIN B = 1..(Len(A) + 1)
      /\ \A n \in DOMAIN A : B[n] = A[n]
      /\ B[Len(A) + 1] = e
  BY DEF InOrder
<1> HIDE DEF B
<1>2. \A n \in DOMAIN B : n \in DOMAIN A \/ n = Len(A) + 1
  BY <1>1
<1>3. InOrder(B, now)
  <2>1. \A n \in DOMAIN B : B[n].at <= now
    BY <1>1, <1>2 DEF InOrder
  <2>2. \A m, n \in DOMAIN B : m <= n => B[m].at <= B[n].at
    <3> SUFFICES ASSUME NEW m \in DOMAIN B, NEW n \in DOMAIN B, m <= n
                 PROVE  B[m].at <= B[n].at
      OBVIOUS
    <3>1. CASE n = Len(A) + 1
      BY <1>1, <2>1, <3>1
    <3>2. CASE n # Len(A) + 1
      <4>1. m \in DOMAIN A /\ n \in DOMAIN A
        BY <1>1, <3>2
      <4> QED
        BY <1>1, <4>1 DEF InOrder
    <3> QED
      BY <3>1, <3>2
  <2> QED
    BY <1>1, <2>1, <2>2 DEF InOrder
<1>4. ASSUME NEW n \in DOMAIN A, NEW t
      PROVE  FullOf(B, n, t) <=> FullOf(A, n, t)
  <2>1. B[n] = A[n] /\ \A m \in 1..(n - 1) : B[m] = A[m]
    BY <1>1
  <2>2. ThroughOf(B, n, t) = ThroughOf(A, n, t)
    BY <2>1 DEF ThroughOf
  <2> QED
    BY <2>1, <2>2 DEF FullOf
<1>5. ASSUME NEW t
      PROVE  FullOf(B, Len(A) + 1, t)
               <=> Cardinality(InWindow(A, e.key, t)) >= Rule(e.key).limit
  <2>1. ThroughOf(B, Len(A) + 1, t) = InWindow(A, e.key, t)
    BY <1>1 DEF ThroughOf, InWindow, Window
  <2> QED
    BY <1>1, <2>1 DEF FullOf
<1>6. ASSUME NEW n \in DOMAIN A
      PROVE  /\ B[n].wait = 0 <=> ~FullOf(B, n, B[n].at)
             /\ B[n].wait > 0 =>
                  /\ ~FullOf(B, n, B[n].at + 2 * B[n].wait)
                  /\ \A t \in B[n].at..(B[n].at + 2 * (B[n].wait - 1) - 1) :
                       FullOf(B, n, t)
  BY <1>1, <1>4 DEF LimitedOf
<1>7. LET n == Len(A) + 1 IN
        /\ B[n].wait = 0 <=> ~FullOf(B, n, B[n].at)
        /\ B[n].wait > 0 =>
             /\ ~FullOf(B, n, B[n].at + 2 * B[n].wait)
             /\ \A t \in B[n].at..(B[n].at + 2 * (B[n].wait - 1) - 1) :
                  FullOf(B, n, t)
  BY <1>1, <1>5
<1>8. LimitedOf(B)
  BY <1>2, <1>6, <1>7 DEF LimitedOf
<1> QED
  BY <1>3, <1>8 DEF B

(* The wait is rounded up to whole seconds, and by no more than one.       *)
LEMMA WaitIsRounded ==
  ASSUME NEW x \in Nat \ {0}
  PROVE  /\ x \div 2 \in Nat /\ AtLeast(1, (x \div 2) + 1) = (x \div 2) + 1
         /\ 2 * ((x \div 2) + 1) > x /\ 2 * (x \div 2) <= x
BY DEF AtLeast

(* What a key's bucket is after the eviction: what it was, or nothing, if  *)
(* all that it lists has left every window.                                *)
LEMMA EvictionForgets ==
  ASSUME now \in Nat, NEW k \in Keys, NEW A, InOrder(A, now), NEW table,
         Remembers(A, Bucket(table, k), k, now)
  PROVE  Remembers(A, Bucket(_evict_stale(table), k), k, now)
<1> DEFINE b == Bucket(table, k)
           longest == AtLeast(Login_Per_Ip.window, Register_Per_Ip.window)
           stay == {j \in DOMAIN table :
                      table[j] # <<>> /\ Last(table[j]) + longest > now}
<1>1. _evict_stale(table) = [j \in stay |-> table[j]]
  BY DEF _evict_stale, Restrict
<1>2. CASE k \in stay
  <2>1. Bucket(_evict_stale(table), k) = b
    BY <1>1, <1>2 DEF Bucket
  <2> QED
    BY <2>1
<1>3. CASE k \notin stay
  <2>1. Bucket(_evict_stale(table), k) = <<>>
    BY <1>1, <1>3 DEF Bucket
  <2>2. b \in Seq(Nat) /\ Len(b) \in Nat /\ DOMAIN b = 1..Len(b)
    BY DEF Remembers
  <2>3. b # <<>> => b[Len(b)] + longest <= now
    <3> SUFFICES ASSUME b # <<>> PROVE b[Len(b)] + longest <= now
      OBVIOUS
    <3>1. k \in DOMAIN table /\ b = table[k]
      BY DEF Bucket
    <3>2. ~(Last(b) + longest > now)
      BY <1>3, <3>1
    <3>3. b[Len(b)] \in Nat /\ longest \in Nat
      BY <2>2, RuleTyped
    <3> QED
      BY <3>2, <3>3 DEF Last
  <2>4. PICK f : Lists(A, b, k, now, f)
    BY DEF Remembers
  <2>5. \A i, j \in 1..Len(b) : i < j => b[i] <= b[j]
    BY <2>2, <2>4, ListedInOrder
  <2>6. \A i \in 1..Len(b) : b[i] + Window(k) <= now
    <3> SUFFICES ASSUME NEW i \in 1..Len(b) PROVE b[i] + Window(k) <= now
      OBVIOUS
    <3>1. b # <<>> /\ Len(b) \in 1..Len(b)
      BY <2>2
    <3>2. b[i] <= b[Len(b)]
      BY <2>2, <2>5, <3>1
    <3>3. b[i] \in Nat /\ b[Len(b)] \in Nat
      BY <2>2, <3>1
    <3>4. Window(k) \in Nat /\ longest \in Nat /\ Window(k) <= longest
      BY RuleTyped
    <3> HIDE DEF b, longest
    <3> QED
      BY <2>3, <3>1, <3>2, <3>3, <3>4
  <2>7. \A m \in DOMAIN A : A[m].key = k /\ A[m].wait = 0 =>
          A[m].at + Window(k) <= now
    BY <2>4, <2>6 DEF Lists
  <2>8. Lists(A, <<>>, k, now, <<>>)
    BY <2>7 DEF Lists
  <2> QED
    BY <2>1, <2>8, RuleTyped DEF Remembers
<1> QED
  BY <1>2, <1>3

(* An attempt that is let through is listed last.                          *)
LEMMA HitIsListed ==
  ASSUME now \in Nat, NEW k \in Keys, NEW A, InOrder(A, now),
         NEW e, Remembers(A, e, k, now), Len(e) < Rule(k).limit,
         NEW x \in Attempted, x = [key |-> k, at |-> now, wait |-> 0]
  PROVE  Remembers(Append(A, x), Append(e, now), k, now)
<1> DEFINE B == Append(A, x)
           d == Append(e, now)
<1>1. /\ Len(A) \in Nat /\ DOMAIN A = 1..Len(A) /\ DOMAIN B = 1..(Len(A) + 1)
      /\ B[Len(A) + 1] = x /\ \A n \in DOMAIN A : B[n] = A[n]
  BY DEF InOrder
<1>2. /\ e \in Seq(Nat) /\ Len(e) \in Nat /\ d \in Seq(Nat) /\ Len(d) = Len(e) + 1
      /\ d[Len(e) + 1] = now /\ \A i \in 1..Len(e) : d[i] = e[i]
  BY AppendProperties DEF Remembers
<1>3. PICK f : Lists(A, e, k, now, f)
  BY DEF Remembers
<1> HIDE DEF B, d
<1> DEFINE g == [i \in 1..Len(d) |-> IF i = Len(d) THEN Len(A) + 1 ELSE f[i]]
<1>4. /\ \A i \in 1..Len(e) : g[i] = f[i] /\ f[i] \in DOMAIN A
      /\ g[Len(e) + 1] = Len(A) + 1
  <2>1. \A i \in 1..Len(e) : i \in 1..Len(d) /\ i # Len(d)
    BY <1>2
  <2>2. Len(d) \in 1..Len(d)
    BY <1>2
  <2>3. \A i \in 1..Len(e) : f[i] \in DOMAIN A
    BY <1>3 DEF Lists
  <2> QED
    BY <1>2, <2>1, <2>2, <2>3
<1>5. \A i \in 1..Len(d) : i \in 1..Len(e) \/ i = Len(e) + 1
  BY <1>2
<1>6. g \in [1..Len(d) -> DOMAIN B]
  <2>1. \A i \in 1..Len(d) : g[i] \in DOMAIN B
    BY <1>1, <1>4, <1>5
  <2> QED
    BY <2>1
<1> HIDE DEF g
<1>7. \A i, j \in 1..Len(d) : i < j => g[i] < g[j]
  <2> SUFFICES ASSUME NEW i \in 1..Len(d), NEW j \in 1..Len(d), i < j
               PROVE  g[i] < g[j]
    OBVIOUS
  <2>1. i \in 1..Len(e)
    BY <1>2
  <2>2. CASE j = Len(e) + 1
    BY <1>1, <1>4, <2>1, <2>2
  <2>3. CASE j \in 1..Len(e)
    BY <1>3, <1>4, <2>1, <2>3 DEF Lists
  <2> QED
    BY <1>5, <2>2, <2>3
<1>8. \A i \in 1..Len(d) : B[g[i]].key = k /\ B[g[i]].wait = 0 /\ B[g[i]].at = d[i]
  BY <1>1, <1>2, <1>3, <1>4, <1>5 DEF Lists
<1>9. ASSUME NEW m \in DOMAIN B, B[m].key = k, B[m].wait = 0
      PROVE  B[m].at + Window(k) <= now \/ \E i \in 1..Len(d) : g[i] = m
  <2>1. CASE m = Len(A) + 1
    BY <1>2, <1>4, <2>1
  <2>2. CASE m # Len(A) + 1
    <3>1. m \in DOMAIN A /\ B[m] = A[m]
      BY <1>1, <2>2
    <3>2. A[m].at + Window(k) <= now \/ \E i \in 1..Len(e) : f[i] = m
      BY <1>3, <1>9, <3>1 DEF Lists
    <3>3. ASSUME NEW i \in 1..Len(e), f[i] = m
          PROVE  i \in 1..Len(d) /\ g[i] = m
      BY <1>2, <1>4, <3>3
    <3> QED
      BY <3>1, <3>2, <3>3
  <2> QED
    BY <2>1, <2>2
<1>10. \E h : Lists(B, d, k, now, h)
  BY <1>6, <1>7, <1>8, <1>9 DEF Lists
<1>11. Len(d) <= Rule(k).limit
  BY <1>2, RuleTyped
<1> QED
  BY <1>2, <1>10, <1>11 DEF Remembers, B, d

(* An attempt that no bucket lists: a refusal, or one for another key.     *)
LEMMA OthersAreRemembered ==
  ASSUME NEW k \in Keys, NEW A, InOrder(A, now), NEW b, Remembers(A, b, k, now),
         NEW x \in Attempted, x.key # k \/ x.wait # 0
  PROVE  Remembers(Append(A, x), b, k, now)
<1> DEFINE B == Append(A, x)
<1>1. /\ Len(A) \in Nat /\ DOMAIN A = 1..Len(A) /\ DOMAIN B = 1..(Len(A) + 1)
      /\ B[Len(A) + 1] = x /\ \A n \in DOMAIN A : B[n] = A[n]
  BY DEF InOrder
<1>2. PICK f : Lists(A, b, k, now, f)
  BY DEF Remembers
<1> HIDE DEF B
<1>3. f \in [1..Len(b) -> DOMAIN B]
  BY <1>1, <1>2 DEF Lists
<1>4. \A i \in 1..Len(b) : f[i] \in DOMAIN A
  BY <1>2 DEF Lists
<1>5. \A m \in DOMAIN B : B[m].key = k /\ B[m].wait = 0 => m \in DOMAIN A
  BY <1>1
<1>6. Lists(B, b, k, now, f)
  BY <1>1, <1>2, <1>3, <1>4, <1>5 DEF Lists
<1> QED
  BY <1>6 DEF Remembers, B

(* What holds of a table and of what it has been asked so far.             *)
LimitInvOf(A, table) ==
  /\ InOrder(A, now) /\ LimitedOf(A)
  /\ \A k \in Keys : Remembers(A, Bucket(table, k), k, now)

(* One call of check().                                                    *)
LEMMA CheckStep ==
  ASSUME now \in Nat, NEW A, NEW table, LimitInvOf(A, table), NEW k \in Keys,
         NEW c, c = check(table, k),
         NEW x, x = [key |-> k, at |-> now, wait |-> c.wait]
  PROVE  LimitInvOf(Append(A, x), c.table)
<1> DEFINE e == _prune(Bucket(table, k), Window(k))
           with(d) == [j \in DOMAIN table \cup {k} |-> IF j = k THEN d ELSE table[j]]
           grown == with(Append(e, now))
<1>1. InOrder(A, now) /\ LimitedOf(A)
      /\ \A j \in Keys : Remembers(A, Bucket(table, j), j, now)
  BY DEF LimitInvOf
<1>2. /\ Remembers(A, e, k, now)
      /\ \A i \in 1..Len(e) : e[i] + Window(k) > now
      /\ \A i, j \in 1..Len(e) : i < j => e[i] <= e[j]
  <2> HIDE DEF e
  <2>1. e = _prune(Bucket(table, k), Window(k))
    BY DEF e
  <2> QED
    BY <1>1, <2>1, PrunedRemembers
<1>3. Rule(k).limit \in Nat \ {0} /\ Window(k) \in Nat \ {0}
  BY RuleTyped
<1>4. e \in Seq(Nat) /\ Len(e) \in Nat /\ Len(e) <= Rule(k).limit
  BY <1>2 DEF Remembers
<1>5. PICK f : Lists(A, e, k, now, f)
  BY <1>2 DEF Remembers
<1>6. Cardinality(InWindow(A, k, now)) = Len(e)
  <2> HIDE DEF e
  <2> QED
    BY <1>1, <1>2, <1>4, <1>5, ListedAreCounted
<1>7. \A d : /\ Bucket(with(d), k) = d
             /\ \A j \in Keys : j # k => Bucket(with(d), j) = Bucket(table, j)
  BY DEF Bucket
<1>8. c = IF Len(e) >= Rule(k).limit
          THEN [table |-> with(e),
                wait |-> AtLeast(1, ((Window(k) - (now - Head(e))) \div 2) + 1)]
          ELSE [table |-> IF Cardinality(DOMAIN grown) > Max_Tracked_Keys
                          THEN _evict_stale(grown) ELSE grown,
                wait |-> 0]
  BY DEF check, Bucket, Window
<1> HIDE DEF e, with, grown
<1>9. CASE Len(e) >= Rule(k).limit
  <2> DEFINE left == Window(k) - (now - e[1])
             wait == (left \div 2) + 1
  <2>1. c.table = with(e)
        /\ c.wait = AtLeast(1, ((Window(k) - (now - Head(e))) \div 2) + 1)
    BY <1>8, <1>9
  <2>2. Len(e) = Rule(k).limit /\ e # <<>> /\ 1 \in 1..Len(e) /\ Head(e) = e[1]
    BY <1>3, <1>4, <1>9
  <2>3. left \in Nat \ {0} /\ e[1] \in Nat /\ now + left = e[1] + Window(k)
    <3>1. e[1] \in Nat /\ e[1] + Window(k) > now
      BY <1>2, <1>4, <2>2
    <3> QED
      BY <1>3, <3>1
  <2> HIDE DEF left
  <2>4. /\ c.wait = wait /\ wait \in Nat \ {0}
        /\ 2 * wait > left /\ 2 * (wait - 1) <= left
    <3>1. /\ left \div 2 \in Nat /\ AtLeast(1, (left \div 2) + 1) = (left \div 2) + 1
          /\ 2 * ((left \div 2) + 1) > left /\ 2 * (left \div 2) <= left
      BY <2>3, WaitIsRounded
    <3>2. c.wait = AtLeast(1, (left \div 2) + 1)
      BY <2>1, <2>2 DEF left
    <3> QED
      BY <3>1, <3>2
  <2> HIDE DEF wait
  <2>5. x \in Attempted /\ x.key = k /\ x.at = now /\ x.wait = wait
    BY <2>4 DEF Attempted
  <2>6. ASSUME NEW t \in Nat, now <= t
        PROVE  /\ t < now + left => Cardinality(InWindow(A, k, t)) = Len(e)
               /\ now + left <= t => Cardinality(InWindow(A, k, t)) < Len(e)
    BY <1>1, <1>2, <1>4, <1>5, <2>2, <2>3, <2>6, FirstLeavesFirst
  <2>7. ~(Cardinality(InWindow(A, k, now + 2 * wait)) >= Rule(k).limit)
    <3>1. /\ now + 2 * wait \in Nat /\ now <= now + 2 * wait
          /\ now + left <= now + 2 * wait
      BY <2>3, <2>4
    <3>2. IsFiniteSet(InWindow(A, k, now + 2 * wait))
      <4>1. InWindow(A, k, now + 2 * wait) \subseteq 1..Len(A) /\ Len(A) \in Nat
        BY <1>1 DEF InWindow, InOrder
      <4>2. IsFiniteSet(1..Len(A))
        BY <4>1, FS_Interval
      <4> QED
        BY <4>1, <4>2, FS_Subset
    <3>3. Cardinality(InWindow(A, k, now + 2 * wait)) \in Nat
      BY <3>2, FS_CardinalityType
    <3>4. Cardinality(InWindow(A, k, now + 2 * wait)) < Len(e)
      BY <2>6, <3>1
    <3> QED
      BY <1>4, <2>2, <3>3, <3>4
  <2>8. ASSUME NEW t \in now..(now + 2 * (wait - 1) - 1)
        PROVE  Cardinality(InWindow(A, k, t)) >= Rule(k).limit
    <3>1. t \in Nat /\ now <= t /\ t < now + left
      BY <2>3, <2>4
    <3> QED
      BY <1>4, <2>2, <2>6, <3>1
  <2>9. Cardinality(InWindow(A, k, now)) >= Rule(k).limit
    BY <1>4, <1>6, <2>2
  <2>10. InOrder(Append(A, x), now) /\ LimitedOf(Append(A, x))
    BY <1>1, <2>4, <2>5, <2>7, <2>8, <2>9, OneMoreAttempt
  <2>11. ASSUME NEW j \in Keys
         PROVE  Remembers(Append(A, x), Bucket(c.table, j), j, now)
    <3>1. Remembers(A, Bucket(c.table, j), j, now)
      BY <1>1, <1>2, <1>7, <2>1
    <3> QED
      BY <1>1, <2>4, <2>5, <3>1, OthersAreRemembered
  <2> QED
    BY <2>10, <2>11 DEF LimitInvOf
<1>10. CASE ~(Len(e) >= Rule(k).limit)
  <2>1. /\ c.wait = 0
        /\ c.table = grown \/ c.table = _evict_stale(grown)
    BY <1>8, <1>10
  <2>2. /\ x \in Attempted /\ x.key = k /\ x.at = now /\ x.wait = 0
        /\ x = [key |-> k, at |-> now, wait |-> 0]
    BY <2>1 DEF Attempted
  <2>3. InOrder(Append(A, x), now) /\ LimitedOf(Append(A, x))
    BY <1>1, <1>6, <1>10, <2>2, OneMoreAttempt
  <2>4. ASSUME NEW j \in Keys
        PROVE  Remembers(Append(A, x), Bucket(grown, j), j, now)
    <3>1. CASE j = k
      <4>1. Bucket(grown, j) = Append(e, now)
        BY <1>7, <3>1 DEF grown
      <4>2. Len(e) < Rule(k).limit
        BY <1>3, <1>4, <1>10
      <4> QED
        BY <1>1, <1>2, <2>2, <3>1, <4>1, <4>2, HitIsListed
    <3>2. CASE j # k
      <4>1. Bucket(grown, j) = Bucket(table, j)
        BY <1>7, <3>2 DEF grown
      <4> QED
        BY <1>1, <2>2, <3>2, <4>1, OthersAreRemembered
    <3> QED
      BY <3>1, <3>2
  <2>5. ASSUME NEW j \in Keys
        PROVE  Remembers(Append(A, x), Bucket(c.table, j), j, now)
    BY <2>1, <2>3, <2>4, EvictionForgets
  <2> QED
    BY <2>3, <2>5 DEF LimitInvOf
<1> QED
  BY <1>9, <1>10

LimitInv == now \in Nat /\ LimitInvOf(attempts, hits)

LEMMA LimitInitial == LimitInit => LimitInv
<1> SUFFICES ASSUME LimitInit PROVE LimitInv
  OBVIOUS
<1>1. now = 0 /\ attempts = <<>> /\ hits = <<>>
  BY DEF LimitInit
<1>2. \A k : Bucket(hits, k) = <<>>
  BY <1>1 DEF Bucket
<1>3. \A k : Lists(<<>>, <<>>, k, 0, <<>>)
  BY DEF Lists
<1>4. \A k \in Keys : Remembers(<<>>, <<>>, k, 0)
  BY <1>3, RuleTyped DEF Remembers
<1>5. InOrder(<<>>, 0) /\ LimitedOf(<<>>)
  BY DEF InOrder, LimitedOf
<1> QED
  BY <1>1, <1>2, <1>4, <1>5 DEF LimitInv, LimitInvOf

LEMMA EnforceStep ==
  ASSUME LimitInv, UNCHANGED now,
         NEW ks, ks[1] \in Keys, Len(ks) # 1 => ks[2] \in Keys, enforce(ks)
  PROVE  LimitInv'
<1> DEFINE answered(i, d) == [key |-> ks[i], at |-> now, wait |-> d.wait]
<1>1. PICK c : c = check(hits, ks[1])
  OBVIOUS
<1>2. PICK d : d = check(c.table, ks[2])
  OBVIOUS
<1>3. \/ hits' = c.table /\ attempts' = Append(attempts, answered(1, c))
      \/ /\ Len(ks) # 1
         /\ hits' = d.table /\ attempts' = attempts \o <<answered(1, c), answered(2, d)>>
  BY <1>1, <1>2 DEF enforce
<1>4. now \in Nat /\ LimitInvOf(attempts, hits)
  BY DEF LimitInv
<1>5. LimitInvOf(Append(attempts, answered(1, c)), c.table)
  BY <1>1, <1>4, CheckStep
<1>6. Len(ks) # 1 =>
        LimitInvOf(Append(Append(attempts, answered(1, c)), answered(2, d)), d.table)
  BY <1>2, <1>4, <1>5, CheckStep
<1>7. Append(Append(attempts, answered(1, c)), answered(2, d))
        = attempts \o <<answered(1, c), answered(2, d)>>
  BY <1>4 DEF LimitInvOf, InOrder
<1> HIDE DEF answered
<1>8. LimitInvOf(attempts', hits')
  BY <1>3, <1>5, <1>6, <1>7
<1> QED
  BY <1>4, <1>8 DEF LimitInv, LimitInvOf

(* When time passes, no bucket has to remember more than before.           *)
LEMMA TickStep == ASSUME LimitInv, Tick PROVE LimitInv'
<1>1. /\ now \in Nat /\ now' = now + 1 /\ attempts' = attempts /\ hits' = hits
      /\ InOrder(attempts, now) /\ LimitedOf(attempts)
  BY DEF Tick, LimitInv, LimitInvOf
<1>2. InOrder(attempts, now')
  <2>1. \A m \in DOMAIN attempts : attempts[m].at <= now'
    BY <1>1, AttemptTyped
  <2> QED
    BY <1>1, <2>1 DEF InOrder
<1>3. ASSUME NEW k \in Keys
      PROVE  Remembers(attempts, Bucket(hits, k), k, now')
  <2> DEFINE b == Bucket(hits, k)
  <2>1. Remembers(attempts, b, k, now)
    BY DEF LimitInv, LimitInvOf
  <2>2. PICK f : Lists(attempts, b, k, now, f)
    BY <2>1 DEF Remembers
  <2>3. \A m \in DOMAIN attempts :
          attempts[m].at + Window(k) <= now => attempts[m].at + Window(k) <= now'
    BY <1>1, AttemptTyped, RuleTyped
  <2> HIDE DEF b
  <2>4. Lists(attempts, b, k, now', f)
    BY <2>2, <2>3 DEF Lists
  <2> QED
    BY <2>1, <2>4 DEF Remembers, b
<1> QED
  BY <1>1, <1>2, <1>3 DEF LimitInv, LimitInvOf

LEMMA AttemptStep ==
  ASSUME LimitInv,
         (\E h \in Hosts : register(h) \/ \E a \in Accounts : login(h, a))
           \/ Tick \/ Restarted
  PROVE  LimitInv'
<1>1. ASSUME NEW h \in Hosts, register(h) PROVE LimitInv'
  <2>1. enforce(<< <<"register", h>> >>) /\ UNCHANGED now
    BY <1>1 DEF register
  <2>2. <<"register", h>> \in Keys
    BY DEF Keys
  <2> QED
    BY <2>1, <2>2, EnforceStep
<1>2. ASSUME NEW h \in Hosts, NEW a \in Accounts, login(h, a) PROVE LimitInv'
  <2>1. enforce(<< <<"login_ip", h>>, <<"login_account", a>> >>) /\ UNCHANGED now
    BY <1>2 DEF login
  <2>2. <<"login_ip", h>> \in Keys /\ <<"login_account", a>> \in Keys
    BY DEF Keys
  <2> QED
    BY <2>1, <2>2, EnforceStep
<1>3. CASE Restarted
  <2>1. now \in Nat /\ UNCHANGED now /\ attempts' = <<>> /\ hits' = <<>>
    BY <1>3 DEF Restarted, LimitInv
  <2>2. \A k : Lists(<<>>, <<>>, k, now, <<>>)
    BY DEF Lists
  <2>3. \A k \in Keys : Remembers(<<>>, <<>>, k, now)
    BY <2>2, RuleTyped DEF Remembers
  <2>4. \A k : Bucket(<<>>, k) = <<>>
    BY DEF Bucket
  <2>5. InOrder(<<>>, now) /\ LimitedOf(<<>>)
    BY DEF InOrder, LimitedOf
  <2> QED
    BY <2>1, <2>3, <2>4, <2>5 DEF LimitInv, LimitInvOf
<1> QED
  BY <1>1, <1>2, <1>3, TickStep

LEMMA LimitStands == ASSUME LimitInv, UNCHANGED limitVars PROVE LimitInv'
BY DEF limitVars, LimitInv, LimitInvOf

LEMMA LimitInvLimits == LimitInv => Limited
<1> SUFFICES ASSUME LimitInv PROVE Limited
  OBVIOUS
<1>1. LimitedOf(attempts)
  BY DEF LimitInv, LimitInvOf
<1>2. \A n, t : FullOf(attempts, n, t) <=> Full(n, t)
  BY DEF FullOf, Full, ThroughOf, LetThrough
<1> QED
  BY <1>1, <1>2 DEF LimitedOf, Limited

LEMMA LimitNext == LimitInv /\ [Next]_serverVars => LimitInv'
<1> SUFFICES ASSUME LimitInv, [Next]_serverVars PROVE LimitInv'
  OBVIOUS
<1>1. CASE Attempts
  BY <1>1, AttemptStep DEF Attempts
<1>2. CASE UNCHANGED limitVars
  BY <1>2, LimitStands
<1> QED
  BY <1>1, <1>2 DEF Next, Machine, Visits, serverVars

(* An attempt is let through exactly if fewer of its key than the rule's   *)
(* limit were let through in the window before it, however the buckets     *)
(* have been pruned and the table has been evicted since; and the wait     *)
(* that a refusal advertises is enough, and no second too long: for any    *)
(* rules and any number of hosts and accounts.                             *)
THEOREM AttemptsAreLimited == Spec => []Limited
<1>1. Init => LimitInv
  BY LimitInitial DEF Init
<1> QED
  BY <1>1, LimitNext, LimitInvLimits, PTL DEF Spec

----------------------------------------------------------------------------
(* What is served at an address.                                           *)

(* A path is its segments.  (The provers do not know that a string literal *)
(* is a string: the two that the code names are added.)                    *)
Segments == STRING \cup {"public", "index.html"}
Str == Seq(Segments)

LEMMA StringsAreSegments == Seq(STRING) \subseteq Str
<1>1. STRING \subseteq Segments
  BY DEF Segments
<1> QED
  BY <1>1, SeqMonotonic DEF Str

(* The account's files and deployments, and one request at most.           *)
SpaceInv ==
  /\ active \in BOOLEAN
  /\ tree \subseteq Files /\ \A f, g \in tree : ~IsStrictPrefix(f, g)
  /\ sites \subseteq Sites
  /\ \A c, d \in sites : c.name = d.name => c = d
VisitTyped ==
  /\ visit.path \in Paths
  /\ visit.path.space = NoSpace \/ visit.host = Base
  /\ visit.answer = Answer(visit.host, visit.path, visit.tags)
AddressInv == SpaceInv /\ (visit = NoVisit \/ VisitTyped)

LEMMA ConstantsTyped ==
  /\ Public \in Str /\ Index \in Str /\ \A f \in Files : f \in Str /\ f # <<>>
  /\ \A r \in Rests : r \in Str
  /\ \A d \in Sites : /\ d.name \notin SuffixNames
                      /\ d.source_dir \in Str
  /\ \A p \in Paths : p.rest \in Str /\ p = [space |-> p.space, rest |-> p.rest]
  /\ "index.html" \in SuffixNames /\ "index.html" \notin HiddenNames
  /\ Owner # NoSpace
<1>1. Public \in Str /\ Index \in Str
  <2>1. \A S : \A x \in S : <<x>> \in Seq(S)
    OBVIOUS
  <2>2. "public" \in Segments /\ "index.html" \in Segments
    BY DEF Segments
  <2>3. <<"public">> \in Seq(Segments) /\ <<"index.html">> \in Seq(Segments)
    BY <2>1, <2>2
  <2> QED
    BY <2>3 DEF Public, Index, Str
<1>2. \A f \in Files : f \in Str /\ f # <<>>
  BY AddressesAssumption, StringsAreSegments
<1>3. \A r \in Rests : r \in Str
  BY AddressesAssumption, StringsAreSegments
<1>4. \A d \in Sites : /\ d.name \notin SuffixNames
                       /\ d.source_dir \in Str
  BY AddressesAssumption, StringsAreSegments
<1>5. \A p \in Paths : p.rest \in Str /\ p = [space |-> p.space, rest |-> p.rest]
  BY <1>3 DEF Paths
<1> QED
  BY <1>1, <1>2, <1>3, <1>4, <1>5, AddressesAssumption

(* What follows a prefix.                                                  *)
LEMMA PrefixOfConcat ==
  ASSUME NEW b \in Str, NEW s \in Str
  PROVE  /\ b \o s \in Str /\ IsPrefix(b, b \o s)
         /\ SubSeq(b \o s, Len(b) + 1, Len(b \o s)) = s
         /\ \A n \in DOMAIN s :
              Len(b) + n \in DOMAIN (b \o s) /\ (b \o s)[Len(b) + n] = s[n]
<1> DEFINE t == b \o s
<1>1. /\ t \in Str /\ Len(t) = Len(b) + Len(s) /\ Len(b) \in Nat /\ Len(s) \in Nat
      /\ DOMAIN t = 1..Len(t) /\ DOMAIN s = 1..Len(s)
      /\ \A i \in 1..(Len(b) + Len(s)) :
           t[i] = IF i <= Len(b) THEN b[i] ELSE s[i - Len(b)]
  BY ConcatProperties DEF Str
<1> HIDE DEF t
<1>2. \A i \in 1..Len(t) : t[i] \in Segments
  BY <1>1 DEF Str
<1>3. \A i \in 1..Len(b) : b[i] \in Segments /\ t[i] = b[i]
  BY <1>1 DEF Str
<1>4. SubSeq(b, 1, Len(b)) = SubSeq(t, 1, Len(b))
  <2>1. /\ SubSeq(b, 1, Len(b)) \in Seq(Segments)
        /\ Len(SubSeq(b, 1, Len(b))) = IF 1 <= Len(b) THEN Len(b) - 1 + 1 ELSE 0
        /\ \A i \in 1..(Len(b) - 1 + 1) : SubSeq(b, 1, Len(b))[i] = b[1 + i - 1]
    BY <1>1, <1>3, SubSeqProperties
  <2>2. /\ SubSeq(t, 1, Len(b)) \in Seq(Segments)
        /\ Len(SubSeq(t, 1, Len(b))) = IF 1 <= Len(b) THEN Len(b) - 1 + 1 ELSE 0
        /\ \A i \in 1..(Len(b) - 1 + 1) : SubSeq(t, 1, Len(b))[i] = t[1 + i - 1]
    BY <1>1, <1>3, SubSeqProperties
  <2>3. Len(SubSeq(b, 1, Len(b))) = Len(b) /\ Len(SubSeq(t, 1, Len(b))) = Len(b)
    BY <1>1, <2>1, <2>2
  <2>4. \A i \in 1..Len(b) : SubSeq(b, 1, Len(b))[i] = SubSeq(t, 1, Len(b))[i]
    BY <1>1, <1>3, <2>1, <2>2
  <2> QED
    BY <2>1, <2>2, <2>3, <2>4, SeqEqual
<1>5. SubSeq(t, Len(b) + 1, Len(t)) = s
  <2> DEFINE u == SubSeq(t, Len(b) + 1, Len(t))
  <2>1. /\ u \in Seq(Segments)
        /\ Len(u) = IF Len(b) + 1 <= Len(t) THEN Len(t) - (Len(b) + 1) + 1 ELSE 0
        /\ \A i \in 1..(Len(t) - (Len(b) + 1) + 1) : u[i] = t[(Len(b) + 1) + i - 1]
    <3>1. Len(b) + 1 \in Int /\ Len(t) \in Int
      BY <1>1
    <3>2. \A i \in (Len(b) + 1)..Len(t) : t[i] \in Segments
      BY <1>1, <1>2
    <3> QED
      BY <3>1, <3>2, SubSeqProperties
  <2> HIDE DEF u
  <2>2. Len(u) = Len(s)
    BY <1>1, <2>1
  <2>3. \A i \in 1..Len(s) : u[i] = s[i]
    <3> SUFFICES ASSUME NEW i \in 1..Len(s) PROVE u[i] = s[i]
      OBVIOUS
    <3>1. u[i] = t[Len(b) + i]
      BY <1>1, <2>1
    <3>2. Len(b) + i \in 1..(Len(b) + Len(s)) /\ ~(Len(b) + i <= Len(b))
          /\ (Len(b) + i) - Len(b) = i
      BY <1>1
    <3> QED
      BY <1>1, <3>1, <3>2
  <2>4. u = s
    BY <2>1, <2>2, <2>3, SeqEqual DEF Str
  <2> QED
    BY <2>4 DEF u
<1>6. \A n \in DOMAIN s : Len(b) + n \in DOMAIN t /\ t[Len(b) + n] = s[n]
  BY <1>1
<1>7. IsPrefix(b, t)
  BY <1>1, <1>4 DEF IsPrefix
<1> QED
  BY <1>1, <1>5, <1>6, <1>7 DEF t

(* A longer path lies below the shorter one.                               *)
LEMMA BelowItsPrefix ==
  ASSUME NEW b \in Str, NEW s \in Str, s # <<>>
  PROVE  IsStrictPrefix(b, b \o s)
<1>1. IsPrefix(b, b \o s)
  BY PrefixOfConcat
<1>2. b # b \o s
  BY ConcatEqualIffEmpty DEF Str
<1> QED
  BY <1>1, <1>2 DEF IsStrictPrefix

LEMMA TailIsHidden ==
  ASSUME NEW r \in Str, r # <<>>
  PROVE  /\ Tail(r) \in Str
         /\ Hidden(Tail(r)) => Hidden(r)
         /\ Tail(r) # <<>> => Last(Tail(r)) = Last(r)
         /\ Tail(r) = <<>> => Last(r) = r[1]
<1>1. /\ Len(r) \in Nat \ {0} /\ DOMAIN r = 1..Len(r)
      /\ Tail(r) \in Str /\ Len(Tail(r)) = Len(r) - 1
      /\ DOMAIN Tail(r) = 1..(Len(r) - 1)
      /\ \A i \in 1..(Len(r) - 1) : Tail(r)[i] = r[i + 1]
  BY HeadTailProperties DEF Str
<1>2. Hidden(Tail(r)) => Hidden(r)
  <2> SUFFICES ASSUME NEW n \in 1..(Len(r) - 1), Tail(r)[n] \in HiddenNames
               PROVE  \E m \in DOMAIN r : r[m] \in HiddenNames
    BY <1>1 DEF Hidden
  <2>1. n + 1 \in DOMAIN r /\ r[n + 1] = Tail(r)[n]
    BY <1>1
  <2> QED
    BY <2>1
<1>3. Tail(r) # <<>> => Last(Tail(r)) = Last(r)
  <2> SUFFICES ASSUME Tail(r) # <<>> PROVE Last(Tail(r)) = Last(r)
    OBVIOUS
  <2>1. Len(Tail(r)) # 0
    BY <1>1 DEF Str
  <2>2. Len(r) - 1 \in 1..(Len(r) - 1) /\ (Len(r) - 1) + 1 = Len(r)
    BY <1>1, <2>1
  <2> QED
    BY <1>1, <2>2 DEF Last
<1>4. Tail(r) = <<>> => Last(r) = r[1]
  <2> SUFFICES ASSUME Tail(r) = <<>> PROVE Last(r) = r[1]
    OBVIOUS
  <2>1. Len(r) = 1
    BY <1>1
  <2> QED
    BY <2>1 DEF Last
<1> QED
  BY <1>1, <1>2, <1>3, <1>4

(* A directory's file is found at its path below it, and sent for it.      *)
LEMMA FileIsServed ==
  ASSUME SpaceInv, NEW b \in Str, NEW s \in Str, NEW tags,
         b \o s \in tree, ~Hidden(s)
  PROVE  /\ _serve_static(b, s, TRUE, tags) = _file(b \o s, tags)
         /\ _serve_static(b, s, FALSE, tags) = _file(b \o s, tags)
<1>1. b \o s # <<>> /\ is_file(b \o s)
  BY ConstantsTyped DEF SpaceInv, is_file
<1>2. ~is_dir(b \o s)
  BY <1>1 DEF is_dir, SpaceInv
<1> QED
  BY <1>1, <1>2 DEF _serve_static

(* The answers of a directory, the published one's and another's.          *)
OfDirectory(b, s, tags) ==
  {_serve_static(b, s, TRUE, tags), _serve_static(b, s, FALSE, tags)}

(* What a directory sends is one of its files, or its front page.          *)
LEMMA StaticIsBelow ==
  ASSUME NEW b \in Str, NEW s \in Str, NEW tags,
         NEW a \in OfDirectory(b, s, tags), a.is \in {"file", "unchanged"}
  PROVE  /\ a.at \in tree /\ (a.is = "unchanged" => a.at \in tags)
         /\ IsPrefix(b, a.at)
         /\ ~Hidden(SubSeq(a.at, Len(b) + 1, Len(a.at)))
         /\ s # <<>> /\ Last(s) \in SuffixNames =>
              \E n \in DOMAIN a.at : a.at[n] = Last(s)
<1>1. \A what : a = Says(what) => a.is = what
  BY DEF Says
<1>2. /\ ~Hidden(s)
      /\ \/ a = _file((b \o s) \o Index, tags) /\ (b \o s) \o Index \in tree
         \/ a = _file(b \o s, tags) /\ b \o s \in tree
         \/ /\ a = _file(b \o Index, tags) /\ b \o Index \in tree
            /\ s = <<>> \/ Last(s) \notin SuffixNames
  <2>1. CASE a = _serve_static(b, s, TRUE, tags)
    BY <1>1, <2>1 DEF _serve_static, is_file
  <2>2. CASE a = _serve_static(b, s, FALSE, tags)
    BY <1>1, <2>2 DEF _serve_static, is_file
  <2> QED
    BY <2>1, <2>2 DEF OfDirectory
<1>3. \A t : a = _file(t, tags) => a.at = t /\ (a.is = "unchanged" => t \in tags)
  BY DEF _file
<1>4. (b \o s) \o Index = b \o (s \o Index)
  BY ConstantsTyped, ConcatAssociative DEF Str
<1>5. PICK rel :
        /\ a.at = b \o rel /\ a.at \in tree /\ (a.is = "unchanged" => a.at \in tags)
        /\ \/ rel = s \o Index \/ rel = s
           \/ rel = Index /\ (s = <<>> \/ Last(s) \notin SuffixNames)
  <2>1. CASE a = _file((b \o s) \o Index, tags) /\ (b \o s) \o Index \in tree
    BY <1>3, <1>4, <2>1
  <2>2. CASE a = _file(b \o s, tags) /\ b \o s \in tree
    BY <1>3, <2>2
  <2>3. CASE /\ a = _file(b \o Index, tags) /\ b \o Index \in tree
             /\ s = <<>> \/ Last(s) \notin SuffixNames
    BY <1>3, <2>3
  <2> QED
    BY <1>2, <2>1, <2>2, <2>3
<1>6. /\ Len(s) \in Nat /\ DOMAIN s = 1..Len(s) /\ Len(s \o Index) = Len(s) + 1
      /\ DOMAIN (s \o Index) = 1..(Len(s) + 1) /\ s \o Index \in Str
      /\ \A n \in 1..Len(s) : (s \o Index)[n] = s[n]
      /\ (s \o Index)[Len(s) + 1] = "index.html"
  BY ConstantsTyped DEF Str, Index
<1>7. rel \in Str
  BY <1>5, <1>6, ConstantsTyped
<1>8. ~Hidden(rel)
  <2>1. \A n \in DOMAIN s : s[n] \notin HiddenNames
    BY <1>2 DEF Hidden
  <2>2. \A n \in DOMAIN (s \o Index) : (s \o Index)[n] \notin HiddenNames
    BY <1>6, <2>1, ConstantsTyped
  <2>3. \A n \in DOMAIN Index : Index[n] \notin HiddenNames
    BY ConstantsTyped DEF Index
  <2> QED
    BY <1>5, <2>1, <2>2, <2>3 DEF Hidden
<1>9. /\ IsPrefix(b, b \o rel) /\ SubSeq(b \o rel, Len(b) + 1, Len(b \o rel)) = rel
      /\ \A n \in DOMAIN rel :
           Len(b) + n \in DOMAIN (b \o rel) /\ (b \o rel)[Len(b) + n] = rel[n]
  BY <1>7, PrefixOfConcat
<1>10. ASSUME s # <<>>, Last(s) \in SuffixNames
       PROVE  \E n \in DOMAIN a.at : a.at[n] = Last(s)
  <2>1. Len(s) \in DOMAIN s /\ Last(s) = s[Len(s)]
    BY <1>6, <1>10 DEF Last, Str
  <2>2. rel \in {s, s \o Index}
    BY <1>5, <1>10
  <2>3. Len(s) \in DOMAIN rel /\ rel[Len(s)] = Last(s)
    BY <1>6, <2>1, <2>2
  <2> QED
    BY <1>5, <1>9, <2>3
<1> QED
  BY <1>5, <1>8, <1>9, <1>10

(* Which deployment a path names.                                          *)
LEMMA NamedIsPicked ==
  ASSUME SpaceInv, NEW r \in Str, r # <<>>, NEW d \in sites, d.name = r[1]
  PROVE  _pick_deployment(r) = <<{d}, Tail(r)>>
<1>1. {s \in sites : s.name = r[1]} = {d}
  BY DEF SpaceInv
<1> QED
  BY <1>1 DEF _pick_deployment

LEMMA NothingIsPicked ==
  ASSUME NEW r \in Str, sites = {}
  PROVE  _pick_deployment(r) = <<{}, r>>
BY FS_EmptySet DEF _pick_deployment

(* A deployment picked by name takes its segment away.                     *)
LEMMA PickIsDeployment ==
  ASSUME NEW r \in Str
  PROVE  LET picked == _pick_deployment(r)
         IN /\ picked[1] \subseteq sites
            /\ \/ picked[2] = r
               \/ /\ r # <<>> /\ picked[2] = Tail(r)
                  /\ picked[1] # {} /\ \A d \in picked[1] : d.name = r[1]
BY DEF _pick_deployment

(* serve_space, for each of the four things that Routed says of it.        *)
LEMMA SentIsPublished ==
  ASSUME SpaceInv, NEW space, NEW r \in Str, NEW tags,
         NEW a, a = serve_space(space, r, tags), a.is \in {"file", "unchanged"}
  PROVE  /\ space = Owner /\ active
         /\ a.at \in tree /\ (a.is = "unchanged" => a.at \in tags)
         /\ \E b \in Bases : /\ IsPrefix(b, a.at)
                             /\ ~Hidden(SubSeq(a.at, Len(b) + 1, Len(a.at)))
         /\ r # <<>> /\ Last(r) \in SuffixNames =>
              \E n \in DOMAIN a.at : a.at[n] = Last(r)
<1> DEFINE picked == _pick_deployment(r)
           d == CHOOSE s \in picked[1] : TRUE
<1>1. \A what : a = Says(what) => a.is = what
  BY DEF Says
<1>2. \A s : a = Proxied(d, s) => a.is = "service"
  BY DEF Proxied
<1>3. /\ space = Owner /\ active
      /\ \/ picked[1] = {} /\ a \in OfDirectory(Public, r, tags)
         \/ picked[1] # {} /\ a \in OfDirectory(d.source_dir, picked[2], tags)
  BY <1>1, <1>2 DEF serve_space, OfDirectory
<1>4. /\ picked[1] \subseteq sites
      /\ \/ picked[2] = r
         \/ /\ r # <<>> /\ picked[2] = Tail(r)
            /\ picked[1] # {} /\ \A s \in picked[1] : s.name = r[1]
  BY PickIsDeployment
<1> HIDE DEF picked
<1>5. CASE picked[1] = {} /\ a \in OfDirectory(Public, r, tags)
  <2>1. Public \in Bases /\ Public \in Str
    BY ConstantsTyped DEF Bases
  <2> QED
    BY <1>3, <1>5, <2>1, StaticIsBelow
<1>6. CASE picked[1] # {} /\ a \in OfDirectory(d.source_dir, picked[2], tags)
  <2>1. d \in picked[1]
    BY <1>6
  <2> HIDE DEF d
  <2>2. /\ d \in Sites /\ d.source_dir \in Str /\ d.source_dir \in Bases
        /\ d.name \notin SuffixNames
    BY <1>4, <2>1, ConstantsTyped DEF SpaceInv, Bases
  <2>3. picked[2] \in Str
    BY <1>4, TailIsHidden
  <2>4. /\ a.at \in tree /\ (a.is = "unchanged" => a.at \in tags)
        /\ IsPrefix(d.source_dir, a.at)
        /\ ~Hidden(SubSeq(a.at, Len(d.source_dir) + 1, Len(a.at)))
        /\ picked[2] # <<>> /\ Last(picked[2]) \in SuffixNames =>
             \E n \in DOMAIN a.at : a.at[n] = Last(picked[2])
    BY <1>6, <2>2, <2>3, StaticIsBelow
  <2>5. ASSUME r # <<>>, Last(r) \in SuffixNames
        PROVE  picked[2] # <<>> /\ Last(picked[2]) = Last(r)
    <3>1. CASE picked[2] = r
      BY <2>5, <3>1
    <3>2. CASE picked[2] = Tail(r) /\ \A s \in picked[1] : s.name = r[1]
      <4>1. d.name = r[1]
        BY <2>1, <3>2
      <4>2. Tail(r) # <<>>
        BY <2>2, <2>5, <4>1, TailIsHidden
      <4> QED
        BY <2>5, <3>2, <4>2, TailIsHidden
    <3> QED
      BY <1>4, <3>1, <3>2
  <2> QED
    BY <1>3, <2>2, <2>4, <2>5
<1> QED
  BY <1>3, <1>5, <1>6

LEMMA PublishedIsServed ==
  ASSUME SpaceInv, active, NEW r \in Str, NEW tags, NEW f \in tree,
         Published(r, f), ~Hidden(r)
  PROVE  serve_space(Owner, r, tags) = _file(f, tags)
<1>1. CASE sites = {} /\ r # <<>> /\ f = Public \o r
  <2>1. _pick_deployment(r) = <<{}, r>>
    BY <1>1, NothingIsPicked
  <2>2. IsStrictPrefix(Public, f)
    BY <1>1, ConstantsTyped, BelowItsPrefix
  <2>3. is_dir(Public)
    BY <2>2 DEF is_dir
  <2>4. _serve_static(Public, r, TRUE, tags) = _file(f, tags)
    BY <1>1, ConstantsTyped, FileIsServed
  <2>5. _pick_deployment(r)[1] = {}
    BY <2>1
  <2> QED
    BY <1>1, <2>3, <2>4, <2>5 DEF serve_space
<1>2. ASSUME r # <<>>, NEW d \in sites, d.kind = "static", d.name = r[1],
             f = d.source_dir \o Tail(r)
      PROVE  serve_space(Owner, r, tags) = _file(f, tags)
  <2>1. _pick_deployment(r) = <<{d}, Tail(r)>>
    BY <1>2, NamedIsPicked
  <2>2. d.source_dir \in Str /\ Tail(r) \in Str /\ ~Hidden(Tail(r))
    BY <1>2, ConstantsTyped, TailIsHidden DEF SpaceInv
  <2>3. _serve_static(d.source_dir, Tail(r), FALSE, tags) = _file(f, tags)
    BY <1>2, <2>2, FileIsServed
  <2>4. _pick_deployment(r)[1] = {d} /\ _pick_deployment(r)[2] = Tail(r)
    BY <2>1
  <2>5. (CHOOSE s \in _pick_deployment(r)[1] : TRUE) = d
    BY <2>4
  <2> QED
    BY <1>2, <2>3, <2>4, <2>5 DEF serve_space
<1> QED
  BY <1>1, <1>2 DEF Published

LEMMA ServiceIsReached ==
  ASSUME SpaceInv, active, NEW r \in Str, r # <<>>, NEW tags,
         NEW d \in sites, d.name = r[1], d.kind = "service"
  PROVE  serve_space(Owner, r, tags) = Proxied(d, Tail(r))
<1>1. _pick_deployment(r) = <<{d}, Tail(r)>>
  BY NamedIsPicked
<1>2. _pick_deployment(r)[1] = {d} /\ _pick_deployment(r)[2] = Tail(r)
  BY <1>1
<1>3. (CHOOSE s \in _pick_deployment(r)[1] : TRUE) = d
  BY <1>2
<1> QED
  BY <1>2, <1>3 DEF serve_space

(* By path or by host, it is the same space.                               *)
LEMMA AnswerOfPath ==
  ASSUME NEW p \in Paths, p.space # NoSpace, NEW host, NEW tags
  PROVE  Answer(host, p, tags) = serve_space(p.space, p.rest, tags)
BY DEF Answer, SubdomainMiddleware, Platform

LEMMA AnswerOfHost ==
  ASSUME NEW p \in Paths, p.space = NoSpace, NEW host, NEW tags,
         resolve_host(host) # NoSpace, ~Platform(p)
  PROVE  /\ Answer(host, p, tags) = serve_space(resolve_host(host), p.rest, tags)
         /\ Answer(Base, [p EXCEPT !.space = resolve_host(host)], tags)
              = serve_space(resolve_host(host), p.rest, tags)
<1> DEFINE q == [p EXCEPT !.space = resolve_host(host)]
<1>1. q.space = resolve_host(host) /\ q.rest = p.rest
  BY ConstantsTyped
<1>2. SubdomainMiddleware(host, p) = q /\ SubdomainMiddleware(Base, q) = q
  BY <1>1 DEF SubdomainMiddleware
<1> HIDE DEF q
<1>3. /\ Answer(host, p, tags) = serve_space(q.space, q.rest, tags)
      /\ Answer(Base, q, tags) = serve_space(q.space, q.rest, tags)
  BY <1>1, <1>2 DEF Answer
<1> QED
  BY <1>1, <1>3 DEF q

LEMMA AddressInvRoutes == AddressInv => Routed
<1> SUFFICES ASSUME AddressInv PROVE Routed
  OBVIOUS
<1> DEFINE p == visit.path
           a == visit.answer
           u == resolve_host(visit.host)
           sent == a.is \in {"file", "unchanged"}
<1>0. SpaceInv
  BY DEF AddressInv
<1>1. CASE visit = NoVisit
  <2>1. visit.host = Base /\ p.space = NoSpace /\ a = Says("apex") /\ p.rest = <<>>
    BY <1>1 DEF NoVisit
  <2>2. u = NoSpace /\ ~sent
    BY <2>1 DEF resolve_host, Says
  <2> QED
    BY <2>1, <2>2, ConstantsTyped DEF Routed
<1>2. CASE VisitTyped
  <2>1. /\ p \in Paths /\ a = Answer(visit.host, p, visit.tags) /\ p.rest \in Str
        /\ p.space = NoSpace \/ visit.host = Base
    BY <1>2, ConstantsTyped DEF VisitTyped
  <2>2. p.space # NoSpace => a = serve_space(p.space, p.rest, visit.tags)
    BY <2>1, AnswerOfPath
  <2>3. sent => \E space : /\ a = serve_space(space, p.rest, visit.tags)
                           /\ space = p.space \/ (p.space = NoSpace /\ space = u)
    <3>1. CASE p.space # NoSpace
      BY <2>2, <3>1
    <3>2. CASE p.space = NoSpace /\ u # NoSpace /\ ~Platform(p)
      BY <2>1, <3>2, AnswerOfHost
    <3>3. CASE p.space = NoSpace /\ (u = NoSpace \/ Platform(p))
      <4>1. a = Says("platform") \/ a = Says("apex")
        BY <2>1, <3>3 DEF Answer, SubdomainMiddleware
      <4> QED
        BY <4>1 DEF Says
    <3> QED
      BY <3>1, <3>2, <3>3
  <2> HIDE DEF p, a, u
  <2>4. sent => /\ active /\ (p.space = NoSpace => u = Owner)
                /\ a.at \in tree /\ (a.is = "unchanged" => a.at \in visit.tags)
                /\ \E b \in Bases : /\ IsPrefix(b, a.at)
                                    /\ ~Hidden(SubSeq(a.at, Len(b) + 1, Len(a.at)))
                /\ p.rest # <<>> /\ Last(p.rest) \in SuffixNames =>
                     \E n \in DOMAIN a.at : a.at[n] = Last(p.rest)
    <3> SUFFICES ASSUME sent PROVE <2>4!2
      OBVIOUS
    <3>1. PICK space : /\ a = serve_space(space, p.rest, visit.tags)
                       /\ space = p.space \/ (p.space = NoSpace /\ space = u)
      BY <2>3
    <3>2. /\ space = Owner /\ active
          /\ a.at \in tree /\ (a.is = "unchanged" => a.at \in visit.tags)
          /\ \E b \in Bases : /\ IsPrefix(b, a.at)
                              /\ ~Hidden(SubSeq(a.at, Len(b) + 1, Len(a.at)))
          /\ p.rest # <<>> /\ Last(p.rest) \in SuffixNames =>
               \E n \in DOMAIN a.at : a.at[n] = Last(p.rest)
      BY <1>0, <2>1, <3>1, SentIsPublished
    <3> QED
      BY <3>1, <3>2, ConstantsTyped
  <2>5. ASSUME p.space = NoSpace, u # NoSpace, ~Platform(p)
        PROVE  /\ a = Answer(Base, [p EXCEPT !.space = u], visit.tags)
               /\ sent => tls_check(visit.host)
    <3>1. a = Answer(Base, [p EXCEPT !.space = u], visit.tags)
      BY <2>1, <2>5, AnswerOfHost DEF u
    <3>2. ASSUME sent PROVE tls_check(visit.host)
      <4>1. u = Owner /\ active
        BY <2>4, <2>5, <3>2
      <4> QED
        BY <2>5, <4>1 DEF tls_check, u, resolve_host
    <3> QED
      BY <3>1, <3>2
  <2>6. ASSUME p.space = Owner, active, NEW f \in tree, Published(p.rest, f),
               ~Hidden(p.rest)
        PROVE  a.at = f /\ (a.is = "file" <=> f \notin visit.tags)
    <3>1. a = _file(f, visit.tags)
      BY <1>0, <2>1, <2>2, <2>6, ConstantsTyped, PublishedIsServed
    <3> QED
      BY <3>1 DEF _file
  <2>7. ASSUME p.space = Owner, active, NEW d \in sites, p.rest # <<>>,
               p.rest[1] = d.name, d.kind = "service"
        PROVE  a = Proxied(d, Tail(p.rest))
    BY <1>0, <2>1, <2>2, <2>7, ConstantsTyped, ServiceIsReached
  <2> QED
    BY <2>4, <2>5, <2>6, <2>7 DEF Routed, p, a, u
<1> QED
  BY <1>1, <1>2 DEF AddressInv

LEMMA AddressInitial == AddressInit => AddressInv
BY DEF AddressInit, AddressInv, SpaceInv

(* An answer is made of the account's rows and files, and of nothing else. *)
LEMMA SpaceStands ==
  ASSUME NEW space, NEW r, NEW tags, active' = active,
         _pick_deployment(r)' = _pick_deployment(r),
         (CHOOSE s \in _pick_deployment(r)[1] : TRUE)'
           = (CHOOSE s \in _pick_deployment(r)[1] : TRUE),
         \A t : is_file(t)' = is_file(t) /\ is_dir(t)' = is_dir(t),
         \A b, s : /\ _serve_static(b, s, TRUE, tags)' = _serve_static(b, s, TRUE, tags)
                  /\ _serve_static(b, s, FALSE, tags)' = _serve_static(b, s, FALSE, tags)
  PROVE  serve_space(space, r, tags)' = serve_space(space, r, tags)
<1> DEFINE picked == _pick_deployment(r)
           d == CHOOSE s \in _pick_deployment(r)[1] : TRUE
           front == is_file(Public \o Index)
           dir == is_dir(Public)
           published == _serve_static(Public, r, TRUE, tags)
           deployed == _serve_static(d.source_dir, picked[2], FALSE, tags)
<1>1. d' = d /\ picked' = picked
  OBVIOUS
<1>2. front' = front /\ dir' = dir /\ published' = published
  BY DEF Public, Index
<1> HIDE DEF picked, d
<1>3. deployed' = deployed
  BY <1>1
<1> HIDE DEF front, dir, published, deployed
<1>4. serve_space(space, r, tags) =
        IF space # Owner \/ ~active THEN Says("no such space")
        ELSE IF picked[1] = {}
        THEN IF r = <<>> /\ ~front THEN Says("profile")
             ELSE IF ~dir THEN Says("nothing here") ELSE published
        ELSE IF d.kind = "service" THEN Proxied(d, picked[2]) ELSE deployed
  BY DEF serve_space, picked, d, front, dir, published, deployed
<1>5. serve_space(space, r, tags)' =
        IF space # Owner \/ ~active' THEN Says("no such space")
        ELSE IF picked'[1] = {}
        THEN IF r = <<>> /\ ~front' THEN Says("profile")
             ELSE IF ~dir' THEN Says("nothing here") ELSE published'
        ELSE IF d'.kind = "service" THEN Proxied(d', picked'[2]) ELSE deployed'
  BY DEF serve_space, picked, d, front, dir, published, deployed
<1>6. (front' <=> front) /\ (dir' <=> dir) /\ (active' <=> active)
  BY <1>2
<1>7. CASE space # Owner \/ ~active
  BY <1>4, <1>5, <1>6, <1>7
<1>8. CASE space = Owner /\ active /\ picked[1] = {}
  BY <1>1, <1>2, <1>4, <1>5, <1>6, <1>8
<1>9. CASE space = Owner /\ active /\ picked[1] # {}
  BY <1>1, <1>3, <1>4, <1>5, <1>6, <1>9
<1> QED
  BY <1>7, <1>8, <1>9

LEMMA AnswerStands ==
  ASSUME UNCHANGED <<active, tree, sites>>, NEW host, NEW p, NEW tags
  PROVE  Answer(host, p, tags)' = Answer(host, p, tags)
<1>1. \A r : _pick_deployment(r)' = _pick_deployment(r)
  BY DEF _pick_deployment
<1>2. \A t : /\ is_file(t)' = is_file(t) /\ is_dir(t)' = is_dir(t)
            /\ Entries(t)' = Entries(t)
  BY DEF is_file, is_dir, Entries
<1>3. \A b, s : /\ _serve_static(b, s, TRUE, tags)' = _serve_static(b, s, TRUE, tags)
               /\ _serve_static(b, s, FALSE, tags)' = _serve_static(b, s, FALSE, tags)
  BY <1>2 DEF _serve_static
<1>4. \A r : (CHOOSE s \in _pick_deployment(r)[1] : TRUE)'
              = (CHOOSE s \in _pick_deployment(r)[1] : TRUE)
  BY <1>1
<1>5. \A space, r : serve_space(space, r, tags)' = serve_space(space, r, tags)
  BY <1>1, <1>2, <1>3, <1>4, SpaceStands
<1> QED
  BY <1>5 DEF Answer

LEMMA VisitStep ==
  ASSUME AddressInv, NEW host, NEW p \in Paths, p.space = NoSpace \/ host = Base,
         NEW tags, Visit(host, p, tags)
  PROVE  AddressInv'
<1>1. /\ visit' = [host |-> host, path |-> p, tags |-> tags,
                   answer |-> Answer(host, p, tags)]
      /\ UNCHANGED <<active, tree, sites>>
  BY DEF Visit
<1>2. SpaceInv'
  BY <1>1 DEF AddressInv, SpaceInv
<1>3. VisitTyped'
  <2>1. /\ visit'.host = host /\ visit'.path = p /\ visit'.tags = tags
        /\ visit'.answer = Answer(host, p, tags)
    BY <1>1
  <2>2. Answer(host, p, tags)' = Answer(host, p, tags)
    BY <1>1, AnswerStands
  <2> QED
    BY <2>1, <2>2 DEF VisitTyped
<1> QED
  BY <1>2, <1>3 DEF AddressInv

LEMMA AddressStands == ASSUME AddressInv, UNCHANGED addressVars PROVE AddressInv'
<1>1. UNCHANGED <<active, tree, sites>> /\ visit' = visit
  BY DEF addressVars
<1>2. SpaceInv'
  BY <1>1 DEF AddressInv, SpaceInv
<1>3. CASE visit = NoVisit
  BY <1>1, <1>2, <1>3 DEF AddressInv, NoVisit, Says
<1>4. CASE VisitTyped
  <2>1. PICK v : v = visit
    OBVIOUS
  <2>2. Answer(v.host, v.path, v.tags)' = Answer(v.host, v.path, v.tags)
    BY <1>1, AnswerStands
  <2>3. visit' = v
    BY <1>1, <2>1
  <2> QED
    BY <1>2, <1>4, <2>1, <2>2, <2>3 DEF AddressInv, VisitTyped
<1> QED
  BY <1>3, <1>4 DEF AddressInv

LEMMA AddressNext == AddressInv /\ [Next]_serverVars => AddressInv'
<1> SUFFICES ASSUME AddressInv, [Next]_serverVars PROVE AddressInv'
  OBVIOUS
<1>1. CASE Visits
  <2>1. PICK r \in Requests, tags \in {{}, {Public \o Index}, Files} :
          Visit(r[1], r[2], tags)
    BY <1>1 DEF Visits
  <2>2. r[2] \in Paths /\ (r[2].space = NoSpace \/ r[1] = Base)
    BY DEF Requests
  <2> QED
    BY <2>1, <2>2, VisitStep
<1>2. CASE UNCHANGED addressVars
  BY <1>2, AddressStands
<1> QED
  BY <1>1, <1>2 DEF Next, Machine, Attempts, serverVars

(* One site whichever name it is reached by, with a certificate for it; a  *)
(* file or a service under its path and nothing else under it; nothing     *)
(* hidden, unpublished or of a suspended account is sent: for any files,   *)
(* deployments, names and requests.                                        *)
THEOREM EverythingIsRouted == Spec => []Routed
<1>1. Init => AddressInv
  BY AddressInitial DEF Init
<1> QED
  BY <1>1, AddressNext, AddressInvRoutes, PTL DEF Spec
===============================================================================
