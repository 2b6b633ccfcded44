-------------------------- MODULE AgentCalls_proofs --------------------------
(***************************************************************************)
(* Theorems about AgentCalls, for any number of calls, keys and tasks, any *)
(* limits, on either database, with kills.                                 *)
(***************************************************************************)
EXTENDS AgentCalls, FiniteSetTheorems, TLAPS

(* What a session has yet to charge is that of a run that has completed,   *)
(* and no run was longer than the longest.                                 *)
ChargeInv ==
  \A c \in Calls :
    /\ call[c].ran <= longest
    /\ call[c].ran > 0 =>
         /\ call[c].job \in {"run", "send"} /\ call[c].set = "completed"
         /\ call[c].at \in {"release", "answer", "commit"}

(* The plan a call will compare with is one the account has had.           *)
PlanInv ==
  /\ plan \in had
  /\ \A c \in Calls :
       call[c].at \in {"known", "open"} /\ call[c].job \in HasQuota => call[c].plan \in had

BoundsInv == ChargeInv /\ PlanInv /\ QuotasBounded

(* What a session holds, by its job.                                       *)
SessionInv ==
  \A c \in Calls :
    /\ Does(c, "run") => call[c].obj = None
    /\ call[c].job \in {"mint", "revoke"} => call[c].obj \in Keys /\ call[c].set = "none"
    /\ call[c].job \in {"send", "ask", "cancel"} => call[c].obj \in Tasks
    /\ Does(c, "cancel") => call[c].set \in {"none", "canceled"}
    /\ call[c].at \in {"running", "release"} => call[c].job \in {"run", "send"}
    /\ call[c].at \in {"known", "open", "passed", "running"} => call[c].set = "none"

(* What its session has read is still so when it writes.                   *)
Reserves(c) == Does(c, "mint") /\ call[c].at \in {"known", "open", "passed"}
Stamps(c)   == Does(c, "revoke") /\ call[c].at \in {"answer", "commit"}
Creates(c)  == call[c].job \in {"send", "ask"}
Cancels(c)  == Does(c, "cancel") /\ call[c].set = "canceled"
Over(t)     == tasks[t] \in {"completed", "failed"}

KeysRead ==
  /\ \A c \in Calls :
       /\ Reserves(c) => keys[call[c].obj] = "none"
       /\ Stamps(c) => keys[call[c].obj] # "none"
  /\ \A c, d \in Calls :
       c # d /\ Reserves(c) /\ Reserves(d) => call[c].obj # call[d].obj

TasksRead ==
  /\ \A c \in Calls :
       /\ Creates(c) => ~Over(call[c].obj)
       /\ Does(c, "cancel") /\ call[c].at \in {"open", "answer", "commit"} => c \in locked
       /\ Cancels(c) => call[c].at \in {"answer", "commit"}
       /\ Cancels(c) /\ Serialised => ~Over(call[c].obj)
  /\ \A c, d \in Calls :
       c # d /\ Creates(c) /\ Creates(d) => call[c].obj # call[d].obj

----------------------------------------------------------------------------
CallOK == call \in [Calls -> CallTypes]
RowsOK == /\ keys \in [Keys -> KeyStates] /\ owned \subseteq Keys
          /\ suspended \in BOOLEAN /\ plan \in Plans
          /\ tasks \in [Tasks -> TaskStates] /\ spent \in Nat /\ longest \in Nat
          /\ locked \subseteq Calls /\ broken \subseteq Tasks
HadOK == had \subseteq Plans

LEMMA TypeParts == TypeOK <=> CallOK /\ RowsOK /\ HadOK
BY DEF TypeOK, CallOK, RowsOK, HadOK

(* What a request can be about; a new id is used by nobody else.           *)
LEMMA NewFacts ==
  ASSUME NEW S, NEW table, NEW x \in New(S, table)
  PROVE  x \in S /\ table[x] = "none" /\ \A d \in Calls : call[d].obj # x
<1>1. x \in Unused(S, table)
  BY DEF New
<1> QED
  BY <1>1 DEF Unused

LEMMA ObjectsFacts ==
  ASSUME NEW j \in Jobs, NEW x \in Objects(j)
  PROVE  /\ j = "run" => x = None
         /\ j \in {"send", "ask"} =>
              x \in Tasks /\ tasks[x] = "none" /\ \A d \in Calls : call[d].obj # x
         /\ j = "cancel" => x \in Tasks
         /\ j = "mint" =>
              x \in Keys /\ keys[x] = "none" /\ \A d \in Calls : call[d].obj # x
         /\ j = "revoke" => x \in Keys
<1>1. CASE j = "run"
  BY <1>1 DEF Objects
<1>2. CASE j \in {"send", "ask"}
  <2>1. Objects(j) = New(Tasks, tasks)
    BY <1>2 DEF Objects
  <2> QED
    BY <1>2, <2>1, NewFacts
<1>3. CASE j = "cancel"
  BY <1>3 DEF Objects
<1>4. CASE j = "mint"
  <2>1. Objects(j) = New(Keys, keys)
    BY <1>4 DEF Objects
  <2> QED
    BY <1>4, <2>1, NewFacts
<1>5. CASE j = "revoke"
  BY <1>5 DEF Objects
<1> QED
  BY <1>1, <1>2, <1>3, <1>4, <1>5 DEF Jobs

LEMMA LongestGrows ==
  ASSUME longest \in Nat, NEW c \in Calls, RunEnds(c)
  PROVE  longest' \in Nat /\ longest <= longest'
<1>1. \A n \in 1..MaxRan : Larger(longest, n) \in Nat /\ longest <= Larger(longest, n)
  BY ConstantsAssumption DEF Larger
<1>2. longest' = longest \/ \E n \in 1..MaxRan : longest' = Larger(longest, n)
  BY DEF RunEnds
<1> HIDE DEF Larger
<1> QED
  BY <1>1, <1>2

LEMMA IdleType == Idle \in CallTypes
BY ConstantsAssumption DEF Idle, CallTypes, Places, Jobs, TaskStates

LEMMA TypeInit == Init => TypeOK
<1> SUFFICES ASSUME Init PROVE TypeOK
  OBVIOUS
<1>1. CallOK
  BY IdleType DEF Init, CallOK
<1>2. RowsOK /\ HadOK
  BY DEF Init, RowsOK, HadOK, KeyStates, TaskStates
<1> QED
  BY <1>1, <1>2, TypeParts

(* The session of c is somewhere else, with s and n to write; nobody       *)
(* else's has changed.                                                     *)
OthersStay(c) == \A d \in Calls \ {c} : call'[d] = call[d]
Becomes(c, p, s, n) ==
  /\ call' \in [Calls -> CallTypes]
  /\ OthersStay(c)
  /\ call'[c].at = p /\ call'[c].set = s /\ call'[c].ran = n
  /\ call'[c].job = call[c].job /\ call'[c].obj = call[c].obj
Moves(c, p) == Becomes(c, p, call[c].set, call[c].ran)
Ends(c) ==
  /\ call' \in [Calls -> CallTypes]
  /\ OthersStay(c)
  /\ call'[c] = Idle

LEMMA SessionChanges ==
  ASSUME CallOK, NEW c \in Calls, NEW p \in Places, NEW s \in TaskStates,
         NEW n \in 0..MaxRan
  PROVE  /\ call' = [call EXCEPT ![c].at = p] => Moves(c, p)
         /\ call' = [call EXCEPT ![c].at = p, ![c].plan = None] => Moves(c, p)
         /\ call' = [call EXCEPT ![c].at = p, ![c].set = s, ![c].plan = None]
              => Becomes(c, p, s, call[c].ran)
         /\ call' = [call EXCEPT ![c].at = p, ![c].set = s]
              => Becomes(c, p, s, call[c].ran)
         /\ call' = [call EXCEPT ![c].at = p, ![c].ran = n, ![c].set = s]
              => Becomes(c, p, s, n)
         /\ call' = [call EXCEPT ![c] = Idle] => Ends(c)
<1> USE DEF CallOK, Moves, Becomes, OthersStay
<1>1. ASSUME call' = [call EXCEPT ![c].at = p] PROVE Moves(c, p)
  BY <1>1 DEF CallTypes
<1>2. ASSUME call' = [call EXCEPT ![c].at = p, ![c].set = s]
      PROVE  Becomes(c, p, s, call[c].ran)
  BY <1>2 DEF CallTypes
<1>3. ASSUME call' = [call EXCEPT ![c].at = p, ![c].ran = n, ![c].set = s]
      PROVE  Becomes(c, p, s, n)
  BY <1>3 DEF CallTypes
<1>4. ASSUME call' = [call EXCEPT ![c] = Idle] PROVE Ends(c)
  BY <1>4, IdleType DEF Ends
<1>5. ASSUME call' = [call EXCEPT ![c].at = p, ![c].plan = None] PROVE Moves(c, p)
  BY <1>5 DEF CallTypes
<1>6. ASSUME call' = [call EXCEPT ![c].at = p, ![c].set = s, ![c].plan = None]
      PROVE  Becomes(c, p, s, call[c].ran)
  BY <1>6 DEF CallTypes
<1> QED
  BY <1>1, <1>2, <1>3, <1>4, <1>5, <1>6

(* Where each step leaves the session of its call.                         *)
LEMMA Sessions ==
  ASSUME CallOK, NEW c \in Calls
  PROVE  /\ Touch(c) => Moves(c, "open")
         /\ Check(c) => IF Exhausted(c) THEN Becomes(c, "answer", "failed", call[c].ran)
                                     ELSE Moves(c, "passed")
         /\ Acquire(c) => \/ Moves(c, "running")
                          \/ Becomes(c, "answer", "failed", call[c].ran)
         /\ RunEnds(c) => \/ \E n \in 1..MaxRan : Becomes(c, "release", "completed", n)
                          \/ Becomes(c, "release", "failed", call[c].ran)
         /\ Release(c) => Moves(c, "answer")
         /\ Ask(c) => Becomes(c, "answer", "input-required", call[c].ran)
         /\ Cancel(c) => \E s \in {"none", "canceled"} :
              /\ Becomes(c, "answer", s, call[c].ran)
              /\ s = "canceled" => ~Over(call[c].obj)
         /\ CountKeys(c) => \/ /\ Cardinality(Active) < MaxKeys[call[c].plan]
                               /\ Moves(c, "passed")
                            \/ Ends(c)
         /\ InsertKey(c) => Moves(c, "answer")
         /\ Revoke(c) => Moves(c, "answer") \/ Ends(c)
         /\ Answer(c) => Moves(c, "commit")
         /\ Commit(c) \/ LockTimeout(c) \/ Crash(c) => Ends(c)
<1>0. /\ 0 \in 0..MaxRan /\ 1..MaxRan \subseteq 0..MaxRan
      /\ {"open", "passed", "running", "release", "answer", "commit"} \subseteq Places
      /\ {"failed", "completed", "input-required", "none", "canceled"} \subseteq TaskStates
  BY ConstantsAssumption DEF Places, TaskStates
<1> USE DEF Goto, Return
<1>1. ASSUME Touch(c)
      PROVE  Moves(c, "open")
  BY <1>0, <1>1, SessionChanges DEF Touch
<1>2. ASSUME Check(c)
      PROVE  IF Exhausted(c) THEN Becomes(c, "answer", "failed", call[c].ran)
             ELSE Moves(c, "passed")
  BY <1>0, <1>2, SessionChanges DEF Check
<1>3. ASSUME Acquire(c)
      PROVE  Moves(c, "running") \/ Becomes(c, "answer", "failed", call[c].ran)
  BY <1>0, <1>3, SessionChanges DEF Acquire
<1>4. ASSUME RunEnds(c)
      PROVE  \/ \E n \in 1..MaxRan : Becomes(c, "release", "completed", n)
             \/ Becomes(c, "release", "failed", call[c].ran)
  <2>1. ASSUME NEW n \in 1..MaxRan,
               call' = [call EXCEPT ![c].at = "release", ![c].ran = n,
                                    ![c].set = "completed"]
        PROVE  Becomes(c, "release", "completed", n)
    BY <1>0, <2>1, SessionChanges
  <2>2. ASSUME call' = [call EXCEPT ![c].at = "release", ![c].set = "failed"]
        PROVE  Becomes(c, "release", "failed", call[c].ran)
    BY <1>0, <2>2, SessionChanges
  <2> QED
    BY <1>4, <2>1, <2>2 DEF RunEnds
<1>5. ASSUME Release(c)
      PROVE  Moves(c, "answer")
  BY <1>0, <1>5, SessionChanges DEF Release
<1>6. ASSUME Ask(c)
      PROVE  Becomes(c, "answer", "input-required", call[c].ran)
  BY <1>0, <1>6, SessionChanges DEF Ask
<1>7. ASSUME Cancel(c)
      PROVE  \E s \in {"none", "canceled"} :
               /\ Becomes(c, "answer", s, call[c].ran)
               /\ s = "canceled" => ~Over(call[c].obj)
  BY <1>0, <1>7, SessionChanges DEF Cancel, Over, Final
<1>8. ASSUME CountKeys(c)
      PROVE  \/ Cardinality(Active) < MaxKeys[call[c].plan] /\ Moves(c, "passed")
             \/ Ends(c)
  BY <1>0, <1>8, SessionChanges DEF CountKeys
<1>9. ASSUME InsertKey(c)
      PROVE  Moves(c, "answer")
  BY <1>0, <1>9, SessionChanges DEF InsertKey
<1>10. ASSUME Revoke(c)
      PROVE  Moves(c, "answer") \/ Ends(c)
  BY <1>0, <1>10, SessionChanges DEF Revoke
<1>11. ASSUME Answer(c)
      PROVE  Moves(c, "commit")
  BY <1>0, <1>11, SessionChanges DEF Answer
<1>12. ASSUME Commit(c)
      PROVE  Ends(c)
  BY <1>0, <1>12, SessionChanges DEF Commit
<1>13. ASSUME LockTimeout(c) \/ Crash(c) PROVE Ends(c)
  BY <1>0, <1>13, SessionChanges DEF LockTimeout, Crash, Abandon
<1> QED
  BY <1>1, <1>2, <1>3, <1>4, <1>5, <1>6, <1>7, <1>8, <1>9, <1>10, <1>11,
     <1>12, <1>13

LEMMA Starts ==
  ASSUME CallOK, plan \in Plans, NEW c \in Calls, NEW j \in Jobs,
         NEW a \in Keys \cup {Cookie}, NEW x \in Objects(j), Authenticate(c, j, a, x)
  PROVE  /\ call' \in [Calls -> CallTypes]
         /\ OthersStay(c)
         /\ call'[c].at = IF a = Cookie THEN "open" ELSE "known"
         /\ call'[c].job = j /\ call'[c].obj = x /\ call'[c].set = "none"
         /\ call'[c].ran = 0
         /\ j \in HasQuota => call'[c].plan = plan
<1> DEFINE r == [Idle EXCEPT !.at = IF a = Cookie THEN "open" ELSE "known",
                             !.job = j, !.with = a, !.obj = x,
                             !.plan = IF j \in HasQuota THEN plan ELSE None]
<1>1. x \in Tasks \cup Keys \cup {None}
  BY ObjectsFacts DEF Jobs
<1>2. r \in CallTypes
  BY <1>1, IdleType DEF CallTypes, Places
<1>3. r.at = (IF a = Cookie THEN "open" ELSE "known") /\ r.job = j /\ r.obj = x
      /\ r.set = "none" /\ r.ran = 0 /\ (j \in HasQuota => r.plan = plan)
  BY DEF Idle
<1>4. call' = [call EXCEPT ![c] = r]
  BY DEF Authenticate
<1> HIDE DEF r
<1> QED
  BY <1>2, <1>3, <1>4 DEF CallOK, OthersStay

----------------------------------------------------------------------------
(* Types                                                                   *)

LEMMA SessionInit == Init => SessionInv
BY DEF Init, SessionInv, Does, Idle

LEMMA SessionStep == TypeOK /\ SessionInv /\ [Next]_vars => SessionInv'
<1> SUFFICES ASSUME TypeOK, SessionInv, [Next]_vars PROVE SessionInv'
  OBVIOUS
<1> USE DEF SessionInv, Does
<1>a. CallOK /\ plan \in Plans
  BY TypeParts DEF RowsOK
<1>1. ASSUME NEW c \in Calls, NEW j \in Jobs, NEW a \in Keys \cup {Cookie},
             NEW x \in Objects(j), Authenticate(c, j, a, x)
      PROVE  SessionInv'
  BY <1>1, <1>a, Starts, ObjectsFacts DEF OthersStay
<1>2. ASSUME NEW c \in Calls, Step(c) \/ Crash(c) PROVE SessionInv'
  <2> USE DEF Moves, Becomes, OthersStay, At
  <2>1. CASE Touch(c)
    BY <2>1, <1>a, Sessions DEF Touch
  <2>2. CASE Check(c)
    <3>1. call[c].at = "open" /\ call[c].job \in {"run", "send"}
      BY <2>2 DEF Check
    <3>2. Becomes(c, "answer", "failed", call[c].ran) \/ Moves(c, "passed")
      BY <2>2, <1>a, Sessions
    <3> QED
      BY <3>1, <3>2
  <2>3. CASE Acquire(c)
    BY <2>3, <1>a, Sessions DEF Acquire
  <2>4. CASE RunEnds(c)
    <3>1. \E s \in TaskStates, n \in 0..MaxRan : Becomes(c, "release", s, n)
      BY <2>4, <1>a, Sessions, ConstantsAssumption DEF RunEnds, CallOK, CallTypes, TaskStates
    <3> QED
      BY <2>4, <3>1 DEF RunEnds
  <2>5. CASE Release(c)
    BY <2>5, <1>a, Sessions DEF Release
  <2>6. CASE Ask(c)
    BY <2>6, <1>a, Sessions DEF Ask
  <2>7. CASE Cancel(c)
    <3>1. \E s \in {"none", "canceled"}, n \in 0..MaxRan : Becomes(c, "answer", s, n)
      BY <2>7, <1>a, Sessions DEF CallOK, CallTypes
    <3> QED
      BY <2>7, <3>1 DEF Cancel
  <2>8. CASE CountKeys(c)
    <3>1. CASE Ends(c)
      BY <3>1 DEF Ends, Idle
    <3>2. CASE Moves(c, "passed")
      BY <2>8, <3>2 DEF CountKeys
    <3> QED
      BY <2>8, <1>a, <3>1, <3>2, Sessions
  <2>9. CASE InsertKey(c)
    <3>1. Moves(c, "answer")
      BY <2>9, <1>a, Sessions
    <3> QED
      BY <3>1
  <2>10. CASE Revoke(c)
    <3>1. CASE Ends(c)
      BY <3>1 DEF Ends, Idle
    <3>2. CASE Moves(c, "answer")
      BY <3>2
    <3> QED
      BY <2>10, <1>a, <3>1, <3>2, Sessions
  <2>11. CASE Answer(c)
    BY <2>11, <1>a, Sessions DEF Answer
  <2>12. CASE Commit(c) \/ LockTimeout(c) \/ Crash(c)
    BY <2>12, <1>a, Sessions DEF Ends, Idle
  <2> QED
    BY <1>2, <2>1, <2>2, <2>3, <2>4, <2>5, <2>6, <2>7, <2>8, <2>9, <2>10, <2>11,
       <2>12 DEF Step
<1>3. CASE UNCHANGED call
  BY <1>3
<1>4. CASE Operator
  BY <1>3, <1>4 DEF Operator, Suspend, SetPlan, MintOwnerKey
<1> QED
  BY <1>1, <1>2, <1>3, <1>4 DEF Next, Expire, vars

(* The rows that a step of c writes.                                       *)
LEMMA RowsStep ==
  ASSUME TypeOK, SessionInv, NEW c \in Calls, Step(c) \/ Crash(c)
  PROVE  RowsOK'
<1>a. RowsOK /\ call[c] \in CallTypes
  BY DEF TypeOK, RowsOK
<1> USE DEF rows, Unlock
<1>1. CASE Acquire(c)
  <2>1. tasks' \in [Tasks -> TaskStates]
    BY <1>a, <1>1 DEF Acquire, RowsOK, TaskStates
  <2> QED
    BY <1>a, <1>1, <2>1 DEF Acquire, RowsOK
<1>2. CASE InsertKey(c)
  BY <1>a, <1>2 DEF InsertKey, RowsOK, KeyStates
<1>3. CASE Commit(c)
  <2>1. tasks' \in [Tasks -> TaskStates]
    BY <1>a, <1>3 DEF Commit, RowsOK, CallTypes
  <2>2. spent' \in Nat
    BY <1>a, <1>3, ConstantsAssumption DEF Commit, RowsOK, CallTypes
  <2>3. keys' \in [Keys -> KeyStates]
    BY <1>a, <1>3 DEF Commit, RowsOK, KeyStates
  <2> QED
    BY <1>a, <1>3, <2>1, <2>2, <2>3 DEF Commit, RowsOK
<1>4. CASE LockTimeout(c) \/ Crash(c)
  BY <1>a, <1>4 DEF LockTimeout, Crash, Abandon, RowsOK, SessionInv, Does
<1>5. CASE Touch(c) \/ Check(c) \/ Release(c) \/ Ask(c) \/ Cancel(c)
  BY <1>a, <1>5 DEF Touch, Check, Release, Ask, Cancel, RowsOK
<1>7. CASE RunEnds(c)
  BY <1>a, <1>7, LongestGrows DEF RunEnds, RowsOK
<1>6. CASE CountKeys(c) \/ Revoke(c) \/ Answer(c)
  BY <1>a, <1>6 DEF CountKeys, Revoke, Answer, RowsOK
<1> QED
  BY <1>1, <1>2, <1>3, <1>4, <1>5, <1>6, <1>7 DEF Step

LEMMA TypeStep == TypeOK /\ SessionInv /\ [Next]_vars => TypeOK'
<1> SUFFICES ASSUME TypeOK, SessionInv, [Next]_vars PROVE TypeOK'
  OBVIOUS
<1>a. CallOK /\ RowsOK /\ plan \in Plans
  BY TypeParts DEF RowsOK
<1>c. CASE UNCHANGED vars
  BY <1>c DEF vars, rows, TypeOK
<1> SUFFICES ASSUME Next PROVE TypeOK'
  BY <1>c
<1>b. ASSUME CallOK', RowsOK' PROVE TypeOK'
  <2>1. had' \subseteq Plans
    BY <1>b DEF RowsOK, Next, Remember, TypeOK
  <2> QED
    BY <1>b, <2>1 DEF TypeOK, CallOK, RowsOK
<1>1. ASSUME NEW c \in Calls, NEW j \in Jobs, NEW a \in Keys \cup {Cookie},
             NEW x \in Objects(j), Authenticate(c, j, a, x)
      PROVE  TypeOK'
  BY <1>1, <1>a, <1>b, Starts DEF CallOK, RowsOK, Authenticate, rows
<1>2. ASSUME NEW c \in Calls, Step(c) \/ Crash(c) PROVE TypeOK'
  <2>1. CallOK'
    BY <1>a, <1>2, Sessions DEF Step, Moves, Becomes, Ends, CallOK
  <2> QED
    BY <1>2, <1>b, <2>1, RowsStep
<1>3. CASE Operator
  <2>1. ASSUME NEW k \in Keys, MintOwnerKey(k) PROVE RowsOK' /\ CallOK'
    BY <1>a, <2>1 DEF MintOwnerKey, RowsOK, CallOK, KeyStates
  <2>2. ASSUME NEW p \in Plans, SetPlan(p) PROVE RowsOK' /\ CallOK'
    BY <1>a, <2>2 DEF SetPlan, RowsOK, CallOK
  <2>3. ASSUME NEW b \in BOOLEAN, Suspend(b) PROVE RowsOK' /\ CallOK'
    BY <1>a, <2>3 DEF Suspend, RowsOK, CallOK
  <2> QED
    BY <1>3, <1>b, <2>1, <2>2, <2>3 DEF Operator
<1>4. CASE Expire
  BY <1>a, <1>b, <1>4 DEF Expire, RowsOK, CallOK
<1> QED
  BY <1>1, <1>2, <1>3, <1>4 DEF Next

(* Every reachable state has the declared types, and usage is never        *)
(* negative: only what was charged expires.                                *)
THEOREM TypeCorrect == Spec => []TypeOK
BY TypeInit, TypeStep, SessionInit, SessionStep, PTL DEF Spec

----------------------------------------------------------------------------
(* Quotas                                                                  *)

(* The bounds, with the plan p.  Requested are the keys that were counted. *)
Requested == Active \ owned
KeysWithin(p) ==
  Cardinality(Requested) + Cardinality(Minting) < MaxKeys[p] + Cardinality(Calls)
ExecWithin(p) ==
  spent + longest * Cardinality(Charging) < Limit[p] + longest * Cardinality(Calls)

LEMMA Bounds ==
  /\ KeysBound <=> \E p \in had : KeysWithin(p)
  /\ ExecBound <=> \E p \in had : ExecWithin(p)
BY DEF KeysBound, ExecBound, KeysWithin, ExecWithin, Requested

LEMMA CallSets ==
  /\ Cardinality(Calls) \in Nat /\ Cardinality(Calls) > 0
  /\ \A S, T \in SUBSET Calls :
       /\ IsFiniteSet(S) /\ Cardinality(S) \in Nat
       /\ Cardinality(S) <= Cardinality(Calls)
       /\ S \subseteq T => Cardinality(S) <= Cardinality(T)
       /\ \A c \in Calls \ S : Cardinality(S \cup {c}) = Cardinality(S) + 1
<1>1. IsFiniteSet(Calls) /\ Cardinality(Calls) \in Nat /\ Cardinality(Calls) # 0
  BY ConstantsAssumption, FS_CardinalityType, FS_EmptySet
<1>2. ASSUME NEW S \in SUBSET Calls
      PROVE  /\ IsFiniteSet(S) /\ Cardinality(S) \in Nat
             /\ Cardinality(S) <= Cardinality(Calls)
             /\ \A c \in Calls \ S : Cardinality(S \cup {c}) = Cardinality(S) + 1
  BY <1>1, FS_Subset, FS_CardinalityType, FS_AddElement
<1>3. ASSUME NEW S \in SUBSET Calls, NEW T \in SUBSET Calls, S \subseteq T
      PROVE  Cardinality(S) <= Cardinality(T)
  BY <1>2, <1>3, FS_Subset
<1> QED
  BY <1>1, <1>2, <1>3

LEMMA KeySets ==
  \A S \in SUBSET Keys :
    /\ IsFiniteSet(S) /\ Cardinality(S) \in Nat
    /\ \A T \in SUBSET S : Cardinality(T) <= Cardinality(S)
    /\ \A k : Cardinality(S \cup {k}) <= Cardinality(S) + 1
<1> TAKE S \in SUBSET Keys
<1>1. IsFiniteSet(S) /\ Cardinality(S) \in Nat
  BY ConstantsAssumption, FS_Subset, FS_CardinalityType
<1>2. \A T \in SUBSET S : Cardinality(T) <= Cardinality(S)
  BY <1>1, FS_Subset
<1>3. \A k : Cardinality(S \cup {k}) <= Cardinality(S) + 1
  BY <1>1, FS_AddElement
<1> QED
  BY <1>1, <1>2, <1>3

(* More calls in flight, more room above the limit.                        *)
LEMMA Multiples ==
  ASSUME NEW m \in Nat, NEW a \in Nat, NEW b \in Nat
  PROVE  /\ m * a \in Nat /\ m * 0 = 0
         /\ a <= b => m * a <= m * b
         /\ m * (a + 1) = m * a + m
<1>1. ASSUME a <= b PROVE m * a <= m * b
  <2>1. PICK d \in Nat : b = a + d
    BY <1>1
  <2>2. m * b = m * a + m * d /\ m * d \in Nat /\ m * a \in Nat
    BY <2>1
  <2> QED
    BY <2>2
<1> QED
  BY <1>1

LEMMA KeysShrink ==
  ASSUME NEW p \in Plans, KeysWithin(p), Requested' \subseteq Requested,
         Minting' \subseteq Minting
  PROVE  KeysWithin(p)'
<1>1. Requested \subseteq Keys /\ Minting \subseteq Calls
  BY DEF Requested, Active, Minting
<1>2. Cardinality(Requested') <= Cardinality(Requested) /\ Cardinality(Requested') \in Nat
  BY <1>1, KeySets
<1>3. Cardinality(Minting') <= Cardinality(Minting) /\ Cardinality(Minting') \in Nat
  BY <1>1, CallSets
<1>4. /\ Cardinality(Requested) \in Nat /\ Cardinality(Minting) \in Nat
      /\ Cardinality(Calls) \in Nat /\ MaxKeys[p] \in Nat
  BY <1>1, KeySets, CallSets, ConstantsAssumption
<1> HIDE DEF Requested, Minting
<1> QED
  BY <1>2, <1>3, <1>4 DEF KeysWithin

LEMMA ExecShrink ==
  ASSUME TypeOK, NEW p \in Plans, ExecWithin(p), Charging' \subseteq Charging,
         spent' \in Nat, spent' <= spent, longest' = longest
  PROVE  ExecWithin(p)'
<1>1. Charging \subseteq Calls
  BY DEF Charging
<1>2. /\ Cardinality(Charging') <= Cardinality(Charging)
      /\ Cardinality(Charging') \in Nat /\ Cardinality(Charging) \in Nat
      /\ Cardinality(Calls) \in Nat
  BY <1>1, CallSets
<1>3. spent \in Nat /\ longest \in Nat /\ Limit[p] \in Nat
  BY ConstantsAssumption DEF TypeOK
<1>4. /\ longest * Cardinality(Charging') <= longest * Cardinality(Charging)
      /\ longest * Cardinality(Charging') \in Nat /\ longest * Cardinality(Charging) \in Nat
      /\ longest * Cardinality(Calls) \in Nat
  BY <1>2, <1>3, Multiples
<1> QED
  BY <1>3, <1>4 DEF ExecWithin

(* A longer run makes more room for all than those who charge can take.    *)
LEMMA LongerRun ==
  ASSUME NEW m \in Nat, NEW n \in Nat, m <= n, NEW a \in Nat, NEW b \in Nat, a <= b,
         NEW s \in Nat, NEW l \in Nat, s + m * a < l + m * b
  PROVE  s + n * a < l + n * b
<1>1. PICK d \in Nat : n = m + d
  BY Z3
<1>2. n * a = m * a + d * a /\ n * b = m * b + d * b
  BY <1>1
<1>3. d * a <= d * b /\ d * a \in Nat /\ d * b \in Nat
  BY <1>1, Multiples
<1>4. m * a \in Nat /\ m * b \in Nat
  BY Multiples
<1> QED
  BY <1>2, <1>3, <1>4

(* Idle and within its plan: that plan alone bounds the account.           *)
LEMMA SettledBounds ==
  ASSUME TypeOK', Settled', had' = {plan'}
  PROVE  KeysBound' /\ ExecBound'
<1>1. Minting' = {} /\ Charging' = {}
  BY DEF Settled, Minting, Charging, At
<1>2. /\ Cardinality({}) = 0 /\ Cardinality(Calls) \in Nat /\ Cardinality(Calls) > 0
      /\ plan' \in Plans /\ MaxKeys[plan'] \in Nat /\ Limit[plan'] \in Nat
      /\ spent' \in Nat /\ longest' \in Nat
  BY CallSets, FS_EmptySet, ConstantsAssumption DEF TypeOK
<1>3. Cardinality(Active' \ owned') \in Nat
  BY KeySets DEF Active
<1>4. KeysBound'
  BY <1>1, <1>2, <1>3 DEF Settled, KeysBound
<1>5. longest' * 0 = 0 /\ longest' * Cardinality(Calls) \in Nat
  <2>1. PICK m, n : m = longest' /\ n = Cardinality(Calls)
    OBVIOUS
  <2>2. m * n \in Nat /\ m * 0 = 0
    BY <1>2, <2>1, Multiples
  <2> QED
    BY <2>1, <2>2
<1>6. ExecBound'
  BY <1>1, <1>2, <1>5 DEF Settled, ExecBound
<1> QED
  BY <1>4, <1>6

LEMMA BoundsInit == Init => BoundsInv
<1> SUFFICES ASSUME Init PROVE BoundsInv
  OBVIOUS
<1>1. Minting = {} /\ Charging = {} /\ ChargeInv /\ PlanInv
  BY ConstantsAssumption
     DEF Init, Minting, Charging, Idle, Does, At, ChargeInv, PlanInv
<1>2. PICK k \in Keys : Active = {k}
  BY DEF Init, Active
<1>3. Active \ owned = {k}
  BY <1>2 DEF Init
<1>4. Cardinality(Active \ owned) = 1 /\ Cardinality({}) = 0
  BY <1>3, FS_Singleton, FS_EmptySet
<1>5. plan \in had /\ MaxKeys[plan] \in Nat \ {0} /\ Limit[plan] \in Nat \ {0}
  BY ConstantsAssumption DEF Init
<1>6. KeysBound
  BY <1>1, <1>4, <1>5, CallSets DEF KeysBound
<1>7. ExecBound
  BY <1>1, <1>4, <1>5, CallSets DEF ExecBound, Init
<1> QED
  BY <1>1, <1>6, <1>7 DEF BoundsInv, QuotasBounded

LEMMA ChargeStep == TypeOK /\ SessionInv /\ ChargeInv /\ [Next]_vars => ChargeInv'
<1> SUFFICES ASSUME TypeOK, SessionInv, ChargeInv, [Next]_vars PROVE ChargeInv'
  OBVIOUS
<1>a. CallOK /\ plan \in Plans
  BY TypeParts DEF RowsOK
<1>b. longest \in Nat /\ \A c \in Calls : call[c].ran \in Nat
  BY <1>a, ConstantsAssumption DEF CallOK, CallTypes, TypeOK
<1> USE DEF ChargeInv
<1>1. ASSUME NEW c \in Calls, NEW j \in Jobs, NEW a \in Keys \cup {Cookie},
             NEW x \in Objects(j), Authenticate(c, j, a, x)
      PROVE  ChargeInv'
  <2>1. longest' = longest
    BY <1>1 DEF Authenticate, rows
  <2> QED
    BY <1>1, <1>a, <1>b, <2>1, Starts DEF OthersStay
<1>2. ASSUME NEW c \in Calls, Step(c) \/ Crash(c) PROVE ChargeInv'
  <2>a. ASSUME Ends(c), longest' = longest PROVE ChargeInv'
    BY <1>b, <2>a DEF Ends, Idle, OthersStay
  <2>b. ASSUME NEW p, NEW s, Becomes(c, p, s, call[c].ran), longest' = longest,
               call[c].at \in {"known", "open", "passed"}
        PROVE  ChargeInv'
    <3>1. ~(call[c].ran > 0)
      BY <2>b
    <3> QED
      BY <1>b, <2>b, <3>1 DEF Becomes, OthersStay
  <2>c. ~RunEnds(c) => longest' = longest
    BY <1>2 DEF Step, Touch, Check, Acquire, Release, Ask, Cancel, CountKeys, InsertKey,
                Revoke, Answer, Commit, LockTimeout, Crash, Abandon, rows
  <2>1. CASE (Touch(c) \/ Check(c) \/ Acquire(c) \/ Ask(c) \/ Cancel(c) \/ InsertKey(c))
           /\ ~RunEnds(c)
    <3>1. call[c].at \in {"known", "open", "passed"}
      BY <2>1 DEF Touch, Check, Acquire, Ask, Cancel, InsertKey, At
    <3>2. \E p, s : Becomes(c, p, s, call[c].ran)
      BY <2>1, <1>a, Sessions DEF Moves
    <3> QED
      BY <2>1, <2>b, <2>c, <3>1, <3>2
  <2>2. CASE (CountKeys(c) \/ Revoke(c)) /\ ~RunEnds(c)
    <3>1. call[c].at \in {"known", "open", "passed"}
      BY <2>2 DEF CountKeys, Revoke, At
    <3>2. Ends(c) \/ \E p, s : Becomes(c, p, s, call[c].ran)
      BY <2>2, <1>a, Sessions DEF Moves
    <3> QED
      BY <2>2, <2>a, <2>b, <2>c, <3>1, <3>2
  <2>3. CASE RunEnds(c)
    <3>1. call[c].job \in {"run", "send"} /\ ~(call[c].ran > 0)
      BY <2>3 DEF SessionInv, RunEnds, At
    <3>2. longest' \in Nat /\ longest <= longest'
      BY <1>b, <2>3, LongestGrows
    <3>3. ASSUME NEW n \in 1..MaxRan,
                 call' = [call EXCEPT ![c].at = "release", ![c].ran = n,
                                      ![c].set = "completed"],
                 longest' = Larger(longest, n)
          PROVE  ChargeInv'
      <4>1. n <= longest'
        BY <1>b, <3>3, ConstantsAssumption DEF Larger
      <4>2. n \in 0..MaxRan /\ "release" \in Places /\ "completed" \in TaskStates
        BY ConstantsAssumption DEF Places, TaskStates
      <4>3. Becomes(c, "release", "completed", n)
        BY <1>a, <3>3, <4>2, SessionChanges
      <4> QED
        BY <1>b, <3>1, <3>2, <4>1, <4>3 DEF Becomes, OthersStay
    <3>4. ASSUME call' = [call EXCEPT ![c].at = "release", ![c].set = "failed"]
          PROVE  ChargeInv'
      <4>1. "release" \in Places /\ "failed" \in TaskStates /\ 0 \in 0..MaxRan
        BY ConstantsAssumption DEF Places, TaskStates
      <4>2. Becomes(c, "release", "failed", call[c].ran)
        BY <1>a, <3>4, <4>1, SessionChanges
      <4> QED
        BY <1>b, <3>1, <3>2, <4>2 DEF Becomes, OthersStay
    <3> QED
      BY <2>3, <3>3, <3>4 DEF RunEnds
  <2>4. CASE Release(c) \/ Answer(c)
    <3>1. Moves(c, "answer") \/ Moves(c, "commit")
      BY <2>4, <1>a, Sessions
    <3>2. call[c].at \in {"release", "answer"}
      BY <2>4 DEF Release, Answer, At
    <3>3. longest' = longest
      BY <2>4 DEF Release, Answer, rows
    <3> QED
      BY <1>b, <3>1, <3>2, <3>3 DEF Moves, Becomes, OthersStay
  <2>5. CASE Commit(c) \/ LockTimeout(c) \/ Crash(c)
    <3>1. longest' = longest
      BY <2>5 DEF Commit, LockTimeout, Crash, Abandon, rows
    <3> QED
      BY <2>5, <2>a, <1>a, <3>1, Sessions
  <2> QED
    BY <1>2, <2>1, <2>2, <2>3, <2>4, <2>5 DEF Step
<1>3. CASE UNCHANGED <<call, longest>>
  BY <1>3
<1>4. CASE Operator
  BY <1>3, <1>4 DEF Operator, Suspend, SetPlan, MintOwnerKey
<1> QED
  BY <1>1, <1>2, <1>3, <1>4 DEF Next, Expire, vars, rows

(* A call loads the plan of its account, and compares with it once.        *)
LEMMA PlanStep == TypeOK /\ PlanInv /\ Next => PlanInv'
<1> SUFFICES ASSUME TypeOK, PlanInv, Next PROVE PlanInv'
  OBVIOUS
<1>a. CallOK /\ plan \in Plans
  BY TypeParts DEF RowsOK
<1>1. CASE Settled'
  BY <1>1 DEF Next, Remember, Settled, At, PlanInv
<1>2. ASSUME had \subseteq had', plan' \in had',
             NEW c \in Calls, OthersStay(c),
             \/ call'[c].at \notin {"known", "open"}
             \/ call'[c].job \in HasQuota => call'[c].plan \in had'
      PROVE  PlanInv'
  BY <1>2 DEF PlanInv, OthersStay
<1>3. CASE ~Settled'
  <2>a. had \subseteq had' /\ plan' \in had'
    BY <1>3 DEF Next, Remember
  <2>1. ASSUME NEW c \in Calls, NEW j \in Jobs, NEW a \in Keys \cup {Cookie},
               NEW x \in Objects(j), Authenticate(c, j, a, x)
        PROVE  PlanInv'
    BY <1>a, <1>2, <2>a, <2>1, Starts DEF PlanInv
  <2>2. ASSUME NEW c \in Calls, Step(c) \/ Crash(c) PROVE PlanInv'
    <3>1. CASE Touch(c)
      <4>1. call'[c].plan = call[c].plan /\ call'[c].job = call[c].job
            /\ call[c].at = "known" /\ OthersStay(c)
        BY <1>a, <3>1 DEF Touch, Goto, At, OthersStay, CallOK
      <4> QED
        BY <1>2, <2>a, <4>1 DEF PlanInv
    <3>2. CASE ~Touch(c)
      <4>1. OthersStay(c) /\ call'[c].at \notin {"known", "open"}
        BY <1>a, <2>2, <3>2, Sessions DEF Step, Moves, Becomes, Ends, Idle
      <4> QED
        BY <1>2, <2>a, <4>1
    <3> QED
      BY <3>1, <3>2
  <2>3. CASE UNCHANGED call
    BY <2>a, <2>3 DEF PlanInv
  <2>4. CASE Operator
    BY <2>3, <2>4 DEF Operator, Suspend, SetPlan, MintOwnerKey
  <2> QED
    BY <2>1, <2>2, <2>3, <2>4 DEF Next, Expire
<1> QED
  BY <1>1, <1>3

(* A key is counted with those that are being made.                        *)
LEMMA KeysStep ==
  ASSUME TypeOK, SessionInv, PlanInv, NEW p \in had, KeysWithin(p), [Next]_vars
  PROVE  \E q \in had : KeysWithin(q)'
<1>a. CallOK /\ keys \in [Keys -> KeyStates] /\ plan \in Plans /\ p \in Plans
  BY TypeParts DEF RowsOK, HadOK
<1>b. SUFFICES ASSUME ~\E c \in Calls : CountKeys(c) /\ ~Ends(c)
               PROVE  KeysWithin(p)'
  <2> SUFFICES ASSUME NEW c \in Calls, CountKeys(c), ~Ends(c)
               PROVE  \E q \in had : KeysWithin(q)'
    OBVIOUS
  <2>1. Cardinality(Active) < MaxKeys[call[c].plan]
    BY <1>a, Sessions
  <2>2. call[c].plan \in had /\ call[c].plan \in Plans
    BY DEF CountKeys, At, Does, HasQuota, PlanInv, TypeOK
  <2>3. PICK q : q = call[c].plan
    OBVIOUS
  <2>4. Minting' \subseteq Calls /\ Requested' = Requested /\ Requested \subseteq Active
        /\ Active \subseteq Keys
    BY DEF Minting, CountKeys, rows, Active, Requested
  <2>5. /\ Cardinality(Minting') <= Cardinality(Calls)
        /\ Cardinality(Minting') \in Nat /\ Cardinality(Calls) \in Nat
        /\ Cardinality(Active) \in Nat /\ Cardinality(Requested) \in Nat
        /\ Cardinality(Requested) <= Cardinality(Active) /\ MaxKeys[q] \in Nat
    BY <2>2, <2>3, <2>4, CallSets, KeySets, ConstantsAssumption
  <2>6. KeysWithin(q)'
    <3> HIDE DEF Active, Minting, Requested
    <3> QED
      BY <2>1, <2>3, <2>4, <2>5 DEF KeysWithin
  <2> QED
    BY <2>2, <2>3, <2>6
<1>1. ASSUME NEW c \in Calls, NEW j \in Jobs, NEW a \in Keys \cup {Cookie},
             NEW x \in Objects(j), Authenticate(c, j, a, x)
      PROVE  KeysWithin(p)'
  <2>1. Minting' \subseteq Minting
    BY <1>1, <1>a, Starts DEF Minting, OthersStay, At, Does
  <2>2. Requested' \subseteq Requested
    BY <1>1 DEF Authenticate, rows, Active, Requested
  <2> QED
    BY <1>a, <2>1, <2>2, KeysShrink
<1>2. ASSUME NEW c \in Calls, Step(c) \/ Crash(c) PROVE KeysWithin(p)'
  <2>a. ASSUME \/ Ends(c)
               \/ \E l \in Places \ {"passed"} : \E s, n : Becomes(c, l, s, n)
               \/ Moves(c, "passed") /\ ~Does(c, "mint")
        PROVE  Minting' \subseteq Minting
    BY <2>a DEF Ends, Becomes, Moves, Minting, OthersStay, At, Does, Idle
  <2>1. CASE \/ Touch(c) \/ Check(c) \/ Acquire(c) \/ RunEnds(c) \/ Release(c)
             \/ Ask(c) \/ Cancel(c) \/ Revoke(c) \/ Answer(c) \/ LockTimeout(c)
             \/ Crash(c)
    <3>1. keys' = keys /\ owned' = owned
      BY <2>1 DEF Touch, Check, Acquire, RunEnds, Release, Ask, Cancel, Revoke, Answer,
                  LockTimeout, Crash, Abandon, rows
    <3>2. Check(c) => ~Does(c, "mint")
      BY DEF Check, Does
    <3>3. {"open", "running", "release", "answer", "commit"} \subseteq Places \ {"passed"}
      BY DEF Places
    <3>4. Minting' \subseteq Minting
      BY <1>a, <2>1, <2>a, <3>2, <3>3, Sessions DEF Moves
    <3> QED
      BY <1>a, <3>1, <3>4, KeysShrink DEF Active, Requested
  <2>2. CASE CountKeys(c)
    BY <1>a, <1>b, <2>2, <2>a, KeysShrink DEF CountKeys, rows, Active, Requested
  <2>3. CASE InsertKey(c)
    <3>1. c \in Minting /\ Minting \subseteq Calls /\ Requested \subseteq Keys
      BY <2>3 DEF InsertKey, Minting, At, Does, Active, Requested
    <3>2. Minting' \subseteq Minting \ {c}
      BY <1>a, <2>3, Sessions DEF Moves, Becomes, OthersStay, Minting, At, Does
    <3>3. Requested' \subseteq Requested \cup {call[c].obj}
      BY <1>a, <2>3 DEF InsertKey, Active, Requested
    <3>4. (Minting \ {c}) \cup {c} = Minting
      BY <3>1
    <3>5. /\ Cardinality(Minting) = Cardinality(Minting \ {c}) + 1
          /\ Cardinality(Minting') <= Cardinality(Minting \ {c})
          /\ Cardinality(Minting') \in Nat /\ Cardinality(Minting) \in Nat
          /\ Cardinality(Minting \ {c}) \in Nat /\ Cardinality(Calls) \in Nat
      <4>1. Minting' \in SUBSET Calls /\ Minting \ {c} \in SUBSET Calls
        BY <3>1, <3>2
      <4>2. Cardinality((Minting \ {c}) \cup {c}) = Cardinality(Minting \ {c}) + 1
        BY <4>1, CallSets
      <4> QED
        BY <3>1, <3>2, <3>4, <4>1, <4>2, CallSets
    <3>6. /\ Cardinality(Requested') <= Cardinality(Requested) + 1
          /\ Cardinality(Requested) \in Nat /\ Cardinality(Requested') \in Nat
      <4>1. call[c].obj \in Keys
        BY <2>3 DEF SessionInv, InsertKey, Does
      <4>2. Requested \cup {call[c].obj} \in SUBSET Keys
        BY <3>1, <4>1
      <4>3. Cardinality(Requested \cup {call[c].obj}) <= Cardinality(Requested) + 1
        BY <3>1, KeySets
      <4>4. /\ Cardinality(Requested') <= Cardinality(Requested \cup {call[c].obj})
            /\ Cardinality(Requested \cup {call[c].obj}) \in Nat
            /\ Cardinality(Requested) \in Nat
        BY <3>1, <3>3, <4>2, KeySets
      <4>5. Cardinality(Requested') \in Nat
        BY <3>3, <4>2, KeySets
      <4> HIDE DEF Requested
      <4> QED
        BY <4>3, <4>4, <4>5
    <3> HIDE DEF Requested, Minting
    <3> QED
      BY <1>a, <3>5, <3>6, ConstantsAssumption DEF KeysWithin
  <2>4. CASE Commit(c)
    <3>1. Requested' \subseteq Requested
      BY <1>a, <2>4 DEF Commit, Active, Requested
    <3>2. Minting' \subseteq Minting
      BY <1>a, <2>4, <2>a, Sessions
    <3> QED
      BY <1>a, <3>1, <3>2, KeysShrink
  <2> QED
    BY <1>2, <2>1, <2>2, <2>3, <2>4 DEF Step
<1>3. ASSUME UNCHANGED call, Requested' \subseteq Requested PROVE KeysWithin(p)'
  BY <1>a, <1>3, KeysShrink DEF Minting, At, Does
<1>4. CASE Operator
  BY <1>a, <1>3, <1>4
     DEF Operator, Suspend, SetPlan, MintOwnerKey, Requested, Active
<1> QED
  BY <1>1, <1>2, <1>3, <1>4 DEF Next, Expire, vars, rows, Requested, Active

(* What a run may cost is counted from its check to its charge.            *)
LEMMA ExecStep ==
  ASSUME TypeOK, SessionInv, ChargeInv, PlanInv, NEW p \in had, ExecWithin(p), [Next]_vars
  PROVE  \E q \in had : ExecWithin(q)'
<1>a. /\ CallOK /\ spent \in Nat /\ spent <= spent /\ longest \in Nat
      /\ plan \in Plans /\ p \in Plans /\ Limit[p] \in Nat
  BY TypeParts, ConstantsAssumption DEF RowsOK, HadOK
<1>b. SUFFICES ASSUME ~\E c \in Calls : Check(c) /\ ~Exhausted(c)
               PROVE  ExecWithin(p)'
  <2> SUFFICES ASSUME NEW c \in Calls, Check(c), ~Exhausted(c)
               PROVE  \E q \in had : ExecWithin(q)'
    OBVIOUS
  <2>1. call[c].plan \in had /\ call[c].plan \in Plans
    BY DEF Check, At, HasQuota, PlanInv, TypeOK
  <2>2. PICK q : q = call[c].plan
    OBVIOUS
  <2>3. spent < Limit[q] /\ Limit[q] \in Nat
    BY <1>a, <2>1, <2>2, ConstantsAssumption DEF Exhausted
  <2>4. Charging' \subseteq Calls /\ spent' = spent /\ longest' = longest
    BY DEF Check, rows, Charging
  <2>5. /\ Cardinality(Charging') <= Cardinality(Calls)
        /\ Cardinality(Charging') \in Nat /\ Cardinality(Calls) \in Nat
    BY <2>4, CallSets
  <2>6. /\ longest * Cardinality(Charging') <= longest * Cardinality(Calls)
        /\ longest * Cardinality(Charging') \in Nat
        /\ longest * Cardinality(Calls) \in Nat
    BY <1>a, <2>5, Multiples
  <2>7. ExecWithin(q)'
    BY <1>a, <2>3, <2>4, <2>6 DEF ExecWithin
  <2> QED
    BY <2>1, <2>2, <2>7
<1>1. ASSUME NEW c \in Calls, NEW j \in Jobs, NEW a \in Keys \cup {Cookie},
             NEW x \in Objects(j), Authenticate(c, j, a, x)
      PROVE  ExecWithin(p)'
  <2>1. Charging' \subseteq Charging
    BY <1>1, <1>a, Starts DEF Charging, OthersStay
  <2>2. spent' = spent /\ longest' = longest
    BY <1>1 DEF Authenticate, rows
  <2> QED
    BY <1>a, <2>1, <2>2, ExecShrink
<1>2. ASSUME NEW c \in Calls, Step(c) \/ Crash(c) PROVE ExecWithin(p)'
  <2>a. ASSUME \/ Ends(c)
               \/ call[c].job \notin {"run", "send"} /\ \E l, s, n : Becomes(c, l, s, n)
               \/ \E l, n : Becomes(c, l, "failed", n)
               \/ Moves(c, "open")
               \/ c \in Charging /\ \E l, s, n : Becomes(c, l, s, n)
        PROVE  Charging' \subseteq Charging
    BY <2>a DEF Ends, Becomes, Moves, Charging, OthersStay, Idle
  <2>1. CASE Check(c)
    BY <1>a, <1>b, <2>1, <2>a, Sessions, ExecShrink DEF Check, rows
  <2>2. CASE \/ Touch(c) \/ Ask(c) \/ Cancel(c) \/ CountKeys(c) \/ InsertKey(c)
             \/ Revoke(c) \/ LockTimeout(c) \/ Crash(c)
    <3>1. spent' = spent /\ longest' = longest
      BY <2>2 DEF Touch, Ask, Cancel, CountKeys, InsertKey, Revoke, LockTimeout, Crash,
                  Abandon, rows
    <3>2. ~Touch(c) => Ends(c) \/ call[c].job \notin {"run", "send"}
      BY <1>a, <2>2, Sessions DEF Ask, Cancel, CountKeys, InsertKey, Revoke, Does
    <3>3. Charging' \subseteq Charging
      BY <1>a, <2>2, <2>a, <3>2, Sessions DEF Moves
    <3> QED
      BY <1>a, <3>1, <3>3, ExecShrink
  <2>3. CASE Acquire(c) \/ Release(c) \/ Answer(c)
    <3>1. spent' = spent /\ longest' = longest
      BY <2>3 DEF Acquire, Release, Answer, rows
    <3>2. CASE c \in Charging
      BY <1>a, <2>3, <2>a, <3>1, <3>2, Sessions, ExecShrink DEF Moves
    <3>3. CASE c \notin Charging
      <4>1. call[c].job \notin {"run", "send"} \/ call[c].set = "failed"
        BY <2>3, <3>3 DEF Acquire, Release, Answer, At, Charging
      <4> QED
        BY <1>a, <2>3, <2>a, <3>1, <4>1, Sessions, ExecShrink DEF Moves
    <3> QED
      BY <3>2, <3>3
  <2>5. CASE RunEnds(c)
    <3>1. c \in Charging
      BY <2>5 DEF SessionInv, RunEnds, At, Charging
    <3>2. Charging' \subseteq Charging /\ Charging \subseteq Calls
      BY <1>a, <2>5, <2>a, <3>1, Sessions DEF Charging
    <3>3. spent' = spent /\ longest' \in Nat /\ longest <= longest'
      BY <1>a, <2>5, LongestGrows DEF RunEnds
    <3>4. /\ Cardinality(Charging') <= Cardinality(Charging)
          /\ Cardinality(Charging) <= Cardinality(Calls)
          /\ Cardinality(Charging') \in Nat /\ Cardinality(Charging) \in Nat
          /\ Cardinality(Calls) \in Nat
      BY <3>2, CallSets
    <3>5. spent + longest' * Cardinality(Charging) < Limit[p] + longest' * Cardinality(Calls)
      BY <1>a, <3>3, <3>4, LongerRun DEF ExecWithin
    <3>6. /\ longest' * Cardinality(Charging') <= longest' * Cardinality(Charging)
          /\ longest' * Cardinality(Charging') \in Nat
          /\ longest' * Cardinality(Charging) \in Nat
          /\ longest' * Cardinality(Calls) \in Nat
      BY <3>3, <3>4, Multiples
    <3> QED
      BY <1>a, <3>3, <3>5, <3>6 DEF ExecWithin
  <2>4. CASE Commit(c)
    <3>1. /\ spent' = spent + call[c].ran /\ longest' = longest
          /\ call[c].ran \in Nat /\ call[c].ran <= longest
      BY <1>a, <2>4, ConstantsAssumption DEF Commit, CallOK, CallTypes, ChargeInv
    <3>2. CASE c \in Charging
      <4>1. Charging' \subseteq Charging \ {c} /\ Charging \subseteq Calls
        BY <1>a, <2>4, Sessions DEF Ends, OthersStay, Charging, Idle
      <4>2. (Charging \ {c}) \cup {c} = Charging
        BY <3>2
      <4> HIDE DEF Charging
      <4>3. /\ Cardinality(Charging) = Cardinality(Charging \ {c}) + 1
            /\ Cardinality(Charging') <= Cardinality(Charging \ {c})
            /\ Cardinality(Charging') \in Nat /\ Cardinality(Charging \ {c}) \in Nat
            /\ Cardinality(Calls) \in Nat
        <5>1. Charging' \in SUBSET Calls /\ Charging \ {c} \in SUBSET Calls
          BY <4>1
        <5>2. Cardinality((Charging \ {c}) \cup {c}) = Cardinality(Charging \ {c}) + 1
          BY <5>1, CallSets
        <5> QED
          BY <4>1, <4>2, <5>1, <5>2, CallSets
      <4>4. /\ longest * Cardinality(Charging)
                 = longest * Cardinality(Charging \ {c}) + longest
            /\ longest * Cardinality(Charging') <= longest * Cardinality(Charging \ {c})
            /\ longest * Cardinality(Charging \ {c}) \in Nat
            /\ longest * Cardinality(Charging') \in Nat
            /\ longest * Cardinality(Calls) \in Nat
        BY <1>a, <4>3, Multiples
      <4> QED
        BY <1>a, <3>1, <4>4 DEF ExecWithin
    <3>3. CASE c \notin Charging
      <4>1. call[c].ran = 0
        BY <2>4, <3>1, <3>3, ConstantsAssumption DEF ChargeInv, Charging, Commit, At
      <4>2. Charging' \subseteq Charging
        BY <1>a, <2>4, <2>a, Sessions
      <4> QED
        BY <1>a, <3>1, <4>1, <4>2, ExecShrink
    <3> QED
      BY <3>2, <3>3
  <2> QED
    BY <1>2, <2>1, <2>2, <2>3, <2>4, <2>5 DEF Step
<1>3. ASSUME UNCHANGED <<call, longest>>, spent' \in Nat, spent' <= spent
      PROVE  ExecWithin(p)'
  BY <1>a, <1>3, ExecShrink DEF Charging
<1>4. CASE Operator
  BY <1>a, <1>3, <1>4 DEF Operator, Suspend, SetPlan, MintOwnerKey
<1>5. CASE Expire
  BY <1>a, <1>3, <1>5 DEF Expire
<1>6. CASE UNCHANGED vars
  BY <1>a, <1>3, <1>6 DEF vars, rows
<1> QED
  BY <1>1, <1>2, <1>4, <1>5, <1>6 DEF Next

LEMMA BoundsStep ==
  TypeOK /\ TypeOK' /\ SessionInv /\ BoundsInv /\ [Next]_vars => BoundsInv'
<1> SUFFICES ASSUME TypeOK, TypeOK', SessionInv, BoundsInv, [Next]_vars
             PROVE  BoundsInv'
  OBVIOUS
<1>1. CASE UNCHANGED vars
  BY <1>1 DEF vars, rows, BoundsInv, ChargeInv, PlanInv, QuotasBounded, KeysBound, ExecBound,
              Active, Minting, Charging, At, Does
<1>2. CASE Next
  <2>1. ChargeInv' /\ PlanInv'
    BY <1>2, ChargeStep, PlanStep DEF BoundsInv
  <2>2. CASE Settled'
    <3>1. had' = {plan'}
      BY <1>2, <2>2 DEF Next, Remember
    <3> QED
      BY <2>1, <2>2, <3>1, SettledBounds DEF BoundsInv, QuotasBounded
  <2>3. CASE ~Settled'
    <3>1. had \subseteq had'
      BY <1>2, <2>3 DEF Next, Remember
    <3>2. PICK p \in had : KeysWithin(p)
      BY Bounds DEF BoundsInv, QuotasBounded
    <3>3. PICK q \in had : ExecWithin(q)
      BY Bounds DEF BoundsInv, QuotasBounded
    <3>4. (\E r \in had : KeysWithin(r)') /\ (\E r \in had : ExecWithin(r)')
      BY <1>2, <3>2, <3>3, KeysStep, ExecStep DEF BoundsInv
    <3>5. KeysBound' /\ ExecBound'
      BY <3>1, <3>4 DEF KeysBound, ExecBound, KeysWithin, ExecWithin, Requested
    <3> QED
      BY <2>1, <3>5 DEF BoundsInv, QuotasBounded
  <2> QED
    BY <2>2, <2>3
<1> QED
  BY <1>1, <1>2

(* However many requests pass the same count, and whatever happens to its  *)
(* plan meanwhile, an account exceeds a plan that it has had since it was  *)
(* last idle and within its plan by less than one key and its longest run  *)
(* for each request in flight.                                             *)
THEOREM QuotasAreBounded == Spec => []QuotasBounded
<1>1. BoundsInv => QuotasBounded
  BY DEF BoundsInv
<1> QED
  BY <1>1, BoundsInit, BoundsStep, TypeInit, TypeStep, SessionInit, SessionStep, PTL
     DEF Spec

----------------------------------------------------------------------------
(* Nothing is undone                                                       *)

LEMMA ReadInit == Init => KeysRead /\ TasksRead
BY DEF Init, KeysRead, TasksRead, Reserves, Stamps, Creates, Cancels, Does, Idle

(* A step of c that writes no key.                                         *)
LEMMA KeysUntouched ==
  ASSUME KeysRead, NEW c \in Calls, keys' = keys, OthersStay(c),
         \/ call'[c] = Idle
         \/ /\ call'[c].job = call[c].job /\ call'[c].obj = call[c].obj
            /\ Reserves(c)' => Reserves(c)
            /\ Stamps(c)' => Stamps(c) \/ keys[call[c].obj] # "none"
  PROVE  KeysRead'
BY DEF KeysRead, OthersStay, Reserves, Stamps, Does, Idle

LEMMA KeysReadStep ==
  TypeOK /\ SessionInv /\ KeysRead /\ [Next]_vars => KeysRead'
<1> SUFFICES ASSUME TypeOK, SessionInv, KeysRead, [Next]_vars PROVE KeysRead'
  OBVIOUS
<1>a. CallOK /\ keys \in [Keys -> KeyStates] /\ plan \in Plans
  BY TypeParts DEF RowsOK
<1>1. ASSUME NEW c \in Calls, NEW j \in Jobs, NEW a \in Keys \cup {Cookie},
             NEW x \in Objects(j), Authenticate(c, j, a, x)
      PROVE  KeysRead'
  <2>1. /\ OthersStay(c) /\ call'[c].job = j /\ call'[c].obj = x
        /\ call'[c].at \notin {"answer", "commit"}
    BY <1>1, <1>a, Starts
  <2>2. keys' = keys
    BY <1>1 DEF Authenticate, rows
  <2>3. j = "mint" => keys[x] = "none" /\ \A d \in Calls : call[d].obj # x
    BY ObjectsFacts
  <2> QED
    BY <2>1, <2>2, <2>3 DEF KeysRead, OthersStay, Reserves, Stamps, Does
<1>2. ASSUME NEW c \in Calls, Step(c) \/ Crash(c) PROVE KeysRead'
  <2>1. CASE \/ Touch(c) \/ Check(c) \/ Acquire(c) \/ RunEnds(c) \/ Release(c)
             \/ Ask(c) \/ Cancel(c) \/ LockTimeout(c) \/ Crash(c)
    <3>1. keys' = keys
      BY <2>1 DEF Touch, Check, Acquire, RunEnds, Release, Ask, Cancel, LockTimeout, Crash,
                  Abandon, rows
    <3>2. Ends(c) \/ \E p, s, n : Becomes(c, p, s, n)
      BY <1>a, <2>1, Sessions DEF Moves
    <3>3. ~Ends(c) => \/ call[c].job \notin {"mint", "revoke"}
                      \/ Touch(c) /\ Moves(c, "open")
      BY <1>a, <2>1, Sessions
         DEF SessionInv, Check, Acquire, RunEnds, Release, Ask, Cancel, Does, At
    <3>4. Touch(c) => call[c].at = "known"
      BY DEF Touch, At
    <3> QED
      BY <3>1, <3>2, <3>3, <3>4, KeysUntouched
         DEF Ends, Moves, Becomes, Reserves, Stamps, Does
  <2>2. CASE CountKeys(c)
    <3>1. keys' = keys /\ Does(c, "mint") /\ call[c].at = "open"
      BY <2>2 DEF CountKeys, rows, At
    <3>2. Ends(c) \/ Moves(c, "passed")
      BY <1>a, <2>2, Sessions
    <3> QED
      BY <3>1, <3>2, KeysUntouched DEF Ends, Moves, Becomes, Reserves, Stamps, Does
  <2>3. CASE InsertKey(c)
    <3>1. /\ Reserves(c) /\ OthersStay(c)
          /\ call'[c].job = "mint" /\ call'[c].at = "answer"
      BY <1>a, <2>3, Sessions DEF InsertKey, Reserves, Moves, Becomes, At, Does
    <3>2. keys' = [keys EXCEPT ![call[c].obj] = "active"]
      BY <2>3 DEF InsertKey
    <3>3. \A d \in Calls \ {c} : Reserves(d) => keys'[call[d].obj] = keys[call[d].obj]
      BY <3>1, <3>2 DEF KeysRead
    <3>4. \A k : keys[k] # "none" /\ k \in Keys => keys'[k] # "none"
      BY <1>a, <3>2
    <3>5. \A d \in Calls : Stamps(d) => call[d].obj \in Keys
      BY DEF SessionInv, Stamps, Does
    <3> QED
      BY <3>1, <3>3, <3>4, <3>5 DEF KeysRead, OthersStay, Reserves, Stamps, Does
  <2>4. CASE Revoke(c)
    <3>1. keys' = keys /\ Does(c, "revoke") /\ call[c].at = "open"
      BY <2>4 DEF Revoke, rows, At
    <3>2. CASE keys[call[c].obj] = "none"
      <4>1. call' = [call EXCEPT ![c] = Idle]
        BY <2>4, <3>2 DEF Revoke, Return
      <4>2. call'[c] = Idle /\ OthersStay(c)
        BY <1>a, <4>1 DEF CallOK, OthersStay
      <4> QED
        BY <3>1, <4>2, KeysUntouched
    <3>3. CASE keys[call[c].obj] # "none"
      <4>1. Ends(c) \/ Moves(c, "answer")
        BY <1>a, <2>4, Sessions
      <4> QED
        BY <3>1, <3>3, <4>1, KeysUntouched
           DEF Ends, Moves, Becomes, Reserves, Stamps, Does
    <3> QED
      BY <3>2, <3>3
  <2>5. CASE Answer(c)
    <3>1. keys' = keys /\ call[c].at = "answer" /\ Moves(c, "commit")
      BY <1>a, <2>5, Sessions DEF Answer, rows, At
    <3> QED
      BY <3>1, KeysUntouched DEF Moves, Becomes, Reserves, Stamps, Does
  <2>6. CASE Commit(c)
    <3>1. call'[c] = Idle /\ OthersStay(c) /\ call[c].at = "commit"
      BY <1>a, <2>6, Sessions DEF Ends, Commit, At
    <3>2. CASE Does(c, "revoke")
      <4>1. Stamps(c) /\ keys' = [keys EXCEPT ![call[c].obj] = "revoked"]
        BY <2>6, <3>1, <3>2 DEF Commit, Stamps
      <4>2. \A d \in Calls : Reserves(d) => keys'[call[d].obj] = keys[call[d].obj]
        BY <4>1 DEF KeysRead
      <4>3. \A k \in Keys : keys[k] # "none" => keys'[k] # "none"
        BY <1>a, <4>1
      <4>4. \A d \in Calls : Stamps(d) => call[d].obj \in Keys
        BY DEF SessionInv, Stamps, Does
      <4> QED
        BY <3>1, <4>2, <4>3, <4>4 DEF KeysRead, OthersStay, Reserves, Stamps, Does, Idle
    <3>3. CASE ~Does(c, "revoke")
      BY <2>6, <3>1, <3>3, KeysUntouched DEF Commit
    <3> QED
      BY <3>2, <3>3
  <2> QED
    BY <1>2, <2>1, <2>2, <2>3, <2>4, <2>5, <2>6 DEF Step
<1>3. ASSUME UNCHANGED <<keys, call>> PROVE KeysRead'
  BY <1>3 DEF KeysRead, Reserves, Stamps, Does
<1>4. ASSUME NEW k \in Keys, MintOwnerKey(k) PROVE KeysRead'
  <2>1. \A d \in Calls : call[d].obj # k
    BY <1>4, NewFacts DEF MintOwnerKey
  <2>2. keys' = [keys EXCEPT ![k] = "active"] /\ call' = call
    BY <1>4 DEF MintOwnerKey
  <2>3. \A d \in Calls : Reserves(d) \/ Stamps(d) => keys'[call[d].obj] = keys[call[d].obj]
    BY <1>a, <2>1, <2>2
  <2> QED
    BY <2>2, <2>3 DEF KeysRead, Reserves, Stamps, Does
<1>5. CASE Operator
  BY <1>3, <1>4, <1>5 DEF Operator, Suspend, SetPlan
<1> QED
  BY <1>1, <1>2, <1>3, <1>5 DEF Next, Expire, vars, rows

(* Nobody writes past a lock: where writers exclude one another, c is the  *)
(* only one that holds it.                                                 *)
LEMMA Alone ==
  ASSUME NEW c \in Calls, MayWrite(c), Serialised
  PROVE  locked \subseteq {c}
BY DEF MayWrite, Free

(* Only a call that has created a task ends it with a result.              *)
LEMMA NewlyOver ==
  ASSUME TypeOK, SessionInv, NEW c \in Calls, Step(c) \/ Crash(c),
         NEW t \in Tasks, ~Over(t), Over(t)'
  PROVE  Commit(c) /\ Creates(c) /\ t = call[c].obj
<1>a. tasks \in [Tasks -> TaskStates] /\ call[c].job \in Jobs
  BY DEF TypeOK, CallTypes
<1>1. CASE Acquire(c)
  BY <1>a, <1>1 DEF Acquire, Over
<1>2. CASE Commit(c)
  <2>1. /\ t = call[c].obj /\ call[c].set \in {"completed", "failed"}
        /\ call[c].obj \in Tasks
    BY <1>a, <1>2 DEF Commit, Over
  <2>2. Creates(c)
    BY <1>a, <2>1, ConstantsAssumption DEF SessionInv, Creates, Does, Jobs
  <2> QED
    BY <1>2, <2>1, <2>2
<1>3. CASE \/ Touch(c) \/ Check(c) \/ RunEnds(c) \/ Release(c) \/ Ask(c) \/ Cancel(c)
           \/ CountKeys(c) \/ InsertKey(c) \/ Revoke(c) \/ Answer(c)
           \/ LockTimeout(c) \/ Crash(c)
  <2>1. tasks' = tasks
    BY <1>3 DEF Touch, Check, RunEnds, Release, Ask, Cancel, CountKeys, InsertKey, Revoke,
                Answer, LockTimeout, Crash, Abandon, rows
  <2> QED
    BY <2>1 DEF Over
<1> QED
  BY <1>1, <1>2, <1>3 DEF Step

(* A cancel keeps the lock it took when its key was touched.               *)
LEMMA CancelStep ==
  ASSUME TypeOK, SessionInv, TasksRead, NEW c \in Calls, Step(c) \/ Crash(c),
         Does(c, "cancel"), ~Ends(c)
  PROVE  /\ call'[c].at \in {"open", "answer", "commit"} => c \in locked'
         /\ call'[c].set = "canceled" =>
              call'[c].at \in {"answer", "commit"} /\ (Serialised => ~Over(call[c].obj))
<1>a. CallOK /\ plan \in Plans
  BY TypeParts DEF RowsOK
<1>1. Touch(c) \/ Cancel(c) \/ Answer(c)
  BY <1>a, Sessions DEF Step, Check, Acquire, RunEnds, Release, Ask, CountKeys, InsertKey,
                        Revoke, SessionInv, Does, At
<1>2. CASE Touch(c)
  <2>1. Moves(c, "open") /\ call[c].at = "known"
    BY <1>a, <1>2, Sessions DEF Touch, At
  <2> QED
    BY <1>2, <2>1 DEF Touch, Moves, Becomes, SessionInv
<1>3. CASE Cancel(c)
  <2>2. c \in locked /\ locked' = locked
    BY <1>3 DEF Cancel, TasksRead, At
  <2>3. PICK s \in {"none", "canceled"} :
          /\ Becomes(c, "answer", s, call[c].ran)
          /\ s = "canceled" => ~Over(call[c].obj)
    BY <1>a, <1>3, Sessions
  <2>4. call'[c].at = "answer" /\ call'[c].set = s
    BY <2>3 DEF Becomes
  <2> QED
    BY <2>2, <2>3, <2>4
<1>4. CASE Answer(c)
  <2>1. Moves(c, "commit") /\ call[c].at = "answer" /\ locked' = locked
    BY <1>a, <1>4, Sessions DEF Answer, At
  <2> QED
    BY <2>1 DEF Moves, Becomes, TasksRead, Cancels, Does
<1> QED
  BY <1>1, <1>2, <1>3, <1>4

LEMMA TasksReadStep ==
  TypeOK /\ SessionInv /\ TasksRead /\ [Next]_vars => TasksRead'
<1> SUFFICES ASSUME TypeOK, SessionInv, TasksRead, [Next]_vars PROVE TasksRead'
  OBVIOUS
<1>a. CallOK /\ tasks \in [Tasks -> TaskStates] /\ plan \in Plans
  BY TypeParts DEF RowsOK
<1>1. ASSUME NEW c \in Calls, NEW j \in Jobs, NEW a \in Keys \cup {Cookie},
             NEW x \in Objects(j), Authenticate(c, j, a, x)
      PROVE  TasksRead'
  <2>0. j = "cancel" => a # Cookie
    BY <1>1 DEF Authenticate, NeedsKey
  <2>1. /\ OthersStay(c) /\ call'[c].job = j /\ call'[c].obj = x /\ call'[c].set = "none"
        /\ j = "cancel" => call'[c].at = "known"
    BY <1>1, <1>a, <2>0, Starts
  <2>2. tasks' = tasks /\ locked' = locked
    BY <1>1 DEF Authenticate, rows
  <2>3. j \in {"send", "ask"} => tasks[x] = "none" /\ \A d \in Calls : call[d].obj # x
    BY ObjectsFacts
  <2> QED
    BY <2>1, <2>2, <2>3 DEF TasksRead, OthersStay, Creates, Cancels, Over, Does
<1>2. ASSUME NEW c \in Calls, Step(c) \/ Crash(c) PROVE TasksRead'
  <2>1. OthersStay(c) /\ (Ends(c) \/ \E p, s, n : Becomes(c, p, s, n))
    BY <1>a, <1>2, Sessions DEF Step, Moves, Becomes, Ends
  <2>2. locked \ {c} \subseteq locked'
    BY <1>2 DEF Step, Touch, Check, Acquire, RunEnds, Release, Ask, Cancel, CountKeys,
                InsertKey, Revoke, Answer, Commit, LockTimeout, Crash, Abandon, Unlock
  <2>3. \A d \in Calls : Creates(d) \/ Does(d, "cancel") => call[d].obj \in Tasks
    BY DEF SessionInv, Creates, Does
  <2>4. ASSUME NEW d \in Calls \ {c}, Creates(d) PROVE ~Over(call[d].obj)'
    BY <1>2, <2>1, <2>3, <2>4, NewlyOver DEF TasksRead, OthersStay, Over
  <2>5. ASSUME NEW d \in Calls \ {c}, Cancels(d), Serialised PROVE ~Over(call[d].obj)'
    <3>1. d \in locked /\ ~Over(call[d].obj) /\ call[d].obj \in Tasks
      BY <2>3, <2>5 DEF TasksRead, Cancels
    <3>2. ~Commit(c)
      BY <2>5, <3>1, Alone DEF Commit
    <3> QED
      BY <1>2, <2>1, <3>1, <3>2, NewlyOver DEF OthersStay, Over
  <2>6. ASSUME Creates(c), ~Ends(c) PROVE ~Over(call[c].obj)'
    <3>1. ~Commit(c) /\ call'[c].obj = call[c].obj
      BY <1>a, <2>1, <2>6, Sessions DEF Becomes
    <3> QED
      BY <1>2, <2>3, <2>6, <3>1, NewlyOver DEF TasksRead, Over
  <2>7. ASSUME Does(c, "cancel"), ~Ends(c), call'[c].set = "canceled", Serialised
        PROVE  ~Over(call[c].obj)'
    <3>1. ~Commit(c) /\ call'[c].obj = call[c].obj
      BY <1>a, <2>1, <2>7, Sessions DEF Becomes
    <3>2. ~Over(call[c].obj) /\ call[c].obj \in Tasks
      BY <1>2, <2>3, <2>7, CancelStep
    <3> QED
      BY <1>2, <3>1, <3>2, NewlyOver DEF Over
  <2>8. \A d \in Calls : Creates(d)' => Creates(d) /\ (d # c \/ ~Ends(c))
    BY <2>1 DEF Ends, Becomes, OthersStay, Creates, Idle
  <2>9. \A d \in Calls : Does(d, "cancel")' => Does(d, "cancel") /\ (d # c \/ ~Ends(c))
    BY <2>1 DEF Ends, Becomes, OthersStay, Does, Idle
  <2>10. \A d \in Calls \ {c} : call'[d] = call[d]
    BY <2>1 DEF OthersStay
  <2>11. \A d, e \in Calls : d # e /\ Creates(d)' /\ Creates(e)' => call'[d].obj # call'[e].obj
    BY <2>1, <2>8, <2>10 DEF TasksRead, Becomes
  <2>12. \A d \in Calls : Does(d, "cancel")' /\ call'[d].at \in {"open", "answer", "commit"}
           => d \in locked'
    BY <1>2, <2>2, <2>9, <2>10, CancelStep DEF TasksRead
  <2>13. \A d \in Calls : Cancels(d)' =>
           /\ call'[d].at \in {"answer", "commit"}
           /\ Serialised => ~Over(call[d].obj)'
    <3>1. ASSUME NEW d \in Calls \ {c}, Cancels(d)'
          PROVE  call'[d].at \in {"answer", "commit"} /\ (Serialised => ~Over(call[d].obj)')
      <4>1. Cancels(d)
        BY <2>10, <3>1 DEF Cancels, Does
      <4> QED
        BY <2>5, <2>10, <4>1 DEF TasksRead
    <3>2. ASSUME Cancels(c)'
          PROVE  call'[c].at \in {"answer", "commit"} /\ (Serialised => ~Over(call[c].obj)')
      <4>1. Does(c, "cancel") /\ ~Ends(c) /\ call'[c].set = "canceled"
        BY <2>9, <3>2 DEF Cancels
      <4> QED
        BY <1>2, <2>7, <4>1, CancelStep
    <3> QED
      BY <3>1, <3>2
  <2>14. \A d \in Calls : Creates(d)' => ~Over(call[d].obj)'
    BY <2>4, <2>6, <2>8
  <2> QED
    BY <2>11, <2>12, <2>13, <2>14 DEF TasksRead
<1>3. ASSUME UNCHANGED <<tasks, call>>, locked \subseteq locked' PROVE TasksRead'
  BY <1>3 DEF TasksRead, Creates, Cancels, Over, Does
<1>4. CASE Operator
  BY <1>3, <1>4 DEF Operator, Suspend, SetPlan, MintOwnerKey
<1>5. CASE Expire
  BY <1>3, <1>5 DEF Expire
<1>6. CASE UNCHANGED vars
  BY <1>3, <1>6 DEF vars, rows
<1> QED
  BY <1>1, <1>2, <1>4, <1>5, <1>6 DEF Next

(* A step on its own: what it writes to keys and tasks ages them.          *)
Ages == (\A k \in Keys : KeyAges(k)) /\ (\A t \in Tasks : ResultStays(t))

LEMMA AgingStep ==
  TypeOK /\ SessionInv /\ KeysRead /\ TasksRead /\ [Next]_vars => [Ages]_vars
<1> SUFFICES ASSUME TypeOK, SessionInv, KeysRead, TasksRead, Next PROVE Ages
  OBVIOUS
<1>a. /\ CallOK /\ keys \in [Keys -> KeyStates] /\ tasks \in [Tasks -> TaskStates]
  BY TypeParts DEF RowsOK
<1> USE DEF Ages, KeyAges, ResultStays
<1>1. ASSUME NEW c \in Calls, Step(c) \/ Crash(c) PROVE Ages
  <2>1. CASE InsertKey(c)
    <3>1. Reserves(c) /\ tasks' = tasks
      BY <2>1 DEF InsertKey, Reserves, At
    <3>2. keys[call[c].obj] = "none"
      BY <3>1 DEF KeysRead
    <3> QED
      BY <1>a, <2>1, <3>1, <3>2 DEF InsertKey
  <2>2. CASE Acquire(c)
    <3>1. Does(c, "send") => ~Over(call[c].obj)
      BY DEF TasksRead, Creates, Does
    <3> QED
      BY <1>a, <2>2, <3>1 DEF Acquire, Over
  <2>3. CASE Commit(c)
    <3>1. \A k \in Keys : KeyAges(k)
      <4>1. CASE Does(c, "revoke")
        <5>1. keys[call[c].obj] # "none"
          BY <2>3, <4>1 DEF KeysRead, Stamps, Commit, At
        <5> QED
          BY <1>a, <2>3, <4>1, <5>1 DEF Commit, KeyStates
      <4> QED
        BY <2>3, <4>1 DEF Commit
    <3>2. ASSUME call[c].obj \in Tasks, call[c].set # "none", Serialised
          PROVE  ~Over(call[c].obj)
      <4>1. Creates(c) \/ Cancels(c)
        <5>1. call[c].job \in Jobs
          BY <1>a DEF CallOK, CallTypes
        <5> QED
          BY <3>2, <5>1, ConstantsAssumption DEF SessionInv, Creates, Cancels, Does, Jobs
      <4> QED
        BY <3>2, <4>1 DEF TasksRead
    <3>3. \A t \in Tasks : ResultStays(t)
      BY <1>a, <2>3, <3>2 DEF Commit, Over
    <3> QED
      BY <3>1, <3>3
  <2>4. CASE \/ Touch(c) \/ Check(c) \/ RunEnds(c) \/ Release(c) \/ Ask(c) \/ Cancel(c)
             \/ CountKeys(c) \/ Revoke(c) \/ Answer(c) \/ LockTimeout(c) \/ Crash(c)
    BY <2>4 DEF Touch, Check, RunEnds, Release, Ask, Cancel, CountKeys, Revoke,
                Answer, LockTimeout, Crash, Abandon, rows
  <2> QED
    BY <1>1, <2>1, <2>2, <2>3, <2>4 DEF Step
<1>2. ASSUME UNCHANGED <<keys, tasks>> PROVE Ages
  BY <1>2
<1>3. ASSUME NEW k \in Keys, MintOwnerKey(k) PROVE Ages
  <2>1. keys[k] = "none"
    BY <1>3, NewFacts DEF MintOwnerKey
  <2> QED
    BY <1>a, <1>3, <2>1 DEF MintOwnerKey
<1> QED
  BY <1>1, <1>2, <1>3 DEF Next, Operator, Authenticate, Suspend, SetPlan, Expire, rows

(* A revocation is for good whatever the requests that use the key still   *)
(* write, on either database and with kills; and where writers exclude one *)
(* another no cancel overwrites the result of a task that has ended.       *)
THEOREM NothingUndone == Spec => NothingIsUndone
<1>1. [Ages]_vars <=> [(\A k \in Keys : KeyAges(k)) /\ (\A t \in Tasks : ResultStays(t))]_vars
  BY DEF Ages
<1> QED
  BY <1>1, TypeInit, TypeStep, SessionInit, SessionStep, ReadInit, KeysReadStep,
     TasksReadStep, AgingStep, PTL DEF Spec, NothingIsUndone

----------------------------------------------------------------------------
(* Tasks in hand                                                           *)

(* What a session will write of its task is an end of it.                  *)
EndsInv ==
  \A c \in Calls :
    /\ call[c].set # "working"
    /\ Does(c, "send") /\ call[c].at \in {"release", "answer", "commit"} =>
         call[c].set # "none"
    /\ call[c].at = "rest" => ~Does(c, "send")

LEMMA EndsStep == TypeOK /\ SessionInv /\ EndsInv /\ [Next]_vars => EndsInv'
<1> SUFFICES ASSUME TypeOK, SessionInv, EndsInv, [Next]_vars PROVE EndsInv'
  OBVIOUS
<1> USE DEF EndsInv, Does
<1>a. CallOK /\ plan \in Plans
  BY TypeParts DEF RowsOK
<1>1. ASSUME NEW c \in Calls, NEW j \in Jobs, NEW a \in Keys \cup {Cookie},
             NEW x \in Objects(j), Authenticate(c, j, a, x)
      PROVE  EndsInv'
  BY <1>1, <1>a, Starts DEF OthersStay
<1>2. ASSUME NEW c \in Calls, Step(c) \/ Crash(c) PROVE EndsInv'
  <2> USE DEF Moves, Becomes, OthersStay
  <2>1. CASE Touch(c) \/ Acquire(c) \/ Release(c) \/ Answer(c) \/ Ask(c)
    BY <2>1, <1>a, Sessions DEF Touch, Acquire, Release, Answer, Ask, At
  <2>2. CASE Check(c)
    BY <2>2, <1>a, Sessions
  <2>3. CASE RunEnds(c)
    BY <2>3, <1>a, Sessions
  <2>4. CASE Cancel(c)
    BY <2>4, <1>a, Sessions DEF Cancel
  <2>5. CASE CountKeys(c) \/ InsertKey(c) \/ Revoke(c)
    <3>1. ~Does(c, "send")
      BY <2>5 DEF CountKeys, InsertKey, Revoke
    <3>2. Ends(c) \/ Moves(c, "passed") \/ Moves(c, "answer")
      BY <2>5, <1>a, Sessions
    <3> QED
      BY <3>1, <3>2 DEF Ends, Idle
  <2>6. CASE Commit(c) \/ LockTimeout(c) \/ Crash(c)
    BY <2>6, <1>a, Sessions DEF Ends, Idle
  <2> QED
    BY <1>2, <2>1, <2>2, <2>3, <2>4, <2>5, <2>6 DEF Step
<1>3. CASE UNCHANGED call
  BY <1>3
<1>4. CASE Operator
  BY <1>3, <1>4 DEF Operator, Suspend, SetPlan, MintOwnerKey
<1> QED
  BY <1>1, <1>2, <1>3, <1>4 DEF Next, Expire, vars

(* A step of c leaves its task in hand, ends it, or breaks it; and only    *)
(* the call whose task it is makes one "working".                          *)
LEMMA HandStep ==
  ASSUME TypeOK, SessionInv, EndsInv, WorkingIsInHand, NEW c \in Calls,
         Step(c) \/ Crash(c)
  PROVE  WorkingIsInHand'
<1>a. CallOK /\ RowsOK
  BY TypeParts
<1> SUFFICES ASSUME NEW t \in Tasks, tasks'[t] = "working"
             PROVE  InHand(t)' \/ t \in broken'
  BY DEF WorkingIsInHand
<1> USE DEF Moves, Becomes, OthersStay, Does
<1>1. broken \subseteq broken'
  <2>1. CASE LockTimeout(c) \/ Crash(c)
    BY <2>1 DEF LockTimeout, Crash, Abandon
  <2>2. CASE Touch(c) \/ Check(c) \/ Acquire(c) \/ Release(c)
    BY <2>2 DEF Touch, Check, Acquire, Release
  <2>3. CASE RunEnds(c)
    BY <2>3, Zenon DEF RunEnds
  <2>4. CASE Ask(c) \/ Cancel(c) \/ CountKeys(c) \/ InsertKey(c)
    BY <2>4 DEF Ask, Cancel, CountKeys, InsertKey
  <2>5. CASE Revoke(c) \/ Answer(c) \/ Commit(c)
    BY <2>5 DEF Revoke, Answer, Commit
  <2> QED
    BY <2>1, <2>2, <2>3, <2>4, <2>5 DEF Step
<1>2. \A d \in Calls \ {c} : call'[d] = call[d]
  BY <1>a, Sessions DEF Step, Ends
<1>3. CASE Commit(c) \/ LockTimeout(c) \/ Crash(c)
  <2>1. tasks[t] = "working"
    BY <1>a, <1>3 DEF RowsOK, Commit, LockTimeout, Crash, Abandon, rows, EndsInv
  <2>2. CASE Does(c, "send") /\ call[c].obj = t
    BY <1>a, <1>3, <2>2
       DEF RowsOK, EndsInv, Commit, LockTimeout, Crash, Abandon, At
  <2> QED
    BY <1>1, <1>2, <2>1, <2>2 DEF WorkingIsInHand, InHand
<1>4. CASE CountKeys(c) \/ Revoke(c)
  <2>1. tasks' = tasks /\ ~Does(c, "send")
    BY <1>4 DEF CountKeys, Revoke, rows
  <2> QED
    BY <1>1, <1>2, <2>1 DEF WorkingIsInHand, InHand
<1>5. CASE ~(Commit(c) \/ LockTimeout(c) \/ Crash(c) \/ CountKeys(c) \/ Revoke(c))
  <2>1. call'[c].job = call[c].job /\ call'[c].obj = call[c].obj
    BY <1>a, <1>5, Sessions DEF Step
  <2>2. InHand(t) => InHand(t)'
    BY <1>2, <2>1 DEF InHand
  <2>3. tasks' = tasks \/ Acquire(c)
    <3>1. CASE Touch(c) \/ Check(c) \/ Release(c)
      BY <3>1 DEF Touch, Check, Release, rows
    <3>2. CASE RunEnds(c)
      BY <3>2, Zenon DEF RunEnds
    <3>3. CASE Ask(c) \/ Cancel(c) \/ InsertKey(c) \/ Answer(c)
      BY <3>3 DEF Ask, Cancel, InsertKey, Answer, rows
    <3> QED
      BY <1>5, <3>1, <3>2, <3>3 DEF Step
  <2>4. CASE Acquire(c) /\ tasks[t] # "working"
    <3>1. Does(c, "send") /\ call[c].obj = t
      BY <1>a, <2>4 DEF Acquire, RowsOK
    <3> QED
      BY <2>2, <3>1 DEF InHand
  <2> QED
    BY <1>1, <2>2, <2>3, <2>4 DEF WorkingIsInHand
<1> QED
  BY <1>3, <1>4, <1>5

(* A task that a peer sees "working" has its call, or lost it: only the    *)
(* call's own end, which writes how the task ended, lets go of it.         *)
THEOREM WorkInHand == Spec => []WorkingIsInHand
<1>1. Init => EndsInv /\ WorkingIsInHand
  BY DEF Init, EndsInv, WorkingIsInHand, Idle, Does
<1>2. TypeOK /\ SessionInv /\ EndsInv /\ WorkingIsInHand /\ [Next]_vars => WorkingIsInHand'
  <2> SUFFICES ASSUME TypeOK, SessionInv, EndsInv, WorkingIsInHand, [Next]_vars
               PROVE  WorkingIsInHand'
    OBVIOUS
  <2>1. ASSUME NEW c \in Calls, NEW j \in Jobs, NEW a \in Keys \cup {Cookie},
               NEW x \in Objects(j), Authenticate(c, j, a, x)
        PROVE  WorkingIsInHand'
    <3>1. CallOK /\ plan \in Plans
      BY TypeParts DEF RowsOK
    <3>2. \A d \in Calls \ {c} : call'[d] = call[d]
      BY <2>1, <3>1, Starts DEF OthersStay
    <3>3. ~Does(c, "send") /\ tasks' = tasks /\ broken' = broken
      BY <2>1 DEF Authenticate, At, rows, EndsInv
    <3> QED
      BY <3>2, <3>3 DEF WorkingIsInHand, InHand, Does
  <2>2. CASE UNCHANGED <<tasks, broken, call>>
    BY <2>2 DEF WorkingIsInHand, InHand, Does
  <2>3. CASE Operator \/ Expire
    BY <2>2, <2>3 DEF Operator, Suspend, SetPlan, MintOwnerKey, Expire
  <2> QED
    BY <2>1, <2>2, <2>3, HandStep DEF Next, vars, rows
<1> QED
  BY <1>1, <1>2, TypeInit, TypeStep, SessionInit, SessionStep, EndsStep, PTL DEF Spec
=============================================================================
