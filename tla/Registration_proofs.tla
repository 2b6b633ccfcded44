-------------------------- MODULE Registration_proofs --------------------------
(***************************************************************************)
(* Theorems about Registration, for any number of registrations, codes and *)
(* events, on either database.                                             *)
(***************************************************************************)
EXTENDS Registration, TLAPS

Early == {"claimed", "checked", "inserted", "burnt"}

(* The locks: an invite that is being burnt is still there, two requests   *)
(* that have both written their user do not clash with each other nor with *)
(* anybody who is there already.                                           *)
LocksInv ==
  /\ \A r \in Requests : pc[r] = "burnt" => invite[Code[r]] # Absent
  /\ \A r \in Requests : pc[r] \in Writing => ~Taken(r)
  /\ \A r, s \in Requests :
       r # s /\ pc[r] \in Writing /\ pc[s] \in Writing => ~Clash(r, s)
  /\ NamesAreUnique

(* The history: what has been made, withdrawn and read.                    *)
HistoryInv ==
  /\ users \subseteq made
  /\ \A r \in made : pc[r] \in {"committed", "answered", "dead"}
  /\ \A r \in Requests : pc[r] \in {"committed", "answered"} => r \in made
  /\ \A c \in revoked : invite[c] = Absent
  /\ \A r \in Requests : pc[r] \in Early =>
       \A s \in before[r] : Code[s] # Code[r]
  /\ BurntForAnAccount
  /\ SecondUseOverlapped

LEMMA TypeInit == Init => TypeOK
BY DEF Init, TypeOK, States

LEMMA TypeStep == TypeOK /\ [Next]_vars => TypeOK'
<1> SUFFICES ASSUME TypeOK, [Next]_vars PROVE TypeOK'
  OBVIOUS
<1> USE ConstantsAssumption DEF TypeOK, States, Finished, Goto, Event
<1>1. ASSUME NEW r \in Requests, Register(r) PROVE TypeOK'
  <2>1. CASE Claim(r)
    BY <2>1 DEF Claim
  <2>2. CASE CheckNames(r)
    BY <2>2 DEF CheckNames
  <2>3. CASE InsertUser(r)
    BY <2>3 DEF InsertUser
  <2>4. CASE BurnInvite(r)
    BY <2>4 DEF BurnInvite
  <2>5. CASE Commit(r)
    BY <2>5 DEF Commit
  <2>6. CASE Reply(r)
    BY <2>6 DEF Reply
  <2> QED
    BY <1>1, <2>1, <2>2, <2>3, <2>4, <2>5, <2>6 DEF Register
<1>2. ASSUME NEW r \in Requests, Crash(r) PROVE TypeOK'
  BY <1>2 DEF Crash
<1>3. ASSUME Operator PROVE TypeOK'
  <2>1. ASSUME NEW c \in Codes, CreateInvite(c) PROVE TypeOK'
    BY <2>1 DEF CreateInvite
  <2>2. ASSUME NEW c \in Codes, RevokeInvite(c) PROVE TypeOK'
    BY <2>2 DEF RevokeInvite
  <2>3. ASSUME NEW c \in Codes, Expire(c) PROVE TypeOK'
    BY <2>3 DEF Expire
  <2>4. ASSUME NEW r \in Requests, Purge(r) PROVE TypeOK'
    BY <2>4 DEF Purge
  <2> QED
    BY <1>3, <2>1, <2>2, <2>3, <2>4 DEF Operator
<1>4. CASE UNCHANGED vars
  BY <1>4 DEF vars
<1>5. CASE Quiet
  BY <1>4, <1>5 DEF Quiet
<1> QED
  BY <1>1, <1>2, <1>3, <1>4, <1>5 DEF Next

(* Every reachable state has the declared types.                           *)
THEOREM TypeCorrect == Spec => []TypeOK
BY TypeInit, TypeStep, PTL DEF Spec

----------------------------------------------------------------------------
LEMMA LocksInit == Init => LocksInv
BY DEF Init, LocksInv, Writing, Taken, NamesAreUnique

(* A step that neither changes the accounts nor lets anybody start to      *)
(* write, and removes no invite, disturbs no lock.                         *)
LEMMA NobodyEnters ==
  ASSUME TypeOK, LocksInv,
         users' \subseteq users,
         \A r \in Requests : pc'[r] \in Writing => pc'[r] = pc[r],
         \A r \in Requests : pc[r] = "burnt" => invite'[Code[r]] # Absent
  PROVE  LocksInv'
BY DEF LocksInv, Taken, NamesAreUnique, Clash, Writing, TypeOK

LEMMA LocksStep == TypeOK /\ LocksInv /\ [Next]_vars => LocksInv'
<1> SUFFICES ASSUME TypeOK, LocksInv, [Next]_vars PROVE LocksInv'
  OBVIOUS
<1> USE ConstantsAssumption
<1>1. ASSUME NEW r \in Requests, Claim(r) \/ CheckNames(r) \/ Reply(r) \/ Crash(r)
      PROVE  LocksInv'
  <2>1. /\ users' = users /\ invite' = invite
        /\ pc'[r] \notin Writing
        /\ \A s \in Requests \ {r} : pc'[s] = pc[s]
    BY <1>1 DEF Claim, CheckNames, Reply, Crash, Goto, Writing, TypeOK
  <2>2. \A s \in Requests : pc[s] = "burnt" => invite'[Code[s]] # Absent
    BY <2>1 DEF LocksInv
  <2> QED
    BY <2>1, <2>2, NobodyEnters
<1>2. ASSUME NEW r \in Requests, InsertUser(r) PROVE LocksInv'
  <2>1. /\ users' = users /\ invite' = invite
        /\ pc'[r] \in {"failed", "inserted"}
        /\ pc'[r] = "inserted" => ~Taken(r) /\ ~NameWaits(r)
        /\ \A s \in Requests \ {r} : pc'[s] = pc[s]
    BY <1>2 DEF InsertUser, Goto, TypeOK
  <2>2. \A s, t \in Requests :
          s # t /\ pc'[s] \in Writing /\ pc'[t] \in Writing => ~Clash(s, t)
    BY <2>1 DEF LocksInv, NameWaits, Clash, Writing
  <2>3. \A s \in Requests : pc'[s] \in Writing => ~Taken(s)'
    BY <2>1 DEF LocksInv, Taken, Clash, Writing
  <2>4. \A s \in Requests : pc'[s] = "burnt" => invite'[Code[s]] # Absent
    BY <2>1 DEF LocksInv
  <2>5. NamesAreUnique'
    BY <2>1 DEF LocksInv, NamesAreUnique, Clash
  <2> QED
    BY <2>2, <2>3, <2>4, <2>5 DEF LocksInv, Clash
<1>3. ASSUME NEW r \in Requests, BurnInvite(r) PROVE LocksInv'
  <2>1. /\ users' = users /\ invite' = invite
        /\ pc[r] = "inserted" /\ pc'[r] \in {"failed", "burnt"}
        /\ pc'[r] = "burnt" => invite[Code[r]] # Absent
        /\ \A s \in Requests \ {r} : pc'[s] = pc[s]
    BY <1>3 DEF BurnInvite, Goto, TypeOK
  <2>2. \A s, t \in Requests :
          s # t /\ pc'[s] \in Writing /\ pc'[t] \in Writing => ~Clash(s, t)
    BY <2>1 DEF LocksInv, Clash, Writing
  <2>3. \A s \in Requests : pc'[s] \in Writing => ~Taken(s)'
    BY <2>1 DEF LocksInv, Taken, Clash, Writing
  <2>4. \A s \in Requests : pc'[s] = "burnt" => invite'[Code[s]] # Absent
    BY <2>1 DEF LocksInv
  <2>5. NamesAreUnique'
    BY <2>1 DEF LocksInv, NamesAreUnique, Clash
  <2> QED
    BY <2>2, <2>3, <2>4, <2>5 DEF LocksInv, Clash
<1>4. ASSUME NEW r \in Requests, Commit(r) PROVE LocksInv'
  <2>1. /\ users' = users \cup {r}
        /\ pc[r] = "burnt" /\ pc'[r] = "committed"
        /\ \A s \in Requests \ {r} : pc'[s] = pc[s]
    BY <1>4 DEF Commit, Goto, TypeOK
  <2>2. \A s \in Requests : invite'[Code[s]] \in {invite[Code[s]], r}
    BY <1>4 DEF Commit, TypeOK
  <2>3. \A s, t \in Requests :
          s # t /\ pc'[s] \in Writing /\ pc'[t] \in Writing => ~Clash(s, t)
    BY <2>1 DEF LocksInv, Clash, Writing
  <2>4. \A s \in Requests : pc'[s] \in Writing => ~Taken(s)'
    BY <2>1 DEF LocksInv, Taken, Clash, Writing
  <2>5. \A s \in Requests : pc'[s] = "burnt" => invite'[Code[s]] # Absent
    BY <2>1, <2>2 DEF LocksInv
  <2>6. NamesAreUnique'
    BY <2>1 DEF LocksInv, NamesAreUnique, Clash, Taken, Writing, TypeOK
  <2> QED
    BY <2>3, <2>4, <2>5, <2>6 DEF LocksInv, Clash
<1>5. ASSUME Operator PROVE LocksInv'
  <2>1. users' \subseteq users /\ pc' = pc
    BY <1>5 DEF Operator, CreateInvite, RevokeInvite, Expire, Purge
  <2>2. ASSUME NEW r \in Requests, pc[r] = "burnt"
        PROVE  invite'[Code[r]] # Absent
    BY <1>5, <2>2 DEF Operator, CreateInvite, RevokeInvite, Expire, Purge,
                      OperatorWaits, RowWaits, LocksInv, TypeOK
  <2> QED
    BY <2>1, <2>2, NobodyEnters
<1>6. CASE UNCHANGED vars
  BY <1>6, NobodyEnters DEF vars, LocksInv
<1>7. CASE Quiet
  BY <1>6, <1>7 DEF Quiet
<1> QED
  BY <1>1, <1>2, <1>3, <1>4, <1>5, <1>6, <1>7 DEF Next, Register

(* Two registrations that both find a name free do not both get it.        *)
THEOREM NamesStayUnique == Spec => []NamesAreUnique
<1>1. LocksInv => NamesAreUnique
  BY DEF LocksInv
<1> QED
  BY <1>1, TypeInit, TypeStep, LocksInit, LocksStep, PTL DEF Spec

----------------------------------------------------------------------------
LEMMA HistoryInit == Init => HistoryInv
BY ConstantsAssumption
DEF Init, HistoryInv, BurntForAnAccount, SecondUseOverlapped, Early

(* A step of one request that makes no account and burns no code, and does *)
(* not start over.                                                         *)
LEMMA RequestGoesOn ==
  ASSUME TypeOK, HistoryInv, NEW r \in Requests,
         UNCHANGED <<invite, users, made, before, revoked>>,
         \A s \in Requests \ {r} : pc'[s] = pc[s],
         pc[r] # "rest",
         pc'[r] \in Early => pc[r] \in Early,
         r \in made => pc'[r] \in {"committed", "answered", "dead"},
         pc'[r] \in {"committed", "answered"} => r \in made
  PROVE  HistoryInv'
BY DEF HistoryInv, BurntForAnAccount, SecondUseOverlapped, TypeOK

LEMMA HistoryStep ==
  TypeOK /\ LocksInv /\ HistoryInv /\ [Next]_vars => HistoryInv'
<1> SUFFICES ASSUME TypeOK, LocksInv, HistoryInv, [Next]_vars PROVE HistoryInv'
  OBVIOUS
<1> USE ConstantsAssumption
<1>1. ASSUME NEW r \in Requests, Claim(r) PROVE HistoryInv'
  <2>1. /\ UNCHANGED <<invite, users, made, revoked>>
        /\ pc[r] = "rest" /\ pc'[r] \in {"claimed", "refused"}
        /\ pc'[r] = "claimed" => invite[Code[r]] = Unused
        /\ \A s \in Requests \ {r} : pc'[s] = pc[s] /\ before'[s] = before[s]
        /\ before'[r] = made
    BY <1>1 DEF Claim, Goto, TypeOK
  <2>2. pc'[r] = "claimed" => \A s \in made : Code[s] # Code[r]
    BY <2>1 DEF HistoryInv, BurntForAnAccount, TypeOK
  <2>3. r \notin made
    BY <2>1 DEF HistoryInv
  <2>4. \A s \in Requests : pc'[s] \in Early =>
          \A t \in before'[s] : Code[t] # Code[s]
    BY <2>1, <2>2 DEF HistoryInv, Early
  <2>5. SecondUseOverlapped'
    BY <2>1, <2>3 DEF HistoryInv, SecondUseOverlapped, TypeOK
  <2>6. BurntForAnAccount'
    BY <2>1 DEF HistoryInv, BurntForAnAccount
  <2> QED
    BY <2>1, <2>3, <2>4, <2>5, <2>6 DEF HistoryInv, TypeOK
<1>2. ASSUME NEW r \in Requests,
             CheckNames(r) \/ InsertUser(r) \/ BurnInvite(r) \/ Reply(r) \/ Crash(r)
      PROVE  HistoryInv'
  <2>1. /\ UNCHANGED <<invite, users, made, before, revoked>>
        /\ pc[r] # "rest"
        /\ pc'[r] \in Early => pc[r] \in Early
        /\ \A s \in Requests \ {r} : pc'[s] = pc[s]
    BY <1>2 DEF CheckNames, InsertUser, BurnInvite, Reply, Crash, Goto, Early,
                TypeOK
  <2>2. /\ r \in made => pc'[r] \in {"committed", "answered", "dead"}
        /\ pc'[r] \in {"committed", "answered"} => r \in made
    BY <1>2 DEF CheckNames, InsertUser, BurnInvite, Reply, Crash, Goto,
                HistoryInv, TypeOK
  <2> QED
    BY <2>1, <2>2, RequestGoesOn
<1>3. ASSUME NEW r \in Requests, Commit(r) PROVE HistoryInv'
  <2>1. /\ users' = users \cup {r} /\ made' = made \cup {r}
        /\ UNCHANGED <<before, revoked>>
        /\ pc[r] = "burnt" /\ pc'[r] = "committed"
        /\ \A s \in Requests \ {r} : pc'[s] = pc[s]
    BY <1>3 DEF Commit, Goto, TypeOK
  <2>2. /\ invite'[Code[r]] = r
        /\ \A c \in Codes \ {Code[r]} : invite'[c] = invite[c]
    BY <1>3 DEF Commit, TypeOK
  <2>3. Code[r] \notin revoked
    BY <2>1 DEF LocksInv, HistoryInv
  <2>4. BurntForAnAccount'
    <3>1. ASSUME NEW c \in Codes, invite'[c] \in Requests
          PROVE  invite'[c] \in made' /\ Code[invite'[c]] = c
      BY <2>1, <2>2, <3>1 DEF HistoryInv, BurntForAnAccount
    <3>2. ASSUME NEW s \in made' PROVE invite'[Code[s]] \in Requests
      BY <2>1, <2>2, <3>2 DEF HistoryInv, BurntForAnAccount, TypeOK
    <3> QED
      BY <3>1, <3>2 DEF BurntForAnAccount
  <2>5. SecondUseOverlapped'
    BY <2>1 DEF HistoryInv, SecondUseOverlapped, Early
  <2>6. \A c \in revoked' : invite'[c] = Absent
    BY <2>1, <2>2, <2>3 DEF HistoryInv, TypeOK
  <2> QED
    BY <2>1, <2>4, <2>5, <2>6 DEF HistoryInv, Early, TypeOK
<1>4. ASSUME NEW c \in Codes, CreateInvite(c) PROVE HistoryInv'
  BY <1>4 DEF CreateInvite, HistoryInv, BurntForAnAccount, SecondUseOverlapped,
              TypeOK
<1>5. ASSUME NEW c \in Codes, RevokeInvite(c) PROVE HistoryInv'
  BY <1>5 DEF RevokeInvite, HistoryInv, BurntForAnAccount, SecondUseOverlapped,
              TypeOK
<1>6. ASSUME NEW c \in Codes, Expire(c) PROVE HistoryInv'
  BY <1>6 DEF Expire, HistoryInv, BurntForAnAccount, SecondUseOverlapped
<1>7. ASSUME NEW r \in Requests, Purge(r) PROVE HistoryInv'
  BY <1>7 DEF Purge, HistoryInv, BurntForAnAccount, SecondUseOverlapped
<1>8. CASE UNCHANGED vars
  BY <1>8 DEF vars, HistoryInv, BurntForAnAccount, SecondUseOverlapped
<1>9. CASE Quiet
  BY <1>8, <1>9 DEF Quiet
<1> QED
  BY <1>1, <1>2, <1>3, <1>4, <1>5, <1>6, <1>7, <1>8, <1>9
  DEF Next, Register, Operator

(* A code the operator has withdrawn makes no account, also if it was      *)
(* withdrawn in the middle of a registration that had read it.             *)
THEOREM RevocationHolds == Spec => []RevokedMakesNoAccount
<1>1. TypeOK /\ HistoryInv => RevokedMakesNoAccount
  BY ConstantsAssumption
  DEF HistoryInv, BurntForAnAccount, RevokedMakesNoAccount
<1> QED
  BY <1>1, TypeInit, TypeStep, LocksInit, LocksStep, HistoryInit, HistoryStep,
     PTL DEF Spec

(* A rejected registration consumes no code, and an account consumes its   *)
(* own.                                                                    *)
THEOREM CodesAreAccountedFor == Spec => []BurntForAnAccount
<1>1. HistoryInv => BurntForAnAccount
  BY DEF HistoryInv
<1> QED
  BY <1>1, TypeInit, TypeStep, LocksInit, LocksStep, HistoryInit, HistoryStep,
     PTL DEF Spec

(* A code makes a second account only if the two registrations overlapped: *)
(* the one had read it before the other was committed.                     *)
THEOREM SecondUseNeedsOverlap == Spec => []SecondUseOverlapped
<1>1. HistoryInv => SecondUseOverlapped
  BY DEF HistoryInv
<1> QED
  BY <1>1, TypeInit, TypeStep, LocksInit, LocksStep, HistoryInit, HistoryStep,
     PTL DEF Spec

(* A key that has been handed over is in the database.                     *)
THEOREM AnswersAreDurable == Spec => []AnsweredIsDurable
<1>1. HistoryInv => AnsweredIsDurable
  BY DEF HistoryInv, AnsweredIsDurable
<1> QED
  BY <1>1, TypeInit, TypeStep, LocksInit, LocksStep, HistoryInit, HistoryStep,
     PTL DEF Spec

(* Codes, names and answers add up with the accounts there are.            *)
THEOREM TheAccountsAddUp == Spec => []AccountsAddUp
BY CodesAreAccountedFor, NamesStayUnique, AnswersAreDurable, PTL DEF AccountsAddUp
===============================================================================
