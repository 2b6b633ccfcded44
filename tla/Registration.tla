------------------------------ MODULE Registration ------------------------------
(***************************************************************************)
(* Registration with invite codes: `register` of app/api/auth.py, the      *)
(* operator's commands on invites in app/cli.py, and the deletion of an    *)
(* account, as far as it frees a name.                                     *)
(*                                                                         *)
(* A registration reads the invite, then the names, then writes the user,  *)
(* the burnt invite, the workspace and the first key in one transaction.   *)
(* Each of these statements is a step; what is written is seen by others   *)
(* when the transaction commits, and the locks it takes are held until     *)
(* then.  An account is identified with the request that made it.          *)
(***************************************************************************)
EXTENDS Naturals

CONSTANTS
  Requests,     (* registrations                                            *)
  Codes,        (* invite codes; random, so none is issued twice            *)
  Code,         (* the code each request sends                              *)
  Username, Email,  (* what each request asks for                           *)
  Absent, Unused,   (* states of an invite no request has burnt             *)
  Serialised,   (* TRUE: SQLite, one writer at a time; FALSE: Postgres      *)
  MaxEvents     (* bound: what the operator does, expiries, deletions, kills *)

ASSUME ConstantsAssumption ==
  /\ Code \in [Requests -> Codes]
  /\ DOMAIN Username = Requests /\ DOMAIN Email = Requests
  /\ Absent \notin Requests /\ Unused \notin Requests /\ Absent # Unused
  /\ Serialised \in BOOLEAN
  /\ MaxEvents \in Nat

VARIABLES
  invite,     (* committed: each code's row, or Absent                      *)
  expired,    (* codes whose expires_at has passed                          *)
  users,      (* committed: the accounts, each with its first key           *)
  pc,         (* where each request is                                      *)
  events,     (* how often anything of MaxEvents happened                   *)
  made,       (* history: accounts that were ever made                      *)
  before,     (* history: those made before the request read its invite     *)
  revoked     (* history: codes revoke_invite has answered True for         *)

vars == <<invite, expired, users, pc, events, made, before, revoked>>

----------------------------------------------------------------------------
States == {"rest", "claimed", "checked", "inserted", "burnt", "committed",
           "answered", "refused", "failed", "dead"}
Writing == {"inserted", "burnt"}
Finished == {"answered", "refused", "failed", "dead"}

Goto(r, to) == pc' = [pc EXCEPT ![r] = to]
Event == events < MaxEvents /\ events' = events + 1

(* The unique columns of `users`.                                          *)
Clash(r, s) == Username[r] = Username[s] \/ Email[r] = Email[s]
Taken(r) == \E s \in users : Clash(r, s)

(* SQLite has one writer; on Postgres an INSERT waits for one of the same  *)
(* name, an UPDATE or DELETE of an invite for another of the same row.     *)
WriteWaits(r) == Serialised /\ \E s \in Requests \ {r} : pc[s] \in Writing
NameWaits(r) == \E s \in Requests \ {r} : pc[s] \in Writing /\ Clash(r, s)
RowWaits(c) == \E s \in Requests : pc[s] = "burnt" /\ Code[s] = c
OperatorWaits(c) ==
  RowWaits(c) \/ (Serialised /\ \E s \in Requests : pc[s] \in Writing)

----------------------------------------------------------------------------
(* Mutants of Claim: a used code is not noticed; the code is burnt as soon *)
(* as it is read.                                                          *)
Claim_UsedIgnored(r) ==
  /\ pc[r] = "rest"
  /\ IF invite[Code[r]] # Absent /\ Code[r] \notin expired
       THEN Goto(r, "claimed") ELSE Goto(r, "refused")
  /\ before' = [before EXCEPT ![r] = made]
  /\ UNCHANGED <<invite, expired, users, events, made, revoked>>
Claim_Burns(r) ==
  /\ pc[r] = "rest"
  /\ IF invite[Code[r]] = Unused /\ Code[r] \notin expired
       THEN Goto(r, "claimed") /\ invite' = [invite EXCEPT ![Code[r]] = r]
       ELSE Goto(r, "refused") /\ UNCHANGED invite
  /\ before' = [before EXCEPT ![r] = made]
  /\ UNCHANGED <<expired, users, events, made, revoked>>

(* _claim_invite reads the row: missing, used and expired codes are        *)
(* refused.                                                                *)
Claim(r) ==
  /\ pc[r] = "rest"
  /\ IF invite[Code[r]] = Unused /\ Code[r] \notin expired
       THEN Goto(r, "claimed") ELSE Goto(r, "refused")
  /\ before' = [before EXCEPT ![r] = made]
  /\ UNCHANGED <<invite, expired, users, events, made, revoked>>

(* The SELECTs of username and email.                                      *)
CheckNames(r) ==
  /\ pc[r] = "claimed"
  /\ Goto(r, IF Taken(r) THEN "refused" ELSE "checked")
  /\ UNCHANGED <<invite, expired, users, events, made, before, revoked>>

(* Mutants of InsertUser: the columns are not unique; a conflict is tried  *)
(* again.                                                                  *)
InsertUser_NotUnique(r) ==
  /\ pc[r] = "checked" /\ ~WriteWaits(r)
  /\ Goto(r, "inserted")
  /\ UNCHANGED <<invite, expired, users, events, made, before, revoked>>

InsertUser_Retries(r) ==
  /\ pc[r] = "checked" /\ ~WriteWaits(r) /\ ~NameWaits(r)
  /\ Goto(r, IF Taken(r) THEN "checked" ELSE "inserted")
  /\ UNCHANGED <<invite, expired, users, events, made, before, revoked>>

(* The first flush: the unique columns decide between two that both found  *)
(* the name free.                                                          *)
InsertUser(r) ==
  /\ pc[r] = "checked" /\ ~WriteWaits(r) /\ ~NameWaits(r)
  /\ Goto(r, IF Taken(r) THEN "failed" ELSE "inserted")
  /\ UNCHANGED <<invite, expired, users, events, made, before, revoked>>

(* Mutant of BurnInvite: an UPDATE that matches no row goes unnoticed.     *)
BurnInvite_RowcountIgnored(r) ==
  /\ pc[r] = "inserted" /\ ~RowWaits(Code[r])
  /\ Goto(r, "burnt")
  /\ UNCHANGED <<invite, expired, users, events, made, before, revoked>>

(* UPDATE invites by code, flushed by the SELECT of ensure_workspace; a    *)
(* row that is gone rolls everything back.                                 *)
BurnInvite(r) ==
  /\ pc[r] = "inserted" /\ ~RowWaits(Code[r])
  /\ Goto(r, IF invite[Code[r]] = Absent THEN "failed" ELSE "burnt")
  /\ UNCHANGED <<invite, expired, users, events, made, before, revoked>>

(* Mutants of Commit: the invite gets its code for its user; the answer    *)
(* leaves before the commit, which may fail.                               *)
Commit_WrongColumn(r) ==
  /\ pc[r] = "burnt"
  /\ users' = users \cup {r} /\ made' = made \cup {r}
  /\ invite' = [invite EXCEPT ![Code[r]] = Code[r]]
  /\ Goto(r, "committed")
  /\ UNCHANGED <<expired, events, before, revoked>>
Commit_AnswersFirst(r) ==
  /\ pc[r] = "burnt"
  /\ Goto(r, "answered")
  /\ \/ /\ users' = users \cup {r} /\ made' = made \cup {r}
        /\ invite' = [invite EXCEPT ![Code[r]] = r]
     \/ UNCHANGED <<users, made, invite>>
  /\ UNCHANGED <<expired, events, before, revoked>>

(* User, invite, workspace and first key become visible together.          *)
Commit(r) ==
  /\ pc[r] = "burnt"
  /\ users' = users \cup {r} /\ made' = made \cup {r}
  /\ invite' = [invite EXCEPT ![Code[r]] = r]
  /\ Goto(r, "committed")
  /\ UNCHANGED <<expired, events, before, revoked>>

(* The key is handed over.                                                 *)
Reply(r) ==
  /\ pc[r] = "committed"
  /\ Goto(r, "answered")
  /\ UNCHANGED <<invite, expired, users, events, made, before, revoked>>

(* The worker is killed, or SQLite's lock is not had in time: rollback.    *)
Crash(r) ==
  /\ pc[r] \notin {"rest"} \cup Finished /\ Event
  /\ Goto(r, "dead")
  /\ UNCHANGED <<invite, expired, users, made, before, revoked>>

----------------------------------------------------------------------------
(* The operator, and time                                                  *)

CreateInvite(c) ==
  /\ invite[c] = Absent /\ c \notin revoked
  /\ ~(Serialised /\ \E s \in Requests : pc[s] \in Writing) /\ Event
  /\ invite' = [invite EXCEPT ![c] = Unused]
  /\ UNCHANGED <<expired, users, pc, made, before, revoked>>

(* DELETE ... WHERE used_at IS NULL; True when it found the row.           *)
RevokeInvite(c) ==
  /\ invite[c] = Unused /\ ~OperatorWaits(c) /\ Event
  /\ invite' = [invite EXCEPT ![c] = Absent]
  /\ revoked' = revoked \cup {c}
  /\ UNCHANGED <<expired, users, pc, made, before>>

Expire(c) ==
  /\ c \notin expired /\ Event
  /\ expired' = expired \cup {c}
  /\ UNCHANGED <<invite, users, pc, made, before, revoked>>

(* purge_user: names are free again, the invite stays burnt.               *)
Purge(r) ==
  /\ r \in users /\ Event
  /\ ~(Serialised /\ \E s \in Requests : pc[s] \in Writing)
  /\ users' = users \ {r}
  /\ UNCHANGED <<invite, expired, pc, made, before, revoked>>

(* Nobody registers any more.                                              *)
Quiet ==
  /\ \A r \in Requests : pc[r] \in Finished
  /\ UNCHANGED vars

----------------------------------------------------------------------------
Init ==
  /\ invite = [c \in Codes |-> Absent] /\ expired = {}
  /\ users = {} /\ made = {} /\ revoked = {}
  /\ pc = [r \in Requests |-> "rest"]
  /\ before = [r \in Requests |-> {}]
  /\ events = 0

Register(r) ==
  \/ Claim(r) \/ CheckNames(r) \/ InsertUser(r) \/ BurnInvite(r)
  \/ Commit(r) \/ Reply(r)

Operator ==
  \/ \E c \in Codes : CreateInvite(c) \/ RevokeInvite(c) \/ Expire(c)
  \/ \E r \in Requests : Purge(r)

Next ==
  \/ \E r \in Requests : Register(r) \/ Crash(r)
  \/ Operator
  \/ Quiet

Spec == Init /\ [][Next]_vars /\ \A r \in Requests : WF_vars(Register(r))

----------------------------------------------------------------------------
(* Properties                                                              *)

TypeOK ==
  /\ invite \in [Codes -> {Absent, Unused} \cup Requests]
  /\ expired \in SUBSET Codes /\ revoked \in SUBSET Codes
  /\ users \in SUBSET Requests /\ made \in SUBSET Requests
  /\ pc \in [Requests -> States]
  /\ before \in [Requests -> SUBSET Requests]
  /\ events \in Nat

(* A code the operator has withdrawn makes no account, also if it was      *)
(* withdrawn in the middle of a registration that had read it.             *)
RevokedMakesNoAccount == \A r \in made : Code[r] \notin revoked

(* "Burn the code only once the account exists, so a rejected registration *)
(* does not consume someone's only invite": a burnt code is the code of an *)
(* account that was made, and no account was made without burning its own. *)
BurntForAnAccount ==
  /\ \A c \in Codes :
       invite[c] \in Requests => invite[c] \in made /\ Code[invite[c]] = c
  /\ \A r \in made : invite[Code[r]] \in Requests

(* Two registrations that both find a name free do not both get it.        *)
NamesAreUnique == \A r, s \in users : r # s => ~Clash(r, s)

(* "The key has to be durable before its owner is told".                   *)
AnsweredIsDurable == \A r \in Requests : pc[r] = "answered" => r \in made

(* Codes, names and answers add up with the accounts there are.            *)
AccountsAddUp == BurntForAnAccount /\ NamesAreUnique /\ AnsweredIsDurable

(* A code that makes a second account was read for it before the first one *)
(* was committed.                                                          *)
SecondUseOverlapped ==
  \A r \in made : \A s \in before[r] : Code[s] # Code[r]

(* Nobody waits for a lock for ever: every registration is answered.       *)
EveryRegistrationEnds ==
  \A r \in Requests : pc[r] = "claimed" ~> pc[r] \in Finished

(* "Each code works once".                                                 *)
EachCodeWorksOnce == \A r, s \in made : r # s => Code[r] # Code[s]
===============================================================================
