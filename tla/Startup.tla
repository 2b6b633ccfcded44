------------------------------- MODULE Startup -------------------------------
(***************************************************************************)
(* The start of a personal instance: what a uvicorn worker does before it  *)
(* serves, and the credentials of the owner.                               *)
(*                                                                         *)
(*   app/main.py    lifespan, _verify_sandbox_runtime                      *)
(*   app/db.py      init_db, run_migrations, schema_status                 *)
(*   app/owner.py   ensure_owner, _write_credentials, mint_owner_key       *)
(*   app/cli.py     delete_user                                            *)
(*                                                                         *)
(* ensure_owner is one transaction: from the flush of the owner's row, with*)
(* its unique name, to the commit nobody else gets past the same insert.   *)
(* The credentials file is not part of it.                                 *)
(***************************************************************************)
EXTENDS Naturals, FiniteSets

CONSTANTS
  Workers,
  OwnerKeys,   (* API keys of the owner (bound: they run out)               *)
  NoKey        (* no key, or a file without one                             *)

ASSUME StartupAssumption == NoKey \notin OwnerKeys

VARIABLES
  schema,      (* the revision that the database is stamped at              *)
  auto,        (* settings.auto_migrate                                     *)
  owner,       (* the owner's row is committed                              *)
  keys,        (* the committed keys of the owner                           *)
  file,        (* the key in owner-credentials.txt                          *)
  place,       (* where each worker's lifespan is                           *)
  mine         (* the key that its session is about to store                *)

startupVars == <<schema, auto, owner, keys, file, place, mine>>

Revisions == {"old", "head"}
StartupPlaces == {"down", "migrate", "apply", "verify", "look", "insert",
                  "inserted", "writing", "written", "up"}
(* Between the flush of the owner's row and the end of the transaction.    *)
Inside == {"inserted", "writing", "written"}

Proceed(w, p) == place' = [place EXCEPT ![w] = p]
(* The process ends; its transaction is rolled back.                       *)
Exit(w) ==
  /\ place' = [place EXCEPT ![w] = "down"]
  /\ mine' = [mine EXCEPT ![w] = NoKey]
  /\ UNCHANGED <<schema, auto, owner, keys, file>>
FreshKeys == OwnerKeys \ (keys \cup {file} \cup {mine[w] : w \in Workers})
mint_api_key(k) == /\ k \in FreshKeys /\ k = CHOOSE j \in FreshKeys : TRUE
Held(w) == \E v \in Workers \ {w} : place[v] \in Inside

----------------------------------------------------------------------------
(* lifespan                                                                *)

Boot(w) ==
  /\ place[w] = "down"
  /\ Proceed(w, IF auto THEN "migrate" ELSE "verify")
  /\ UNCHANGED <<schema, auto, owner, keys, file, mine>>

(* Alembic reads where the database is.                                    *)
ReadRevision(w) ==
  /\ place[w] = "migrate"
  /\ Proceed(w, IF schema = "head" THEN "verify" ELSE "apply")
  /\ UNCHANGED <<schema, auto, owner, keys, file, mine>>

(* It applies what is missing; what somebody else has applied since then   *)
(* is in its way.                                                          *)
Migrate(w) ==
  /\ place[w] = "apply"
  /\ \/ /\ schema = "old"
        /\ schema' = "head" /\ Proceed(w, "verify")
        /\ UNCHANGED <<auto, owner, keys, file, mine>>
     \/ schema = "head" /\ Exit(w)

(* The sandbox runtime is there, or is not required; or it is a reason to  *)
(* refuse to start.                                                        *)
VerifyRuntime(w) ==
  /\ place[w] = "verify"
  /\ \/ Proceed(w, "look") /\ UNCHANGED <<schema, auto, owner, keys, file, mine>>
     \/ Exit(w)

----------------------------------------------------------------------------
(* ensure_owner                                                            *)

(* Mutant of Look: the credentials are made and written first.             *)
Look_WritesFirst(w) ==
  /\ place[w] = "look"
  /\ \/ schema = "old" /\ Exit(w)
     \/ owner /\ Proceed(w, "up") /\ UNCHANGED <<schema, auto, owner, keys, file, mine>>
     \/ /\ ~owner
        /\ \E k \in OwnerKeys : mint_api_key(k) /\ file' = k
        /\ Proceed(w, "insert") /\ UNCHANGED <<schema, auto, owner, keys, mine>>

(* A database that is not at head is only logged; what is missing in it    *)
(* may be a column that is asked for.                                      *)
Look(w) ==
  /\ place[w] = "look"
  /\ \/ schema = "old" /\ Exit(w)
     \/ /\ Proceed(w, IF owner THEN "up" ELSE "insert")
        /\ UNCHANGED <<schema, auto, owner, keys, file, mine>>

(* The flushes.  Whoever is second waits for the first, and then finds the *)
(* name taken unless the first one was rolled back.                        *)
InsertOwner(w) ==
  /\ place[w] = "insert" /\ ~Held(w)
  /\ \/ /\ ~owner
        /\ \E k \in OwnerKeys : mint_api_key(k) /\ mine' = [mine EXCEPT ![w] = k]
        /\ Proceed(w, "inserted")
        /\ UNCHANGED <<schema, auto, owner, keys, file>>
     \/ owner /\ Exit(w)

(* "database is locked": it waited for longer than busy_timeout.           *)
InsertTimeout(w) == place[w] = "insert" /\ Held(w) /\ Exit(w)

(* _write_credentials empties the file and fills it.                       *)
OpenFile(w) ==
  /\ place[w] = "inserted"
  /\ file' = NoKey /\ Proceed(w, "writing")
  /\ UNCHANGED <<schema, auto, owner, keys, mine>>

WriteFile(w) ==
  /\ place[w] = "writing"
  /\ file' = mine[w] /\ Proceed(w, "written")
  /\ UNCHANGED <<schema, auto, owner, keys, mine>>

(* session_scope commits, and lifespan yields.                             *)
CommitOwner(w) ==
  /\ place[w] = "written"
  /\ owner' = TRUE /\ keys' = keys \cup {mine[w]}
  /\ mine' = [mine EXCEPT ![w] = NoKey] /\ Proceed(w, "up")
  /\ UNCHANGED <<schema, auto, file>>

(* A worker is stopped or killed, or one of its steps raises.              *)
StopWorker(w) == place[w] # "down" /\ Exit(w)

----------------------------------------------------------------------------
(* The operator                                                            *)

(* `cli owner key`: "Old keys keep working."                               *)
mint_owner_key ==
  /\ owner
  /\ \E k \in OwnerKeys : mint_api_key(k) /\ keys' = keys \cup {k}
  /\ UNCHANGED <<schema, auto, owner, file, place, mine>>

(* delete_user, or the account's own deletion: the keys go with the row.   *)
(* (That the owner revokes the key in the file is left out: no promise     *)
(* survives it.)                                                           *)
DeleteOwner ==
  /\ owner
  /\ owner' = FALSE /\ keys' = {}
  /\ UNCHANGED <<schema, auto, file, place, mine>>

----------------------------------------------------------------------------
(* The entrypoint has migrated the database and the workers do not, or     *)
(* they do.                                                                *)
StartupInit ==
  /\ schema \in Revisions /\ auto \in BOOLEAN
  /\ owner = FALSE /\ keys = {} /\ file = NoKey
  /\ place = [w \in Workers |-> "down"]
  /\ mine = [w \in Workers |-> NoKey]

Lifespan(w) ==
  \/ ReadRevision(w) \/ Migrate(w) \/ VerifyRuntime(w) \/ Look(w)
  \/ InsertOwner(w) \/ InsertTimeout(w) \/ OpenFile(w) \/ WriteFile(w)
  \/ CommitOwner(w)

Operate == mint_owner_key \/ DeleteOwner

----------------------------------------------------------------------------
StartupTypeOK ==
  /\ schema \in Revisions /\ auto \in BOOLEAN /\ owner \in BOOLEAN
  /\ keys \subseteq OwnerKeys /\ file \in OwnerKeys \cup {NoKey}
  /\ place \in [Workers -> StartupPlaces]
  /\ mine \in [Workers -> OwnerKeys \cup {NoKey}]

(* "Only a hash of the key is stored, so this file is the one copy."  An   *)
(* instance that has an owner has a credentials file whose key works:      *)
(* whoever was killed half way, or came second, has not left another one.  *)
OwnerKeyKept == owner => file \in keys
===============================================================================
